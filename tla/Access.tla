-------------------------------- MODULE Access --------------------------------
(***************************************************************************)
(* What a user may see: the memberships that give grants, the guard of an  *)
(* operation and the filter of its rows                                    *)
(* (src/backend/mizan/apps/identity/authz.py and services.py,              *)
(* platform/authz/permissions.py).  Memberships come and go, roles retire; *)
(* each request works out afresh what the user is granted.                 *)
(*                                                                         *)
(* A row is a function from the fields its model has to their values.  The *)
(* filter is a Django Q object: the empty one lets everything pass, and is *)
(* neutral when it is combined with another, by & and by | alike.          *)
(***************************************************************************)
EXTENDS DefaultRoles, FiniteSets

CONSTANTS
  UserId,          \* the user whose requests are looked at
  Branches,
  Memberships,     \* the memberships there may be
  MaxMemberships,  \* bound: memberships the user has at one time
  Models           \* resource -> the rows of its model

NoOne == "none"

\* The rows of a model have the same fields.
ASSUME AccessAssumption ==
  /\ MaxMemberships \in Nat /\ NoOne \notin Branches
  /\ \A resource \in DOMAIN Models : \A row, other \in Models[resource] :
       DOMAIN row = DOMAIN other

VARIABLES
  memberships,  \* of the user
  retired       \* roles that are RETIRED

accessVars == <<memberships, retired>>

AccessInit == memberships = {} /\ retired = {}

\* add_membership() refuses a role that is retired.
AddMembership(m) ==
  /\ m.role \notin retired /\ Cardinality(memberships) < MaxMemberships
  /\ memberships' = memberships \cup {m}
  /\ UNCHANGED retired

DeleteMembership(m) ==
  memberships' = memberships \ {m} /\ UNCHANGED retired

\* retire_role(): its memberships stay.
RetireRole(role) ==
  retired' = retired \cup {role} /\ UNCHANGED memberships

\* A request that lists changes nothing.
List == UNCHANGED accessVars

AccessNext ==
  \/ \E m \in Memberships : AddMembership(m)
  \/ \E m \in memberships : DeleteMembership(m) \/ RetireRole(m.role)
  \/ List

AccessSpec == AccessInit /\ [][AccessNext]_accessVars

-----------------------------------------------------------------------------
GrantsOf == [role \in RoleCodes |-> Expand(Specified(role))]

\* resolve_permissions(): every grant of the active roles of the memberships, bound to the
\* branch, department, account and projects of the membership.
Bindings ==
  UNION {{[resource |-> g.resource, action |-> g.action, scope |-> g.scope,
           branch |-> m.branch, department |-> m.department, account |-> m.account,
           projects |-> m.projects] : g \in GrantsOf[m.role]} :
         m \in {m \in memberships : m.role \notin retired}}

BindingsFor(bindings, resource, action) ==
  {b \in bindings : b.resource = resource /\ b.action = action}

\* allows()
Allows(bindings, resource, action, branch) ==
  \E b \in BindingsFor(bindings, resource, action) :
    branch = NoOne \/ b.scope = "ALL_BRANCHES" \/ b.branch \in {NoOne, branch}

-----------------------------------------------------------------------------
\* Q objects over the rows of a model.
Q(rows)        == [empty |-> FALSE, rows |-> rows]
EmptyQ(model)  == [empty |-> TRUE, rows |-> model]
Has(model, field) == \A row \in model : field \in DOMAIN row
Where(model, field, values) == Q({row \in model : row[field] \in values})
And(p, q) == [empty |-> p.empty /\ q.empty, rows |-> p.rows \cap q.rows]

BranchClause(b, model) ==
  IF b.branch # NoOne /\ Has(model, "branch") THEN Where(model, "branch", {b.branch})
  ELSE EmptyQ(model)

\* Mutant: the projects of the membership are forgotten.
AccountClauseOfAllProjects(b, model) == Where(model, "account", {b.account})

AccountClause(b, model) ==
  LET account == Where(model, "account", {b.account})
  IN IF b.projects # {} /\ Has(model, "project")
       THEN And(account, Where(model, "project", b.projects))
       ELSE account

\* _clause(): no clause when the scope has nothing to hold on to in the model.
Clauses(b, model) ==
  LET mine(field) == {And(BranchClause(b, model), Where(model, field, {UserId}))}
  IN CASE b.scope = "ALL_BRANCHES" -> {EmptyQ(model)}
       [] b.scope = "OWN_BRANCH" -> {BranchClause(b, model)}
       [] b.scope = "OWN_DEPARTMENT" ->
            IF b.department # NoOne /\ Has(model, "department")
              THEN {And(BranchClause(b, model), Where(model, "department", {b.department}))}
              ELSE {BranchClause(b, model)}
       [] b.scope = "ASSIGNED_TO_ME" /\ Has(model, "assignee") -> mine("assignee")
       [] b.scope = "ASSIGNED_TO_ME" /\ ~Has(model, "assignee") /\ Has(model, "owner") ->
            mine("owner")
       [] b.scope = "OWN_RECORDS" /\ Has(model, "owner") -> mine("owner")
       [] b.scope = "OWN_ACCOUNT" /\ b.account # NoOne /\ Has(model, "account") ->
            {AccountClause(b, model)}
       [] OTHER -> {}

\* q | r | ...: what is empty among them disappears, unless all of them are.
Or(qs, model) ==
  IF \A q \in qs : q.empty THEN EmptyQ(model)
  ELSE Q(UNION {q.rows : q \in {q \in qs : ~q.empty}})

\* predicate() and scope(): the rows of the model that pass.
Visible(bindings, model, branch) ==
  LET clauses == UNION {Clauses(b, model) : b \in bindings}
      combined == Or(clauses, model)
  IN IF clauses = {} THEN {}
     ELSE IF branch # NoOne /\ Has(model, "branch")
       THEN And(combined, Where(model, "branch", {branch})).rows
       ELSE combined.rows

\* authorize() and scope(): what a GET of the resource lists.
Listed(bindings, resource, branch) ==
  IF Allows(bindings, resource, "view", branch)
    THEN Visible(BindingsFor(bindings, resource, "view"), Models[resource], branch)
    ELSE {}

-----------------------------------------------------------------------------
\* What a grant is about: the row is in the branch of the membership, where both have one, and
\* in the department, the hands, the records or the account that the scope names.
InScope(b, row) ==
  LET agrees(field, value) == field \in DOMAIN row /\ value # NoOne => row[field] = value
      is(field, value) == field \in DOMAIN row /\ row[field] = value
  IN CASE b.scope = "ALL_BRANCHES" -> TRUE
       [] b.scope = "OWN_BRANCH" -> agrees("branch", b.branch)
       [] b.scope = "OWN_DEPARTMENT" ->
            agrees("branch", b.branch) /\ agrees("department", b.department)
       [] b.scope = "ASSIGNED_TO_ME" ->
            agrees("branch", b.branch) /\ (is("assignee", UserId) \/ is("owner", UserId))
       [] b.scope = "OWN_RECORDS" -> agrees("branch", b.branch) /\ is("owner", UserId)
       [] b.scope = "OWN_ACCOUNT" ->
            /\ is("account", b.account)
            /\ "project" \in DOMAIN row /\ b.projects # {} => row["project"] \in b.projects

\* Grants are never mixed: a row the user gets is, for one membership in an active role, within
\* that membership's branch, department, account and projects, and in the branch asked for.
NothingBeyondGrants ==
  LET bindings == Bindings
  IN \A resource \in DOMAIN Models, branch \in Branches \cup {NoOne} :
       \A row \in Listed(bindings, resource, branch) :
         /\ \E b \in BindingsFor(bindings, resource, "view") : InScope(b, row)
         /\ branch # NoOne /\ "branch" \in DOMAIN row => row["branch"] = branch

\* What resolve_permissions() says it gives, the "union of the grants of every active
\* membership": a row of the branch list within one of them is listed.
BranchesAreTheUnion ==
  LET bindings == Bindings
  IN \A row \in Models["branch"] :
       (\E b \in BindingsFor(bindings, "branch", "view") : InScope(b, row))
         => row \in Listed(bindings, "branch", NoOne)
=============================================================================
