---------------------------- MODULE PlatformProofs ----------------------------
(***************************************************************************)
(* The parts of the platform that share no state: permissions, digests and *)
(* test runs.                                                              *)
(***************************************************************************)
EXTENDS Access, Digests, TestRun, WellFoundedInduction, FiniteSetTheorems, TLAPS

\* A set of numbers has a least one.
Less == {p \in Nat \X Nat : p[1] < p[2]}
LEMMA LeastNumber ==
  ASSUME NEW S \in SUBSET Nat, S # {}
  PROVE  \E m \in S : \A n \in S : m <= n
<1>1. Less = OpToRel(<, Nat)
  BY DEF OpToRel, Less
<1>2. IsWellFoundedOn(Less, Nat)
  BY <1>1, NatLessThanWellFounded, Zenon
<1>3. PICK m \in S : \A n \in S : ~(<<n, m>> \in Less)
  BY <1>2, WFMin
<1>4. \A n \in S : m <= n
  <2> SUFFICES ASSUME NEW n \in S, n < m PROVE FALSE
    OBVIOUS
  <2>1. <<n, m>> \in Less
    BY DEF Less
  <2> QED BY <2>1, <1>3
<1> QED BY <1>4

-----------------------------------------------------------------------------
(* Access.  Grants are never mixed, for any roles, memberships and models. *)
(* No invariant is needed: each state is as good as any other, because a   *)
(* request works out its grants afresh.  What is proved is that the filter *)
(* built from Q objects lets through nothing that no grant is about.       *)

\* The rows of a model have the same fields.
Uniform(model) == \A row, other \in model : DOMAIN row = DOMAIN other

\* A row has the fields its model has, and no others.
LEMMA RowsHaveFields ==
  ASSUME NEW model, Uniform(model), NEW row \in model, NEW field
  PROVE  Has(model, field) <=> field \in DOMAIN row
  BY DEF Uniform, Has

\* The branch clause keeps a row to the branch of the membership, and is
\* empty only if it lets everything pass.
LEMMA BranchClauseHolds ==
  ASSUME NEW b, NEW model, Uniform(model), NEW row \in BranchClause(b, model).rows
  PROVE  /\ row \in model
         /\ "branch" \in DOMAIN row /\ b.branch # NoOne => row["branch"] = b.branch
<1>1. CASE b.branch # NoOne /\ Has(model, "branch")
  BY <1>1 DEF BranchClause, Where, Q
<1>2. CASE ~(b.branch # NoOne /\ Has(model, "branch"))
  BY <1>2, RowsHaveFields DEF BranchClause, EmptyQ
<1> QED BY <1>1, <1>2

LEMMA BranchClauseEmpty ==
  ASSUME NEW b, NEW model, BranchClause(b, model).empty
  PROVE  BranchClause(b, model).rows = model
  BY DEF BranchClause, Where, Q, EmptyQ

\* So does a clause that combines the two.
LEMMA AndHolds ==
  ASSUME NEW p, NEW q
  PROVE  /\ And(p, q).rows = p.rows \cap q.rows
         /\ And(p, q).empty => p.empty /\ q.empty
  BY DEF And

LEMMA WhereHolds ==
  ASSUME NEW model, NEW field, NEW values
  PROVE  /\ Where(model, field, values).rows = {row \in model : row[field] \in values}
         /\ ~Where(model, field, values).empty
  BY DEF Where, Q

LEMMA AccountClauseHolds ==
  ASSUME NEW b, NEW model, Uniform(model), Has(model, "account"),
         NEW row \in AccountClause(b, model).rows
  PROVE  /\ row \in model
         /\ "account" \in DOMAIN row /\ row["account"] = b.account
         /\ "project" \in DOMAIN row /\ b.projects # {} => row["project"] \in b.projects
<1>1. row \in Where(model, "account", {b.account}).rows
  BY AndHolds DEF AccountClause
<1>2. row \in model /\ row["account"] = b.account
  BY <1>1, WhereHolds
<1>3. "account" \in DOMAIN row
  BY <1>2, RowsHaveFields
<1>4. ASSUME "project" \in DOMAIN row, b.projects # {} PROVE row["project"] \in b.projects
  <2>1. Has(model, "project")
    BY <1>2, <1>4, RowsHaveFields
  <2>2. row \in Where(model, "project", b.projects).rows
    BY <2>1, <1>4, AndHolds DEF AccountClause
  <2> QED BY <2>2, WhereHolds
<1> QED BY <1>2, <1>3, <1>4

\* What a clause of a grant lets through is what the grant is about.
LEMMA ClausesHold ==
  ASSUME NEW b, NEW model, Uniform(model), NEW q \in Clauses(b, model), NEW row \in q.rows
  PROVE  row \in model /\ InScope(b, row)
<1> DEFINE both(values) == And(BranchClause(b, model), values)
<1>1. CASE b.scope = "ALL_BRANCHES"
  BY <1>1 DEF Clauses, InScope, EmptyQ
<1>2. CASE b.scope = "OWN_BRANCH"
  BY <1>2, BranchClauseHolds DEF Clauses, InScope
<1>3. CASE b.scope = "OWN_DEPARTMENT"
  <2>1. row \in BranchClause(b, model).rows
    BY <1>3, AndHolds DEF Clauses
  <2>2. /\ row \in model
        /\ "branch" \in DOMAIN row /\ b.branch # NoOne => row["branch"] = b.branch
    BY <2>1, BranchClauseHolds
  <2>3. ASSUME "department" \in DOMAIN row, b.department # NoOne
        PROVE  row["department"] = b.department
    <3>1. Has(model, "department")
      BY <2>2, <2>3, RowsHaveFields
    <3>2. row \in Where(model, "department", {b.department}).rows
      BY <1>3, <2>3, <3>1, AndHolds DEF Clauses
    <3> QED BY <3>2, WhereHolds
  <2> QED BY <1>3, <2>2, <2>3 DEF InScope
<1>4. ASSUME NEW field, Has(model, field), row \in both(Where(model, field, {UserId})).rows
      PROVE  /\ row \in model /\ field \in DOMAIN row /\ row[field] = UserId
             /\ "branch" \in DOMAIN row /\ b.branch # NoOne => row["branch"] = b.branch
  <2>1. row \in BranchClause(b, model).rows /\ row \in Where(model, field, {UserId}).rows
    BY <1>4, AndHolds
  <2>2. /\ row \in model /\ row[field] = UserId
        /\ "branch" \in DOMAIN row /\ b.branch # NoOne => row["branch"] = b.branch
    BY <2>1, BranchClauseHolds, WhereHolds
  <2> QED BY <1>4, <2>2, RowsHaveFields
<1>5. CASE b.scope = "ASSIGNED_TO_ME"
  <2>1. CASE Has(model, "assignee")
    <3>1. row \in both(Where(model, "assignee", {UserId})).rows
      BY <1>5, <2>1 DEF Clauses
    <3> QED BY <1>5, <2>1, <3>1, <1>4 DEF InScope
  <2>2. CASE ~Has(model, "assignee") /\ Has(model, "owner")
    <3>1. row \in both(Where(model, "owner", {UserId})).rows
      BY <1>5, <2>2 DEF Clauses
    <3> QED BY <1>5, <2>2, <3>1, <1>4 DEF InScope
  <2>3. CASE ~Has(model, "assignee") /\ ~Has(model, "owner")
    BY <1>5, <2>3 DEF Clauses
  <2> QED BY <2>1, <2>2, <2>3
<1>6. CASE b.scope = "OWN_RECORDS"
  <2>1. CASE Has(model, "owner")
    <3>1. row \in both(Where(model, "owner", {UserId})).rows
      BY <1>6, <2>1 DEF Clauses
    <3> QED BY <1>6, <2>1, <3>1, <1>4 DEF InScope
  <2>2. CASE ~Has(model, "owner")
    BY <1>6, <2>2 DEF Clauses
  <2> QED BY <2>1, <2>2
<1>7. CASE b.scope = "OWN_ACCOUNT"
  <2>1. Has(model, "account") /\ row \in AccountClause(b, model).rows
    BY <1>7 DEF Clauses
  <2> QED BY <1>7, <2>1, AccountClauseHolds DEF InScope
<1>8. CASE b.scope \notin {"ALL_BRANCHES", "OWN_BRANCH", "OWN_DEPARTMENT", "ASSIGNED_TO_ME",
                          "OWN_RECORDS", "OWN_ACCOUNT"}
  BY <1>8 DEF Clauses
<1> QED BY <1>1, <1>2, <1>3, <1>5, <1>6, <1>7, <1>8

\* A clause that is empty lets every row of the model pass.
LEMMA EmptyClauses ==
  ASSUME NEW b, NEW model, NEW q \in Clauses(b, model), q.empty
  PROVE  q.rows = model
<1>1. CASE b.scope \in {"ALL_BRANCHES", "OWN_BRANCH"}
  BY <1>1, BranchClauseEmpty DEF Clauses, EmptyQ
<1>2. CASE b.scope = "OWN_DEPARTMENT"
  <2>1. CASE b.department # NoOne /\ Has(model, "department")
    <3>1. q = And(BranchClause(b, model), Where(model, "department", {b.department}))
      BY <1>2, <2>1 DEF Clauses
    <3> QED BY <3>1, AndHolds, WhereHolds
  <2>2. CASE ~(b.department # NoOne /\ Has(model, "department"))
    BY <1>2, <2>2, BranchClauseEmpty DEF Clauses
  <2> QED BY <2>1, <2>2
<1>3. CASE b.scope \in {"ASSIGNED_TO_ME", "OWN_RECORDS"}
  <2>1. \E field : q = And(BranchClause(b, model), Where(model, field, {UserId}))
    BY <1>3 DEF Clauses
  <2> QED BY <2>1, AndHolds, WhereHolds
<1>4. CASE b.scope = "OWN_ACCOUNT"
  <2>1. q = AccountClause(b, model)
    BY <1>4 DEF Clauses
  <2> QED BY <2>1, AndHolds, WhereHolds DEF AccountClause
<1>5. CASE b.scope \notin {"ALL_BRANCHES", "OWN_BRANCH", "OWN_DEPARTMENT", "ASSIGNED_TO_ME",
                          "OWN_RECORDS", "OWN_ACCOUNT"}
  BY <1>5 DEF Clauses
<1> QED BY <1>1, <1>2, <1>3, <1>4, <1>5

\* A disjunction lets through what one of its parts does: where the empty ones disappear the
\* others remain, and where all are empty each lets everything pass.
LEMMA OrHolds ==
  ASSUME NEW qs, NEW model, qs # {}, \A q \in qs : q.empty => q.rows = model,
         NEW row \in Or(qs, model).rows
  PROVE  \E q \in qs : row \in q.rows
<1>1. CASE \A q \in qs : q.empty
  BY <1>1 DEF Or, EmptyQ
<1>2. CASE ~\A q \in qs : q.empty
  BY <1>2 DEF Or, Q
<1> QED BY <1>1, <1>2

LEMMA VisibleHolds ==
  ASSUME NEW bindings, NEW model, Uniform(model), NEW branch,
         NEW row \in Visible(bindings, model, branch)
  PROVE  /\ \E b \in bindings : InScope(b, row)
         /\ branch # NoOne /\ "branch" \in DOMAIN row => row["branch"] = branch
<1> DEFINE clauses == UNION {Clauses(b, model) : b \in bindings}
           combined == Or(clauses, model)
           narrowed == And(combined, Where(model, "branch", {branch}))
<1>1. clauses # {}
  BY DEF Visible
<1>2. row \in combined.rows
  <2>1. CASE branch # NoOne /\ Has(model, "branch")
    <3>1. row \in narrowed.rows
      BY <1>1, <2>1 DEF Visible
    <3> HIDE DEF combined
    <3> QED BY <3>1, AndHolds
  <2>2. CASE ~(branch # NoOne /\ Has(model, "branch"))
    BY <1>1, <2>2 DEF Visible
  <2> QED BY <2>1, <2>2
<1>3. PICK b \in bindings : \E q \in Clauses(b, model) : row \in q.rows
  <2>1. \A q \in clauses : q.empty => q.rows = model
    BY EmptyClauses
  <2>2. \E q \in clauses : row \in q.rows
    <3> HIDE DEF clauses
    <3> QED BY <1>1, <1>2, <2>1, OrHolds
  <2> QED BY <2>2
<1>4. row \in model /\ InScope(b, row)
  BY <1>3, ClausesHold
<1>5. ASSUME branch # NoOne, "branch" \in DOMAIN row PROVE row["branch"] = branch
  <2>1. Has(model, "branch")
    BY <1>4, <1>5, RowsHaveFields
  <2>2. row \in narrowed.rows
    BY <1>1, <1>5, <2>1 DEF Visible
  <2>3. row \in Where(model, "branch", {branch}).rows
    <3> HIDE DEF combined
    <3> QED BY <2>2, AndHolds
  <2> QED BY <2>3, WhereHolds
<1> QED BY <1>4, <1>5

-----------------------------------------------------------------------------
\* Whatever memberships a user has had, a row that a GET lists is one that a grant of a
\* membership in an active role is about, and is in the branch asked for.
THEOREM GrantsAreNeverMixed == AccessSpec => []NothingBeyondGrants
<1>1. NothingBeyondGrants
  <2> DEFINE bindings == Bindings
  <2> SUFFICES ASSUME NEW resource \in DOMAIN Models, NEW branch \in Branches \cup {NoOne},
                      NEW row \in Listed(bindings, resource, branch)
               PROVE  /\ \E b \in BindingsFor(bindings, resource, "view") : InScope(b, row)
                      /\ branch # NoOne /\ "branch" \in DOMAIN row => row["branch"] = branch
    BY DEF NothingBeyondGrants
  <2> HIDE DEF bindings
  <2>1. row \in Visible(BindingsFor(bindings, resource, "view"), Models[resource], branch)
    BY DEF Listed
  <2>2. Uniform(Models[resource])
    BY AccessAssumption DEF Uniform
  <2> QED BY <2>1, <2>2, VisibleHolds
<1> QED BY <1>1, PTL

-----------------------------------------------------------------------------
(* Digests, for any number of tenants, scheduler processes and minutes.    *)
(* The inductive invariant speaks of what runs have written and not yet    *)
(* committed as well: no two of all these digests have the same key, and a *)
(* run has, or finds, the digests of the tenants it has done.              *)

Row == [tenant : Tenants, rule : Tenants, branch : Tenants, stamp : FireAt]
Run == [on : BOOLEAN, at : Nat, left : SUBSET Tenants, own : SUBSET Row]

DigestTypeInv ==
  /\ time \in Nat /\ active \subseteq Tenants /\ everywhere \subseteq Tenants
  /\ run \in [Scheduler -> Run]
  /\ ran \subseteq Nat

\* Written, committed or not.
Written(d) == d \in digests \/ \E p \in Scheduler : d \in run[p].own

WrittenOnce == \A d, e : Written(d) /\ Written(e) /\ SameDigest(d, e) => d = e

Due(f, at) ==
  /\ f < at /\ at <= f + Window
  /\ \A g \in FireAt : g < f => g + Window < at
DigestOf(t, f, d) == d.rule = t /\ d.branch = t /\ d.stamp = f

\* A run that is under way has done the tenants that are not left.
DoneInv ==
  \A p \in Scheduler : run[p].on =>
    \A t \in active \ run[p].left : \A f \in FireAt :
      Due(f, run[p].at) => \E d \in Known(p) : DigestOf(t, f, d)

IInv == DigestTypeInv /\ WrittenOnce /\ DoneInv /\ DigestWithinWindow

LEMMA OnceFollows == IInv => DigestOnce
  BY DEF IInv, WrittenOnce, Written, DigestOnce

LEMMA InitHolds == DigestsInit => IInv
  BY DEF DigestsInit, IInv, DigestTypeInv, Run, Idle, WrittenOnce, Written, DoneInv,
         DigestWithinWindow

\* The minute of a digest that is due is the one that the window finds.
LEMMA WindowFinds ==
  ASSUME NEW f \in FireAt, NEW at \in Nat, Due(f, at)
  PROVE  f \in FirstMatch(at)
  BY DigestsAssumption DEF Due, FirstMatch

-----------------------------------------------------------------------------
\* A run that is not under way has written nothing that counts.
LEMMA IdleKeeps ==
  ASSUME IInv, NEW p \in Scheduler, NEW idle \in Run, idle.own = {},
         idle.on => idle.left = active,
         run' = [run EXCEPT ![p] = idle], UNCHANGED <<time, active, everywhere, digests, ran>>
  PROVE  IInv'
<1>1. run'[p] = idle /\ \A q \in Scheduler \ {p} : run'[q] = run[q]
  BY DEF IInv, DigestTypeInv
<1>2. DigestTypeInv'
  BY DEF IInv, DigestTypeInv, Run
<1>3. \A d : Written(d)' => Written(d)
  BY <1>1 DEF Written
<1>4. WrittenOnce'
  BY <1>3 DEF IInv, WrittenOnce, SameDigest
<1>5. DoneInv'
  BY <1>1 DEF IInv, DoneInv, Known, Due, DigestOf
<1> QED BY <1>2, <1>4, <1>5 DEF IInv, DigestWithinWindow

LEMMA TickKeeps == ASSUME IInv, NEW p \in Scheduler, Tick(p) PROVE IInv'
<1> DEFINE started1 == [on |-> TRUE, at |-> time, left |-> active, own |-> {}]
<1>1. started1 \in Run
  BY DEF IInv, DigestTypeInv, Run
<1> QED BY <1>1, IdleKeeps DEF Tick

LEMMA FailKeeps == ASSUME IInv, NEW p \in Scheduler, Fail(p) PROVE IInv'
<1>1. Idle \in Run /\ Idle.own = {} /\ Idle.on = FALSE
  BY DEF Idle, Run
<1> QED BY <1>1, IdleKeeps DEF Fail

LEMMA PassKeeps == ASSUME IInv, NEW p \in Scheduler, Pass(p) PROVE IInv'
<1>1. PICK t \in run[p].left :
        /\ Unlocked(p, NewDigests(p, t))
        /\ run' = [run EXCEPT ![p].left = run[p].left \ {t},
                              ![p].own = run[p].own \cup NewDigests(p, t)]
  <2>1. run[p].left \in SUBSET Nat /\ run[p].left # {}
    BY DigestsAssumption DEF Pass, IInv, DigestTypeInv, Run
  <2> QED BY <2>1, LeastNumber DEF Pass
<1> DEFINE new == NewDigests(p, t)
<1>2. UNCHANGED <<time, active, everywhere, digests, ran>> /\ run[p].on
  BY DEF Pass
<1>3. run[p] \in Run /\ run \in [Scheduler -> Run] /\ t \in Tenants
  BY DEF IInv, DigestTypeInv, Run
<1>4. /\ run'[p].left = run[p].left \ {t} /\ run'[p].own = run[p].own \cup new
      /\ run'[p].on = run[p].on /\ run'[p].at = run[p].at
      /\ \A q \in Scheduler \ {p} : run'[q] = run[q]
  BY <1>1, <1>3 DEF Run
<1>5. \A d \in new : /\ d \in [tenant : {t}, rule : VisibleTenants(t), branch : Tenants,
                               stamp : FirstMatch(run[p].at)]
                     /\ ~\E e \in Known(p) : SameDigest(d, e)
  BY DEF NewDigests
<1>6. DigestTypeInv'
  <2>1. new \subseteq Row
    BY <1>3, <1>5 DEF VisibleTenants, FirstMatch, Row
  <2>2. run' \in [Scheduler -> Run]
    BY <1>1, <1>3, <2>1 DEF Run
  <2> QED BY <1>2, <2>2 DEF IInv, DigestTypeInv
<1>7. WrittenOnce'
  <2>1. \A d : Written(d)' => Written(d) \/ d \in new
    BY <1>2, <1>4 DEF Written
  <2>2. \A d \in new : \A e : Written(e) => ~SameDigest(d, e)
    <3> SUFFICES ASSUME NEW d \in new, NEW e, Written(e) PROVE ~SameDigest(d, e)
      OBVIOUS
    <3>1. CASE e \in Known(p)
      BY <3>1, <1>5
    <3>2. CASE \E q \in Scheduler \ {p} : e \in run[q].own
      BY <3>2, <1>1 DEF Unlocked
    <3> QED BY <3>1, <3>2 DEF Written, Known
  <2>3. \A d, e \in new : SameDigest(d, e) => d = e
    BY <1>5 DEF SameDigest
  <2>4. \A d, e : SameDigest(d, e) => SameDigest(e, d)
    BY DEF SameDigest
  <2> HIDE DEF new
  <2>5. \A d, e : Written(d)' /\ Written(e)' /\ SameDigest(d, e) => d = e
    BY <2>1, <2>2, <2>3, <2>4 DEF IInv, WrittenOnce
  <2> QED BY <2>5 DEF WrittenOnce, SameDigest
<1>8. DoneInv'
  <2> SUFFICES ASSUME NEW q \in Scheduler, run'[q].on, NEW u \in active \ run'[q].left,
                      NEW f \in FireAt, Due(f, run'[q].at)
               PROVE  \E d \in Known(q)' : DigestOf(u, f, d)
    BY <1>2 DEF DoneInv, Due, DigestOf
  <2>1. CASE q # p \/ u # t
    <3>1. run[q].on /\ u \in active \ run[q].left /\ Due(f, run[q].at)
      BY <1>4, <2>1
    <3>2. Known(q) \subseteq Known(q)'
      BY <1>2, <1>4 DEF Known
    <3> QED BY <3>1, <3>2 DEF IInv, DoneInv
  <2>2. CASE q = p /\ u = t
    <3>1. f \in FirstMatch(run[p].at)
      BY <1>3, <1>4, <2>2, WindowFinds DEF Run
    <3> DEFINE due == [tenant |-> t, rule |-> t, branch |-> t, stamp |-> f]
    <3>2. DigestOf(t, f, due) /\ \A e : SameDigest(due, e) => DigestOf(t, f, e)
      BY DEF DigestOf, SameDigest
    <3>3. t \in BranchesOf(t, t)
      BY <1>3 DEF BranchesOf, VisibleTenants
    <3>4. CASE \E e \in Known(p) : SameDigest(due, e)
      BY <3>2, <3>4, <1>2, <1>4, <2>2 DEF Known
    <3>5. CASE ~\E e \in Known(p) : SameDigest(due, e)
      <4>1. due \in new
        BY <1>3, <3>1, <3>3, <3>5 DEF NewDigests, VisibleTenants
      <4> QED BY <4>1, <3>2, <1>4, <2>2 DEF Known
    <3> QED BY <3>4, <3>5
  <2> QED BY <2>1, <2>2
<1> QED BY <1>2, <1>6, <1>7, <1>8 DEF IInv, DigestWithinWindow

\* What the run has done or found becomes what there is.
LEMMA FinishKeeps == ASSUME IInv, NEW p \in Scheduler, Finish(p) PROVE IInv'
<1>1. /\ run[p].on /\ run[p].left = {}
      /\ digests' = digests \cup run[p].own /\ ran' = ran \cup {run[p].at}
      /\ run' = [run EXCEPT ![p] = Idle]
      /\ UNCHANGED <<time, active, everywhere>>
  BY DEF Finish
<1>2. /\ run'[p] = Idle /\ \A q \in Scheduler \ {p} : run'[q] = run[q]
      /\ Idle \in Run /\ Idle.own = {} /\ Idle.on = FALSE /\ run[p].at \in Nat
  BY <1>1 DEF IInv, DigestTypeInv, Idle, Run
<1>3. DigestTypeInv'
  BY <1>1, <1>2 DEF IInv, DigestTypeInv, Run
<1>4. \A d : Written(d)' => Written(d)
  BY <1>1, <1>2 DEF Written
<1>5. WrittenOnce'
  BY <1>4 DEF IInv, WrittenOnce, SameDigest
<1>6. DoneInv'
  BY <1>1, <1>2 DEF IInv, DoneInv, Known, Due, DigestOf
<1>7. DigestWithinWindow'
  <2> SUFFICES ASSUME NEW f \in FireAt, NEW at \in ran', NEW t \in active, Due(f, at)
               PROVE  \E d \in digests' : DigestOf(t, f, d)
    BY <1>1 DEF DigestWithinWindow, Due, DigestOf
  <2>1. CASE at \in ran
    BY <1>1, <2>1 DEF IInv, DigestWithinWindow, Due, DigestOf
  <2>2. CASE at = run[p].at
    BY <1>1, <2>2 DEF IInv, DoneInv, Known
  <2> QED BY <1>1, <2>1, <2>2
<1> QED BY <1>3, <1>5, <1>6, <1>7 DEF IInv

LEMMA WaitKeeps ==
  ASSUME IInv, UNCHANGED <<active, everywhere, run, digests, ran>>, time' \in Nat
  PROVE  IInv'
<1>1. DigestTypeInv'
  BY DEF IInv, DigestTypeInv
<1>2. WrittenOnce'
  BY DEF IInv, WrittenOnce, Written, SameDigest
<1>3. DoneInv' /\ DigestWithinWindow'
  BY DEF IInv, DoneInv, Known, Due, DigestOf, DigestWithinWindow
<1> QED BY <1>1, <1>2, <1>3 DEF IInv

LEMMA NextKeeps == IInv /\ [DigestsNext]_digestVars => IInv'
<1> SUFFICES ASSUME IInv, [DigestsNext]_digestVars PROVE IInv'
  OBVIOUS
<1>1. ASSUME NEW p \in Scheduler, Tick(p) \/ Pass(p) \/ Finish(p) \/ Fail(p) PROVE IInv'
  BY <1>1, TickKeeps, PassKeeps, FinishKeeps, FailKeeps
<1>2. CASE Wait
  BY <1>2, WaitKeeps DEF Wait, IInv, DigestTypeInv
<1>3. CASE Rest \/ UNCHANGED digestVars
  BY <1>3, WaitKeeps DEF Rest, digestVars, IInv, DigestTypeInv
<1> QED BY <1>1, <1>2, <1>3 DEF DigestsNext

LEMMA Invariant == DigestsSpec => []IInv
  BY InitHolds, NextKeeps, PTL DEF DigestsSpec

-----------------------------------------------------------------------------
\* A digest of a rule for a branch and a minute is written once, whatever fails, is run again
\* or runs at the same time.
THEOREM DigestsAreWrittenOnce == DigestsSpec => []DigestOnce
  BY Invariant, OnceFollows, PTL

\* A digest whose minute was in the window of a run that committed, the minutes before it no
\* longer, is there, however often crons match and runs fail, come late or overlap.
THEOREM DigestsAreNotMissed == DigestsSpec => []DigestWithinWindow
  BY Invariant, PTL DEF IInv

-----------------------------------------------------------------------------
(* Test runs of any length, with any numbers that the input fields allow.  *)
(* The invariant says of the rules already applied that they found nothing *)
(* as long as nothing has been excluded, and that the mean is that of the  *)
(* rows left whenever a rule is about to be applied.                       *)

LEMMA DivLeast ==
  ASSUME NEW x \in Nat, NEW b \in Nat \ {0}
  PROVE  x \div b \in Nat /\ b * (x \div b) <= x /\ x < b * (x \div b) + b
  OBVIOUS

LEMMA DivMonotone ==
  ASSUME NEW x \in Nat, NEW y \in Nat, x <= y, NEW b \in Nat \ {0}
  PROVE  x \div b <= y \div b
<1> DEFINE p == x \div b
           q == y \div b
<1>1. p \in Nat /\ b * p <= x /\ q \in Nat /\ y < b * q + b
  BY DivLeast
<1> HIDE DEF p, q
<1> SUFFICES ASSUME q < p PROVE FALSE
  BY <1>1 DEF p, q
<1>2. PICK k \in Nat : p = q + 1 + k
  <2>1. p - q - 1 \in Nat /\ p = q + 1 + (p - q - 1)
    BY <1>1
  <2> QED BY <2>1
<1>3. b * p = b * q + b + b * k /\ b * k \in Nat /\ b * q \in Nat
  BY <1>1, <1>2
<1> QED BY <1>1, <1>3

\* Rounding of what is not negative.
LEMMA RoundNat ==
  ASSUME NEW n \in Nat, NEW d \in Nat \ {0}
  PROVE  RoundHalfUp(n, d) = (2 * n + d) \div (2 * d) /\ RoundHalfUp(n, d) \in Nat
<1>1. RoundHalfUp(n, d) = (2 * n + d) \div (2 * d)
  BY DEF RoundHalfUp
<1>2. 2 * n + d \in Nat /\ 2 * d \in Nat \ {0}
  OBVIOUS
<1> QED BY <1>1, <1>2, DivLeast

LEMMA RoundInt ==
  ASSUME NEW n \in Int, NEW d \in Int \ {0}
  PROVE  RoundHalfUp(n, d) \in Int
<1> DEFINE a == IF n < 0 THEN -n ELSE n
           b == IF d < 0 THEN -d ELSE d
<1>1. 2 * a + b \in Nat /\ 2 * b \in Nat \ {0}
  OBVIOUS
<1>2. (2 * a + b) \div (2 * b) \in Nat
  BY <1>1, DivLeast
<1> QED BY <1>2 DEF RoundHalfUp

LEMMA RoundMonotone ==
  ASSUME NEW m \in Nat, NEW n \in Nat, m <= n, NEW d \in Nat \ {0}
  PROVE  RoundHalfUp(m, d) <= RoundHalfUp(n, d)
<1>1. 2 * m + d \in Nat /\ 2 * n + d \in Nat /\ 2 * m + d <= 2 * n + d /\ 2 * d \in Nat \ {0}
  OBVIOUS
<1> QED BY <1>1, RoundNat, DivMonotone

\* A number over 1, and the whole in thousandths, are themselves.
LEMMA RoundWhole ==
  /\ \A n \in Int : RoundHalfUp(n, 1) = n
  /\ \A d \in Nat \ {0} : RoundHalfUp(1000 * d, d) = 1000
<1>1. ASSUME NEW n \in Int PROVE RoundHalfUp(n, 1) = n
  BY DEF RoundHalfUp
<1>2. ASSUME NEW d \in Nat \ {0} PROVE RoundHalfUp(1000 * d, d) = 1000
  <2> DEFINE x == 2 * (1000 * d) + d
             b == 2 * d
             q == x \div b
  <2>1. x \in Nat /\ b \in Nat \ {0} /\ x = 1000 * b + d /\ 0 < d /\ d < b
    OBVIOUS
  <2>2. q \in Nat /\ b * q <= x /\ x < b * q + b
    BY <2>1, DivLeast
  <2>3. RoundHalfUp(1000 * d, d) = q
    BY RoundNat
  <2> HIDE DEF q, x, b
  <2>4. CASE q < 1000
    <3>1. PICK k \in Nat : 1000 = q + 1 + k
      <4>1. 1000 - q - 1 \in Nat /\ 1000 = q + 1 + (1000 - q - 1)
        BY <2>2, <2>4
      <4> QED BY <4>1
    <3>2. 1000 * b = b * q + b + b * k /\ b * k \in Nat /\ b * q \in Nat
      BY <2>1, <2>2, <3>1
    <3> QED BY <2>1, <2>2, <3>2
  <2>5. CASE q > 1000
    <3>1. PICK k \in Nat : q = 1001 + k
      <4>1. q - 1001 \in Nat /\ q = 1001 + (q - 1001)
        BY <2>2, <2>5
      <4> QED BY <4>1
    <3>2. b * q = 1000 * b + b + b * k /\ b * k \in Nat
      BY <2>1, <2>2, <3>1
    <3> QED BY <2>1, <2>2, <3>2
  <2> QED BY <2>2, <2>3, <2>4, <2>5
<1> QED BY <1>1, <1>2

\* A list none of whose elements is followed by a smaller one does not fall.
LEMMA AdjacentIsMonotone ==
  ASSUME NEW n \in Nat, NEW f \in [1..n -> Nat],
         \A i, j \in 1..n : i + 1 = j => f[i] <= f[j],
         NEW i \in 1..n, NEW j \in 1..n, i < j
  PROVE  f[i] <= f[j]
<1> DEFINE Low == {k \in Nat : i < k /\ k <= n /\ f[k] < f[i]}
<1> SUFFICES ASSUME f[j] < f[i] PROVE FALSE
  OBVIOUS
<1>1. j \in Low /\ Low \in SUBSET Nat
  OBVIOUS
<1>2. PICK k \in Low : \A l \in Low : k <= l
  BY <1>1, LeastNumber
<1>3. k - 1 \in 1..n /\ k \in 1..n /\ k - 1 \notin Low
  BY <1>2
<1>4. f[k - 1] <= f[k] /\ f[k] < f[i]
  BY <1>2, <1>3
<1> QED BY <1>2, <1>3, <1>4

\* The mean of one row is its result: the fold over a set of one takes one step.
LEMMA MeanOfOne ==
  ASSUME NEW results, NEW i, NEW v \in Int, results[i] = {v}
  PROVE  AverageOf(results, {i}) = {v}
<1> DEFINE Step(g) == [s \in SUBSET {i} |->
                         IF s = {} THEN 0
                         ELSE (CHOOSE w \in results[CHOOSE x \in s : TRUE] : TRUE)
                                + g[s \ {CHOOSE x \in s : TRUE}]]
           iter == CHOOSE g : g = Step(g)
           h == [s \in SUBSET {i} |-> IF s = {} THEN 0 ELSE v]
<1>1. (CHOOSE x \in {i} : TRUE) = i /\ (CHOOSE w \in results[i] : TRUE) = v
  OBVIOUS
<1>2. h = Step(h)
  <2>1. h[{}] = 0
    OBVIOUS
  <2>2. ASSUME NEW s \in SUBSET {i} PROVE h[s] = Step(h)[s]
    <3>1. CASE s = {}
      BY <2>1, <3>1
    <3>2. CASE s = {i}
      <4>1. Step(h)[s] = v + h[{}]
        BY <1>1, <3>2
      <4>2. h[s] = v
        BY <3>2
      <4> QED BY <2>1, <4>1, <4>2
    <3> QED BY <3>1, <3>2
  <2> QED BY <2>2
<1>3. iter = Step(iter)
  BY <1>2
<1>4. iter[{i}] = v
  <2>1. Step(iter)[{}] = 0 /\ Step(iter)[{i}] = v + iter[{}]
    BY <1>1
  <2> HIDE DEF iter, Step
  <2> QED BY <1>3, <2>1
<1>5. Total(results, {i}) = iter[{i}]
  BY DEF Total, MapThenSumSet, MapThenFoldSet
<1>6. Cardinality({i}) = 1
  BY FS_Singleton
<1> QED BY <1>4, <1>5, <1>6, RoundWhole DEF AverageOf

\* The fold over a finite set of integers is an integer.  No induction over sets is to be
\* had, but that over their sizes is: a smallest set without a sum has one.
LEMMA TotalIsInt ==
  ASSUME NEW S, IsFiniteSet(S), NEW results,
         \A i \in S : results[i] # {} /\ results[i] \subseteq Int
  PROVE  Total(results, S) \in Int
<1> DEFINE Pick(s) == CHOOSE x \in s : TRUE
           Val(i) == CHOOSE v \in results[i] : TRUE
           Of(g, s) == IF s = {} THEN 0 ELSE Val(Pick(s)) + g[s \ {Pick(s)}]
           Step(g) == [s \in SUBSET S |-> Of(g, s)]
           iter == CHOOSE g : g = Step(g)
           Small(n) == {s \in SUBSET S : Cardinality(s) <= n}
           Sums(n, g) == g \in [Small(n) -> Int] /\ \A s \in Small(n) : g[s] = Of(g, s)
           None == {n \in Nat : ~\E g : Sums(n, g)}
<1>1. \A s \in SUBSET S : /\ IsFiniteSet(s) /\ Cardinality(s) \in Nat
                          /\ Cardinality(s) <= Cardinality(S)
                          /\ Cardinality(s) = 0 <=> s = {}
  BY FS_Subset, FS_CardinalityType, FS_EmptySet
<1>2. \A s \in (SUBSET S) \ {{}} : /\ Pick(s) \in s /\ Val(Pick(s)) \in Int
                                 /\ s \ {Pick(s)} \in SUBSET S
                                 /\ Cardinality(s \ {Pick(s)}) = Cardinality(s) - 1
  <2> SUFFICES ASSUME NEW s \in SUBSET S, s # {}
               PROVE  /\ Pick(s) \in s /\ Val(Pick(s)) \in Int /\ s \ {Pick(s)} \in SUBSET S
                      /\ Cardinality(s \ {Pick(s)}) = Cardinality(s) - 1
    OBVIOUS
  <2>1. Pick(s) \in s
    <3>1. \E x \in s : TRUE
      OBVIOUS
    <3> QED BY <3>1, Zenon
  <2>2. Val(Pick(s)) \in Int
    <3>1. Pick(s) \in S /\ \E v \in results[Pick(s)] : TRUE
      BY <2>1
    <3> HIDE DEF Pick
    <3>2. Val(Pick(s)) \in results[Pick(s)]
      BY <3>1, Zenon
    <3> QED BY <3>1, <3>2
  <2>3. Cardinality(s \ {Pick(s)}) = Cardinality(s) - 1
    BY <1>1, <2>1, FS_RemoveElement
  <2> QED BY <2>1, <2>2, <2>3
<1> HIDE DEF Pick, Val
<1>a. \A n : \A s : s \in Small(n) <=> s \in SUBSET S /\ Cardinality(s) <= n
  OBVIOUS
<1>b. /\ None \in SUBSET Nat /\ \A n \in None : ~\E g : Sums(n, g)
      /\ \A n \in Nat \ None : \E g : Sums(n, g)
  OBVIOUS
<1> HIDE DEF Small, None
<1>3. None = {}
  <2> SUFFICES ASSUME None # {} PROVE FALSE
    OBVIOUS
  <2>1. PICK n \in None : \A m \in None : n <= m
    BY <1>b, LeastNumber
  <2>2. n # 0
    <3> DEFINE g == [s \in Small(0) |-> 0]
    <3>1. \A s \in Small(0) : s = {}
      BY <1>1, <1>a
    <3>2. Sums(0, g)
      BY <3>1
    <3> QED BY <3>2, <2>1, <1>b
  <2>3. PICK g : Sums(n - 1, g)
    <3>1. n \in Nat /\ n - 1 \in Nat /\ n - 1 \notin None
      BY <1>b, <2>1, <2>2
    <3> QED BY <1>b, <3>1
  <2> DEFINE h == [s \in Small(n) |-> Of(g, s)]
  <2>4. ASSUME NEW s \in Small(n), s # {} PROVE s \ {Pick(s)} \in Small(n - 1)
    BY <1>1, <1>2, <1>a, <1>b, <2>1, <2>4
  <2>5. ASSUME NEW s \in Small(n) PROVE Of(g, s) \in Int
    BY <1>2, <1>a, <2>3, <2>4
  <2>6. ASSUME NEW s \in Small(n - 1) PROVE s \in Small(n) /\ h[s] = g[s]
    <3>1. n \in Nat /\ Cardinality(s) \in Nat /\ Cardinality(s) <= n - 1 /\ s \in SUBSET S
      BY <1>1, <1>a, <1>b, <2>1, <2>6
    <3>2. s \in Small(n)
      BY <1>a, <3>1
    <3>3. g[s] = Of(g, s)
      BY <2>3, <2>6
    <3> QED BY <3>2, <3>3
  <2>7. ASSUME NEW s \in Small(n) PROVE h[s] = Of(h, s)
    <3>1. CASE s = {}
      BY <3>1, <2>7
    <3>2. CASE s # {}
      <4>1. h[s \ {Pick(s)}] = g[s \ {Pick(s)}]
        BY <2>4, <2>6, <3>2, <2>7
      <4> QED BY <4>1, <3>2, <2>7
    <3> QED BY <3>1, <3>2
  <2>8. Sums(n, h)
    BY <2>5, <2>7
  <2> HIDE DEF h, Sums
  <2> QED BY <1>b, <2>1, <2>8
<1>4. \E g : g = Step(g)
  <2>1. PICK g : Sums(Cardinality(S), g)
    <3>1. Cardinality(S) \in Nat \ None
      BY <1>1, <1>3
    <3> HIDE DEF Sums
    <3> QED BY <1>b, <3>1
  <2>2. Small(Cardinality(S)) = SUBSET S
    BY <1>1, <1>a
  <2>3. g \in [SUBSET S -> Int] /\ \A s \in SUBSET S : g[s] = Of(g, s)
    BY <2>1, <2>2
  <2> QED BY <2>3
<1>5. iter = Step(iter)
  BY <1>4
<1> HIDE DEF iter
<1> DEFINE Bad == {n \in Nat : \E s \in SUBSET S : Cardinality(s) = n /\ iter[s] \notin Int}
<1>6. Bad = {}
  <2> SUFFICES ASSUME Bad # {} PROVE FALSE
    OBVIOUS
  <2>1. PICK n \in Bad : \A m \in Bad : n <= m
    <3>1. Bad \in SUBSET Nat
      OBVIOUS
    <3> QED BY <3>1, LeastNumber
  <2>2. PICK s \in SUBSET S : Cardinality(s) = n /\ iter[s] \notin Int
    BY <2>1
  <2>3. iter[s] = Of(iter, s)
    BY <1>5
  <2>4. s # {}
    BY <2>2, <2>3
  <2>5. n - 1 \in Nat /\ Cardinality(s \ {Pick(s)}) = n - 1 /\ s \ {Pick(s)} \in SUBSET S
    BY <1>1, <1>2, <2>2, <2>4
  <2>6. iter[s \ {Pick(s)}] \in Int
    <3>1. n - 1 \notin Bad
      BY <2>1, <2>5
    <3> QED BY <2>5, <3>1
  <2>7. Val(Pick(s)) \in Int /\ iter[s] = Val(Pick(s)) + iter[s \ {Pick(s)}]
    BY <1>2, <2>3, <2>4
  <2> QED BY <2>2, <2>6, <2>7
<1>7. iter[S] \in Int
  BY <1>1, <1>6
<1>8. Total(results, S) = iter[S]
  BY DEF Total, MapThenSumSet, MapThenFoldSet, iter, Pick, Val
<1> QED BY <1>7, <1>8

LEMMA AverageIsInt ==
  ASSUME NEW S, IsFiniteSet(S), NEW results, \A i \in S : results[i] \subseteq Int
  PROVE  AverageOf(results, S) \subseteq Int /\ \A m, n \in AverageOf(results, S) : m = n
<1>1. CASE S = {} \/ \E i \in S : results[i] = {}
  BY <1>1 DEF AverageOf
<1>2. CASE S # {} /\ \A i \in S : results[i] # {}
  <2>1. Total(results, S) \in Int
    BY <1>2, TotalIsInt
  <2>2. Cardinality(S) \in Int \ {0}
    BY <1>2, FS_CardinalityType, FS_EmptySet
  <2>3. RoundHalfUp(Total(results, S), Cardinality(S)) \in Int
    BY <2>1, <2>2, RoundInt
  <2> QED BY <1>2, <2>3 DEF AverageOf
<1> QED BY <1>1, <1>2

\* Bound on the exclusions of a run.
MostExclusions == IF data.iterative THEN MaxIterativePasses ELSE 1

RunTypeInv ==
  /\ data \in Runs /\ mean \subseteq Int
  /\ phase \in {"compute", "aggregate", "rules"} /\ rule \in Nat \ {0} /\ pass \in Nat \ {0}
  /\ exclusions \in Seq([row : DOMAIN data.rows, mean : SUBSET Int])

\* A result of a row: a number or nothing, and on sieves the percentage of a mass.
GoodResult(i, result) ==
  /\ result \subseteq Int /\ \A v, w \in result : v = w
  /\ data.kind = "SIEVE_ANALYSIS" =>
       \A p \in result :
         data.total # 0 /\ \E m \in data.rows[i].value : p = RoundHalfUp(1000 * m, data.total)

ResultsInv ==
  phase # "compute" => \A i \in DOMAIN data.rows : GoodResult(i, computed[i])

\* The mean is up to date whenever a rule is about to be applied.
MeanInv ==
  phase = "rules" => /\ mean = Aggregates
                     /\ data.kind # "SIEVE_ANALYSIS" /\ mean = {} => problem

\* A rule that excludes is the first, and counts its passes.
CountInv ==
  /\ phase = "compute" => exclusions = <<>>
  /\ phase # "rules" /\ exclusions = <<>> => rule = 1
  /\ data.kind \notin Compression => exclusions = <<>>
  /\ rule = 1 => Len(exclusions) = pass - 1 /\ pass <= MostExclusions
  /\ Len(exclusions) <= MostExclusions

\* Before the k-th exclusion.
Before(k) ==
  {i \in DOMAIN data.rows : data.rows[i].ok} \ {exclusions[j].row : j \in 1..(k - 1)}
Far(k) ==
  {i \in Before(k) : \E m \in exclusions[k].mean, v \in computed[i] : m - v >= Threshold}
JustifiedInv ==
  /\ \A k \in DOMAIN exclusions :
       exclusions[k].mean = Average(Before(k)) /\ Far(k) = {exclusions[k].row}
  /\ exclusions # <<>> => Active # {}

\* The rules applied so far have found nothing.
RulesInv ==
  phase = "rules" /\ exclusions = <<>> /\ ~Blocked =>
    /\ data.kind \in Compression =>
         /\ rule > 1 => Cardinality(Outliers) # 1
         /\ rule > 2 /\ flags = {} => ~(Cardinality(Outliers) >= 2)
    /\ data.kind = "SIEVE_ANALYSIS" =>
         /\ rule > 1 =>
              /\ \A i \in DOMAIN data.rows : data.rows[i].value # {}
              /\ \A i, j \in DOMAIN data.rows : i + 1 = j =>
                   \A v \in data.rows[i].value, w \in data.rows[j].value : v <= w
         /\ rule > 2 => \A i \in DOMAIN data.rows : \A v \in data.rows[i].value : v <= data.total
    /\ data.kind = "WATER_CONTENT" =>
         (rule > 1 => \A i \in DOMAIN data.rows : \A net \in DryNet(data.rows[i]) : net > 0)

RunInv == RunTypeInv /\ ResultsInv /\ MeanInv /\ CountInv /\ JustifiedInv /\ RulesInv

-----------------------------------------------------------------------------
LEMMA InputFacts ==
  ASSUME RunTypeInv
  PROVE  /\ data.kind \in Compression \cup {"SIEVE_ANALYSIS", "WATER_CONTENT"}
         /\ data.iterative \in BOOLEAN /\ data.total \in Nat /\ Section \in Nat \ {0}
         /\ Len(data.rows) \in Nat /\ DOMAIN data.rows = 1..Len(data.rows)
         /\ IsFiniteSet(DOMAIN data.rows)
         /\ \A i \in DOMAIN data.rows :
              /\ data.rows[i].ok \in BOOLEAN /\ data.rows[i].tare \in Nat
              /\ data.rows[i].value \subseteq Nat
              /\ \A v, w \in data.rows[i].value : v = w
<1>1. IsRunData(data) /\ Section \in Nat \ {0}
  BY TestRunAssumption DEF RunTypeInv
<1>2. data.rows \in Seq(RunRow)
  BY <1>1 DEF IsRunData
<1>3. Len(data.rows) \in Nat /\ DOMAIN data.rows = 1..Len(data.rows)
  BY <1>2
<1>4. \A i \in DOMAIN data.rows : data.rows[i] \in RunRow
  BY <1>2
<1>5. IsFiniteSet(DOMAIN data.rows)
  BY <1>3, FS_Interval
<1> QED BY <1>1, <1>3, <1>4, <1>5 DEF IsRunData, RunRow

LEMMA ActiveFacts ==
  ASSUME RunTypeInv
  PROVE  /\ Active \subseteq DOMAIN data.rows /\ IsFiniteSet(Active)
         /\ Outliers \subseteq Active /\ IsFiniteSet(Outliers)
<1>1. Active \subseteq DOMAIN data.rows /\ Outliers \subseteq Active
  BY DEF Active, Outliers
<1> QED BY <1>1, InputFacts, FS_Subset

\* Nothing that the rules look at has changed.
LEMMA SameRows ==
  ASSUME UNCHANGED <<data, computed, exclusions>>
  PROVE  /\ Active' = Active /\ Aggregates' = Aggregates
         /\ JustifiedInv' <=> JustifiedInv
         /\ mean' = mean => Outliers' = Outliers
<1>1. Active' = Active
  BY DEF Active, Excluded
<1>2. Aggregates' = Aggregates
  BY <1>1 DEF Aggregates, Average
<1>3. JustifiedInv' <=> JustifiedInv
  BY <1>1 DEF JustifiedInv, Average, Before, Far
<1> QED BY <1>1, <1>2, <1>3 DEF Outliers

LEMMA RatioFacts ==
  ASSUME NEW n \in Int, NEW d \in Int
  PROVE  /\ Ratio(n, d) \subseteq Int /\ \A v, w \in Ratio(n, d) : v = w
         /\ \A v \in Ratio(n, d) : d # 0 /\ v = RoundHalfUp(n, d)
  BY RoundInt DEF Ratio

LEMMA ResultFacts ==
  ASSUME RunTypeInv, NEW i \in DOMAIN data.rows
  PROVE  GoodResult(i, Result(data.rows[i]))
<1> DEFINE row == data.rows[i]
           result == Result(row)
<1>1. /\ row.value \subseteq Nat /\ row.tare \in Nat /\ (\A v, w \in row.value : v = w)
      /\ data.total \in Nat /\ Section \in Nat \ {0}
      /\ data.kind \in Compression \cup {"SIEVE_ANALYSIS", "WATER_CONTENT"}
  BY InputFacts
<1> HIDE DEF row
<1>2. CASE data.kind \in Compression
  <2>1. result = UNION {Stress(l) : l \in row.value} /\ data.kind # "SIEVE_ANALYSIS"
    BY <1>2 DEF Result, Compression
  <2>2. ASSUME NEW l \in row.value
        PROVE  Stress(l) \subseteq Int /\ \A v, w \in Stress(l) : v = w
    <3>1. l \in Int /\ 10 * l \in Int /\ Section \in Int
      BY <1>1
    <3>2. /\ Ratio(l, Section) \subseteq Int /\ \A v, w \in Ratio(l, Section) : v = w
          /\ Ratio(10 * l, Section) \subseteq Int /\ \A v, w \in Ratio(10 * l, Section) : v = w
      BY <3>1, RatioFacts
    <3>3. \A net \in Ratio(10 * l, Section) : RoundHalfUp(net, 10) \in Int
      BY <3>2, RoundInt
    <3> QED BY <3>2, <3>3 DEF Stress
  <2>3. result \subseteq Int
    BY <2>1, <2>2
  <2>4. \A v, w \in result : v = w
    BY <1>1, <2>1, <2>2
  <2> QED BY <2>1, <2>3, <2>4 DEF row, GoodResult
<1>3. CASE data.kind = "SIEVE_ANALYSIS"
  <2>1. result = UNION {PercentRetained(m) : m \in row.value}
    BY <1>3 DEF Result, Compression
  <2>2. ASSUME NEW m \in row.value
        PROVE  /\ PercentRetained(m) \subseteq Int /\ \A v, w \in PercentRetained(m) : v = w
               /\ \A v \in PercentRetained(m) :
                    data.total # 0 /\ v = RoundHalfUp(1000 * m, data.total)
    <3>1. 1000 * m \in Int /\ data.total \in Int
      BY <1>1
    <3> QED BY <3>1, RatioFacts DEF PercentRetained
  <2>3. result \subseteq Int
    BY <2>1, <2>2
  <2>4. \A v, w \in result : v = w
    BY <1>1, <2>1, <2>2
  <2>5. \A p \in result :
          data.total # 0 /\ \E m \in row.value : p = RoundHalfUp(1000 * m, data.total)
    BY <2>1, <2>2
  <2> QED BY <2>3, <2>4, <2>5 DEF row, GoodResult
<1>4. CASE data.kind = "WATER_CONTENT"
  <2> DEFINE Water(dry) == Ratio(1000 * (data.total - dry), dry - row.tare)
  <2>1. result = UNION {Water(dry) : dry \in row.value} /\ data.kind # "SIEVE_ANALYSIS"
    BY <1>4 DEF Result, Compression, PercentWater
  <2>2. ASSUME NEW dry \in row.value
        PROVE  Water(dry) \subseteq Int /\ \A v, w \in Water(dry) : v = w
    <3>1. 1000 * (data.total - dry) \in Int /\ dry - row.tare \in Int
      BY <1>1
    <3> QED BY <3>1, RatioFacts
  <2> HIDE DEF Water
  <2>3. result \subseteq Int
    BY <2>1, <2>2
  <2>4. \A v, w \in result : v = w
    BY <1>1, <2>1, <2>2
  <2> QED BY <2>1, <2>3, <2>4 DEF row, GoodResult
<1> QED BY <1>1, <1>2, <1>3, <1>4

LEMMA RunInitHolds == RunInit => RunInv
<1> SUFFICES ASSUME RunInit PROVE RunInv
  OBVIOUS
<1>1. RunTypeInv
  BY DEF RunInit, RunTypeInv
<1>2. CountInv
  BY DEF RunInit, CountInv, MostExclusions, MaxIterativePasses
<1> QED BY <1>1, <1>2 DEF RunInit, RunInv, ResultsInv, MeanInv, JustifiedInv, RulesInv

LEMMA ComputeKeeps == ASSUME RunInv, ComputeLevel PROVE RunInv'
<1>1. RunTypeInv'
  BY DEF RunInv, RunTypeInv, ComputeLevel
<1>2. ResultsInv'
  <2>1. ASSUME NEW i \in DOMAIN data.rows
        PROVE  computed'[i] = {} \/ computed'[i] = Result(data.rows[i])
    BY DEF ComputeLevel
  <2> HIDE DEF Result
  <2>2. data' = data
    BY DEF ComputeLevel
  <2> SUFFICES ASSUME NEW i \in DOMAIN data.rows PROVE GoodResult(i, computed'[i])
    BY <2>2 DEF ResultsInv, GoodResult
  <2>3. CASE computed'[i] = {}
    BY <2>3 DEF GoodResult
  <2>4. CASE computed'[i] = Result(data.rows[i])
    <3>1. GoodResult(i, Result(data.rows[i]))
      BY ResultFacts DEF RunInv
    <3> QED BY <2>4, <3>1
  <2> QED BY <2>1, <2>3, <2>4
<1>3. CountInv' /\ exclusions' = <<>>
  BY DEF RunInv, CountInv, MostExclusions, ComputeLevel
<1>4. MeanInv' /\ RulesInv'
  BY DEF ComputeLevel, MeanInv, RulesInv
<1>5. JustifiedInv'
  BY <1>3 DEF JustifiedInv
<1> QED BY <1>1, <1>2, <1>3, <1>4, <1>5 DEF RunInv

LEMMA AggregatesKeep == ASSUME RunInv, ComputeAggregates PROVE RunInv'
<1>1. /\ phase = "aggregate" /\ phase' = "rules" /\ mean' = Aggregates
      /\ UNCHANGED <<data, computed, exclusions, rule, pass, flags, blocks>>
      /\ data.kind # "SIEVE_ANALYSIS" /\ mean' = {} => problem'
  BY DEF ComputeAggregates
<1>2. mean' \subseteq Int
  <2>1. IsFiniteSet(Active) /\ \A i \in Active : computed[i] \subseteq Int
    BY <1>1, ActiveFacts DEF RunInv, ResultsInv, GoodResult
  <2> QED BY <1>1, <2>1, AverageIsInt DEF Aggregates, Average
<1>3. RunTypeInv'
  BY <1>1, <1>2 DEF RunInv, RunTypeInv
<1>4. ResultsInv'
  BY <1>1 DEF RunInv, ResultsInv, GoodResult
<1>5. MeanInv' /\ JustifiedInv'
  BY <1>1, SameRows DEF RunInv, MeanInv
<1>6. CountInv'
  BY <1>1 DEF RunInv, CountInv, MostExclusions
<1>7. RulesInv'
  <2>1. exclusions' = <<>> => rule' = 1
    BY <1>1 DEF RunInv, CountInv
  <2> QED BY <2>1 DEF RulesInv
<1> QED BY <1>3, <1>4, <1>5, <1>6, <1>7 DEF RunInv

\* A rule that excludes nothing.
Passed == RuleFails \/ RuleSilent \/ RuleFlags \/ RuleBlocks

LEMMA RuleIs ==
  ASSUME RunTypeInv, Applying
  PROVE  /\ rule = 1 \/ rule = 2
         /\ data.kind \in Compression =>
              /\ rule = 1 => Rules[rule] = "SINGLE_OUTLIER"
              /\ rule = 2 => Rules[rule] = "MULTI_OUTLIER"
         /\ data.kind = "SIEVE_ANALYSIS" =>
              /\ rule = 1 => Rules[rule] = "SERIES_MONOTONIC"
              /\ rule = 2 => Rules[rule] = "SERIES_MASS"
         /\ data.kind = "WATER_CONTENT" => rule = 1 /\ Rules[rule] = "DRY_NET_POSITIVE"
<1>1. data.kind \in Compression \cup {"SIEVE_ANALYSIS", "WATER_CONTENT"} /\ rule \in Nat \ {0}
  BY InputFacts DEF RunTypeInv
<1>2. CASE data.kind \in Compression
  <2>1. Rules = <<"SINGLE_OUTLIER", "MULTI_OUTLIER">>
    BY <1>2 DEF Rules, Compression
  <2> QED BY <1>1, <1>2, <2>1 DEF Applying, Compression
<1>3. CASE data.kind = "SIEVE_ANALYSIS"
  <2>1. Rules = <<"SERIES_MONOTONIC", "SERIES_MASS">>
    BY <1>3 DEF Rules, Compression
  <2> QED BY <1>1, <1>3, <2>1 DEF Applying, Compression
<1>4. CASE data.kind = "WATER_CONTENT"
  <2>1. Rules = <<"DRY_NET_POSITIVE">>
    BY <1>4 DEF Rules, Compression
  <2> QED BY <1>1, <1>4, <2>1 DEF Applying, Compression
<1> QED BY <1>1, <1>2, <1>3, <1>4

\* A rule that leaves the run unblocked and excludes nothing has found nothing, or flags.
LEMMA RuleFound ==
  ASSUME RunInv, Passed, exclusions = <<>>, ~Blocked'
  PROVE  /\ data.kind \in Compression =>
              /\ rule = 1 => Cardinality(Outliers) # 1
              /\ rule = 2 /\ flags' = {} => ~(Cardinality(Outliers) >= 2)
         /\ data.kind = "SIEVE_ANALYSIS" =>
              /\ \A i \in DOMAIN data.rows : data.rows[i].value # {}
              /\ rule = 1 =>
                   \A i, j \in DOMAIN data.rows : i + 1 = j =>
                     \A v \in data.rows[i].value, w \in data.rows[j].value : v <= w
              /\ rule = 2 =>
                   \A i \in DOMAIN data.rows : \A v \in data.rows[i].value : v <= data.total
         /\ data.kind = "WATER_CONTENT" =>
              \A i \in DOMAIN data.rows : \A net \in DryNet(data.rows[i]) : net > 0
<1>1. /\ Applying /\ ~Fails /\ RunTypeInv
      /\ ~Fires \/ (Rules[rule] = "MULTI_OUTLIER" /\ flags' = flags \cup {Rules[rule]})
  BY DEF Passed, RuleFails, RuleSilent, RuleFlags, RuleBlocks, Blocked, RunInv
<1>2. CASE data.kind \in Compression
  <2>1. data.kind # "SIEVE_ANALYSIS" /\ data.kind # "WATER_CONTENT"
    BY <1>2 DEF Compression
  <2>2. rule = 1 => Cardinality(Outliers) # 1
    BY <1>1, <1>2, RuleIs DEF Fires
  <2>3. rule = 2 /\ flags' = {} => ~(Cardinality(Outliers) >= 2)
    BY <1>1, <1>2, RuleIs DEF Fires, Several
  <2> QED BY <2>1, <2>2, <2>3
<1>3. CASE data.kind = "SIEVE_ANALYSIS"
  <2>1. Active = DOMAIN data.rows
    BY <1>3 DEF Active, Compression
  <2>2. \A i \in DOMAIN data.rows : data.rows[i].value # {}
    BY <1>1, <1>3, <2>1 DEF Fails, Compression
  <2> DEFINE value(i) == CHOOSE v \in data.rows[i].value : TRUE
  <2>3. \A i \in DOMAIN data.rows : \A v \in data.rows[i].value : v = value(i) /\ v \in Nat
    <3> SUFFICES ASSUME NEW i \in DOMAIN data.rows, NEW v \in data.rows[i].value
                 PROVE  v = value(i) /\ v \in Nat
      OBVIOUS
    <3>1. /\ \A w, u \in data.rows[i].value : w = u
          /\ data.rows[i].value \subseteq Nat
      BY <1>1, InputFacts
    <3>2. value(i) \in data.rows[i].value
      OBVIOUS
    <3> QED BY <3>1, <3>2
  <2>4. /\ rule = 1 => ~\E i, j \in Active : i + 1 = j /\ value(i) > value(j)
        /\ rule = 2 => ~\E i \in Active : value(i) > data.total
    BY <1>1, <1>3, RuleIs DEF Fires, Compression
  <2> HIDE DEF value
  <2>5. data.total \in Nat
    BY <1>1, InputFacts
  <2>6. data.kind \notin Compression /\ data.kind # "WATER_CONTENT"
    BY <1>3 DEF Compression
  <2>7. rule = 1 => \A i, j \in DOMAIN data.rows : i + 1 = j =>
                      \A v \in data.rows[i].value, w \in data.rows[j].value : v <= w
    BY <2>1, <2>3, <2>4
  <2>8. rule = 2 => \A i \in DOMAIN data.rows : \A v \in data.rows[i].value : v <= data.total
    BY <2>1, <2>3, <2>4, <2>5
  <2> QED BY <2>2, <2>6, <2>7, <2>8
<1>4. CASE data.kind = "WATER_CONTENT"
  <2>1. Active = DOMAIN data.rows
    BY <1>4 DEF Active, Compression
  <2>2. ~Fires
    BY <1>1, <1>4, RuleIs
  <2>3. ~\E i \in Active : \E net \in DryNet(data.rows[i]) : net <= 0
    BY <1>1, <1>4, <2>2, RuleIs DEF Fires, Compression
  <2>4. \A i \in DOMAIN data.rows : DryNet(data.rows[i]) \subseteq Int
    BY <1>1, InputFacts DEF DryNet
  <2>5. data.kind \notin Compression /\ data.kind # "SIEVE_ANALYSIS"
    BY <1>4 DEF Compression
  <2>6. ASSUME NEW i \in DOMAIN data.rows, NEW net \in DryNet(data.rows[i]) PROVE net > 0
    <3>1. net \in Int /\ ~(net <= 0)
      BY <2>1, <2>3, <2>4
    <3> QED BY <3>1
  <2> QED BY <2>5, <2>6
<1> QED BY <1>1, <1>2, <1>3, <1>4, InputFacts

LEMMA PassedKeeps == ASSUME RunInv, Passed PROVE RunInv'
<1>1. /\ Applying /\ rule' = rule + 1 /\ pass' = 1 /\ phase = "rules" /\ phase' = "rules"
      /\ UNCHANGED <<data, computed, mean, exclusions>>
      /\ problem => problem'
      /\ blocks \subseteq blocks' /\ flags \subseteq flags'
  <2>1. CASE RuleFails
    BY <2>1 DEF RuleFails, NextRule, Applying
  <2>2. CASE RuleSilent
    BY <2>2 DEF RuleSilent, NextRule, Applying
  <2>3. CASE RuleFlags
    BY <2>3 DEF RuleFlags, NextRule, Applying
  <2>4. CASE RuleBlocks
    BY <2>4 DEF RuleBlocks, NextRule, Applying
  <2> QED BY <2>1, <2>2, <2>3, <2>4 DEF Passed
<1>2. RunTypeInv' /\ CountInv'
  BY <1>1 DEF RunInv, RunTypeInv, CountInv, MostExclusions
<1>3. ResultsInv'
  BY <1>1 DEF RunInv, ResultsInv, GoodResult
<1>4. MeanInv' /\ JustifiedInv'
  BY <1>1, SameRows DEF RunInv, MeanInv
<1>5. RulesInv'
  <2> SUFFICES ASSUME exclusions = <<>>, ~Blocked' PROVE RulesInv'
    BY <1>1 DEF RulesInv
  <2>1. ~Blocked /\ (flags' = {} => flags = {})
    <3>1. ~problem' /\ blocks' = {}
      BY Zenon DEF Blocked
    <3>2. ~problem
      BY <1>1, <3>1, Zenon
    <3>3. blocks = {} /\ (flags' = {} => flags = {})
      BY <1>1, <3>1
    <3> QED BY <3>2, <3>3, Zenon DEF Blocked
  <2>2. Outliers' = Outliers
    BY <1>1, SameRows
  <2>3. rule \in Nat \ {0} /\ (rule = 1 \/ rule = 2)
    BY <1>1, RuleIs DEF RunInv, RunTypeInv
  <2>4. CASE data.kind \in Compression
    <3>1. data.kind # "SIEVE_ANALYSIS" /\ data.kind # "WATER_CONTENT"
      BY <2>4 DEF Compression
    <3>2. Cardinality(Outliers) # 1
      BY <1>1, <2>1, <2>3, <2>4, RuleFound DEF RunInv, RulesInv
    <3>3. rule = 2 /\ flags' = {} => ~(Cardinality(Outliers) >= 2)
      BY <2>4, RuleFound
    <3> QED BY <1>1, <2>2, <2>3, <3>1, <3>2, <3>3 DEF RulesInv
  <2>5. CASE data.kind = "SIEVE_ANALYSIS"
    <3>1. data.kind \notin Compression /\ data.kind # "WATER_CONTENT"
      BY <2>5 DEF Compression
    <3>2. /\ \A j \in DOMAIN data.rows : data.rows[j].value # {}
          /\ \A j, k \in DOMAIN data.rows : j + 1 = k =>
               \A v \in data.rows[j].value, w \in data.rows[k].value : v <= w
      BY <1>1, <2>1, <2>3, <2>5, RuleFound DEF RunInv, RulesInv
    <3>3. rule = 2 => \A j \in DOMAIN data.rows : \A v \in data.rows[j].value : v <= data.total
      BY <2>5, RuleFound
    <3> QED BY <1>1, <2>3, <3>1, <3>2, <3>3 DEF RulesInv
  <2>6. CASE data.kind = "WATER_CONTENT"
    <3>1. data.kind \notin Compression /\ data.kind # "SIEVE_ANALYSIS"
      BY <2>6 DEF Compression
    <3>2. \A j \in DOMAIN data.rows : \A net \in DryNet(data.rows[j]) : net > 0
      BY <2>6, RuleFound
    <3> QED BY <1>1, <3>1, <3>2 DEF RulesInv, DryNet
  <2> QED BY <2>4, <2>5, <2>6, InputFacts DEF RunInv
<1> QED BY <1>2, <1>3, <1>4, <1>5 DEF RunInv

\* The only outlier is the weakest of the specimens left, and not the last of them.
LEMMA OnlyOutlier ==
  ASSUME RunInv, RuleExcludes
  PROVE  Outliers = {ArgMin} /\ Active # {ArgMin}
<1>1. /\ Applying /\ ~Fails /\ Fires /\ Rules[rule] = "SINGLE_OUTLIER" /\ RunTypeInv
      /\ phase = "rules"
  BY DEF RuleExcludes, Applying, RunInv
<1>2. data.kind \in Compression /\ data.kind # "SIEVE_ANALYSIS"
  BY <1>1, RuleIs, InputFacts DEF Compression
<1>3. Cardinality(Outliers) = 1
  BY <1>1 DEF Fires
<1>4. PICK o : Outliers = {o}
  BY <1>3, ActiveFacts, <1>1, FS_Singleton
<1>5. o \in Active /\ \A i \in Active : i \in DOMAIN data.rows /\ i \in Nat
  BY <1>1, <1>4, ActiveFacts, InputFacts
<1>6. \A i \in Active : /\ computed[i] # {} /\ computed[i] \subseteq Int
                         /\ \A v, w \in computed[i] : v = w
  <2>1. \A i \in DOMAIN data.rows : GoodResult(i, computed[i])
    BY <1>1 DEF RunInv, ResultsInv
  <2>2. \A i \in Active : computed[i] # {}
    <3>1. data.kind # "WATER_CONTENT"
      BY <1>2 DEF Compression
    <3> QED BY <1>1, <1>2, <3>1 DEF Fails
  <2> QED BY <1>5, <2>1, <2>2 DEF GoodResult
<1>7. mean \subseteq Int /\ mean = Average(Active)
  BY <1>1, <1>2 DEF RunInv, RunTypeInv, MeanInv, Aggregates
<1>8. PICK m \in mean, v \in computed[o] : m - v >= Threshold
  BY <1>4 DEF Outliers
<1>9. \A i \in Active \ {o} : \A w \in computed[i] : ~(m - w >= Threshold)
  BY <1>4, <1>8 DEF Outliers
<1>10. m \in Int /\ v \in Int /\ (\A w \in computed[o] : w = v) /\ Threshold \in Int
  BY <1>5, <1>6, <1>7, <1>8 DEF Threshold
<1> DEFINE Weakest(i) == \A j \in Active : \A u \in computed[i], w \in computed[j] :
                           u < w \/ (u = w /\ i <= j)
<1>11. \A i \in Active \ {o} : \A w \in computed[i] : w \in Int /\ v < w
  BY <1>6, <1>8, <1>9, <1>10
<1>12. Weakest(o)
  <2> SUFFICES ASSUME NEW j \in Active, NEW u \in computed[o], NEW w \in computed[j]
               PROVE  u < w \/ (u = w /\ o <= j)
    OBVIOUS
  <2>1. CASE j = o
    BY <1>5, <1>10, <2>1
  <2>2. CASE j # o
    BY <1>10, <1>11, <2>2
  <2> QED BY <2>1, <2>2
<1>13. ASSUME NEW i \in Active, i # o PROVE ~Weakest(i)
  <2>1. PICK u \in computed[i] : TRUE
    BY <1>6
  <2>2. u \in Int /\ v < u /\ v \in computed[o]
    BY <1>8, <1>11, <1>13
  <2> QED BY <1>5, <1>10, <2>2
<1>14. ArgMin = o
  <2>1. ArgMin = CHOOSE i \in Active : Weakest(i)
    BY DEF ArgMin
  <2> HIDE DEF Weakest
  <2> QED BY <1>5, <1>12, <1>13, <2>1
<1>15. Active # {o}
  <2> SUFFICES ASSUME Active = {o} PROVE FALSE
    OBVIOUS
  <2>1. computed[o] = {v}
    BY <1>8, <1>10
  <2>2. mean = {v}
    BY <1>7, <1>10, <2>1, MeanOfOne DEF Average
  <2> QED BY <1>8, <1>10, <2>2 DEF Threshold
<1> QED BY <1>4, <1>14, <1>15

LEMMA ExcludesKeep == ASSUME RunInv, RuleExcludes PROVE RunInv'
<1> DEFINE e == [row |-> ArgMin, mean |-> mean]
           n == Len(exclusions) + 1
<1>1. /\ Applying /\ Rules[rule] = "SINGLE_OUTLIER" /\ exclusions' = Append(exclusions, e)
      /\ phase = "rules" /\ phase' = "aggregate"
      /\ UNCHANGED <<data, computed, mean, flags, blocks, problem>>
      /\ IF pass < Passes THEN pass' = pass + 1 /\ rule' = rule ELSE rule' = rule + 1 /\ pass' = 1
      /\ RunTypeInv
  BY DEF RuleExcludes, Applying, RunInv
<1>2. /\ data.kind \in Compression /\ data.kind # "SIEVE_ANALYSIS" /\ rule = 1
      /\ Passes = MostExclusions
  BY <1>1, RuleIs, InputFacts DEF Compression, Passes, MostExclusions
<1>3. /\ Outliers = {ArgMin} /\ Active # {ArgMin} /\ ArgMin \in Active
      /\ ArgMin \in DOMAIN data.rows
  BY <1>1, OnlyOutlier, ActiveFacts
<1>4. /\ e \in [row : DOMAIN data.rows, mean : SUBSET Int] /\ e.row = ArgMin /\ e.mean = mean
      /\ mean = Average(Active)
  BY <1>1, <1>2, <1>3 DEF RunTypeInv, RunInv, MeanInv, Aggregates
<1>5. /\ exclusions \in Seq([row : DOMAIN data.rows, mean : SUBSET Int])
      /\ exclusions' \in Seq([row : DOMAIN data.rows, mean : SUBSET Int])
      /\ Len(exclusions) \in Nat /\ Len(exclusions') = n
      /\ DOMAIN exclusions = 1..Len(exclusions) /\ DOMAIN exclusions' = 1..n
      /\ exclusions'[n] = e /\ \A k \in 1..Len(exclusions) : exclusions'[k] = exclusions[k]
      /\ exclusions' # <<>>
  <2>1. exclusions \in Seq([row : DOMAIN data.rows, mean : SUBSET Int])
    BY <1>1 DEF RunTypeInv
  <2> HIDE DEF e
  <2> QED BY <1>1, <1>4, <2>1
<1> HIDE DEF e
<1>6. RunTypeInv'
  BY <1>1, <1>5 DEF RunTypeInv
<1>7. CountInv'
  <2>1. /\ pass \in Nat \ {0} /\ Len(exclusions) = pass - 1 /\ pass <= MostExclusions
        /\ MostExclusions' = MostExclusions /\ MostExclusions \in Nat
    BY <1>1, <1>2 DEF RunInv, CountInv, RunTypeInv, MostExclusions, MaxIterativePasses
  <2> HIDE DEF MostExclusions
  <2> QED BY <1>1, <1>2, <1>5, <2>1 DEF CountInv
<1>8. ResultsInv'
  BY <1>1 DEF RunInv, ResultsInv, GoodResult
<1>9. MeanInv' /\ RulesInv'
  BY <1>1 DEF MeanInv, RulesInv
<1>10. JustifiedInv'
  <2>1. ASSUME NEW k \in 1..n PROVE Before(k)' = Before(k)
    <3>1. \A j \in 1..(k - 1) : exclusions'[j] = exclusions[j]
      BY <1>5
    <3>2. {exclusions'[j].row : j \in 1..(k - 1)} = {exclusions[j].row : j \in 1..(k - 1)}
      BY <3>1
    <3> QED BY <1>1, <3>2 DEF Before
  <2>2. Before(n) = Active
    <3>1. Excluded = {exclusions[j].row : j \in 1..(n - 1)}
      BY <1>5 DEF Excluded
    <3> QED BY <1>2, <3>1 DEF Before, Active
  <2>3. ASSUME NEW k \in 1..n
        PROVE  exclusions'[k].mean = Average(Before(k)) /\ Far(k)' = {exclusions'[k].row}
    <3>1. CASE k = n
      <4>1. Far(k)' = Outliers
        BY <1>1, <1>4, <1>5, <2>1, <2>2, <3>1 DEF Far, Outliers
      <4> QED BY <1>3, <1>4, <1>5, <2>2, <3>1, <4>1
    <3>2. CASE k # n
      <4>1. k \in 1..Len(exclusions) /\ exclusions'[k] = exclusions[k]
        BY <1>5, <3>2
      <4>2. Far(k)' = Far(k)
        BY <1>1, <2>1, <4>1 DEF Far
      <4>3. exclusions[k].mean = Average(Before(k)) /\ Far(k) = {exclusions[k].row}
        BY <1>5, <4>1 DEF RunInv, JustifiedInv
      <4> QED BY <4>1, <4>2, <4>3
    <3> QED BY <3>1, <3>2
  <2>4. ASSUME NEW k \in 1..n PROVE Average(Before(k))' = Average(Before(k))
    BY <1>1, <2>1 DEF Average
  <2>5. Active' # {}
    <3>1. PICK i \in Active : i # ArgMin
      BY <1>3
    <3>2. i \notin Excluded'
      <4>1. i \notin Excluded /\ i \in DOMAIN data.rows /\ data.rows[i].ok
        BY <1>2, <3>1 DEF Active
      <4>2. \A k \in 1..n : exclusions'[k].row # i
        BY <1>4, <1>5, <3>1, <4>1 DEF Excluded
      <4> QED BY <1>5, <4>2 DEF Excluded
    <3> QED BY <1>1, <1>2, <3>1, <3>2 DEF Active
  <2> QED BY <1>5, <2>3, <2>4, <2>5 DEF JustifiedInv
<1> QED BY <1>6, <1>7, <1>8, <1>9, <1>10 DEF RunInv

LEMMA RunStutterKeeps == ASSUME RunInv, UNCHANGED runVars PROVE RunInv'
<1>1. /\ UNCHANGED <<data, computed, exclusions>> /\ mean' = mean /\ Outliers' = Outliers
      /\ (Blocked' <=> Blocked) /\ UNCHANGED <<phase, rule, pass, flags, problem>>
  BY SameRows DEF runVars, Blocked
<1>2. RunTypeInv' /\ CountInv'
  BY <1>1 DEF RunInv, RunTypeInv, CountInv, MostExclusions
<1>3. ResultsInv'
  BY <1>1 DEF RunInv, ResultsInv, GoodResult
<1>4. MeanInv' /\ JustifiedInv'
  BY <1>1, SameRows DEF RunInv, MeanInv
<1>5. RulesInv'
  BY <1>1 DEF RunInv, RulesInv, DryNet
<1> QED BY <1>2, <1>3, <1>4, <1>5 DEF RunInv

LEMMA RunNextKeeps == RunInv /\ [RunNext]_runVars => RunInv'
  BY ComputeKeeps, AggregatesKeep, PassedKeeps, ExcludesKeep, RunStutterKeeps
     DEF RunNext, Passed, Done

LEMMA RunInvariant == RunSpec => []RunInv
<1> QED BY RunInitHolds, RunNextKeeps, PTL DEF RunSpec

\* A specimen is excluded only while it alone is far below the mean of those left, itself among
\* them; something is always left, and only an iterative rule cascades: for any number of
\* specimens and any loads.
THEOREM OnlyOutliersAreExcluded == RunSpec => []ExclusionsAreJustified
<1>1. RunInv => ExclusionsAreJustified
  BY DEF RunInv, JustifiedInv, CountInv, MostExclusions, Before, Far, ExclusionsAreJustified
<1> QED BY <1>1, RunInvariant, PTL

-----------------------------------------------------------------------------
(* A result that can be signed.                                            *)

LEMMA AllRulesApplied ==
  ASSUME RunInv, Finished
  PROVE  /\ rule > 1
         /\ data.kind \in Compression \cup {"SIEVE_ANALYSIS"} => rule > 2
<1>1. data.kind \in Compression \cup {"SIEVE_ANALYSIS", "WATER_CONTENT"} /\ rule \in Nat
  BY InputFacts DEF RunInv, RunTypeInv
<1>2. CASE data.kind \in Compression
  <2>1. Rules = <<"SINGLE_OUTLIER", "MULTI_OUTLIER">>
    BY <1>2 DEF Rules, Compression
  <2> QED BY <1>1, <2>1 DEF Finished
<1>3. CASE data.kind = "SIEVE_ANALYSIS"
  <2>1. Rules = <<"SERIES_MONOTONIC", "SERIES_MASS">>
    BY <1>3 DEF Rules, Compression
  <2> QED BY <1>1, <2>1 DEF Finished
<1>4. CASE data.kind = "WATER_CONTENT"
  <2>1. Rules = <<"DRY_NET_POSITIVE">>
    BY <1>4 DEF Rules, Compression
  <2> QED BY <1>1, <1>4, <2>1 DEF Finished, Compression
<1> QED BY <1>1, <1>2, <1>3, <1>4

LEMMA TrustedSpecimens ==
  ASSUME RunInv, Finished, ~Blocked, data.kind \in Compression
  PROVE  /\ mean = Average(Active) /\ mean # {}
         /\ Outliers # {} => flags # {} \/ exclusions # <<>>
<1>1. data.kind # "SIEVE_ANALYSIS" /\ phase = "rules" /\ rule > 2 /\ rule > 1
  BY AllRulesApplied DEF Compression, Finished
<1>2. mean = Average(Active)
  BY <1>1 DEF RunInv, MeanInv, Aggregates
<1>3. mean # {}
  BY <1>1 DEF RunInv, MeanInv, Blocked
<1>4. ASSUME exclusions = <<>>, flags = {} PROVE Outliers = {}
  <2>1. Cardinality(Outliers) # 1 /\ ~(Cardinality(Outliers) >= 2)
    BY <1>1, <1>4 DEF RunInv, RulesInv
  <2>2. IsFiniteSet(Outliers)
    BY ActiveFacts DEF RunInv
  <2>3. Cardinality(Outliers) \in Nat
    BY <2>2, FS_CardinalityType
  <2>4. Cardinality(Outliers) = 0
    BY <2>1, <2>3
  <2> QED BY <2>2, <2>4, FS_EmptySet
<1> QED BY <1>2, <1>3, <1>4

LEMMA TrustedPortions ==
  ASSUME RunInv, Finished, ~Blocked, data.kind = "WATER_CONTENT"
  PROVE  /\ mean = Average(DOMAIN data.rows) /\ mean # {}
         /\ \A i \in DOMAIN data.rows : \A net \in DryNet(data.rows[i]) : net > 0
<1>1. phase = "rules" /\ rule > 1 /\ data.kind \notin Compression /\ exclusions = <<>>
  BY AllRulesApplied DEF Compression, Finished, RunInv, CountInv
<1>2. mean = Average(DOMAIN data.rows)
  BY <1>1 DEF RunInv, MeanInv, Aggregates, Active
<1>3. mean # {}
  BY <1>1 DEF RunInv, MeanInv, Blocked
<1>4. \A i \in DOMAIN data.rows : \A net \in DryNet(data.rows[i]) : net > 0
  BY <1>1 DEF RunInv, RulesInv
<1> QED BY <1>2, <1>3, <1>4

\* The percentages follow the masses, which do not fall and stay within the total.
LEMMA TrustedSieves ==
  ASSUME RunInv, Finished, ~Blocked, data.kind = "SIEVE_ANALYSIS"
  PROVE  \A i, j \in DOMAIN data.rows : \A p \in computed[i], q \in computed[j] :
           /\ 0 <= p /\ p <= 1000
           /\ i < j => p <= q
<1>1. /\ phase = "rules" /\ rule > 1 /\ rule > 2 /\ data.kind \notin Compression
      /\ exclusions = <<>>
  BY AllRulesApplied DEF Compression, Finished, RunInv, CountInv
<1>2. /\ \A i \in DOMAIN data.rows : data.rows[i].value # {}
      /\ \A i, j \in DOMAIN data.rows : i + 1 = j =>
           \A v \in data.rows[i].value, w \in data.rows[j].value : v <= w
      /\ \A i \in DOMAIN data.rows : \A v \in data.rows[i].value : v <= data.total
  BY <1>1 DEF RunInv, RulesInv
<1>3. /\ data.total \in Nat /\ Len(data.rows) \in Nat /\ DOMAIN data.rows = 1..Len(data.rows)
      /\ \A i \in DOMAIN data.rows : data.rows[i].value \subseteq Nat
      /\ \A i \in DOMAIN data.rows : \A v, w \in data.rows[i].value : v = w
  BY InputFacts DEF RunInv
<1> DEFINE n == Len(data.rows)
           mass == [i \in 1..n |-> CHOOSE v \in data.rows[i].value : TRUE]
<1>4. \A i \in 1..n : mass[i] \in data.rows[i].value
  BY <1>2, <1>3
<1>5. mass \in [1..n -> Nat] /\ \A i \in 1..n : \A v \in data.rows[i].value : v = mass[i]
  BY <1>3, <1>4
<1> HIDE DEF mass
<1>6. \A i, j \in 1..n : i + 1 = j => mass[i] <= mass[j]
  BY <1>2, <1>3, <1>4
<1>7. \A i, j \in 1..n : i < j => mass[i] <= mass[j]
  BY <1>3, <1>5, <1>6, AdjacentIsMonotone
<1>8. ASSUME NEW i \in 1..n, NEW p \in computed[i]
      PROVE  data.total \in Nat \ {0} /\ p = RoundHalfUp(1000 * mass[i], data.total)
  <2>1. GoodResult(i, computed[i])
    BY <1>1, <1>3 DEF RunInv, ResultsInv
  <2>2. data.total # 0 /\ \E m \in data.rows[i].value : p = RoundHalfUp(1000 * m, data.total)
    BY <2>1, <1>8 DEF GoodResult
  <2> QED BY <2>2, <1>3, <1>5
<1> SUFFICES ASSUME NEW i \in 1..n, NEW j \in 1..n, NEW p \in computed[i], NEW q \in computed[j]
             PROVE  /\ 0 <= p /\ p <= 1000
                    /\ i < j => p <= q
  BY <1>3
<1> DEFINE first == 1000 * mass[i]
           second == 1000 * mass[j]
           whole == 1000 * data.total
<1>9. /\ data.total \in Nat \ {0} /\ p = RoundHalfUp(first, data.total)
      /\ q = RoundHalfUp(second, data.total)
  BY <1>8
<1>10. /\ first \in Nat /\ second \in Nat /\ whole \in Nat /\ first <= whole
       /\ i < j => first <= second
  <2>1. mass[i] \in Nat /\ mass[j] \in Nat /\ data.total \in Nat
    BY <1>3, <1>5
  <2>2. mass[i] <= data.total /\ (i < j => mass[i] <= mass[j])
    BY <1>2, <1>3, <1>4, <1>7
  <2>3. ASSUME NEW a \in Nat, NEW b \in Nat, a <= b
        PROVE  1000 * a \in Nat /\ 1000 * b \in Nat /\ 1000 * a <= 1000 * b
    BY <2>3
  <2> QED BY <2>1, <2>2, <2>3
<1>11. RoundHalfUp(whole, data.total) = 1000
  BY <1>9, RoundWhole
<1> HIDE DEF first, second, whole
<1>12. p \in Nat /\ p <= 1000
  <2>1. p \in Nat /\ RoundHalfUp(whole, data.total) \in Nat
    BY <1>9, <1>10, RoundNat
  <2>2. p <= RoundHalfUp(whole, data.total)
    BY <1>9, <1>10, RoundMonotone
  <2> QED BY <2>1, <2>2, <1>11
<1>13. i < j => p <= q
  BY <1>9, <1>10, RoundMonotone
<1> QED BY <1>12, <1>13

\* A result that is not blocked can be signed, whatever the number of specimens, sieves or
\* portions and the numbers entered: its mean is known and that of the rows left, nothing far
\* below it went unnoticed, and sieves let through from at most all to at least nothing.
THEOREM SignedResultsAreSound == RunSpec => []TrustedIsSound
<1>1. ASSUME RunInv PROVE TrustedIsSound
  <2>1. data.kind \in Compression \cup {"SIEVE_ANALYSIS", "WATER_CONTENT"}
    BY <1>1, InputFacts DEF RunInv
  <2>2. CASE data.kind \in Compression
    <3>1. data.kind # "SIEVE_ANALYSIS" /\ data.kind # "WATER_CONTENT"
      BY <2>2 DEF Compression
    <3>2. TrustedIsSound <=> (Finished /\ ~Blocked =>
            /\ mean = Average(Active) /\ mean # {}
            /\ Outliers # {} => flags # {} \/ exclusions # <<>>)
      BY <2>2, <3>1, Zenon DEF TrustedIsSound
    <3> QED BY <1>1, <2>2, <3>2, TrustedSpecimens
  <2>3. CASE data.kind = "WATER_CONTENT"
    BY <1>1, <2>3, TrustedPortions DEF TrustedIsSound, Compression
  <2>4. CASE data.kind = "SIEVE_ANALYSIS"
    BY <1>1, <2>4, TrustedSieves DEF TrustedIsSound, Compression
  <2> QED BY <2>1, <2>2, <2>3, <2>4
<1> QED BY <1>1, RunInvariant, PTL

=============================================================================
