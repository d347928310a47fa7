-------------------------------- MODULE Config --------------------------------
(***************************************************************************)
(* The administration of a tenant's configuration: concurrent requests to  *)
(* src/backend/mizan/apps/config/api.py (with services.py) and to the      *)
(* templates of apps/documents/api.py.  One section is looked at, chosen   *)
(* at the start: rows 1, 2, ... are the versions of one workflow,          *)
(* definition or template, the payment terms of one branch, the rows of    *)
(* one price list, or one coded entry.                                     *)
(*                                                                         *)
(* A request is a transaction under READ COMMITTED.  An ApiError or a      *)
(* ConcurrentUpdate becomes an answer inside it, so what the request has   *)
(* written outside an atomic block commits; an error of the database ends  *)
(* it with nothing written.  QuerySet.update() does not touch row_version. *)
(***************************************************************************)
EXTENDS Naturals, FiniteSets

CONSTANTS
  Request,   \* concurrent requests
  Section,   \* sections looked at
  MaxRows,   \* bound: rows of the section
  MaxSaves   \* bound: row_version of a row

Versioned == {"workflow", "definition", "template"}
Coded == {"vocabulary", "category", "service", "specimen_type", "sieve_set", "price_list",
          "tax_rule"}

ASSUME ConfigAssumption ==
  /\ Section \subseteq Versioned \cup Coded \cup {"terms", "prices"}
  /\ MaxRows \in Nat \ {0} /\ MaxSaves \in Nat \ {0}

VARIABLES
  section,
  rows,     \* committed rows
  audits,   \* committed audit events, each with its config.changed job, of the requests that
            \* saved each row
  pc, tx    \* what each request does next, and what it has read and written

vars == <<section, rows, audits, pc, tx>>

Rows  == 1..MaxRows
NoRow == [status |-> "none", rv |-> 0, sound |-> FALSE, default |-> FALSE]
Exists(i) == rows[i].status # "none"

\* op: the handler; row: the one it is about; copy: that row as loaded; others: rows that an
\* UPDATE has matched and not yet written; own: rows written, whose locks it holds.
Nothing == [i \in {} |-> NoRow]
NoTx == [op |-> "none", row |-> 1, copy |-> NoRow, others |-> {}, own |-> Nothing]
Held(r)    == DOMAIN tx[r].own
Free(r, i) == \A q \in Request \ {r} : i \notin Held(q)

Init ==
  /\ section \in Section
  /\ rows = [i \in Rows |-> NoRow]
  /\ audits = [i \in Rows |-> 0]
  /\ pc = [r \in Request |-> "idle"]
  /\ tx = [r \in Request |-> NoTx]

Begin(r, op, i, first) ==
  /\ pc[r] = "idle"
  /\ tx' = [tx EXCEPT ![r] = [NoTx EXCEPT !.op = op, !.row = i, !.copy = rows[i]]]
  /\ pc' = [pc EXCEPT ![r] = first]
  /\ UNCHANGED <<section, rows, audits>>

Go(r, step) == pc' = [pc EXCEPT ![r] = step]
Put(own, i, row) == [j \in DOMAIN own \cup {i} |-> IF j = i THEN row ELSE own[j]]
Write(r, i, row) == tx' = [tx EXCEPT ![r].own = Put(@, i, row)]

-----------------------------------------------------------------------------
(* The handlers, each up to its first write.                               *)

\* The next version's number is read first; a first version needs an unused code.
NextRow == 1 + Cardinality({i \in Rows : Exists(i)})

\* A new definition is validated before it is created.
CreateTestDefinition(r) ==
  section = "definition" /\ ~Exists(1) /\ Begin(r, "create", 1, "insert_sound")
NewTestDefinitionVersion(r) ==
  section = "definition" /\ NextRow \in Rows \ {1} /\ Begin(r, "version", NextRow, "insert_sound")

\* A clone is as its source is; the first version comes with the defaults.
InstallWorkflow(r) ==
  section = "workflow" /\ ~Exists(1) /\ Begin(r, "create", 1, "insert_sound")
NewWorkflowVersion(r) ==
  /\ section = "workflow" /\ NextRow \in Rows \ {1}
  /\ \E i \in Rows : /\ Exists(i)
                     /\ Begin(r, "version", NextRow, IF rows[i].sound THEN "insert_sound"
                                                     ELSE "insert_any")

CreateTemplate(r) ==
  section = "template" /\ ~Exists(1) /\ Begin(r, "create", 1, "insert_sound")
\* The version is created first and checked afterwards.
NewTemplateVersion(r) ==
  section = "template" /\ NextRow \in Rows \ {1} /\ Begin(r, "version", NextRow, "insert_any")

\* Activation of any version, valid as loaded.
ActivateTestDefinition(r) ==
  section = "definition" /\ \E i \in Rows : rows[i].sound /\ Begin(r, "activate", i, "scan")
ActivateWorkflow(r) ==
  section = "workflow" /\ \E i \in Rows : rows[i].sound /\ Begin(r, "activate", i, "scan")
\* Approval checks nothing.
ApproveTemplate(r) ==
  section = "template" /\ \E i \in Rows : Exists(i) /\ Begin(r, "approve", i, "scan")

\* The states and transitions of a version loaded as a draft are replaced.
PutWorkflowDefinition(r) ==
  /\ section = "workflow"
  /\ \E i \in Rows : rows[i].status = "draft" /\ Begin(r, "replace", i, "replace")

CreatePaymentTerms(r) ==
  /\ section = "terms"
  /\ \E i \in Rows : /\ ~Exists(i)
                     /\ \/ Begin(r, "create", i, "insert_sound")
                        \/ Begin(r, "create_default", i, "scan")
PatchPaymentTerms(r) ==
  section = "terms" /\ \E i \in Rows : Exists(i) /\ Begin(r, "patch", i, "save")
SetDefaultPaymentTerms(r) ==
  section = "terms" /\ \E i \in Rows : Exists(i) /\ Begin(r, "set_default", i, "scan")

\* The coded entries: one row, an unused code to create it.
CreateCoded(r) == ~Exists(1) /\ Begin(r, "create", 1, "insert_sound")
SaveCoded(r, op) == Exists(1) /\ Begin(r, op, 1, "save")

CreateVocabularyEntry(r) == section = "vocabulary" /\ CreateCoded(r)
PatchVocabularyEntry(r)  == section = "vocabulary" /\ SaveCoded(r, "patch")
RetireVocabularyEntry(r) == section = "vocabulary" /\ SaveCoded(r, "retire")
CreateCategory(r)        == section = "category" /\ CreateCoded(r)
CreateService(r)         == section = "service" /\ CreateCoded(r)
PatchService(r)          == section = "service" /\ SaveCoded(r, "patch")
RetireService(r)         == section = "service" /\ SaveCoded(r, "retire")
CreateSpecimenType(r)    == section = "specimen_type" /\ CreateCoded(r)
CreateSieveSet(r)        == section = "sieve_set" /\ CreateCoded(r)
CreatePriceList(r)       == section = "price_list" /\ CreateCoded(r)
CreateTaxRule(r)         == section = "tax_rule" /\ CreateCoded(r)
PatchTaxRule(r)          == section = "tax_rule" /\ SaveCoded(r, "patch")

ImportPrices(r) == section = "prices" /\ Begin(r, "import", 1, "import")

-----------------------------------------------------------------------------
(* The statements.                                                         *)

\* INSERT, under the unique constraints on versions and codes.
NewStatus == IF section \in Versioned THEN "draft" ELSE "active"

NewRow(r, ok) ==
  [status |-> NewStatus, rv |-> 1, sound |-> ok, default |-> tx[r].op = "create_default"]

Insert(r) ==
  LET i == tx[r].row
  IN /\ pc[r] \in {"insert_sound", "insert_any"}
     /\ ~Exists(i) /\ Free(r, i)
     /\ \E ok \in BOOLEAN : (pc[r] = "insert_sound" => ok) /\ Write(r, i, NewRow(r, ok))
     /\ Go(r, IF section = "template" /\ tx[r].op = "version" THEN "check" ELSE "commit")
     /\ UNCHANGED <<section, rows, audits>>

\* UPDATE of the version that is active, or the terms that are the default: those of the
\* statement's snapshot, ...
InForce(row) == IF section = "terms" THEN row.default ELSE row.status = "active"

Scan(r) ==
  /\ pc[r] = "scan"
  /\ tx' = [tx EXCEPT ![r].others =
       {i \in Rows : InForce(rows[i]) /\ (section # "terms" => i # tx[r].row)}]
  /\ Go(r, "clear")
  /\ UNCHANGED <<section, rows, audits>>

\* ... each of them once its lock is free and if it still qualifies.
Cleared(row) == IF section = "terms" THEN [row EXCEPT !.default = FALSE]
                ELSE [row EXCEPT !.status = "retired"]

Clear(r) ==
  /\ pc[r] = "clear"
  /\ \E i \in tx[r].others :
       /\ Free(r, i)
       /\ tx' = [tx EXCEPT ![r].others = @ \ {i},
                           ![r].own = IF InForce(rows[i]) THEN Put(@, i, Cleared(rows[i])) ELSE @]
  /\ UNCHANGED <<section, rows, audits, pc>>

Cleaned(r) ==
  /\ pc[r] = "clear" /\ tx[r].others = {}
  /\ Go(r, IF tx[r].op = "create_default" THEN "insert_sound" ELSE "save")
  /\ UNCHANGED <<section, rows, audits, tx>>

\* Mutant: save() without the condition on row_version.
FreshOrNot(r) == TRUE

\* _save_with_version_check(): the condition on row_version.
Fresh(r) == rows[tx[r].row].rv = tx[r].copy.rv

\* What save() writes: an activation its status, a PATCH every column of the copy.
Saved(r) ==
  LET current == IF tx[r].row \in Held(r) THEN tx[r].own[tx[r].row] ELSE rows[tx[r].row]
      copy == tx[r].copy
  IN CASE tx[r].op \in {"activate", "approve"} ->
            [current EXCEPT !.status = "active", !.rv = copy.rv + 1]
       [] tx[r].op = "set_default" -> [current EXCEPT !.default = TRUE, !.rv = copy.rv + 1]
       [] tx[r].op = "retire"      -> [current EXCEPT !.status = "retired", !.rv = copy.rv + 1]
       [] tx[r].op = "patch"       -> [copy EXCEPT !.rv = copy.rv + 1]

Save(r) ==
  /\ pc[r] = "save"
  /\ Free(r, tx[r].row) /\ Fresh(r) /\ tx[r].copy.rv < MaxSaves
  /\ Write(r, tx[r].row, Saved(r))
  /\ Go(r, "commit")
  /\ UNCHANGED <<section, rows, audits>>

\* replace_definition() writes the states and transitions, not the workflow's row.
Replace(r) ==
  /\ pc[r] = "replace"
  /\ \E sound \in BOOLEAN : tx' = [tx EXCEPT ![r].copy.sound = sound]
  /\ Go(r, "commit")
  /\ UNCHANGED <<section, rows, audits>>

\* import_prices(): every line of the file that is right updates or creates its row, so that
\* a row the file lists several times is saved as often.
Import(r) ==
  /\ pc[r] = "import"
  /\ \E file \in (SUBSET Rows) \ {{}}, right \in BOOLEAN : \E listed \in [file -> 1..MaxSaves] :
       /\ \A i \in file : Free(r, i) /\ rows[i].rv + listed[i] <= MaxSaves
       /\ tx' = [tx EXCEPT ![r].own = [i \in file |-> [NoRow EXCEPT !.status = "active",
                                                         !.rv = rows[i].rv + listed[i]]]]
       /\ Go(r, IF right THEN "commit" ELSE "refuse")
  /\ UNCHANGED <<section, rows, audits>>

-----------------------------------------------------------------------------
(* The ends of a request.                                                  *)

Written(own) == [i \in Rows |-> IF i \in DOMAIN own THEN own[i] ELSE rows[i]]

Leave(r) ==
  /\ pc' = [pc EXCEPT ![r] = "idle"]
  /\ tx' = [tx EXCEPT ![r] = NoTx]
  /\ UNCHANGED section

\* changed(), and the transaction commits.  An import has one event, however many rows it has
\* saved and however often; a replaced definition saves no row of the workflow.
Commit(r) ==
  LET about == IF section = "prices" THEN Held(r) ELSE {tx[r].row}
  IN /\ pc[r] = "commit"
     /\ rows' = IF tx[r].op = "replace"
                THEN [rows EXCEPT ![tx[r].row].sound = tx[r].copy.sound]
                ELSE Written(tx[r].own)
     /\ audits' = [i \in Rows |-> IF i \in about /\ tx[r].op # "replace" THEN audits[i] + 1
                                  ELSE audits[i]]
     /\ Leave(r)

\* _check_template() of a version that is already there.
CheckTemplate(r) ==
  /\ pc[r] = "check"
  /\ IF tx[r].own[tx[r].row].sound
       THEN Go(r, "commit") /\ UNCHANGED <<section, rows, audits, tx>>
       ELSE rows' = Written(tx[r].own) /\ UNCHANGED audits /\ Leave(r)

\* Mutant: the activations have no atomic block.
KeptAfterConflict(r) == tx[r].own

\* What a request that answers ConcurrentUpdate has written outside an atomic block.
Kept(r) == IF tx[r].op = "approve" THEN tx[r].own ELSE Nothing

\* save() meets another row_version: the answer is a conflict.
Conflict(r) ==
  /\ pc[r] = "save" /\ Free(r, tx[r].row) /\ ~Fresh(r)
  /\ rows' = Written(Kept(r))
  /\ UNCHANGED audits
  /\ Leave(r)

\* set_rollback(): a file with an unknown service or specimen type leaves nothing.
Refuse(r) ==
  /\ pc[r] = "refuse"
  /\ UNCHANGED <<rows, audits>>
  /\ Leave(r)

\* An error of the database, a deadlock or a crash.
RollBack(r) ==
  /\ pc[r] # "idle"
  /\ UNCHANGED <<rows, audits>>
  /\ Leave(r)

\* No request need come.
Quiet == (\A r \in Request : pc[r] = "idle") /\ UNCHANGED vars

-----------------------------------------------------------------------------
Versions(r) ==
  \/ CreateTestDefinition(r) \/ NewTestDefinitionVersion(r) \/ ActivateTestDefinition(r)
  \/ InstallWorkflow(r) \/ NewWorkflowVersion(r) \/ PutWorkflowDefinition(r) \/ ActivateWorkflow(r)
  \/ CreateTemplate(r) \/ NewTemplateVersion(r) \/ ApproveTemplate(r)

Entries(r) ==
  \/ CreatePaymentTerms(r) \/ PatchPaymentTerms(r) \/ SetDefaultPaymentTerms(r)
  \/ CreateVocabularyEntry(r) \/ PatchVocabularyEntry(r) \/ RetireVocabularyEntry(r)
  \/ CreateCategory(r) \/ CreateService(r) \/ PatchService(r) \/ RetireService(r)
  \/ CreateSpecimenType(r) \/ CreateSieveSet(r) \/ CreatePriceList(r)
  \/ CreateTaxRule(r) \/ PatchTaxRule(r) \/ ImportPrices(r)

Statement(r) == Insert(r) \/ Scan(r) \/ Clear(r) \/ Cleaned(r) \/ Save(r) \/ Replace(r) \/ Import(r)
End(r) == Commit(r) \/ CheckTemplate(r) \/ Conflict(r) \/ Refuse(r) \/ RollBack(r)

Next == (\E r \in Request : Versions(r) \/ Entries(r) \/ Statement(r) \/ End(r)) \/ Quiet

Spec == Init /\ [][Next]_vars

-----------------------------------------------------------------------------
\* Every row committed and every save of it has its one audit event and config.changed: no
\* save is lost to another that read the same row.  Prices have one event for each import, in
\* which a row may be saved several times: no row is there without an event, and no row has
\* more events than saves, as it would if the save of one import were lost to another.
\* (Templates are the exception: a version whose check fails is there without an event.)
AnnouncedOnce ==
  /\ section \notin {"template", "prices"} => \A i \in Rows : audits[i] = rows[i].rv
  /\ section = "prices" => \A i \in Rows : /\ audits[i] <= rows[i].rv
                                           /\ Exists(i) => audits[i] > 0

\* A workflow or definition that has an active version keeps one, a branch that has default
\* payment terms keeps some: the new one takes over in the transaction that retires the old.
SeriesStaysInForce ==
  [][(section \in {"workflow", "definition", "terms"} /\ \E i \in Rows : InForce(rows[i]))
       => \E i \in Rows : InForce(rows'[i])]_vars

\* What _check_template() says of itself: "a broken template never reaches approval".
BrokenNeverApproved ==
  section = "template" => \A i \in Rows : rows[i].status = "active" => rows[i].sound
=============================================================================
