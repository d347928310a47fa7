------------------------------ MODULE ConfigProofs ------------------------------
(***************************************************************************)
(* No save of a configuration row is lost, and a series in force stays in  *)
(* force, for any number of requests and rows.  The inductive invariant    *)
(* speaks of the rows a request has written and not committed: nobody else *)
(* has written them, and they are one row_version ahead of the table if    *)
(* save() wrote them (an import saves a row as often as its file lists     *)
(* it), and level with it if QuerySet.update() did.                        *)
(***************************************************************************)
EXTENDS Config, TLAPS

RowType == [status : {"none", "draft", "active", "retired"}, rv : Nat, sound : BOOLEAN,
            default : BOOLEAN]
Owns == UNION {[H -> RowType] : H \in SUBSET Rows}

Ops == {"create", "version", "activate", "approve", "replace", "create_default", "patch",
        "set_default", "retire", "import"}
Steps == {"scan", "clear", "insert_sound", "insert_any", "save", "check", "replace", "import",
          "refuse", "commit"}

TxType == [op : Ops \cup {"none"}, row : Rows, copy : RowType, others : SUBSET Rows, own : Owns]

ConfigTypeInv ==
  /\ section \in Versioned \cup Coded \cup {"terms", "prices"}
  /\ rows \in [Rows -> RowType]
  /\ audits \in [Rows -> Nat]
  /\ pc \in [Request -> Steps \cup {"idle"}]
  /\ tx \in [Request -> TxType]

\* The handlers of a section, and the statements of a handler.
OpsOf ==
  CASE section = "workflow"   -> {"create", "version", "activate", "replace"}
    [] section = "definition" -> {"create", "version", "activate"}
    [] section = "template"   -> {"create", "version", "approve"}
    [] section = "terms"      -> {"create", "create_default", "patch", "set_default"}
    [] section = "prices"     -> {"import"}
    [] OTHER                  -> {"create", "patch", "retire"}

StepsOf(op) ==
  CASE op = "create"         -> {"insert_sound", "commit"}
    [] op = "version"        -> {"insert_sound", "insert_any", "check", "commit"}
    [] op = "create_default" -> {"scan", "clear", "insert_sound", "commit"}
    [] op = "replace"        -> {"replace", "commit"}
    [] op = "import"         -> {"import", "refuse", "commit"}
    [] op \in {"patch", "retire"} -> {"save", "commit"}
    [] OTHER                 -> {"scan", "clear", "save", "commit"}

StepInv(r) ==
  /\ tx[r].op \in OpsOf /\ pc[r] \in StepsOf(tx[r].op)
  /\ pc[r] = "check" => section = "template"

\* The row as loaded: unless another save() has come since, it is in force if the row is.
CopyInv(r) ==
  LET row == rows[tx[r].row]
  IN /\ tx[r].copy.rv <= row.rv
     /\ tx[r].copy.rv = row.rv /\ row.default => tx[r].copy.default
     /\ tx[r].op \in {"activate", "approve", "set_default", "patch", "retire", "replace"} =>
          Exists(tx[r].row) /\ tx[r].copy.status # "none"

\* Rows that the request is about, and has written.
Done(r) == pc[r] \in {"check", "refuse", "commit"}
SavedRow(r, i) ==
  Done(r) /\ tx[r].op # "replace" /\ (i = tx[r].row \/ tx[r].op = "import")

OwnInv(r) ==
  /\ \A i \in Held(r) :
       LET own == tx[r].own[i]
       IN /\ own.status # "none"
          /\ SavedRow(r, i) => IF tx[r].op = "import" THEN own.rv > rows[i].rv
                                ELSE own.rv = rows[i].rv + 1
          /\ ~SavedRow(r, i) => own.rv = rows[i].rv
          /\ ~SavedRow(r, i) /\ own.default => rows[i].default
  /\ tx[r].op \in {"create", "version", "patch", "retire"} => Held(r) \subseteq {tx[r].row}

\* What a request that commits leaves.
CommitInv(r) ==
  LET i == tx[r].row
      own == tx[r].own[i]
  IN Done(r) /\ tx[r].op \notin {"replace", "import"} =>
       /\ i \in Held(r)
       /\ tx[r].op = "activate" => own.status = "active"
       /\ tx[r].op \in {"create_default", "set_default"} => own.default
       /\ tx[r].op \in {"create", "version"} => ~Exists(i)
       /\ tx[r].op = "patch" /\ rows[i].default => own.default

RequestInv(r) == pc[r] # "idle" => StepInv(r) /\ CopyInv(r) /\ OwnInv(r) /\ CommitInv(r)

\* A request that is idle holds nothing, and no two hold a row.
HeldInv ==
  /\ \A r \in Request : pc[r] = "idle" => Held(r) = {}
  /\ \A r, q \in Request : r # q => Held(r) \cap Held(q) = {}

NoRowInv == \A i \in Rows : rows[i].status = "none" => rows[i] = NoRow

IInv ==
  /\ ConfigTypeInv
  /\ NoRowInv
  /\ HeldInv
  /\ \A r \in Request : RequestInv(r)
  /\ AnnouncedOnce

-----------------------------------------------------------------------------
\* Rows written by a request.
LEMMA OwnFacts ==
  ASSUME NEW own
  PROVE  own \in Owns <=> /\ DOMAIN own \subseteq Rows
                          /\ own = [i \in DOMAIN own |-> own[i]]
                          /\ \A i \in DOMAIN own : own[i] \in RowType
<1>1. ASSUME own \in Owns
      PROVE  /\ DOMAIN own \subseteq Rows
             /\ own = [i \in DOMAIN own |-> own[i]]
             /\ \A i \in DOMAIN own : own[i] \in RowType
  BY <1>1 DEF Owns
<1>2. ASSUME DOMAIN own \subseteq Rows, own = [i \in DOMAIN own |-> own[i]],
             \A i \in DOMAIN own : own[i] \in RowType
      PROVE  own \in Owns
  <2>1. own \in [DOMAIN own -> RowType]
    BY <1>2
  <2> QED BY <1>2, <2>1 DEF Owns
<1> QED BY <1>1, <1>2

LEMMA WriteOwn ==
  ASSUME NEW own \in Owns, NEW i \in Rows, NEW row \in RowType
  PROVE  /\ Put(own, i, row) \in Owns
         /\ DOMAIN Put(own, i, row) = DOMAIN own \cup {i}
         /\ Put(own, i, row)[i] = row
         /\ \A j \in DOMAIN own \ {i} : Put(own, i, row)[j] = own[j]
<1> DEFINE new == Put(own, i, row)
<1>1. new = [j \in DOMAIN own \cup {i} |-> IF j = i THEN row ELSE own[j]]
  BY DEF Put
<1>2. /\ DOMAIN own \subseteq Rows
      /\ \A j \in DOMAIN own : own[j] \in RowType
  BY OwnFacts
<1>3. new \in Owns
  BY <1>1, <1>2, OwnFacts
<1> QED BY <1>1, <1>3

LEMMA NoTxType ==
  /\ NoRow \in RowType /\ Nothing \in Owns /\ DOMAIN Nothing = {} /\ NoTx.own = Nothing
  /\ NoTx \in TxType
<1>1. NoRow \in RowType
  BY DEF NoRow, RowType
<1>2. Nothing \in Owns /\ DOMAIN Nothing = {}
  BY OwnFacts DEF Nothing
<1>3. 1 \in Rows
  BY ConfigAssumption DEF Rows
<1> QED BY <1>1, <1>2, <1>3 DEF NoTx, TxType

\* What a request has read and written, after a part of it changes.
LEMMA TxParts ==
  ASSUME NEW t \in TxType
  PROVE  /\ t.op \in Ops \cup {"none"} /\ t.row \in Rows /\ t.copy \in RowType
         /\ t.others \in SUBSET Rows /\ t.own \in Owns
  BY DEF TxType

LEMMA TxOwn ==
  ASSUME NEW t \in TxType, NEW own \in Owns
  PROVE  LET new == [t EXCEPT !.own = own]
         IN /\ new \in TxType /\ new.op = t.op /\ new.row = t.row /\ new.copy = t.copy
            /\ new.others = t.others /\ new.own = own
  BY DEF TxType

LEMMA TxOthers ==
  ASSUME NEW t \in TxType, NEW others \in SUBSET Rows
  PROVE  LET new == [t EXCEPT !.others = others]
         IN /\ new \in TxType /\ new.op = t.op /\ new.row = t.row /\ new.copy = t.copy
            /\ new.own = t.own /\ new.others = others
  BY DEF TxType

LEMMA TxCopy ==
  ASSUME NEW t \in TxType, NEW copy \in RowType
  PROVE  LET new == [t EXCEPT !.copy = copy]
         IN /\ new \in TxType /\ new.op = t.op /\ new.row = t.row /\ new.copy = copy
            /\ new.own = t.own
  BY DEF TxType

LEMMA InitHolds == Init => IInv
<1> SUFFICES ASSUME Init PROVE IInv
  OBVIOUS
<1>1. ConfigTypeInv
  <2>1. section \in Versioned \cup Coded \cup {"terms", "prices"}
    BY ConfigAssumption DEF Init
  <2> QED BY <2>1, NoTxType DEF Init, ConfigTypeInv
<1>2. NoRowInv
  BY DEF Init, NoRowInv
<1>3. HeldInv
  BY NoTxType DEF Init, HeldInv, Held
<1>4. \A r \in Request : RequestInv(r)
  BY DEF Init, RequestInv
<1>5. AnnouncedOnce
  BY DEF Init, AnnouncedOnce, NoRow, Exists
<1> QED BY <1>1, <1>2, <1>3, <1>4, <1>5 DEF IInv

-----------------------------------------------------------------------------
(* Steps that leave the table alone.                                       *)

LEMMA StepKeeps ==
  ASSUME IInv, NEW r \in Request, UNCHANGED <<section, rows, audits>>,
         NEW step \in Steps, NEW t \in TxType,
         pc' = [pc EXCEPT ![r] = step], tx' = [tx EXCEPT ![r] = t],
         \A q \in Request \ {r} : DOMAIN t.own \cap Held(q) = {},
         RequestInv(r)'
  PROVE  IInv'
<1>1. /\ pc'[r] = step /\ tx'[r] = t
      /\ \A q \in Request \ {r} : pc'[q] = pc[q] /\ tx'[q] = tx[q]
  BY DEF IInv, ConfigTypeInv
<1>2. ConfigTypeInv' /\ NoRowInv' /\ AnnouncedOnce'
  BY DEF IInv, ConfigTypeInv, NoRowInv, AnnouncedOnce, Exists
<1>3. HeldInv'
  BY <1>1 DEF IInv, HeldInv, Held, Steps
<1>4. \A q \in Request \ {r} : RequestInv(q)'
  BY <1>1 DEF IInv, RequestInv, StepInv, OpsOf, CopyInv, Exists, OwnInv, Held, SavedRow, Done,
              CommitInv
<1> QED BY <1>2, <1>3, <1>4 DEF IInv

\* The operations that are about a row there is.
Loading == {"activate", "approve", "set_default", "patch", "retire", "replace"}

LEMMA BeginKeeps ==
  ASSUME IInv, NEW r \in Request, NEW op \in OpsOf \cap Ops, NEW i \in Rows,
         NEW first \in StepsOf(op) \ {"check", "refuse", "commit"},
         op \in Loading => Exists(i), Begin(r, op, i, first)
  PROVE  IInv'
<1> DEFINE t == [NoTx EXCEPT !.op = op, !.row = i, !.copy = rows[i]]
<1>1. rows[i] \in RowType
  BY DEF IInv, ConfigTypeInv
<1>2. /\ t \in TxType /\ t.op = op /\ t.row = i /\ t.copy = rows[i] /\ DOMAIN t.own = {}
  <2>1. NoTx \in TxType /\ DOMAIN NoTx.own = {} /\ op \in Ops
    BY NoTxType
  <2>2. t \in TxType /\ t.op = op /\ t.row = i /\ t.copy = rows[i] /\ t.own = NoTx.own
    BY <1>1, <2>1 DEF TxType
  <2> QED BY <2>1, <2>2
<1>3. first \in Steps
  BY DEF StepsOf, Steps
<1>4. /\ UNCHANGED <<section, rows, audits>>
      /\ pc' = [pc EXCEPT ![r] = first] /\ tx' = [tx EXCEPT ![r] = t]
  BY DEF Begin
<1> HIDE DEF t
<1>5. pc'[r] = first /\ tx'[r] = t
  BY <1>4 DEF IInv, ConfigTypeInv
<1>6. StepInv(r)'
  BY <1>2, <1>4, <1>5 DEF StepInv, OpsOf
<1>7. CopyInv(r)'
  BY <1>1, <1>2, <1>4, <1>5 DEF CopyInv, Exists, Loading, RowType
<1>8. OwnInv(r)' /\ CommitInv(r)'
  BY <1>2, <1>5 DEF OwnInv, CommitInv, Held, Done
<1> QED BY <1>2, <1>3, <1>4, <1>6, <1>7, <1>8, StepKeeps DEF RequestInv

\* Every handler begins with its first statement, about a row.
LEMMA Handlers ==
  ASSUME IInv, NEW r \in Request, Versions(r) \/ Entries(r)
  PROVE  \E op \in OpsOf \cap Ops : \E i \in Rows :
           \E first \in StepsOf(op) \ {"check", "refuse", "commit"} :
             (op \in Loading => Exists(i)) /\ Begin(r, op, i, first)
<1>1. 1 \in Rows /\ \A i \in Rows : rows[i].sound => Exists(i)
  <2>1. 1 \in Rows
    BY ConfigAssumption DEF Rows
  <2> QED BY <2>1 DEF IInv, NoRowInv, NoRow, Exists
<1>2. /\ section = "workflow" => OpsOf = {"create", "version", "activate", "replace"}
      /\ section = "definition" => OpsOf = {"create", "version", "activate"}
      /\ section = "template" => OpsOf = {"create", "version", "approve"}
      /\ section = "terms" => OpsOf = {"create", "create_default", "patch", "set_default"}
      /\ section = "prices" => OpsOf = {"import"}
      /\ section \in Coded => OpsOf = {"create", "patch", "retire"}
  BY DEF OpsOf, Coded
<1>3. /\ {"insert_sound"} \subseteq StepsOf("create")
      /\ {"insert_sound", "insert_any"} \subseteq StepsOf("version")
      /\ {"scan"} \subseteq StepsOf("create_default")
      /\ {"replace"} \subseteq StepsOf("replace") /\ {"import"} \subseteq StepsOf("import")
      /\ {"save"} \subseteq StepsOf("patch") /\ {"save"} \subseteq StepsOf("retire")
      /\ \A op \in {"activate", "approve", "set_default"} : "scan" \in StepsOf(op)
  BY DEF StepsOf
<1> USE DEF Ops, Loading
<1>4. CASE CreateTestDefinition(r) \/ InstallWorkflow(r) \/ CreateTemplate(r)
  BY <1>1, <1>2, <1>3, <1>4 DEF CreateTestDefinition, InstallWorkflow, CreateTemplate
<1>5. CASE NewTestDefinitionVersion(r) \/ NewTemplateVersion(r)
  BY <1>1, <1>2, <1>3, <1>5 DEF NewTestDefinitionVersion, NewTemplateVersion
<1>6. CASE NewWorkflowVersion(r)
  BY <1>1, <1>2, <1>3, <1>6 DEF NewWorkflowVersion
<1>7. CASE ActivateTestDefinition(r) \/ ActivateWorkflow(r) \/ ApproveTemplate(r)
  BY <1>1, <1>2, <1>3, <1>7 DEF ActivateTestDefinition, ActivateWorkflow, ApproveTemplate
<1>8. CASE PutWorkflowDefinition(r)
  BY <1>1, <1>2, <1>3, <1>8 DEF PutWorkflowDefinition, Exists
<1>9. CASE CreatePaymentTerms(r) \/ PatchPaymentTerms(r) \/ SetDefaultPaymentTerms(r)
  BY <1>1, <1>2, <1>3, <1>9 DEF CreatePaymentTerms, PatchPaymentTerms, SetDefaultPaymentTerms
<1>10. CASE ImportPrices(r)
  BY <1>1, <1>2, <1>3, <1>10 DEF ImportPrices
<1>11. CASE \/ CreateVocabularyEntry(r) \/ CreateCategory(r) \/ CreateService(r)
            \/ CreateSpecimenType(r) \/ CreateSieveSet(r) \/ CreatePriceList(r)
            \/ CreateTaxRule(r)
  <2>1. section \in Coded /\ Begin(r, "create", 1, "insert_sound")
    BY <1>11 DEF CreateVocabularyEntry, CreateCategory, CreateService, CreateSpecimenType,
                 CreateSieveSet, CreatePriceList, CreateTaxRule, CreateCoded, Coded
  <2> QED BY <2>1, <1>1, <1>2, <1>3
<1>12. CASE \/ PatchVocabularyEntry(r) \/ RetireVocabularyEntry(r) \/ PatchService(r)
            \/ RetireService(r) \/ PatchTaxRule(r)
  <2>1. /\ section \in Coded /\ Exists(1)
        /\ Begin(r, "patch", 1, "save") \/ Begin(r, "retire", 1, "save")
    BY <1>12 DEF PatchVocabularyEntry, RetireVocabularyEntry, PatchService, RetireService,
                 PatchTaxRule, SaveCoded, Coded
  <2> QED BY <2>1, <1>1, <1>2, <1>3
<1> QED BY <1>4, <1>5, <1>6, <1>7, <1>8, <1>9, <1>10, <1>11, <1>12 DEF Versions, Entries

LEMMA HandlersKeep ==
  ASSUME IInv, NEW r \in Request, Versions(r) \/ Entries(r)
  PROVE  IInv'
  BY Handlers, BeginKeeps

\* What holds of a request at work.
LEMMA AtWork ==
  ASSUME IInv, NEW r \in Request, pc[r] # "idle"
  PROVE  /\ StepInv(r) /\ CopyInv(r) /\ OwnInv(r) /\ CommitInv(r)
         /\ tx[r] \in TxType /\ tx[r].row \in Rows /\ rows[tx[r].row] \in RowType
         /\ tx[r].copy \in RowType /\ tx[r].own \in Owns /\ Held(r) \subseteq Rows
         /\ DOMAIN tx[r].own = Held(r)
         /\ \A i \in Held(r) : tx[r].own[i] \in RowType
         /\ \A q \in Request \ {r} : Held(r) \cap Held(q) = {}
<1>1. StepInv(r) /\ CopyInv(r) /\ OwnInv(r) /\ CommitInv(r)
  BY DEF IInv, RequestInv
<1>2. tx[r] \in TxType /\ tx[r].row \in Rows /\ tx[r].copy \in RowType /\ tx[r].own \in Owns
  <2>1. tx[r] \in TxType
    BY DEF IInv, ConfigTypeInv
  <2> QED BY <2>1, TxParts
<1>3. rows[tx[r].row] \in RowType
  BY <1>2 DEF IInv, ConfigTypeInv
<1>4. \A q \in Request \ {r} : Held(r) \cap Held(q) = {}
  BY DEF IInv, HeldInv
<1>5. Held(r) \subseteq Rows /\ \A i \in Held(r) : tx[r].own[i] \in RowType
  BY <1>2, OwnFacts DEF Held
<1> QED BY <1>1, <1>2, <1>3, <1>4, <1>5 DEF Held

\* What a statement that writes a row makes of the rows written.
LEMMA WriteFacts ==
  ASSUME IInv, NEW r \in Request, pc[r] # "idle", NEW i \in Rows, NEW row \in RowType,
         Free(r, i), Write(r, i, row)
  PROVE  \E t \in TxType :
           /\ tx' = [tx EXCEPT ![r] = t] /\ tx'[r] = t
           /\ t.op = tx[r].op /\ t.row = tx[r].row /\ t.copy = tx[r].copy
           /\ DOMAIN t.own = Held(r) \cup {i} /\ t.own[i] = row
           /\ \A j \in Held(r) \ {i} : t.own[j] = tx[r].own[j]
           /\ \A q \in Request \ {r} : DOMAIN t.own \cap Held(q) = {}
<1> DEFINE new == Put(tx[r].own, i, row)
           t == [tx[r] EXCEPT !.own = new]
<1>1. /\ new \in Owns /\ DOMAIN new = Held(r) \cup {i} /\ new[i] = row
      /\ \A j \in Held(r) \ {i} : new[j] = tx[r].own[j]
  <2> DEFINE own == tx[r].own
  <2>1. own \in Owns /\ DOMAIN own = Held(r)
    BY AtWork
  <2> HIDE DEF own
  <2>2. /\ Put(own, i, row) \in Owns /\ DOMAIN Put(own, i, row) = DOMAIN own \cup {i}
        /\ Put(own, i, row)[i] = row
        /\ \A j \in DOMAIN own \ {i} : Put(own, i, row)[j] = own[j]
    BY <2>1, WriteOwn
  <2> QED BY <2>1, <2>2 DEF own
<1>2. tx' = [tx EXCEPT ![r].own = new]
  BY DEF Write
<1> HIDE DEF new
<1>3. /\ t \in TxType /\ t.op = tx[r].op /\ t.row = tx[r].row /\ t.copy = tx[r].copy
      /\ t.own = new
  <2>1. tx[r] \in TxType
    BY AtWork
  <2> QED BY <2>1, <1>1, TxOwn
<1>4. tx' = [tx EXCEPT ![r] = t] /\ tx'[r] = t
  BY <1>2 DEF IInv, ConfigTypeInv
<1>5. \A q \in Request \ {r} : DOMAIN new \cap Held(q) = {}
  BY <1>1, AtWork DEF Free
<1> HIDE DEF t
<1> QED BY <1>1, <1>3, <1>4, <1>5

LEMMA InsertKeeps == ASSUME IInv, NEW r \in Request, Insert(r) PROVE IInv'
<1> DEFINE i == tx[r].row
           step == IF section = "template" /\ tx[r].op = "version" THEN "check" ELSE "commit"
<1>1. /\ pc[r] \in {"insert_sound", "insert_any"} /\ pc[r] # "idle" /\ ~Exists(i) /\ Free(r, i)
      /\ UNCHANGED <<section, rows, audits>> /\ pc' = [pc EXCEPT ![r] = step]
  BY DEF Insert, Go
<1>2. PICK ok \in BOOLEAN : Write(r, i, NewRow(r, ok))
  BY DEF Insert
<1> DEFINE row == NewRow(r, ok)
<1>3. /\ row \in RowType /\ row.rv = 1 /\ row.status # "none"
      /\ tx[r].op = "create_default" => row.default
  BY DEF NewRow, NewStatus, RowType
<1> HIDE DEF row
<1>4. i \in Rows /\ rows[i].rv = 0
  BY <1>1, AtWork DEF IInv, NoRowInv, Exists, NoRow
<1>5. PICK t \in TxType :
           /\ tx' = [tx EXCEPT ![r] = t] /\ tx'[r] = t
           /\ t.op = tx[r].op /\ t.row = tx[r].row /\ t.copy = tx[r].copy
           /\ DOMAIN t.own = Held(r) \cup {i} /\ t.own[i] = row
           /\ \A j \in Held(r) \ {i} : t.own[j] = tx[r].own[j]
           /\ \A q \in Request \ {r} : DOMAIN t.own \cap Held(q) = {}
  BY <1>1, <1>2, <1>3, <1>4, WriteFacts DEF row
<1>6. step \in Steps /\ step \in {"check", "commit"} /\ pc'[r] = step
  BY <1>1 DEF Steps, IInv, ConfigTypeInv
<1>7. /\ tx[r].op \in {"create", "version", "create_default"} /\ tx[r].op \in OpsOf
      /\ ~Done(r)
  BY <1>1, AtWork DEF StepInv, StepsOf, Done
<1>8. StepInv(r)'
  BY <1>1, <1>5, <1>6, <1>7 DEF StepInv, StepsOf, OpsOf
<1>9. CopyInv(r)'
  BY <1>1, <1>5, AtWork DEF CopyInv, Exists
<1>10. OwnInv(r)'
  <2>1. OwnInv(r)
    BY <1>1, AtWork
  <2>2. tx'[r].op \in {"create", "version", "patch", "retire"} => Held(r)' \subseteq {tx'[r].row}
    BY <2>1, <1>5 DEF OwnInv, Held
  <2> SUFFICES ASSUME NEW j \in Held(r) \cup {i}
               PROVE  LET own == t.own[j]
                      IN /\ own.status # "none"
                         /\ own.rv = IF j = i THEN rows[j].rv + 1 ELSE rows[j].rv
                         /\ j # i /\ own.default => rows[j].default
    BY <2>2, <1>1, <1>5, <1>6, <1>7 DEF OwnInv, Held, SavedRow, Done
  <2>3. CASE j = i
    BY <2>3, <1>3, <1>4, <1>5
  <2>4. CASE j # i
    BY <2>1, <2>4, <1>5, <1>7 DEF OwnInv, SavedRow
  <2> QED BY <2>3, <2>4
<1>11. CommitInv(r)'
  BY <1>1, <1>3, <1>5, <1>7 DEF CommitInv, Held, Exists
<1> HIDE DEF step
<1> QED BY <1>1, <1>5, <1>6, <1>8, <1>9, <1>10, <1>11, StepKeeps DEF RequestInv

LEMMA ScanKeeps == ASSUME IInv, NEW r \in Request, Scan(r) \/ Cleaned(r) PROVE IInv'
<1>1. PICK step \in {"clear", "insert_sound", "save"} :
        /\ pc[r] \in {"scan", "clear"} /\ pc' = [pc EXCEPT ![r] = step]
        /\ UNCHANGED <<section, rows, audits>>
        /\ step = "insert_sound" => tx[r].op = "create_default"
        /\ step = "save" => tx[r].op # "create_default"
  BY DEF Scan, Cleaned, Go
<1>2. PICK others \in SUBSET Rows : tx' = [tx EXCEPT ![r] = [tx[r] EXCEPT !.others = others]]
  <2>1. CASE Scan(r)
    BY <2>1 DEF Scan
  <2>2. CASE Cleaned(r)
    <3>1. tx[r] \in TxType /\ tx \in [Request -> TxType]
      BY DEF IInv, ConfigTypeInv
    <3>2. tx[r].others \in SUBSET Rows
      BY <3>1, TxParts
    <3>3. tx[r] = [tx[r] EXCEPT !.others = tx[r].others]
      BY <3>1 DEF TxType
    <3>4. tx' = [tx EXCEPT ![r] = tx[r]]
      BY <2>2, <3>1 DEF Cleaned
    <3> QED BY <3>2, <3>3, <3>4
  <2> QED BY <2>1, <2>2
<1> DEFINE t == [tx[r] EXCEPT !.others = others]
<1>3. /\ t \in TxType /\ t.op = tx[r].op /\ t.row = tx[r].row /\ t.copy = tx[r].copy
      /\ t.own = tx[r].own
  <2>1. tx[r] \in TxType
    BY <1>1, AtWork
  <2> QED BY <2>1, TxOthers
<1> HIDE DEF t
<1>4. tx' = [tx EXCEPT ![r] = t]
  BY <1>2 DEF t
<1>5. pc'[r] = step /\ tx'[r] = t /\ step \in Steps
  BY <1>1, <1>4 DEF IInv, ConfigTypeInv, Steps
<1>6. StepInv(r) /\ CopyInv(r) /\ OwnInv(r) /\ pc[r] # "idle"
  BY <1>1, AtWork
<1>7. StepInv(r)'
  BY <1>1, <1>3, <1>5, <1>6 DEF StepInv, StepsOf, OpsOf
<1>8. CopyInv(r)'
  BY <1>1, <1>3, <1>5, <1>6 DEF CopyInv, Exists
<1>9. OwnInv(r)' /\ CommitInv(r)'
  BY <1>1, <1>3, <1>5, <1>6 DEF OwnInv, CommitInv, Held, SavedRow, Done
<1>10. \A q \in Request \ {r} : DOMAIN t.own \cap Held(q) = {}
  BY <1>3, <1>6, AtWork
<1> QED BY <1>1, <1>3, <1>4, <1>5, <1>7, <1>8, <1>9, <1>10, StepKeeps DEF RequestInv

LEMMA ClearKeeps == ASSUME IInv, NEW r \in Request, Clear(r) PROVE IInv'
<1>1. PICK i \in tx[r].others :
        /\ Free(r, i)
        /\ tx' = [tx EXCEPT ![r].others = tx[r].others \ {i},
                            ![r].own = IF InForce(rows[i])
                                         THEN Put(tx[r].own, i, Cleared(rows[i]))
                                         ELSE tx[r].own]
  BY DEF Clear
<1> DEFINE row == Cleared(rows[i])
           others == tx[r].others \ {i}
           own == IF InForce(rows[i]) THEN Put(tx[r].own, i, row) ELSE tx[r].own
           part == [tx[r] EXCEPT !.others = others]
           t == [part EXCEPT !.own = own]
<1>2. /\ pc[r] = "clear" /\ pc[r] # "idle" /\ UNCHANGED <<section, rows, audits, pc>>
      /\ tx[r] \in TxType /\ tx[r].others \in SUBSET Rows /\ others \in SUBSET Rows
      /\ i \in Rows /\ rows[i] \in RowType
      /\ tx[r].own \in Owns
  <2>1. /\ pc[r] = "clear" /\ tx[r] \in TxType /\ UNCHANGED <<section, rows, audits, pc>>
    BY AtWork DEF Clear
  <2>2. tx[r].others \in SUBSET Rows /\ tx[r].own \in Owns
    BY <2>1, TxParts
  <2> QED BY <2>1, <2>2 DEF IInv, ConfigTypeInv
<1>3. /\ row \in RowType /\ row.rv = rows[i].rv
      /\ InForce(rows[i]) => row.status # "none" /\ (row.default => rows[i].default)
  <2>1. section = "terms" /\ rows[i].default => rows[i].status # "none"
    BY <1>2 DEF IInv, NoRowInv, NoRow
  <2> QED BY <2>1, <1>2 DEF Cleared, RowType, InForce
<1> HIDE DEF row, others
<1>4. /\ own \in Owns
      /\ \A j \in DOMAIN own : j \in Held(r) \cup {i}
      /\ \A j \in DOMAIN own : (j = i /\ InForce(rows[i]) /\ own[j] = row)
                               \/ (j \in Held(r) /\ own[j] = tx[r].own[j])
  <2>1. DOMAIN tx[r].own = Held(r)
    BY DEF Held
  <2>2. CASE InForce(rows[i])
    <3> DEFINE base == tx[r].own
               put == Put(base, i, row)
    <3>1. base \in Owns /\ DOMAIN base = Held(r)
      BY <2>1, <1>2
    <3> HIDE DEF base
    <3>2. /\ put \in Owns /\ DOMAIN put = DOMAIN base \cup {i} /\ put[i] = row
          /\ \A j \in DOMAIN base \ {i} : put[j] = base[j]
      BY <3>1, <1>2, <1>3, WriteOwn
    <3>3. own = put
      BY <2>2 DEF base
    <3> HIDE DEF put, own
    <3> QED BY <3>1, <3>2, <3>3, <2>2 DEF base
  <2>3. CASE ~InForce(rows[i])
    BY <2>3, <2>1, <1>2
  <2> QED BY <2>2, <2>3
<1>5. tx' = [tx EXCEPT ![r] = t]
  BY <1>1 DEF others, row
<1> HIDE DEF own
<1>6. part \in TxType /\ part.op = tx[r].op /\ part.row = tx[r].row /\ part.copy = tx[r].copy
  BY <1>2, TxOthers
<1> HIDE DEF part
<1>7. /\ t \in TxType /\ t.op = tx[r].op /\ t.row = tx[r].row /\ t.copy = tx[r].copy
      /\ t.own = own
  BY <1>4, <1>6, TxOwn
<1> HIDE DEF t
<1>8. /\ pc' = [pc EXCEPT ![r] = "clear"] /\ pc'[r] = "clear" /\ tx'[r] = t
      /\ "clear" \in Steps
  BY <1>2, <1>5 DEF IInv, ConfigTypeInv, Steps
<1>9. StepInv(r) /\ CopyInv(r) /\ OwnInv(r)
  BY <1>2, AtWork
<1>10. StepInv(r)' /\ CopyInv(r)'
  BY <1>2, <1>7, <1>8, <1>9 DEF StepInv, OpsOf, CopyInv, Exists
<1>11. OwnInv(r)'
  <2>1. tx[r].op \notin {"create", "version", "patch", "retire"} /\ ~Done(r)
    BY <1>2, <1>9 DEF StepInv, StepsOf, Done
  <2> SUFFICES ASSUME NEW j \in DOMAIN own
               PROVE  /\ own[j].status # "none" /\ own[j].rv = rows[j].rv
                      /\ own[j].default => rows[j].default
    BY <2>1, <1>2, <1>7, <1>8 DEF OwnInv, Held, SavedRow, Done
  <2>2. CASE j = i /\ InForce(rows[i]) /\ own[j] = row
    BY <2>2, <1>3
  <2>3. CASE j \in Held(r) /\ own[j] = tx[r].own[j]
    BY <2>1, <2>3, <1>9 DEF OwnInv, SavedRow
  <2> QED BY <2>2, <2>3, <1>4
<1>12. CommitInv(r)'
  BY <1>8 DEF CommitInv, Done
<1>13. \A q \in Request \ {r} : DOMAIN t.own \cap Held(q) = {}
  BY <1>1, <1>2, <1>4, <1>7, AtWork DEF Free
<1> QED BY <1>2, <1>5, <1>7, <1>8, <1>10, <1>11, <1>12, <1>13, StepKeeps DEF RequestInv

LEMMA SaveKeeps == ASSUME IInv, NEW r \in Request, Save(r) PROVE IInv'
<1> DEFINE i == tx[r].row
           copy == tx[r].copy
           row == Saved(r)
<1>1. /\ pc[r] = "save" /\ pc[r] # "idle" /\ Free(r, i) /\ rows[i].rv = copy.rv
      /\ UNCHANGED <<section, rows, audits>> /\ pc' = [pc EXCEPT ![r] = "commit"]
      /\ Write(r, i, row)
  BY DEF Save, Fresh, Go
<1>2. /\ i \in Rows /\ rows[i] \in RowType /\ copy \in RowType
      /\ StepInv(r) /\ CopyInv(r) /\ OwnInv(r)
      /\ \A j \in Held(r) : tx[r].own[j] \in RowType
  BY <1>1, AtWork
<1>3. /\ tx[r].op \in {"activate", "approve", "set_default", "patch", "retire"}
      /\ tx[r].op \in OpsOf /\ ~Done(r)
  BY <1>1, <1>2 DEF StepInv, StepsOf, OpsOf, Done
<1>4. Exists(i) /\ copy.status # "none" /\ (rows[i].default => copy.default)
  BY <1>1, <1>2, <1>3 DEF CopyInv
<1>5. /\ row \in RowType /\ row.status # "none" /\ row.rv = rows[i].rv + 1
      /\ tx[r].op = "activate" => row.status = "active"
      /\ tx[r].op = "set_default" => row.default
      /\ tx[r].op = "patch" /\ rows[i].default => row.default
  <2> DEFINE current == IF i \in Held(r) THEN tx[r].own[i] ELSE rows[i]
  <2>1. current \in RowType /\ current.status # "none"
    BY <1>2, <1>4 DEF OwnInv, Exists
  <2>2. copy.rv + 1 \in Nat /\ copy.rv + 1 = rows[i].rv + 1
    BY <1>1, <1>2 DEF RowType
  <2>3. row = CASE tx[r].op \in {"activate", "approve"} ->
                     [current EXCEPT !.status = "active", !.rv = copy.rv + 1]
                [] tx[r].op = "set_default" -> [current EXCEPT !.default = TRUE, !.rv = copy.rv + 1]
                [] tx[r].op = "retire" -> [current EXCEPT !.status = "retired", !.rv = copy.rv + 1]
                [] tx[r].op = "patch" -> [copy EXCEPT !.rv = copy.rv + 1]
    BY DEF Saved
  <2> HIDE DEF current, row, copy
  <2>4. CASE tx[r].op \in {"activate", "approve"}
    <3>1. row = [current EXCEPT !.status = "active", !.rv = copy.rv + 1]
      BY <2>3, <2>4
    <3> QED BY <3>1, <2>1, <2>2, <2>4 DEF RowType
  <2>5. CASE tx[r].op = "set_default"
    <3>1. row = [current EXCEPT !.default = TRUE, !.rv = copy.rv + 1]
      BY <2>3, <2>5
    <3> QED BY <3>1, <2>1, <2>2, <2>5 DEF RowType
  <2>6. CASE tx[r].op = "retire"
    <3>1. row = [current EXCEPT !.status = "retired", !.rv = copy.rv + 1]
      BY <2>3, <2>6
    <3> QED BY <3>1, <2>1, <2>2, <2>6 DEF RowType
  <2>7. CASE tx[r].op = "patch"
    <3>1. row = [copy EXCEPT !.rv = copy.rv + 1]
      BY <2>3, <2>7
    <3> QED BY <3>1, <1>2, <1>4, <2>2, <2>7 DEF RowType, copy
  <2> QED BY <1>3, <2>4, <2>5, <2>6, <2>7
<1> HIDE DEF row
<1>6. PICK t \in TxType :
           /\ tx' = [tx EXCEPT ![r] = t] /\ tx'[r] = t
           /\ t.op = tx[r].op /\ t.row = tx[r].row /\ t.copy = tx[r].copy
           /\ DOMAIN t.own = Held(r) \cup {i} /\ t.own[i] = row
           /\ \A j \in Held(r) \ {i} : t.own[j] = tx[r].own[j]
           /\ \A q \in Request \ {r} : DOMAIN t.own \cap Held(q) = {}
  BY <1>1, <1>2, <1>5, WriteFacts
<1>7. pc'[r] = "commit" /\ "commit" \in Steps
  BY <1>1 DEF IInv, ConfigTypeInv, Steps
<1>8. StepInv(r)' /\ CopyInv(r)'
  BY <1>1, <1>2, <1>3, <1>6, <1>7 DEF StepInv, StepsOf, OpsOf, CopyInv, Exists
<1>9. OwnInv(r)'
  <2>1. tx'[r].op \in {"create", "version", "patch", "retire"} => Held(r)' \subseteq {tx'[r].row}
    BY <1>2, <1>6 DEF OwnInv, Held
  <2> SUFFICES ASSUME NEW j \in Held(r) \cup {i}
               PROVE  LET own == t.own[j]
                      IN /\ own.status # "none"
                         /\ own.rv = IF j = i THEN rows[j].rv + 1 ELSE rows[j].rv
                         /\ j # i /\ own.default => rows[j].default
    BY <2>1, <1>1, <1>3, <1>6, <1>7 DEF OwnInv, Held, SavedRow, Done
  <2>2. CASE j = i
    BY <2>2, <1>5, <1>6
  <2>3. CASE j # i
    BY <1>2, <1>3, <2>3, <1>6 DEF OwnInv, SavedRow
  <2> QED BY <2>2, <2>3
<1>10. CommitInv(r)'
  BY <1>1, <1>3, <1>5, <1>6 DEF CommitInv, Held
<1> QED BY <1>1, <1>6, <1>7, <1>8, <1>9, <1>10, StepKeeps DEF RequestInv

LEMMA ReplaceKeeps == ASSUME IInv, NEW r \in Request, Replace(r) PROVE IInv'
<1>1. PICK sound \in BOOLEAN : tx' = [tx EXCEPT ![r].copy.sound = sound]
  BY DEF Replace
<1>2. /\ pc[r] = "replace" /\ pc[r] # "idle" /\ pc' = [pc EXCEPT ![r] = "commit"]
      /\ UNCHANGED <<section, rows, audits>>
  BY DEF Replace, Go
<1> DEFINE copy == [tx[r].copy EXCEPT !.sound = sound]
           t == [tx[r] EXCEPT !.copy = copy]
<1>3. tx[r] \in TxType /\ tx[r].copy \in RowType /\ StepInv(r) /\ CopyInv(r) /\ OwnInv(r)
  BY <1>2, AtWork
<1>4. /\ copy \in RowType /\ copy.rv = tx[r].copy.rv /\ copy.default = tx[r].copy.default
      /\ copy.status = tx[r].copy.status
  BY <1>3 DEF RowType
<1>5. tx' = [tx EXCEPT ![r] = t]
  BY <1>1
<1> HIDE DEF copy
<1>6. /\ t \in TxType /\ t.op = tx[r].op /\ t.row = tx[r].row /\ t.copy = copy
      /\ t.own = tx[r].own
  BY <1>3, <1>4, TxCopy
<1> HIDE DEF t
<1>7. pc'[r] = "commit" /\ tx'[r] = t /\ "commit" \in Steps
  BY <1>2, <1>5 DEF IInv, ConfigTypeInv, Steps
<1>8. tx[r].op = "replace"
  BY <1>2, <1>3 DEF StepInv, StepsOf
<1>9. StepInv(r)' /\ CopyInv(r)'
  BY <1>2, <1>3, <1>4, <1>6, <1>7, <1>8 DEF StepInv, StepsOf, OpsOf, CopyInv, Exists
<1>10. OwnInv(r)' /\ CommitInv(r)'
  BY <1>2, <1>3, <1>6, <1>7, <1>8 DEF OwnInv, CommitInv, Held, SavedRow
<1>11. \A q \in Request \ {r} : DOMAIN t.own \cap Held(q) = {}
  BY <1>2, <1>6, AtWork
<1> QED BY <1>2, <1>5, <1>6, <1>7, <1>9, <1>10, <1>11, StepKeeps DEF RequestInv

LEMMA ImportKeeps == ASSUME IInv, NEW r \in Request, Import(r) PROVE IInv'
<1>1. PICK file \in (SUBSET Rows) \ {{}}, right \in BOOLEAN : \E listed \in [file -> 1..MaxSaves] :
        /\ \A i \in file : Free(r, i)
        /\ tx' = [tx EXCEPT ![r].own = [i \in file |-> [NoRow EXCEPT !.status = "active",
                                                         !.rv = rows[i].rv + listed[i]]]]
        /\ pc' = [pc EXCEPT ![r] = IF right THEN "commit" ELSE "refuse"]
  BY DEF Import, Go
<1>2. PICK listed \in [file -> 1..MaxSaves] :
        /\ \A i \in file : Free(r, i)
        /\ tx' = [tx EXCEPT ![r].own = [i \in file |-> [NoRow EXCEPT !.status = "active",
                                                         !.rv = rows[i].rv + listed[i]]]]
        /\ pc' = [pc EXCEPT ![r] = IF right THEN "commit" ELSE "refuse"]
  BY <1>1
<1> DEFINE own == [i \in file |-> [NoRow EXCEPT !.status = "active",
                                              !.rv = rows[i].rv + listed[i]]]
           step == IF right THEN "commit" ELSE "refuse"
           t == [tx[r] EXCEPT !.own = own]
<1>3. /\ pc[r] = "import" /\ pc[r] # "idle" /\ UNCHANGED <<section, rows, audits>>
      /\ tx[r] \in TxType /\ StepInv(r) /\ CopyInv(r)
  <2>1. pc[r] = "import" /\ UNCHANGED <<section, rows, audits>>
    BY DEF Import
  <2> QED BY <2>1, AtWork
<1>4. /\ own \in Owns /\ DOMAIN own = file
      /\ \A i \in file : own[i].status = "active" /\ own[i].rv > rows[i].rv /\ ~own[i].default
  <2>1. \A i \in file : /\ rows[i].rv \in Nat /\ listed[i] \in 1..MaxSaves
                        /\ rows[i].rv + listed[i] \in Nat
                        /\ rows[i].rv + listed[i] > rows[i].rv
    BY ConfigAssumption DEF IInv, ConfigTypeInv, RowType
  <2>2. \A i \in file : /\ own[i] \in RowType /\ own[i].status = "active" /\ ~own[i].default
                        /\ own[i].rv > rows[i].rv
    BY <2>1 DEF NoRow, RowType
  <2>3. DOMAIN own = file /\ own = [i \in DOMAIN own |-> own[i]]
    OBVIOUS
  <2> HIDE DEF own
  <2> QED BY <2>2, <2>3, OwnFacts
<1>5. tx' = [tx EXCEPT ![r] = t] /\ pc' = [pc EXCEPT ![r] = step]
  BY <1>2
<1> HIDE DEF own
<1>6. /\ t \in TxType /\ t.op = tx[r].op /\ t.row = tx[r].row /\ t.copy = tx[r].copy
      /\ t.own = own
  BY <1>3, <1>4, TxOwn
<1> HIDE DEF t
<1>7. /\ step \in Steps /\ step \in {"commit", "refuse"} /\ pc'[r] = step /\ tx'[r] = t
  BY <1>5 DEF IInv, ConfigTypeInv, Steps
<1> HIDE DEF step
<1>8. tx[r].op = "import"
  BY <1>3 DEF StepInv, StepsOf
<1>9. StepInv(r)' /\ CopyInv(r)'
  BY <1>3, <1>6, <1>7, <1>8 DEF StepInv, StepsOf, OpsOf, CopyInv, Exists
<1>10. OwnInv(r)'
  <2>1. Held(r)' = file /\ tx'[r].own = own /\ tx'[r].op = "import" /\ Done(r)'
    BY <1>4, <1>6, <1>7, <1>8 DEF Held, Done
  <2> QED BY <2>1, <1>3, <1>4 DEF OwnInv, SavedRow
<1>11. CommitInv(r)'
  BY <1>6, <1>7, <1>8 DEF CommitInv
<1>12. \A q \in Request \ {r} : DOMAIN t.own \cap Held(q) = {}
  BY <1>2, <1>4, <1>6 DEF Free
<1> QED BY <1>3, <1>5, <1>6, <1>7, <1>9, <1>10, <1>11, <1>12, StepKeeps DEF RequestInv

-----------------------------------------------------------------------------
(* The ends of a request.                                                  *)

\* A table that another request's commit may leave, for those at work.
Follows(r, table) ==
  /\ table \in [Rows -> RowType]
  /\ \A i \in Rows :
       /\ i \notin Held(r) => /\ table[i].status = rows[i].status /\ table[i].rv = rows[i].rv
                             /\ table[i].default = rows[i].default
       /\ rows[i].rv <= table[i].rv
       /\ table[i].rv = rows[i].rv /\ table[i].default => rows[i].default
       /\ Exists(i) => table[i].status # "none"
       /\ table[i].status = "none" => table[i] = NoRow

LEMMA LeaveKeeps ==
  ASSUME IInv, NEW r \in Request, Leave(r), Follows(r, rows'),
         audits' \in [Rows -> Nat], AnnouncedOnce'
  PROVE  IInv'
<1>1. /\ pc'[r] = "idle" /\ tx'[r] = NoTx /\ section' = section
      /\ \A q \in Request \ {r} : pc'[q] = pc[q] /\ tx'[q] = tx[q]
      /\ pc' \in [Request -> Steps \cup {"idle"}] /\ tx' \in [Request -> TxType]
  BY NoTxType DEF Leave, IInv, ConfigTypeInv
<1>2. ConfigTypeInv' /\ NoRowInv'
  BY <1>1 DEF IInv, ConfigTypeInv, Follows, NoRowInv
<1>3. HeldInv'
  BY <1>1, NoTxType DEF IInv, HeldInv, Held
<1>4. ASSUME NEW q \in Request, pc'[q] # "idle" PROVE RequestInv(q)'
  <2>1. q # r /\ pc[q] # "idle" /\ pc'[q] = pc[q] /\ tx'[q] = tx[q]
    BY <1>1, <1>4
  <2>2. /\ StepInv(q) /\ CopyInv(q) /\ OwnInv(q) /\ CommitInv(q)
        /\ tx[q].row \in Rows /\ Held(q) \subseteq Rows /\ Held(q) \cap Held(r) = {}
        /\ tx[q].copy \in RowType
    BY <2>1, AtWork
  <2>3. /\ Held(q)' = Held(q) /\ (Done(q)' <=> Done(q))
        /\ \A i \in Rows : rows[i] \in RowType /\ rows'[i] \in RowType
        /\ \A i \in Held(q) : /\ rows'[i].status = rows[i].status /\ rows'[i].rv = rows[i].rv
                              /\ rows'[i].default = rows[i].default
        /\ \A i \in Rows : SavedRow(q, i)' <=> SavedRow(q, i)
    BY <2>1, <2>2 DEF Held, Done, SavedRow, Follows, IInv, ConfigTypeInv
  <2>4. StepInv(q)'
    BY <1>1, <2>1, <2>2 DEF StepInv, OpsOf
  <2>5. CopyInv(q)'
    <3> DEFINE i == tx[q].row
    <3>1. /\ rows[i].rv <= rows'[i].rv
          /\ rows'[i].rv = rows[i].rv /\ rows'[i].default => rows[i].default
          /\ rows[i].status # "none" => rows'[i].status # "none"
          /\ rows[i].rv \in Nat /\ rows'[i].rv \in Nat /\ tx[q].copy.rv \in Nat
      BY <2>2, <2>3 DEF Follows, Exists, RowType
    <3> QED BY <2>1, <2>2, <3>1 DEF CopyInv, Exists
  <2>6. OwnInv(q)'
    BY <2>1, <2>2, <2>3 DEF OwnInv
  <2>7. CommitInv(q)'
    BY <2>1, <2>2, <2>3 DEF CommitInv, Exists
  <2> QED BY <2>4, <2>5, <2>6, <2>7 DEF RequestInv
<1>5. \A q \in Request : RequestInv(q)'
  BY <1>4 DEF RequestInv
<1> QED BY <1>2, <1>3, <1>5 DEF IInv

\* What a request has written, written to the table.
LEMMA WrittenFollows ==
  ASSUME IInv, NEW r \in Request, pc[r] # "idle"
  PROVE  Follows(r, Written(tx[r].own))
<1> DEFINE table == Written(tx[r].own)
<1>1. \A i \in Rows : table[i] = IF i \in Held(r) THEN tx[r].own[i] ELSE rows[i]
  BY DEF Written, Held
<1>2. OwnInv(r) /\ (\A i \in Held(r) : tx[r].own[i] \in RowType)
      /\ \A i \in Rows : rows[i] \in RowType
  BY AtWork DEF IInv, ConfigTypeInv
<1>3. table \in [Rows -> RowType]
  BY <1>1, <1>2 DEF Written, Held
<1> HIDE DEF table
<1> SUFFICES ASSUME NEW i \in Rows
             PROVE  /\ i \notin Held(r) => /\ table[i].status = rows[i].status
                                          /\ table[i].rv = rows[i].rv
                                          /\ table[i].default = rows[i].default
                    /\ rows[i].rv <= table[i].rv
                    /\ table[i].rv = rows[i].rv /\ table[i].default => rows[i].default
                    /\ Exists(i) => table[i].status # "none"
                    /\ table[i].status = "none" => table[i] = NoRow
  BY <1>3 DEF Follows, table
<1>4. CASE i \notin Held(r)
  BY <1>1, <1>2, <1>4 DEF IInv, NoRowInv, Exists, RowType
<1>5. CASE i \in Held(r)
  BY <1>1, <1>2, <1>5 DEF OwnInv, RowType
<1> QED BY <1>4, <1>5

\* Nothing written: the table as it is.
LEMMA SameFollows ==
  ASSUME IInv, NEW r \in Request
  PROVE  Follows(r, rows) /\ Written(Nothing) = rows
<1>1. \A i \in Rows : rows[i] \in RowType
  BY DEF IInv, ConfigTypeInv
<1>2. Follows(r, rows)
  BY <1>1 DEF Follows, IInv, ConfigTypeInv, NoRowInv, Exists, RowType
<1>3. Written(Nothing) = rows
  BY NoTxType DEF Written, IInv, ConfigTypeInv
<1> QED BY <1>2, <1>3

LEMMA CommitKeeps == ASSUME IInv, NEW r \in Request, Commit(r) PROVE IInv'
<1> DEFINE row == tx[r].row
           about == IF section = "prices" THEN Held(r) ELSE {row}
<1>1. /\ pc[r] = "commit" /\ pc[r] # "idle" /\ Leave(r) /\ Done(r) /\ section' = section
      /\ audits' = [i \in Rows |-> IF i \in about /\ tx[r].op # "replace" THEN audits[i] + 1
                                   ELSE audits[i]]
  BY DEF Commit, Done, Leave
<1>2. audits' \in [Rows -> Nat]
  BY <1>1 DEF IInv, ConfigTypeInv
<1>3. /\ StepInv(r) /\ CopyInv(r) /\ OwnInv(r) /\ CommitInv(r) /\ row \in Rows
      /\ rows[row] \in RowType /\ tx[r].copy \in RowType
  BY <1>1, AtWork
<1>4. CASE tx[r].op = "replace"
  <2>1. rows' = [rows EXCEPT ![row].sound = tx[r].copy.sound]
    BY <1>4 DEF Commit
  <2>2. tx[r].copy.sound \in BOOLEAN /\ rows[row].status # "none"
    BY <1>3, <1>4 DEF RowType, CopyInv, Exists
  <2>3. \A i \in Rows : /\ rows[i] \in RowType /\ rows'[i] \in RowType
                        /\ rows'[i].status = rows[i].status /\ rows'[i].rv = rows[i].rv
                        /\ rows'[i].default = rows[i].default /\ rows[i].rv \in Nat
                        /\ i # row => rows'[i] = rows[i]
    BY <2>1, <2>2, <1>3 DEF IInv, ConfigTypeInv, RowType
  <2>4. rows' \in [Rows -> RowType]
    BY <2>1, <2>3 DEF IInv, ConfigTypeInv
  <2>5. \A i \in Rows : rows[i].status = "none" => rows'[i] = NoRow
    BY <2>2, <2>3 DEF IInv, NoRowInv
  <2>6. Follows(r, rows')
    BY <2>3, <2>4, <2>5 DEF Follows, Exists
  <2>7. AnnouncedOnce'
    BY <1>1, <1>4, <2>3 DEF IInv, AnnouncedOnce, Exists
  <2> QED BY <1>1, <1>2, <2>6, <2>7, LeaveKeeps
<1>5. CASE tx[r].op # "replace"
  <2>1. rows' = Written(tx[r].own)
    BY <1>5 DEF Commit
  <2>2. Follows(r, rows')
    BY <1>1, <2>1, WrittenFollows
  <2>3. \A i \in Rows : i \in about <=> i \in Held(r) /\ SavedRow(r, i)
    <3>1. tx[r].op = "import" <=> section = "prices"
      BY <1>3 DEF StepInv, OpsOf
    <3> QED BY <3>1, <1>1, <1>3, <1>5 DEF CommitInv, SavedRow
  <2>4. \A i \in Rows : /\ rows[i].rv \in Nat /\ audits[i] \in Nat
                        /\ rows'[i] = IF i \in Held(r) THEN tx[r].own[i] ELSE rows[i]
                        /\ audits'[i] = IF i \in about THEN audits[i] + 1 ELSE audits[i]
    BY <1>1, <1>5, <2>1 DEF IInv, ConfigTypeInv, RowType, Written, Held
  <2>5. ASSUME section = "prices" PROVE AnnouncedOnce'
    <3>1. tx[r].op = "import" /\ about = Held(r)
      BY <1>3, <2>5 DEF StepInv, OpsOf
    <3>2. \A i \in Held(r) : tx[r].own[i].rv > rows[i].rv /\ tx[r].own[i].rv \in Nat
      BY <1>1, <2>3, <3>1, AtWork DEF OwnInv, RowType
    <3>3. \A i \in Rows : audits[i] <= rows[i].rv /\ (Exists(i) => audits[i] > 0)
      BY <2>5 DEF IInv, AnnouncedOnce
    <3>4. ASSUME NEW i \in Rows
          PROVE  audits'[i] <= rows'[i].rv /\ (rows'[i].status # "none" => audits'[i] > 0)
      <4>1. CASE i \in Held(r)
        BY <2>4, <3>1, <3>2, <3>3, <4>1
      <4>2. CASE i \notin Held(r)
        BY <2>4, <3>1, <3>3, <4>2 DEF Exists
      <4> QED BY <4>1, <4>2
    <3> QED BY <1>1, <2>5, <3>4 DEF AnnouncedOnce, Exists
  <2>6. ASSUME section # "prices" PROVE AnnouncedOnce'
    <3>1. ASSUME NEW i \in Rows, audits[i] = rows[i].rv PROVE audits'[i] = rows'[i].rv
      <4>1. tx[r].op # "import"
        BY <1>3, <2>6 DEF StepInv, OpsOf
      <4> QED BY <1>3, <2>3, <2>4, <3>1, <4>1 DEF OwnInv
    <3> QED BY <1>1, <2>6, <3>1 DEF IInv, AnnouncedOnce
  <2>7. AnnouncedOnce'
    BY <2>5, <2>6
  <2> QED BY <1>1, <1>2, <2>2, <2>7, LeaveKeeps
<1> QED BY <1>4, <1>5

LEMMA CheckKeeps == ASSUME IInv, NEW r \in Request, CheckTemplate(r) PROVE IInv'
<1>1. /\ pc[r] = "check" /\ pc[r] # "idle" /\ StepInv(r) /\ CopyInv(r) /\ OwnInv(r)
      /\ CommitInv(r) /\ tx[r] \in TxType /\ DOMAIN tx[r].own = Held(r)
      /\ \A q \in Request \ {r} : Held(r) \cap Held(q) = {}
  BY AtWork DEF CheckTemplate
<1>2. section = "template" /\ tx[r].op = "version"
  BY <1>1 DEF StepInv, StepsOf
<1>3. CASE Go(r, "commit") /\ UNCHANGED <<section, rows, audits, tx>>
  <2>1. pc' = [pc EXCEPT ![r] = "commit"] /\ tx' = [tx EXCEPT ![r] = tx[r]]
    BY <1>3 DEF Go, IInv, ConfigTypeInv
  <2>2. pc'[r] = "commit" /\ "commit" \in Steps
    BY <2>1 DEF IInv, ConfigTypeInv, Steps
  <2>3. StepInv(r)' /\ CopyInv(r)'
    BY <1>1, <1>2, <1>3, <2>2 DEF StepInv, StepsOf, OpsOf, CopyInv, Exists
  <2>4. OwnInv(r)' /\ CommitInv(r)'
    BY <1>1, <1>3, <2>2 DEF OwnInv, CommitInv, Held, SavedRow, Done, Exists
  <2>5. RequestInv(r)'
    BY <2>3, <2>4 DEF RequestInv
  <2>6. PICK t \in TxType : t = tx[r]
    BY <1>1
  <2>7. /\ tx' = [tx EXCEPT ![r] = t] /\ UNCHANGED <<section, rows, audits>>
        /\ \A q \in Request \ {r} : DOMAIN t.own \cap Held(q) = {}
    BY <1>1, <1>3, <2>1, <2>6
  <2>8. pc' = [pc EXCEPT ![r] = "commit"] /\ "commit" \in Steps
    BY <2>1, <2>2
  <2> HIDE DEF RequestInv
  <2> QED BY <2>5, <2>7, <2>8, StepKeeps
<1>4. CASE rows' = Written(tx[r].own) /\ UNCHANGED audits /\ Leave(r)
  <2>1. Follows(r, rows')
    BY <1>1, <1>4, WrittenFollows
  <2>2. audits' \in [Rows -> Nat] /\ AnnouncedOnce'
    BY <1>2, <1>4 DEF IInv, ConfigTypeInv, AnnouncedOnce, Leave
  <2> QED BY <1>4, <2>1, <2>2, LeaveKeeps
<1> QED BY <1>3, <1>4 DEF CheckTemplate

\* Only an approval, which is a template's, leaves without an event.
LEMMA OtherEndsKeep ==
  ASSUME IInv, NEW r \in Request, Conflict(r) \/ Refuse(r) \/ RollBack(r)
  PROVE  IInv'
<1>1. pc[r] # "idle" /\ Leave(r) /\ UNCHANGED audits /\ section' = section
  BY DEF Conflict, Refuse, RollBack, Leave
<1>2. StepInv(r) /\ audits' \in [Rows -> Nat]
  BY <1>1, AtWork DEF IInv, ConfigTypeInv
<1>3. CASE rows' = rows
  <2>1. Follows(r, rows') /\ AnnouncedOnce'
    BY <1>1, <1>3, SameFollows DEF IInv, AnnouncedOnce, Exists
  <2> QED BY <1>1, <1>2, <2>1, LeaveKeeps
<1>4. CASE rows' = Written(tx[r].own) /\ tx[r].op = "approve"
  <2>1. section = "template"
    BY <1>2, <1>4 DEF StepInv, OpsOf
  <2>2. Follows(r, rows') /\ AnnouncedOnce'
    BY <1>1, <1>4, <2>1, WrittenFollows DEF AnnouncedOnce
  <2> QED BY <1>1, <1>2, <2>2, LeaveKeeps
<1> QED BY <1>3, <1>4, SameFollows DEF Conflict, Kept, Refuse, RollBack

LEMMA StutterKeeps == ASSUME IInv, UNCHANGED vars PROVE IInv'
  BY DEF vars, IInv, ConfigTypeInv, NoRowInv, HeldInv, Held, RequestInv, StepInv, OpsOf, CopyInv,
         Exists, OwnInv, SavedRow, Done, CommitInv, AnnouncedOnce

LEMMA NextKeeps == IInv /\ [Next]_vars => IInv'
<1> SUFFICES ASSUME IInv, [Next]_vars PROVE IInv'
  OBVIOUS
<1>1. ASSUME NEW r \in Request, Versions(r) \/ Entries(r) PROVE IInv'
  BY <1>1, HandlersKeep
<1>2. ASSUME NEW r \in Request, Statement(r) PROVE IInv'
  BY <1>2, InsertKeeps, ScanKeeps, ClearKeeps, SaveKeeps, ReplaceKeeps, ImportKeeps DEF Statement
<1>3. ASSUME NEW r \in Request, End(r) PROVE IInv'
  BY <1>3, CommitKeeps, CheckKeeps, OtherEndsKeep DEF End
<1>4. CASE UNCHANGED vars
  BY <1>4, StutterKeeps
<1> QED BY <1>1, <1>2, <1>3, <1>4 DEF Next, Quiet

LEMMA Invariant == Spec => []IInv
<1> QED BY InitHolds, NextKeeps, PTL DEF Spec

\* No save of a row is lost to another that read the same row, whatever requests meet: every
\* row committed and every save of it has its audit event, and a price an event of the import
\* that created it and at most one for each time it was saved.
THEOREM SavesAreAnnouncedOnce == Spec => []AnnouncedOnce
<1>1. IInv => AnnouncedOnce
  BY DEF IInv
<1> QED BY <1>1, Invariant, PTL

-----------------------------------------------------------------------------
(* A series in force.                                                      *)

Series == section \in {"workflow", "definition", "terms"}
Some(table) == \E i \in Rows : InForce(table[i])

\* A commit that writes nothing of the row in force, or puts its own in force.
LEMMA CommitStaysInForce ==
  ASSUME IInv, NEW r \in Request, Commit(r), Series, Some(rows)
  PROVE  Some(rows')
<1> DEFINE row == tx[r].row
<1>1. PICK i \in Rows : InForce(rows[i])
  BY DEF Some
<1>2. /\ pc[r] = "commit" /\ Done(r) /\ StepInv(r) /\ OwnInv(r) /\ CommitInv(r)
      /\ row \in Rows /\ rows[i] \in RowType /\ rows[row] \in RowType
  BY AtWork DEF Commit, Done, IInv, ConfigTypeInv
<1>3. /\ section = "terms" => tx[r].op \in {"create", "create_default", "patch", "set_default"}
      /\ section # "terms" => tx[r].op \in {"create", "version", "activate", "replace"}
  BY <1>2 DEF Series, StepInv, OpsOf
<1>4. Exists(i)
  <2>1. section # "terms" => rows[i].status = "active"
    BY <1>1 DEF InForce
  <2>2. section = "terms" => rows[i].default
    BY <1>1 DEF InForce
  <2> QED BY <2>1, <2>2 DEF IInv, NoRowInv, NoRow, Exists
<1>5. CASE tx[r].op = "replace"
  <2>1. rows' = [rows EXCEPT ![row].sound = tx[r].copy.sound]
    BY <1>5 DEF Commit
  <2>2. rows'[i].status = rows[i].status /\ rows'[i].default = rows[i].default
    BY <1>2, <2>1 DEF IInv, ConfigTypeInv, RowType
  <2> QED BY <1>1, <2>2 DEF Some, InForce
<1>6. CASE tx[r].op # "replace"
  <2>1. \A j \in Rows : rows'[j] = IF j \in Held(r) THEN tx[r].own[j] ELSE rows[j]
    BY <1>6 DEF Commit, Written, Held
  <2>2. row \in Held(r)
    BY <1>2, <1>3, <1>6 DEF CommitInv
  <2>3. CASE tx[r].op \in {"activate", "create_default", "set_default"}
    <3>1. InForce(rows'[row])
      BY <1>2, <1>3, <2>1, <2>2, <2>3 DEF CommitInv, InForce
    <3> QED BY <1>2, <3>1 DEF Some
  <2>4. CASE tx[r].op \in {"create", "version"}
    <3>1. i \notin Held(r)
      BY <1>2, <1>4, <2>4 DEF OwnInv, CommitInv
    <3> QED BY <1>1, <2>1, <3>1 DEF Some
  <2>5. CASE tx[r].op = "patch"
    <3>1. section = "terms" /\ rows[i].default
      BY <1>1, <1>3, <2>5 DEF InForce
    <3>2. CASE i = row
      BY <1>2, <2>1, <2>2, <2>5, <3>1, <3>2 DEF CommitInv, InForce, Some
    <3>3. CASE i # row
      <4>1. i \notin Held(r)
        BY <1>2, <2>5, <3>3 DEF OwnInv
      <4> QED BY <1>1, <2>1, <4>1 DEF Some
    <3> QED BY <3>2, <3>3
  <2> QED BY <1>3, <1>6, <2>3, <2>4, <2>5
<1> QED BY <1>5, <1>6

LEMMA StaysInForce == IInv /\ [Next]_vars => (Series /\ Some(rows) => Some(rows'))
<1> SUFFICES ASSUME IInv, [Next]_vars, Series, Some(rows) PROVE Some(rows')
  OBVIOUS
<1>1. ASSUME NEW r \in Request, Conflict(r) PROVE rows' = rows
  <2>1. pc[r] # "idle" /\ StepInv(r)
    BY <1>1, AtWork DEF Conflict
  <2>2. tx[r].op # "approve"
    BY <2>1 DEF StepInv, OpsOf, Series
  <2> QED BY <1>1, <2>2, SameFollows DEF Conflict, Kept
<1>2. ASSUME NEW r \in Request, End(r) PROVE Some(rows')
  <2>1. CASE Commit(r)
    BY <2>1, CommitStaysInForce
  <2>2. CASE CheckTemplate(r)
    <3>1. pc[r] = "check" /\ StepInv(r)
      BY <2>2, AtWork DEF CheckTemplate
    <3> QED BY <3>1 DEF StepInv, Series
  <2>3. CASE Conflict(r) \/ Refuse(r) \/ RollBack(r)
    BY <2>3, <1>1 DEF Refuse, RollBack
  <2> QED BY <1>2, <2>1, <2>2, <2>3 DEF End
<1>3. ASSUME NEW r \in Request, Versions(r) \/ Entries(r) PROVE rows' = rows
  BY <1>3, Handlers DEF Begin
<1>4. ASSUME NEW r \in Request, Statement(r) PROVE rows' = rows
  BY <1>4 DEF Statement, Insert, Scan, Clear, Cleaned, Save, Replace, Import
<1> QED BY <1>2, <1>3, <1>4 DEF Next, Quiet, vars

\* A workflow or definition that has an active version keeps one, a branch that has default
\* payment terms keeps some: the version that is retired and the one that takes over are
\* committed together, however the requests of the branch interleave.
THEOREM SeriesInForceStays == Spec => SeriesStaysInForce
<1>1. IInv /\ [Next]_vars
        => [(section \in {"workflow", "definition", "terms"} /\ \E i \in Rows : InForce(rows[i]))
              => \E i \in Rows : InForce(rows'[i])]_vars
  BY StaysInForce DEF Series, Some
<1> QED BY <1>1, Invariant, PTL DEF Spec, SeriesStaysInForce
=============================================================================
