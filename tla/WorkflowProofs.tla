---------------------------- MODULE WorkflowProofs ----------------------------
(***************************************************************************)
(* The audit trail and the reviews of Workflow for any number of users,    *)
(* requests, kinds and transitions.  The inductive invariant says what a   *)
(* request may rely on: a loaded record with the committed row_version is  *)
(* the committed record, and one that has been saved is locked, so the     *)
(* transition chosen for the record as loaded leaves the committed state.  *)
(***************************************************************************)
EXTENDS Workflow, SequenceTheorems, WellFoundedInduction, TLAPS

\* The transition i leaves the state of a record, and may be taken by the actor.
Leads(i, rec, actor) ==
  /\ i \in DOMAIN Flow.transitions
  /\ \/ Flow.transitions[i].from = rec.state
     \/ Flow.transitions[i].from = AnyState /\ rec.state \notin Flow.terminal
  /\ Strict /\ Flow.transitions[i].to = "UNDER_REVIEW" => rec.by # actor

LoadedInv ==
  \A r \in Request :
    /\ pc[r] # "idle" => tx[r].actor \in Actor
    /\ pc[r] \in {"loaded", "save"} =>
         /\ tx[r].rec.version <= record.version
         /\ tx[r].rec.version = record.version => tx[r].rec = record
    /\ pc[r] = "save" => Leads(tx[r].t, tx[r].rec, tx[r].actor)

SavedInv ==
  \A r \in Request : pc[r] \in {"effects", "commit"} =>
    /\ lock = r
    /\ Leads(tx[r].t, record, tx[r].actor)
    /\ tx[r].rec.state = Flow.transitions[tx[r].t].to
    /\ tx[r].rec.by = tx[r].actor
    /\ tx[r].rec.version > record.version

IInv ==
  /\ TypeOK
  /\ LoadedInv
  /\ SavedInv
  /\ TrailIsThePath
  /\ ReviewedByAnother

-----------------------------------------------------------------------------
\* The initial state and the states that transitions lead to are states of the workflow.
LEMMA FlowFacts ==
  ASSUME kind \in Kind
  PROVE  /\ Flow.initial \in UNION {Default[k].states : k \in Kind}
         /\ DOMAIN Flow.transitions \subseteq Nat
         /\ \A i \in DOMAIN Flow.transitions :
              /\ Flow.transitions[i].to \in UNION {Default[k].states : k \in Kind}
              /\ EventsOf(Flow.transitions[i]) \in Seq(STRING)
<1>1. kind \in Kinds
  BY WorkflowAssumption
<1>2. Valid(kind, Default[kind]) /\ DOMAIN Default[kind].transitions \subseteq Nat
  BY <1>1, DefaultsAreValid
<1>3. \A i \in DOMAIN Flow.transitions :
        Flow.transitions[i].to \in UNION {Default[k].states : k \in Kind}
  BY <1>2 DEF Valid, Flow
<1>4. Flow.initial \in UNION {Default[k].states : k \in Kind}
  BY <1>2 DEF Valid, Flow
<1> QED BY <1>1, <1>2, <1>3, <1>4, EventsAreNames DEF Flow

LEMMA InitHolds == Init => IInv
<1> SUFFICES ASSUME Init PROVE IInv
  OBVIOUS
<1>1. kind \in Kind /\ record \in Row
  BY FlowFacts DEF Init, Row, Flow
<1>2. tx \in [Request -> Tx]
  BY <1>1 DEF Init, NoTx, Tx
<1>3. TypeOK
  BY <1>1, <1>2 DEF Init, TypeOK, Entry
<1>4. LoadedInv /\ SavedInv
  BY DEF Init, LoadedInv, SavedInv
<1>5. TrailIsThePath /\ ReviewedByAnother
  BY DEF Init, TrailIsThePath, ReviewedByAnother, Flow
<1> QED BY <1>3, <1>4, <1>5 DEF IInv

-----------------------------------------------------------------------------
(* Steps that neither commit nor change the trail.                         *)

\* Only what the requests hold changes.
LEMMA UncommittedKeeps ==
  ASSUME IInv, UNCHANGED <<kind, record, trail>>
  PROVE  TrailIsThePath' /\ ReviewedByAnother'
  BY DEF IInv, TrailIsThePath, ReviewedByAnother, Step, Before, Flow

LEMMA LoadKeeps == ASSUME IInv, NEW r \in Request, Load(r) PROVE IInv'
<1>1. PICK a \in Actor :
        tx' = [tx EXCEPT ![r] = [actor |-> a, rec |-> record, t |-> 0, reason |-> FALSE,
                                 events |-> <<>>]]
  BY DEF Load
<1>2. tx \in [Request -> Tx]
  BY DEF IInv, TypeOK
<1>3. /\ pc' = [pc EXCEPT ![r] = "loaded"] /\ pc[r] = "idle"
      /\ UNCHANGED <<kind, record, trail, jobs, counter, lock>>
  BY DEF Load
<1>4. tx' \in [Request -> Tx]
  BY <1>1, <1>2 DEF Tx, IInv, TypeOK
<1>5. TypeOK'
  BY <1>3, <1>4 DEF IInv, TypeOK, Tx, Row
<1>6. LoadedInv'
  <2> SUFFICES ASSUME NEW q \in Request PROVE LoadedInv!(q)'
    BY DEF LoadedInv
  <2>1. CASE q = r
    BY <1>1, <1>2, <1>3, <2>1 DEF IInv, TypeOK, Tx, Row
  <2>2. CASE q # r
    BY <1>1, <1>2, <1>3, <2>2 DEF IInv, LoadedInv, TypeOK, Leads, Flow
  <2> QED BY <2>1, <2>2
<1>7. SavedInv'
  BY <1>1, <1>2, <1>3 DEF IInv, TypeOK, SavedInv, Leads, Flow
<1> QED BY <1>3, <1>5, <1>6, <1>7, UncommittedKeeps DEF IInv

LEMMA PerformKeeps == ASSUME IInv, NEW r \in Request, Perform(r) PROVE IInv'
<1>1. PICK i \in DOMAIN Flow.transitions, reason \in BOOLEAN :
        /\ i \in Available(Flow, tx[r].rec.state)
        /\ Guarded(Flow.transitions[i], tx[r].rec, tx[r].actor, reason)
        /\ tx' = [tx EXCEPT ![r].t = i, ![r].reason = reason]
  BY DEF Perform, Chosen, Available
<1>2. tx \in [Request -> Tx]
  BY DEF IInv, TypeOK
<1>3. /\ pc' = [pc EXCEPT ![r] = "save"] /\ pc[r] = "loaded"
      /\ UNCHANGED <<kind, record, trail, jobs, counter, lock>>
  BY DEF Perform
<1>4. i \in Nat /\ tx' \in [Request -> Tx]
  <2>1. i \in Nat
    BY FlowFacts DEF IInv, TypeOK
  <2>2. [tx[r] EXCEPT !.t = i, !.reason = reason] \in Tx
    BY <1>2, <2>1 DEF Tx
  <2> QED BY <1>1, <1>2, <2>1, <2>2
<1>5. TypeOK'
  BY <1>3, <1>4 DEF IInv, TypeOK, Tx, Row
<1>6. Leads(i, tx[r].rec, tx[r].actor)
  <2>1. \/ Flow.transitions[i].from = tx[r].rec.state
        \/ Flow.transitions[i].from = AnyState /\ tx[r].rec.state \notin Flow.terminal
    BY <1>1 DEF Available
  <2>2. Flow.transitions[i].to = "UNDER_REVIEW" =>
          \E j \in DOMAIN Flow.transitions[i].guards :
            Flow.transitions[i].guards[j] = "actor_is_not_entrant"
    <3>1. kind \in Kinds
      BY WorkflowAssumption DEF IInv, TypeOK
    <3> QED BY <1>1, <3>1, ReviewsAreGuarded DEF Flow
  <2>3. Strict /\ Flow.transitions[i].to = "UNDER_REVIEW" => tx[r].rec.by # tx[r].actor
    BY <1>1, <2>2 DEF Guarded, ActorIsNotEntrant
  <2> QED BY <2>1, <2>3 DEF Leads
<1>7. LoadedInv'
  <2> SUFFICES ASSUME NEW q \in Request PROVE LoadedInv!(q)'
    BY DEF LoadedInv
  <2>1. CASE q = r
    BY <1>1, <1>2, <1>3, <1>4, <1>6, <2>1 DEF IInv, LoadedInv, TypeOK, Tx, Leads, Flow
  <2>2. CASE q # r
    BY <1>1, <1>2, <1>3, <2>2 DEF IInv, LoadedInv, TypeOK, Leads, Flow
  <2> QED BY <2>1, <2>2
<1>8. SavedInv'
  BY <1>1, <1>2, <1>3 DEF IInv, TypeOK, SavedInv, Leads, Flow
<1> QED BY <1>3, <1>5, <1>7, <1>8, UncommittedKeeps DEF IInv

\* The save is refused unless the record is as it was loaded.
LEMMA SaveKeeps == ASSUME IInv, NEW r \in Request, Save(r) PROVE IInv'
<1> DEFINE t == Flow.transitions[tx[r].t]
           saved == [state |-> t.to, by |-> tx[r].actor, number |-> tx[r].rec.number,
                     version |-> tx[r].rec.version + 1]
<1>1. /\ tx' = [tx EXCEPT ![r].rec = saved]
      /\ pc' = [pc EXCEPT ![r] = "effects"] /\ pc[r] = "save"
      /\ tx[r].rec.version = record.version
      /\ lock = None /\ lock' = r
      /\ UNCHANGED <<kind, record, trail, jobs, counter>>
  BY DEF Save, Fresh
<1>2. tx \in [Request -> Tx]
  BY DEF IInv, TypeOK
<1>3. /\ tx[r].rec = record /\ tx[r].actor \in Actor
      /\ Leads(tx[r].t, record, tx[r].actor)
  BY <1>1 DEF IInv, LoadedInv
<1>4. saved \in Row
  <2>1. t.to \in UNION {Default[k].states : k \in Kind}
    BY <1>3, FlowFacts DEF IInv, TypeOK, Leads
  <2>2. record.number \in Nat /\ record.version + 1 \in Nat \ {0}
    BY DEF IInv, TypeOK, Row
  <2> HIDE DEF t
  <2> QED BY <1>3, <2>1, <2>2 DEF Row
<1>5. saved.state = t.to /\ saved.by = tx[r].actor /\ saved.version = record.version + 1
  BY <1>1
<1> HIDE DEF saved
<1>6. tx' \in [Request -> Tx]
  BY <1>1, <1>2, <1>4 DEF Tx
<1>7. TypeOK'
  BY <1>1, <1>6 DEF IInv, TypeOK, Tx, Row
<1>8. LoadedInv'
  <2> SUFFICES ASSUME NEW q \in Request PROVE LoadedInv!(q)'
    BY DEF LoadedInv
  <2>1. CASE q = r
    BY <1>1, <1>2, <1>3, <2>1 DEF IInv, TypeOK, Tx
  <2>2. CASE q # r
    BY <1>1, <1>2, <2>2 DEF IInv, LoadedInv, TypeOK, Leads, Flow
  <2> QED BY <2>1, <2>2
<1>9. SavedInv'
  <2> SUFFICES ASSUME NEW q \in Request PROVE SavedInv!(q)'
    BY DEF SavedInv
  <2>1. CASE q = r
    <3>1. tx'[r].rec = saved /\ tx'[r].t = tx[r].t /\ tx'[r].actor = tx[r].actor
      BY <1>1, <1>2 DEF Tx
    <3> QED BY <1>1, <1>3, <1>5, <2>1, <3>1 DEF IInv, TypeOK, Row, Leads, Flow
  <2>2. CASE q # r
    BY <1>1, <1>2, <2>2, WorkflowAssumption DEF IInv, SavedInv, TypeOK
  <2> QED BY <2>1, <2>2
<1> QED BY <1>1, <1>7, <1>8, <1>9, UncommittedKeeps DEF IInv

LEMMA NumberedRow ==
  ASSUME counter \in Nat, NEW rec \in Row
  PROVE  /\ AllocateNumber(rec) \in Row
         /\ AllocateNumber(rec).state = rec.state /\ AllocateNumber(rec).by = rec.by
         /\ AllocateNumber(rec).version >= rec.version
<1>1. CASE AllocateNumber(rec) = rec
  BY <1>1 DEF Row
<1>2. CASE AllocateNumber(rec) = [rec EXCEPT !.number = counter + 1, !.version = @ + 1]
  <2>1. AllocateNumber(rec) = [state |-> rec.state, by |-> rec.by, number |-> counter + 1,
                               version |-> rec.version + 1]
    BY <1>2 DEF Row
  <2>2. rec.version + 1 \in Nat \ {0} /\ counter + 1 \in Nat
    BY DEF Row
  <2> QED BY <2>1, <2>2 DEF Row
<1> QED BY <1>1, <1>2 DEF AllocateNumber

\* What a request holds once its effects are done.
LEMMA HoldsEffects ==
  ASSUME NEW held \in [Request -> Tx], NEW r \in Request,
         NEW rec \in Row, NEW events \in Seq(STRING)
  PROVE  [held EXCEPT ![r].rec = rec, ![r].events = events] \in [Request -> Tx]
<1>1. [held[r] EXCEPT !.rec = rec, !.events = events] \in Tx
  BY DEF Tx
<1> QED BY <1>1

LEMMA RunEffectsKeeps == ASSUME IInv, NEW r \in Request, RunEffects(r) PROVE IInv'
<1> DEFINE t == Flow.transitions[tx[r].t]
           rec == tx'[r].rec
<1>1. /\ \/ tx' = [tx EXCEPT ![r].rec = AllocateNumber(tx[r].rec), ![r].events = EventsOf(t)]
         \/ tx' = [tx EXCEPT ![r].rec = tx[r].rec, ![r].events = EventsOf(t)]
      /\ pc' = [pc EXCEPT ![r] = "commit"] /\ pc[r] = "effects"
      /\ UNCHANGED <<kind, record, trail, jobs, counter, lock>>
  BY DEF RunEffects
<1>2. tx \in [Request -> Tx]
  BY DEF IInv, TypeOK
<1>3. /\ AllocateNumber(tx[r].rec) \in Row
      /\ AllocateNumber(tx[r].rec).state = tx[r].rec.state
      /\ AllocateNumber(tx[r].rec).by = tx[r].rec.by
      /\ AllocateNumber(tx[r].rec).version >= tx[r].rec.version
  BY <1>2, NumberedRow DEF IInv, TypeOK, Tx
<1>names. EventsOf(t) \in Seq(STRING)
  BY <1>1, FlowFacts DEF IInv, TypeOK, SavedInv, Leads
<1>4. tx' \in [Request -> Tx]
  <2>1. tx[r].rec \in Row
    BY <1>2 DEF Tx
  <2> HIDE DEF t
  <2> QED BY <1>1, <1>2, <1>3, <2>1, <1>names, HoldsEffects
<1>5. /\ rec.state = tx[r].rec.state /\ rec.by = tx[r].rec.by
      /\ rec.version >= tx[r].rec.version
      /\ tx'[r].t = tx[r].t /\ tx'[r].actor = tx[r].actor
      /\ \A q \in Request \ {r} : tx'[q] = tx[q]
  BY <1>1, <1>2, <1>3 DEF Tx, Row
<1>6. TypeOK'
  BY <1>1, <1>4 DEF IInv, TypeOK, Tx, Row
<1>7. LoadedInv'
  BY <1>1, <1>5 DEF IInv, LoadedInv, TypeOK, Leads, Flow
<1>8. SavedInv'
  <2> SUFFICES ASSUME NEW q \in Request PROVE SavedInv!(q)'
    BY DEF SavedInv
  <2>1. CASE q = r
    <3>1. rec.version \in Nat /\ tx[r].rec.version \in Nat /\ record.version \in Nat
      BY <1>2, <1>4 DEF IInv, TypeOK, Tx, Row
    <3> QED BY <1>1, <1>5, <2>1, <3>1 DEF IInv, SavedInv, Leads, Flow
  <2>2. CASE q # r
    BY <1>1, <1>5, <2>2 DEF IInv, SavedInv, TypeOK, Leads, Flow
  <2> QED BY <2>1, <2>2
<1> QED BY <1>1, <1>6, <1>7, <1>8, UncommittedKeeps DEF IInv

\* The transition committed leaves the state that the trail has led to.
LEMMA CommitKeeps == ASSUME IInv, NEW r \in Request, Commit(r) PROVE IInv'
<1> DEFINE new == [t |-> tx[r].t, by |-> tx[r].actor, reason |-> tx[r].reason]
<1>0. PICK n \in Nat : n = Len(trail)
  BY LenProperties DEF IInv, TypeOK
<1>1. /\ record' = tx[r].rec /\ trail' = Append(trail, new)
      /\ counter' = IF tx[r].rec.number > counter THEN tx[r].rec.number ELSE counter
      /\ pc[r] = "commit" /\ pc' = [pc EXCEPT ![r] = "idle"]
      /\ tx' = [tx EXCEPT ![r] = [actor |-> None, rec |-> record', t |-> 0, reason |-> FALSE,
                                  events |-> <<>>]]
      /\ jobs' = jobs \o tx[r].events
      /\ lock' = IF lock = r THEN None ELSE lock
      /\ UNCHANGED kind
  BY DEF Commit, Leave
<1>2. tx \in [Request -> Tx]
  BY DEF IInv, TypeOK
<1>3. /\ lock = r /\ Leads(tx[r].t, record, tx[r].actor) /\ tx[r].actor \in Actor
      /\ tx[r].rec.state = Flow.transitions[tx[r].t].to /\ tx[r].rec.by = tx[r].actor
      /\ tx[r].rec.version > record.version
  BY <1>1 DEF IInv, SavedInv, LoadedInv
<1>4. tx[r].rec \in Row /\ tx[r].rec.number \in Nat /\ new \in Entry
  BY <1>2, <1>3 DEF Tx, Row, Entry
<1>5. tx' \in [Request -> Tx]
  BY <1>1, <1>2, <1>4 DEF Tx
<1>6. /\ trail' \in Seq(Entry) /\ n \in Nat /\ Len(trail') = n + 1
      /\ trail'[n + 1] = new /\ \A m \in 1..n : trail'[m] = trail[m]
      /\ DOMAIN trail = 1..n /\ DOMAIN trail' = 1..(n + 1)
  BY <1>0, <1>1, <1>4, AppendProperties, LenProperties DEF IInv, TypeOK
<1>7. TypeOK'
  <2>1. record' \in Row /\ counter' \in Nat
    BY <1>1, <1>4 DEF IInv, TypeOK
  <2>2. kind' \in Kind
        /\ pc' \in [Request -> {"idle", "loaded", "save", "effects", "commit"}]
    BY <1>1 DEF IInv, TypeOK
  <2>3. jobs' \in Seq(STRING) /\ lock' \in Request \cup {None}
    <3>1. jobs \in Seq(STRING) /\ tx[r].events \in Seq(STRING)
      BY <1>2 DEF IInv, TypeOK, Tx
    <3> QED BY <1>1, <3>1, ConcatProperties DEF IInv, TypeOK
  <2>4. kind' = kind /\ Row' = Row /\ Entry' = Entry /\ Tx' = Tx
    BY <1>1 DEF Row, Entry, Tx
  <2> QED BY <2>1, <2>2, <2>3, <2>4, <1>5, <1>6 DEF TypeOK
<1>8. LoadedInv'
  <2> SUFFICES ASSUME NEW q \in Request PROVE LoadedInv!(q)'
    BY DEF LoadedInv
  <2>1. CASE q = r
    BY <1>1, <2>1 DEF IInv, TypeOK
  <2>2. CASE q # r
    <3>1. tx'[q] = tx[q] /\ pc'[q] = pc[q]
      BY <1>1, <1>2, <2>2 DEF IInv, TypeOK
    <3>2. /\ record.version \in Nat /\ record'.version \in Nat /\ tx[q].rec.version \in Nat
          /\ record'.version > record.version
      BY <1>1, <1>2, <1>3, <1>4 DEF IInv, TypeOK, Tx, Row
    <3> QED BY <1>1, <3>1, <3>2 DEF IInv, LoadedInv, Leads, Flow
  <2> QED BY <2>1, <2>2
<1>9. SavedInv'
  <2> SUFFICES ASSUME NEW q \in Request, pc'[q] \in {"effects", "commit"} PROVE FALSE
    BY DEF SavedInv
  <2> QED BY <1>1, <1>3 DEF IInv, SavedInv, TypeOK
<1> HIDE DEF new
<1>10. /\ \A m \in 1..n : Step(m)' = Step(m)
       /\ Step(n + 1)' = Flow.transitions[tx[r].t]
       /\ Flow' = Flow
  BY <1>1, <1>6 DEF Step, Flow, new
<1>11. /\ n = 0 => Before(n + 1)' = Flow.initial
       /\ n # 0 => Before(n + 1)' = Step(n).to
       /\ \A m \in 1..n : Before(m)' = Before(m)
  BY <1>6, <1>10 DEF Before
<1>12. Before(n + 1)' = record.state
  BY <1>6, <1>11 DEF IInv, TrailIsThePath
<1>13. TrailIsThePath'
  BY <1>1, <1>3, <1>6, <1>10, <1>11, <1>12 DEF IInv, TrailIsThePath, Leads, new
<1>14. ReviewedByAnother'
  BY <1>3, <1>6, <1>10 DEF IInv, TrailIsThePath, ReviewedByAnother, Leads, new
<1> QED BY <1>7, <1>8, <1>9, <1>13, <1>14 DEF IInv

LEMMA RollBackKeeps == ASSUME IInv, NEW r \in Request, RollBack(r) PROVE IInv'
<1>1. /\ pc' = [pc EXCEPT ![r] = "idle"]
      /\ tx' = [tx EXCEPT ![r] = [actor |-> None, rec |-> record', t |-> 0, reason |-> FALSE,
                                  events |-> <<>>]]
      /\ lock' = IF lock = r THEN None ELSE lock
      /\ UNCHANGED <<kind, record, trail, jobs, counter>>
  BY DEF RollBack, Leave
<1>2. tx \in [Request -> Tx]
  BY DEF IInv, TypeOK
<1>3. tx' \in [Request -> Tx]
  BY <1>1, <1>2 DEF Tx, IInv, TypeOK
<1>4. TypeOK'
  BY <1>1, <1>3 DEF IInv, TypeOK, Tx, Row
<1>5. LoadedInv'
  BY <1>1, <1>2 DEF IInv, TypeOK, LoadedInv, Leads, Flow
<1>6. SavedInv'
  BY <1>1, <1>2 DEF IInv, TypeOK, SavedInv, Leads, Flow
<1> QED BY <1>1, <1>4, <1>5, <1>6, UncommittedKeeps DEF IInv

LEMMA StutterKeeps == IInv /\ UNCHANGED vars => IInv'
<1> SUFFICES ASSUME IInv, UNCHANGED vars PROVE IInv'
  OBVIOUS
<1>1. TypeOK' /\ LoadedInv' /\ SavedInv'
  BY DEF IInv, vars, TypeOK, LoadedInv, SavedInv, Leads, Flow, Tx, Row
<1> QED BY <1>1, UncommittedKeeps DEF IInv, vars

LEMMA NextKeeps == IInv /\ [Next]_vars => IInv'
<1> SUFFICES ASSUME IInv, [Next]_vars PROVE IInv'
  OBVIOUS
<1>1. ASSUME NEW r \in Request,
             Load(r) \/ Perform(r) \/ Save(r) \/ RunEffects(r) \/ Commit(r) \/ RollBack(r)
      PROVE  IInv'
  BY <1>1, LoadKeeps, PerformKeeps, SaveKeeps, RunEffectsKeeps, CommitKeeps, RollBackKeeps
<1>2. CASE Quiet \/ UNCHANGED vars
  BY <1>2, StutterKeeps DEF Quiet
<1> QED BY <1>1, <1>2 DEF Next

LEMMA Invariant == Spec => []IInv
  BY InitHolds, NextKeeps, PTL DEF Spec

-----------------------------------------------------------------------------
\* Type correctness.
THEOREM WorkflowTypeOK == Spec => []TypeOK
  BY Invariant, PTL DEF IInv

\* However many requests load, move and save the record at once, its audit trail is the path
\* it took, from the initial state of its workflow to the present one.
THEOREM TrailsJoinUp == Spec => []TrailIsThePath
  BY Invariant, PTL DEF IInv

\* A result is taken under review by another than the one who measured it, whoever moves the
\* record between the loading and the save.
THEOREM ReviewsAreByOthers == Spec => []ReviewedByAnother
  BY Invariant, PTL DEF IInv
-----------------------------------------------------------------------------
(* The number of the record.                                               *)

Allocates(i) == \E j \in DOMAIN Flow.transitions[i].effects :
                  Flow.transitions[i].effects[j] = "allocate_number"
Issues(i) == \E j \in DOMAIN Flow.transitions[i].effects :
               Flow.transitions[i].effects[j] = "issue_document"

\* Who holds the row's lock has the record's number, or the next one after none.
HoldsNumber(r) ==
  /\ pc[r] = "effects" => tx[r].rec.number = record.number
  /\ pc[r] = "commit" =>
       /\ tx[r].rec.number \in {0, 1}
       /\ record.number # 0 => tx[r].rec.number = record.number
       /\ kind \in Numbered /\ Issues(tx[r].t) => tx[r].rec.number # 0
RecordNumbered ==
  /\ counter = record.number /\ counter <= 1
  /\ kind \in Numbered /\ (\E n \in DOMAIN trail : Issues(trail[n].t)) => record.number # 0
NumberInv == RecordNumbered /\ \A r \in Request : HoldsNumber(r)

LEMMA NumberMeans == NumberInv => NumberedOnce
  BY DEF NumberInv, RecordNumbered, NumberedOnce, Issues, Step

LEMMA NumberInitHolds == Init => NumberInv
  BY DEF Init, NumberInv, RecordNumbered, HoldsNumber

LEMMA AllocatesFirst ==
  ASSUME kind \in Numbered, NEW i \in DOMAIN Flow.transitions, Issues(i)
  PROVE  Allocates(i)
  BY DocumentsAreNumbered DEF Issues, Allocates, Flow

\* Nothing is committed, and only one request changes what it holds.
LEMMA OthersKeepNumber ==
  ASSUME IInv, NumberInv, NEW r \in Request, NEW step, pc' = [pc EXCEPT ![r] = step],
         \A q \in Request \ {r} : tx'[q] = tx[q],
         UNCHANGED <<kind, record, trail, counter>>, HoldsNumber(r)'
  PROVE  NumberInv'
<1>1. \A i : Issues(i)' = Issues(i)
  BY DEF Issues, Flow
<1>2. RecordNumbered'
  BY <1>1 DEF NumberInv, RecordNumbered
<1>3. ASSUME NEW q \in Request \ {r} PROVE HoldsNumber(q)'
  <2>1. pc'[q] = pc[q] /\ tx'[q] = tx[q] /\ HoldsNumber(q)
    BY <1>3 DEF NumberInv, IInv, TypeOK
  <2> QED BY <1>1, <2>1 DEF HoldsNumber
<1> QED BY <1>2, <1>3 DEF NumberInv

\* Steps before the save, and the end of a request that fails.
LEMMA OutsideKeepsNumber ==
  ASSUME IInv, NumberInv, NEW r \in Request, NEW step,
         step \notin {"effects", "commit"}, pc' = [pc EXCEPT ![r] = step],
         \A q \in Request \ {r} : tx'[q] = tx[q],
         UNCHANGED <<kind, record, trail, counter>>
  PROVE  NumberInv'
<1>1. pc'[r] = step
  BY DEF IInv, TypeOK
<1>2. HoldsNumber(r)'
  BY <1>1 DEF HoldsNumber
<1> QED BY <1>2, OthersKeepNumber

LEMMA SaveKeepsNumber == ASSUME IInv, NumberInv, NEW r \in Request, Save(r) PROVE NumberInv'
<1>1. /\ pc' = [pc EXCEPT ![r] = "effects"] /\ pc[r] = "save"
      /\ tx[r].rec.version = record.version
      /\ UNCHANGED <<kind, record, trail, jobs, counter>>
  BY DEF Save, Fresh
<1>2. tx \in [Request -> Tx]
  BY DEF IInv, TypeOK
<1>3. tx'[r].rec.number = tx[r].rec.number /\ \A q \in Request \ {r} : tx'[q] = tx[q]
  BY <1>2 DEF Save, Tx
<1>4. tx[r].rec = record /\ pc'[r] = "effects"
  BY <1>1 DEF IInv, LoadedInv, TypeOK
<1>5. HoldsNumber(r)'
  BY <1>1, <1>3, <1>4 DEF HoldsNumber
<1> QED BY <1>1, <1>3, <1>5, OthersKeepNumber

LEMMA EffectsKeepNumber ==
  ASSUME IInv, NumberInv, NEW r \in Request, RunEffects(r)
  PROVE  NumberInv'
<1> DEFINE given == IF Allocates(tx[r].t) THEN AllocateNumber(tx[r].rec) ELSE tx[r].rec
<1>1. /\ pc' = [pc EXCEPT ![r] = "commit"] /\ pc[r] = "effects"
      /\ UNCHANGED <<kind, record, trail, jobs, counter>>
  BY DEF RunEffects
<1>2. tx \in [Request -> Tx]
  BY DEF IInv, TypeOK
<1>3. /\ tx'[r].rec = given /\ tx'[r].t = tx[r].t
      /\ \A q \in Request \ {r} : tx'[q] = tx[q]
  BY <1>2 DEF RunEffects, Allocates, Tx
<1>4. /\ tx[r].rec.number = record.number /\ record.number = counter /\ counter <= 1
      /\ tx[r].t \in DOMAIN Flow.transitions
  BY <1>1 DEF NumberInv, RecordNumbered, HoldsNumber, IInv, SavedInv, Leads
<1>5. counter \in Nat /\ tx[r].rec \in Row
  BY <1>2 DEF IInv, TypeOK, Tx
<1>6. /\ given.number \in {0, 1}
      /\ record.number # 0 => given.number = record.number
      /\ kind \in Numbered /\ Allocates(tx[r].t) => given.number # 0
  BY <1>4, <1>5 DEF AllocateNumber, Row
<1>7. kind \in Numbered /\ Issues(tx[r].t) => given.number # 0
  BY <1>4, <1>6, AllocatesFirst
<1> HIDE DEF given
<1>8. pc'[r] = "commit" /\ (Issues(tx[r].t)' = Issues(tx[r].t))
  BY <1>1, <1>3 DEF IInv, TypeOK, Issues, Flow
<1>9. HoldsNumber(r)'
  BY <1>1, <1>3, <1>6, <1>7, <1>8 DEF HoldsNumber
<1> QED BY <1>1, <1>3, <1>9, OthersKeepNumber

LEMMA CommitKeepsNumber ==
  ASSUME IInv, NumberInv, NEW r \in Request, Commit(r)
  PROVE  NumberInv'
<1> DEFINE new == [t |-> tx[r].t, by |-> tx[r].actor, reason |-> tx[r].reason]
<1>1. /\ record' = tx[r].rec /\ trail' = Append(trail, new)
      /\ counter' = IF tx[r].rec.number > counter THEN tx[r].rec.number ELSE counter
      /\ pc[r] = "commit" /\ pc' = [pc EXCEPT ![r] = "idle"]
      /\ UNCHANGED kind
  BY DEF Commit, Leave
<1>2. tx \in [Request -> Tx]
  BY DEF IInv, TypeOK
<1>3. \A q \in Request : pc'[q] \notin {"effects", "commit"}
  BY <1>1 DEF IInv, SavedInv, TypeOK
<1>4. /\ tx[r].rec.number \in {0, 1} /\ counter \in {0, 1} /\ counter = record.number
      /\ record.number # 0 => tx[r].rec.number = record.number
      /\ kind \in Numbered /\ Issues(tx[r].t) => tx[r].rec.number # 0
  BY <1>1 DEF NumberInv, RecordNumbered, HoldsNumber, IInv, TypeOK
<1>5. counter' = record'.number /\ counter' <= 1
  BY <1>1, <1>4
<1>6. new \in Entry
  BY <1>1, <1>2 DEF IInv, LoadedInv, Tx, Entry
<1>7. PICK n \in Nat : n = Len(trail)
  BY LenProperties DEF IInv, TypeOK
<1>8. /\ DOMAIN trail = 1..n /\ DOMAIN trail' = 1..(n + 1)
      /\ trail'[n + 1] = new /\ \A m \in 1..n : trail'[m] = trail[m]
  BY <1>1, <1>6, <1>7, AppendProperties, LenProperties DEF IInv, TypeOK
<1>9. \A m \in DOMAIN trail' : \/ m \in DOMAIN trail /\ trail'[m] = trail[m]
                               \/ trail'[m].t = tx[r].t
  BY <1>8
<1>10. kind \in Numbered /\ (\E m \in DOMAIN trail' : Issues(trail'[m].t)) => record'.number # 0
  BY <1>1, <1>4, <1>9 DEF NumberInv, RecordNumbered
<1>11. \A q \in Request : HoldsNumber(q)'
  BY <1>3 DEF HoldsNumber
<1>12. RecordNumbered'
  <2>1. \A i : Issues(i)' = Issues(i)
    BY <1>1 DEF Issues, Flow
  <2> QED BY <1>1, <1>5, <1>10, <2>1 DEF RecordNumbered
<1> QED BY <1>11, <1>12 DEF NumberInv

LEMMA NextKeepsNumber == IInv /\ NumberInv /\ [Next]_vars => NumberInv'
<1> SUFFICES ASSUME IInv, NumberInv, [Next]_vars PROVE NumberInv'
  OBVIOUS
<1>1. ASSUME NEW r \in Request, Load(r) PROVE NumberInv'
  BY <1>1, OutsideKeepsNumber DEF Load, IInv, TypeOK
<1>2. ASSUME NEW r \in Request, Perform(r) PROVE NumberInv'
  BY <1>2, OutsideKeepsNumber DEF Perform, IInv, TypeOK
<1>3. ASSUME NEW r \in Request, RollBack(r) PROVE NumberInv'
  BY <1>3, OutsideKeepsNumber DEF RollBack, Leave, IInv, TypeOK
<1>4. ASSUME NEW r \in Request, Save(r) \/ RunEffects(r) \/ Commit(r) PROVE NumberInv'
  BY <1>4, SaveKeepsNumber, EffectsKeepNumber, CommitKeepsNumber
<1>5. CASE Quiet \/ UNCHANGED vars
  <2>1. \A i : Issues(i)' = Issues(i)
    BY <1>5 DEF Quiet, vars, Issues, Flow
  <2> QED BY <1>5, <2>1 DEF Quiet, vars, NumberInv, RecordNumbered, HoldsNumber
<1> QED BY <1>1, <1>2, <1>3, <1>4, <1>5 DEF Next

\* A record draws one number in its life, and has it before any of its documents is issued.
THEOREM RecordsAreNumberedOnce == Spec => []NumberedOnce
<1>1. Spec => []NumberInv
  BY NumberInitHolds, NextKeepsNumber, Invariant, PTL DEF Spec
<1> QED BY <1>1, NumberMeans, PTL
-----------------------------------------------------------------------------
(* The events that go out.                                                 *)

\* Every nonempty set of naturals has a least element; so a set that has 0 and the successor
\* of each natural it has, has them all.
LEMMA LeastNatural ==
  ASSUME NEW S \in SUBSET Nat, S # {}
  PROVE  \E n \in S : \A m \in S : n <= m
<1> DEFINE Less == OpToRel(<, Nat)
<1>1. \A m, n \in Nat : <<m, n>> \in Less <=> m < n
  BY DEF OpToRel
<1>2. IsWellFoundedOn(Less, Nat)
  BY NatLessThanWellFounded DEF Less
<1> HIDE DEF Less
<1>3. PICK n \in S : \A m \in S : ~ (<<m, n>> \in Less)
  BY <1>2, WFMin
<1>4. \A m \in S : ~ (m < n)
  BY <1>1, <1>3
<1> QED BY <1>4

LEMMA SetInduction ==
  ASSUME NEW S, 0 \in S, \A n \in Nat : n \in S => n + 1 \in S
  PROVE  Nat \subseteq S
<1> DEFINE Missing == {n \in Nat : n \notin S}
<1> SUFFICES ASSUME Missing # {} PROVE FALSE
  OBVIOUS
<1>1. PICK n \in Missing : \A m \in Missing : n <= m
  BY LeastNatural
<1>2. n # 0 /\ n - 1 \in Nat
  BY <1>1
<1>3. n - 1 \in S
  BY <1>1, <1>2
<1> QED BY <1>1, <1>2, <1>3

\* f[n] is what the first n entries of the trail send, in order.
Accumulates(f) ==
  f = [n \in 0..Len(trail) |-> IF n = 0 THEN <<>> ELSE f[n - 1] \o EventsOf(Step(n))]

JobsInv ==
  /\ \E f : Accumulates(f) /\ jobs = f[Len(trail)]
  /\ \A r \in Request : pc[r] = "commit" => tx[r].events = EventsOf(Flow.transitions[tx[r].t])

\* There is one such function: the one that JobsMatchTrail defines.
LEMMA OneAccumulation ==
  ASSUME NEW f, NEW g, Accumulates(f), Accumulates(g), Len(trail) \in Nat
  PROVE  f[Len(trail)] = g[Len(trail)]
<1> DEFINE Same == {n \in Nat : n \in 0..Len(trail) => f[n] = g[n]}
<1>1. 0 \in Same
  BY DEF Accumulates
<1>2. ASSUME NEW n \in Nat, n \in Same PROVE n + 1 \in Same
  <2> SUFFICES ASSUME n + 1 \in 0..Len(trail) PROVE f[n + 1] = g[n + 1]
    OBVIOUS
  <2>1. /\ f[n + 1] = f[n] \o EventsOf(Step(n + 1))
        /\ g[n + 1] = g[n] \o EventsOf(Step(n + 1))
    BY (n + 1) - 1 = n, n + 1 # 0 DEF Accumulates
  <2>2. n \in 0..Len(trail)
    OBVIOUS
  <2>3. f[n] = g[n]
    BY <1>2, <2>2
  <2> QED BY <2>1, <2>3
<1> HIDE DEF Same
<1>3. Nat \subseteq Same
  BY <1>1, <1>2, SetInduction
<1> QED BY <1>3 DEF Same

LEMMA JobsMean == IInv /\ JobsInv => JobsMatchTrail
<1> SUFFICES ASSUME IInv, JobsInv PROVE JobsMatchTrail
  OBVIOUS
<1>1. PICK f : Accumulates(f) /\ jobs = f[Len(trail)]
  BY DEF JobsInv
<1> DEFINE due[n \in 0..Len(trail)] == IF n = 0 THEN <<>> ELSE due[n - 1] \o EventsOf(Step(n))
<1>2. Accumulates(due)
  BY <1>1 DEF Accumulates
<1>3. Len(trail) \in Nat
  BY LenProperties DEF IInv, TypeOK
<1> HIDE DEF due
<1>4. jobs = due[Len(trail)]
  BY <1>1, <1>2, <1>3, OneAccumulation
<1> QED BY <1>4 DEF JobsMatchTrail, due

LEMMA JobsInitHold == Init => JobsInv
<1> SUFFICES ASSUME Init PROVE JobsInv
  OBVIOUS
<1> DEFINE f == [n \in {0} |-> <<>>]
<1>1. trail = <<>> /\ jobs = <<>> /\ Len(trail) = 0 /\ 0..0 = {0}
  BY EmptySeq DEF Init
<1>2. Accumulates(f)
  BY <1>1 DEF Accumulates
<1> QED BY <1>1, <1>2 DEF Init, JobsInv

\* Steps that neither commit nor run effects.
LEMMA OutsideKeepsJobs ==
  ASSUME IInv, JobsInv, NEW r \in Request, NEW step,
         step # "commit", pc' = [pc EXCEPT ![r] = step],
         \A q \in Request \ {r} : tx'[q] = tx[q],
         UNCHANGED <<kind, trail, jobs>>
  PROVE  JobsInv'
<1>1. pc \in [Request -> {"idle", "loaded", "save", "effects", "commit"}]
  BY DEF IInv, TypeOK
<1> QED BY <1>1 DEF JobsInv, Accumulates, Step, Flow

LEMMA EffectsKeepJobs == ASSUME IInv, JobsInv, NEW r \in Request, RunEffects(r) PROVE JobsInv'
<1>1. /\ pc \in [Request -> {"idle", "loaded", "save", "effects", "commit"}]
      /\ tx \in [Request -> Tx]
  BY DEF IInv, TypeOK
<1>2. /\ pc' = [pc EXCEPT ![r] = "commit"] /\ UNCHANGED <<kind, trail, jobs>>
      /\ tx'[r].t = tx[r].t /\ tx'[r].events = EventsOf(Flow.transitions[tx[r].t])
      /\ \A q \in Request \ {r} : tx'[q] = tx[q]
  BY <1>1 DEF RunEffects, Tx
<1> QED BY <1>1, <1>2 DEF JobsInv, Accumulates, Step, Flow

LEMMA CommitKeepsJobs == ASSUME IInv, JobsInv, NEW r \in Request, Commit(r) PROVE JobsInv'
<1> DEFINE new == [t |-> tx[r].t, by |-> tx[r].actor, reason |-> tx[r].reason]
<1>1. /\ trail' = Append(trail, new) /\ jobs' = jobs \o tx[r].events
      /\ pc[r] = "commit" /\ pc' = [pc EXCEPT ![r] = "idle"]
      /\ \A q \in Request \ {r} : tx'[q] = tx[q]
      /\ UNCHANGED kind
  BY DEF Commit, Leave
<1>2. tx \in [Request -> Tx] /\ pc \in [Request -> {"idle", "loaded", "save", "effects", "commit"}]
  BY DEF IInv, TypeOK
<1>3. new \in Entry
  BY <1>1, <1>2 DEF IInv, LoadedInv, Tx, Entry
<1>4. PICK n \in Nat : n = Len(trail)
  BY LenProperties DEF IInv, TypeOK
<1>5. /\ Len(trail') = n + 1
      /\ trail'[n + 1] = new /\ \A m \in 1..n : trail'[m] = trail[m]
  BY <1>1, <1>3, <1>4, AppendProperties DEF IInv, TypeOK
<1>6. /\ Step(n + 1)' = Flow.transitions[tx[r].t]
      /\ \A m \in 1..n : Step(m)' = Step(m)
  BY <1>1, <1>5 DEF Step, Flow
<1>7. PICK f : Accumulates(f) /\ jobs = f[n]
  BY <1>4 DEF JobsInv
<1>all. PICK all : all = jobs'
  OBVIOUS
<1> DEFINE g == [m \in 0..(n + 1) |-> IF m = n + 1 THEN all ELSE f[m]]
<1>8. ASSUME NEW m \in 0..(n + 1)
      PROVE  g[m] = IF m = 0 THEN <<>> ELSE g[m - 1] \o EventsOf(Step(m))'
  <2>1. CASE m = 0
    <3>1. f[0] = <<>>
      BY <1>4, <1>7 DEF Accumulates
    <3> QED BY <2>1, <3>1
  <2>2. CASE m \in 1..n
    <3>1. m \in 0..n /\ m - 1 \in 0..n /\ m # 0 /\ m # n + 1 /\ m - 1 # n + 1
      BY <2>2
    <3>2. f[m] = f[m - 1] \o EventsOf(Step(m))
      BY <1>4, <1>7, <3>1 DEF Accumulates
    <3>3. EventsOf(Step(m))' = EventsOf(Step(m))
      BY <1>6, <2>2
    <3>4. g[m] = f[m] /\ g[m - 1] = f[m - 1]
      BY <3>1
    <3> QED BY <3>1, <3>2, <3>3, <3>4
  <2>3. CASE m = n + 1
    <3>1. g[m] = jobs \o tx[r].events
      BY <1>1, <1>all, <2>3
    <3>3. m - 1 = n /\ m - 1 \in 0..(n + 1) /\ m - 1 # n + 1 /\ m # 0
      BY <2>3
    <3>4. g[m - 1] = jobs
      BY <1>7, <3>3
    <3>2. tx[r].events = EventsOf(Flow.transitions[tx[r].t])
      BY <1>1 DEF JobsInv
    <3>5. EventsOf(Step(m))' = tx[r].events
      BY <1>6, <2>3, <3>2
    <3> HIDE DEF g
    <3> QED BY <3>1, <3>3, <3>4, <3>5
  <2> QED BY <2>1, <2>2, <2>3
<1>9. Accumulates(g)'
  BY <1>5, <1>8 DEF Accumulates
<1>10. jobs' = g[n + 1]
  BY <1>all
<1> HIDE DEF g
<1>11. \E h : Accumulates(h)' /\ jobs' = h[Len(trail')]
  BY <1>5, <1>9, <1>10
<1>12. ASSUME NEW q \in Request, pc'[q] = "commit"
       PROVE  tx'[q].events = EventsOf(Flow.transitions[tx[q].t])
  BY <1>1, <1>2, <1>12 DEF JobsInv
<1>13. \A q \in Request : pc'[q] = "commit" => tx'[q] = tx[q]
  BY <1>1, <1>2
<1> QED BY <1>1, <1>11, <1>12, <1>13 DEF JobsInv, Accumulates, Flow

LEMMA NextKeepsJobs == IInv /\ JobsInv /\ [Next]_vars => JobsInv'
<1> SUFFICES ASSUME IInv, JobsInv, [Next]_vars PROVE JobsInv'
  OBVIOUS
<1>1. ASSUME NEW r \in Request, Load(r) PROVE JobsInv'
  BY <1>1, OutsideKeepsJobs DEF Load, IInv, TypeOK
<1>2. ASSUME NEW r \in Request, Perform(r) PROVE JobsInv'
  BY <1>2, OutsideKeepsJobs DEF Perform, IInv, TypeOK
<1>3. ASSUME NEW r \in Request, Save(r) PROVE JobsInv'
  BY <1>3, OutsideKeepsJobs DEF Save, IInv, TypeOK
<1>4. ASSUME NEW r \in Request, RollBack(r) PROVE JobsInv'
  BY <1>4, OutsideKeepsJobs DEF RollBack, Leave, IInv, TypeOK
<1>5. ASSUME NEW r \in Request, RunEffects(r) \/ Commit(r) PROVE JobsInv'
  BY <1>5, EffectsKeepJobs, CommitKeepsJobs
<1>6. CASE Quiet \/ UNCHANGED vars
  BY <1>6 DEF Quiet, vars, JobsInv, Accumulates, Step, Flow
<1> QED BY <1>1, <1>2, <1>3, <1>4, <1>5, <1>6 DEF Next

\* Exactly the events of the committed transitions go out, in the order of the trail, whatever
\* failed and however requests crossed.
THEOREM EventsFollowTheTrail == Spec => []JobsMatchTrail
<1>1. Spec => []JobsInv
  BY JobsInitHold, NextKeepsJobs, Invariant, PTL DEF Spec
<1> QED BY <1>1, JobsMean, Invariant, PTL
-----------------------------------------------------------------------------
(* Serial moves.                                                           *)

\* The transition i may be taken by the actor, with the reason, for a record like this.
AllowedFor(rec, i, actor, reason) ==
  LET t == Flow.transitions[i]
  IN /\ i \in Available(Flow, rec.state)
     /\ Permitted(t, actor)
     /\ Guarded(t, rec, actor, reason)

\* A move not yet saved is allowed for the record as loaded.  A saved one is allowed for the
\* committed record, whose number it keeps unless it draws the next.
HoldsMove(r) ==
  LET held == tx[r]
  IN /\ pc[r] = "save" => AllowedFor(held.rec, held.t, held.actor, held.reason)
     /\ pc[r] \in {"effects", "commit"} => AllowedFor(record, held.t, held.actor, held.reason)
     /\ pc[r] = "commit" =>
          held.rec.number = IF kind \in Numbered /\ record.number = 0 /\ Allocates(held.t)
                            THEN counter + 1 ELSE record.number
MoveInv == \A r \in Request : HoldsMove(r)

\* Nothing is committed, and only one request changes what it holds.
LEMMA OthersKeepMove ==
  ASSUME IInv, MoveInv, NEW r \in Request, NEW step, pc' = [pc EXCEPT ![r] = step],
         \A q \in Request \ {r} : tx'[q] = tx[q],
         UNCHANGED <<kind, record, counter>>, HoldsMove(r)'
  PROVE  MoveInv'
<1> SUFFICES ASSUME NEW q \in Request \ {r} PROVE HoldsMove(q)'
  BY DEF MoveInv
<1>1. pc'[q] = pc[q] /\ tx'[q] = tx[q] /\ HoldsMove(q)
  BY DEF MoveInv, IInv, TypeOK
<1> QED BY <1>1 DEF HoldsMove, AllowedFor, Allocates, Flow

\* The beginning and the end of a request that commits nothing.
LEMMA OutsideKeepsMove ==
  ASSUME IInv, MoveInv, NEW r \in Request, NEW step, step \in {"idle", "loaded"},
         pc' = [pc EXCEPT ![r] = step], \A q \in Request \ {r} : tx'[q] = tx[q],
         UNCHANGED <<kind, record, counter>>
  PROVE  MoveInv'
<1>1. pc'[r] = step
  BY DEF IInv, TypeOK
<1>2. HoldsMove(r)'
  BY <1>1 DEF HoldsMove
<1> QED BY <1>2, OthersKeepMove

LEMMA PerformKeepsMove == ASSUME IInv, MoveInv, NEW r \in Request, Perform(r) PROVE MoveInv'
<1>1. PICK to, action : \E i \in Chosen(tx[r].rec.state, to, action, tx[r].actor),
                           reason \in BOOLEAN :
        /\ Guarded(Flow.transitions[i], tx[r].rec, tx[r].actor, reason)
        /\ tx' = [tx EXCEPT ![r].t = i, ![r].reason = reason]
  BY DEF Perform
<1>2. PICK i \in Chosen(tx[r].rec.state, to, action, tx[r].actor), reason \in BOOLEAN :
        /\ Guarded(Flow.transitions[i], tx[r].rec, tx[r].actor, reason)
        /\ tx' = [tx EXCEPT ![r].t = i, ![r].reason = reason]
  BY <1>1, Zenon
<1>3. AllowedFor(tx[r].rec, i, tx[r].actor, reason)
  BY <1>2 DEF Chosen, AllowedFor
<1>4. tx \in [Request -> Tx]
  BY DEF IInv, TypeOK
<1>5. /\ pc' = [pc EXCEPT ![r] = "save"] /\ pc'[r] = "save"
      /\ UNCHANGED <<kind, record, trail, jobs, counter, lock>>
  BY DEF Perform, IInv, TypeOK
<1>6. /\ tx'[r].rec = tx[r].rec /\ tx'[r].actor = tx[r].actor
      /\ tx'[r].t = i /\ tx'[r].reason = reason
      /\ \A q \in Request \ {r} : tx'[q] = tx[q]
  BY <1>2, <1>4 DEF Tx
<1>7. HoldsMove(r)'
  BY <1>3, <1>5, <1>6 DEF HoldsMove, AllowedFor, Flow
<1> QED BY <1>5, <1>6, <1>7, OthersKeepMove

\* The version is as loaded, and so is the record.
LEMMA SaveKeepsMove == ASSUME IInv, MoveInv, NEW r \in Request, Save(r) PROVE MoveInv'
<1>1. /\ pc' = [pc EXCEPT ![r] = "effects"] /\ pc[r] = "save" /\ pc'[r] = "effects"
      /\ tx[r].rec.version = record.version
      /\ UNCHANGED <<kind, record, trail, jobs, counter>>
  BY DEF Save, Fresh, IInv, TypeOK
<1>2. tx \in [Request -> Tx]
  BY DEF IInv, TypeOK
<1>3. /\ tx'[r].t = tx[r].t /\ tx'[r].actor = tx[r].actor /\ tx'[r].reason = tx[r].reason
      /\ \A q \in Request \ {r} : tx'[q] = tx[q]
  BY <1>2 DEF Save, Tx
<1>4. AllowedFor(record, tx[r].t, tx[r].actor, tx[r].reason)
  BY <1>1 DEF IInv, LoadedInv, MoveInv, HoldsMove
<1>5. HoldsMove(r)'
  BY <1>1, <1>3, <1>4 DEF HoldsMove, AllowedFor, Flow
<1> QED BY <1>1, <1>3, <1>5, OthersKeepMove

LEMMA EffectsKeepMove ==
  ASSUME IInv, NumberInv, MoveInv, NEW r \in Request, RunEffects(r)
  PROVE  MoveInv'
<1> DEFINE given == IF Allocates(tx[r].t) THEN AllocateNumber(tx[r].rec) ELSE tx[r].rec
<1>1. /\ pc' = [pc EXCEPT ![r] = "commit"] /\ pc[r] = "effects" /\ pc'[r] = "commit"
      /\ UNCHANGED <<kind, record, trail, jobs, counter>>
  BY DEF RunEffects, IInv, TypeOK
<1>2. tx \in [Request -> Tx]
  BY DEF IInv, TypeOK
<1>3. /\ tx'[r].rec = given /\ tx'[r].t = tx[r].t
      /\ tx'[r].actor = tx[r].actor /\ tx'[r].reason = tx[r].reason
      /\ \A q \in Request \ {r} : tx'[q] = tx[q]
  BY <1>2 DEF RunEffects, Allocates, Tx
<1>4. given.number = IF kind \in Numbered /\ record.number = 0 /\ Allocates(tx[r].t)
                     THEN counter + 1 ELSE record.number
  <2>1. tx[r].rec.number = record.number /\ tx[r].rec \in Row
    BY <1>1, <1>2 DEF NumberInv, HoldsNumber, Tx
  <2> QED BY <2>1 DEF AllocateNumber, Row
<1>5. AllowedFor(record, tx[r].t, tx[r].actor, tx[r].reason)
  BY <1>1 DEF MoveInv, HoldsMove
<1> HIDE DEF given
<1>6. HoldsMove(r)'
  BY <1>1, <1>3, <1>4, <1>5 DEF HoldsMove, AllowedFor, Allocates, Flow
<1> QED BY <1>1, <1>3, <1>6, OthersKeepMove

\* No other request is past its save, and the record that another has loaded stays as loaded.
LEMMA CommitKeepsMove == ASSUME IInv, MoveInv, NEW r \in Request, Commit(r) PROVE MoveInv'
<1>1. /\ pc[r] = "commit" /\ pc' = [pc EXCEPT ![r] = "idle"]
      /\ \A q \in Request \ {r} : tx'[q] = tx[q]
      /\ UNCHANGED kind
  BY DEF Commit, Leave, IInv, TypeOK
<1>2. \A q \in Request : pc'[q] \notin {"effects", "commit"}
  BY <1>1 DEF IInv, SavedInv, TypeOK
<1> SUFFICES ASSUME NEW q \in Request, pc'[q] = "save" PROVE HoldsMove(q)'
  BY <1>2 DEF MoveInv, HoldsMove
<1>3. q # r /\ pc[q] = "save" /\ tx'[q] = tx[q]
  BY <1>1 DEF IInv, TypeOK
<1> QED BY <1>1, <1>2, <1>3 DEF MoveInv, HoldsMove, AllowedFor, Flow

LEMMA NextKeepsMove == IInv /\ NumberInv /\ MoveInv /\ [Next]_vars => MoveInv'
<1> SUFFICES ASSUME IInv, NumberInv, MoveInv, [Next]_vars PROVE MoveInv'
  OBVIOUS
<1>1. ASSUME NEW r \in Request, Load(r) PROVE MoveInv'
  BY <1>1, OutsideKeepsMove DEF Load, IInv, TypeOK
<1>2. ASSUME NEW r \in Request, RollBack(r) PROVE MoveInv'
  BY <1>2, OutsideKeepsMove DEF RollBack, Leave, IInv, TypeOK
<1>3. ASSUME NEW r \in Request, Perform(r) \/ Save(r) \/ RunEffects(r) \/ Commit(r)
      PROVE  MoveInv'
  BY <1>3, PerformKeepsMove, SaveKeepsMove, EffectsKeepMove, CommitKeepsMove
<1>4. CASE Quiet \/ UNCHANGED vars
  BY <1>4 DEF Quiet, vars, MoveInv, HoldsMove, AllowedFor, Allocates, Flow
<1> QED BY <1>1, <1>2, <1>3, <1>4 DEF Next

\* A commit is one whole move of the record it replaces.
LEMMA CommitMoves ==
  ASSUME IInv, NumberInv, JobsInv, MoveInv, NEW r \in Request, Commit(r)
  PROVE  Serial!Next
<1> DEFINE t == Flow.transitions[tx[r].t]
<1>1. /\ record' = tx[r].rec
      /\ trail' = Append(trail, [t |-> tx[r].t, by |-> tx[r].actor, reason |-> tx[r].reason])
      /\ jobs' = jobs \o tx[r].events
      /\ counter' = IF tx[r].rec.number > counter THEN tx[r].rec.number ELSE counter
      /\ pc[r] = "commit" /\ kind' = kind
  BY DEF Commit
<1>2. /\ tx[r].actor \in Actor /\ tx[r].reason \in BOOLEAN
      /\ tx[r].t \in DOMAIN Flow.transitions
      /\ tx[r].rec.state = t.to /\ tx[r].rec.by = tx[r].actor
      /\ tx[r].events = EventsOf(t)
  BY <1>1 DEF IInv, TypeOK, Tx, LoadedInv, SavedInv, Leads, JobsInv
<1>3. Serial!Allowed(tx[r].t, tx[r].actor, tx[r].reason)
  <2>1. AllowedFor(record, tx[r].t, tx[r].actor, tx[r].reason)
    BY <1>1 DEF MoveInv, HoldsMove
  <2>2. record.state \notin Flow.terminal
        /\ t.from \in {record.state, AnyState} /\ t.to # record.state
    BY <2>1 DEF AllowedFor, Available
  <2>3. (t.action = "system") = (tx[r].actor = System)
    BY <2>1 DEF AllowedFor, Permitted
  <2>4. \A i \in DOMAIN t.guards :
          /\ t.guards[i] = "reason_required" => tx[r].reason
          /\ t.guards[i] = "actor_is_not_entrant" /\ Strict => record.by # tx[r].actor
    BY <2>1 DEF AllowedFor, Guarded, ActorIsNotEntrant
  <2> QED BY <2>2, <2>3, <2>4
          DEF Serial!Allowed, Serial!Leaves, Serial!Mentions, Serial!Flow, Flow
<1> DEFINE draws == kind \in Numbered /\ record.number = 0 /\ Allocates(tx[r].t)
<1>4. /\ tx[r].rec.number = IF draws THEN counter + 1 ELSE record.number
      /\ counter = record.number /\ counter \in Nat
  BY <1>1 DEF MoveInv, HoldsMove, NumberInv, RecordNumbered, IInv, TypeOK
<1>5. counter' = IF draws THEN counter + 1 ELSE counter
  BY <1>1, <1>4
<1>6. Serial!Draws(t) = draws
  BY DEF Serial!Draws, Serial!Mentions, Allocates
<1>7. Serial!Flow.transitions[tx[r].t] = t
  BY DEF Serial!Flow, Flow
<1> HIDE DEF t, draws
<1>8. Serial!Move(tx[r].t, tx[r].actor, tx[r].reason)
  BY <1>1, <1>2, <1>3, <1>4, <1>5, <1>6, <1>7 DEF Serial!Move
<1> QED BY <1>2, <1>8 DEF Serial!Next, Serial!Flow, Flow, Actor

\* Every step moves the committed record by a whole move or leaves it as it is.
LEMMA StepsAreSerial ==
  IInv /\ NumberInv /\ JobsInv /\ MoveInv /\ [Next]_vars
    => [Serial!Next]_<<kind, [state |-> record.state, by |-> record.by, number |-> record.number],
                       trail, jobs, counter>>
<1> SUFFICES ASSUME IInv, NumberInv, JobsInv, MoveInv, [Next]_vars,
                    ~ UNCHANGED <<kind, record, trail, jobs, counter>>
             PROVE  Serial!Next
  OBVIOUS
<1>1. PICK r \in Request : Commit(r)
  BY DEF Next, Load, Perform, Save, RunEffects, RollBack, Quiet, vars
<1> QED BY <1>1, CommitMoves

\* However requests load, move and save the record at once, whoever reads committed rows sees
\* it moved by one whole transition after the other, each allowed for the record it moved.
THEOREM RequestsAreSerial == Spec => MovesAreSerial
<1>1. Init => MoveInv
  BY DEF Init, MoveInv, HoldsMove
<1>2. Spec => [](IInv /\ NumberInv /\ JobsInv /\ MoveInv)
  BY <1>1, InitHolds, NumberInitHolds, JobsInitHold,
     NextKeeps, NextKeepsNumber, NextKeepsJobs, NextKeepsMove, PTL DEF Spec
<1>3. Init => Serial!Init
  BY DEF Init, Serial!Init, Serial!Flow
<1> QED BY <1>2, <1>3, StepsAreSerial, PTL DEF Spec, MovesAreSerial, Serial!Spec
=============================================================================
