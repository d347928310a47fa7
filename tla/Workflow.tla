------------------------------- MODULE Workflow -------------------------------
(***************************************************************************)
(* The workflow engine (src/backend/mizan/apps/config/workflows.py) with   *)
(* the effects of guards_effects.py: concurrent requests move one record   *)
(* along the default workflow of its kind.  perform() is one transaction   *)
(* under READ COMMITTED; the record is loaded before it and saved under    *)
(* its row_version.                                                        *)
(*                                                                         *)
(* The apps that own the records register the other guards and effects:    *)
(* such a guard holds or not, such an effect succeeds or raises.           *)
(***************************************************************************)
EXTENDS DefaultWorkflows

CONSTANTS
  Kind,      \* kinds of record looked at
  Numbered,  \* those whose records have a numbering_kind
  User,
  System,    \* the actor of type SYSTEM
  None,      \* nobody
  Request,   \* concurrent requests
  Strict,    \* the branch's reviewer_must_differ_from_entrant
  MaxMoves   \* [Kind -> Nat], bound: transitions of the record

ASSUME WorkflowAssumption ==
  /\ Kind \subseteq Kinds /\ Numbered \subseteq Kind
  /\ System # None /\ {System, None} \cap User = {}
  /\ None \notin Request
  /\ Strict \in BOOLEAN
  /\ MaxMoves \in [Kind -> Nat]

\* activate() would accept every workflow the tenant is provisioned with.
ASSUME DefaultsAreValid ==
  \A k \in Kinds : /\ Valid(k, Default[k])
                   /\ DOMAIN Default[k].transitions \subseteq Nat

\* A transition that issues a document of a numbered record allocates the number first.
ASSUME DocumentsAreNumbered ==
  \A k \in Numbered : \A i \in DOMAIN Default[k].transitions :
    LET effects == Default[k].transitions[i].effects
    IN \A j \in DOMAIN effects : effects[j] = "issue_document" =>
         \E n \in DOMAIN effects : n < j /\ effects[n] = "allocate_number"

\* Whoever takes a result under review is looked at.
ASSUME ReviewsAreGuarded ==
  \A k \in Kinds : \A i \in DOMAIN Default[k].transitions :
    LET t == Default[k].transitions[i]
    IN t.to = "UNDER_REVIEW" => \E j \in DOMAIN t.guards : t.guards[j] = "actor_is_not_entrant"

\* The events that the emit effects of a transition defer.
EventsOf(t) == SelectSeq(t.effects, LAMBDA e : EffectCode(e) = "emit")

ASSUME EventsAreNames ==
  \A k \in Kinds : \A i \in DOMAIN Default[k].transitions :
    EventsOf(Default[k].transitions[i]) \in Seq(STRING)

VARIABLES
  kind,      \* the record's kind
  record,    \* its committed row
  trail,     \* committed audit events: transition, actor, reason
  jobs,      \* events of committed outbox jobs
  counter,   \* committed value of the numbering counter
  lock,      \* request that holds the row's lock
  pc, tx     \* what each request does next, and what it holds

vars == <<kind, record, trail, jobs, counter, lock, pc, tx>>

Actor == User \cup {System}
Flow  == Default[kind]
NoTx  == [actor |-> None, rec |-> record, t |-> 0, reason |-> FALSE, events |-> <<>>]

Init ==
  /\ kind \in Kind
  /\ record = [state |-> Default[kind].initial, by |-> None, number |-> 0, version |-> 1]
  /\ trail = <<>> /\ jobs = <<>> /\ counter = 0
  /\ lock = None
  /\ pc = [r \in Request |-> "idle"]
  /\ tx = [r \in Request |-> NoTx]

-----------------------------------------------------------------------------
\* Mutant: who may take an action may take the system's.
PermittedToUsers(t, actor) == actor = System => t.action = "system"

\* _permitted(): a user's permissions may allow any action but "system".
Permitted(t, actor) == (t.action = "system") = (actor = System)

\* perform(): the first transition, in their order, to the semantic asked for by an
\* action asked for or any, that the actor is permitted.
Chosen(state, to, action, actor) ==
  LET permitted == {i \in Available(Flow, state) :
                      LET t == Flow.transitions[i]
                      IN t.to = to /\ action \in {t.action, AnyState} /\ Permitted(t, actor)}
  IN {i \in permitted : \A j \in permitted : i <= j}

\* Mutant: the entrant of a state may review it.
ActorMayBeEntrant(rec, actor) == TRUE

\* actor_is_not_entrant().
ActorIsNotEntrant(rec, actor) == Strict => rec.by # actor

\* _run_guards(), for the guards whose outcome is the engine's own.
Guarded(t, rec, actor, reason) ==
  \A i \in DOMAIN t.guards :
    /\ t.guards[i] = "reason_required" => reason
    /\ t.guards[i] = "actor_is_not_entrant" => ActorIsNotEntrant(rec, actor)

Leave(r) ==
  /\ pc' = [pc EXCEPT ![r] = "idle"]
  /\ tx' = [tx EXCEPT ![r] = [actor |-> None, rec |-> record', t |-> 0, reason |-> FALSE,
                              events |-> <<>>]]
  /\ lock' = IF lock = r THEN None ELSE lock

\* The handler loads the record.
Load(r) ==
  /\ pc[r] = "idle"
  /\ \E a \in Actor :
       tx' = [tx EXCEPT ![r] = [actor |-> a, rec |-> record, t |-> 0, reason |-> FALSE,
                                events |-> <<>>]]
  /\ pc' = [pc EXCEPT ![r] = "loaded"]
  /\ UNCHANGED <<kind, record, trail, jobs, counter, lock>>

\* perform() to its guards, all of which hold for the record as loaded.
Perform(r) ==
  LET rec == tx[r].rec
      a == tx[r].actor
  IN /\ pc[r] = "loaded"
     /\ \E to \in Flow.states, action \in {AnyState} \cup {t.action : t \in
             {Flow.transitions[j] : j \in DOMAIN Flow.transitions}} :
        \E i \in Chosen(rec.state, to, action, a), reason \in BOOLEAN :
          /\ Guarded(Flow.transitions[i], rec, a, reason)
          /\ tx' = [tx EXCEPT ![r].t = i, ![r].reason = reason]
     /\ pc' = [pc EXCEPT ![r] = "save"]
     /\ UNCHANGED <<kind, record, trail, jobs, counter, lock>>

\* Mutant: save() without the condition on row_version.
FreshOrNot(rec) == TRUE

\* The condition of _save_with_version_check().
Fresh(rec) == rec.version = record.version

\* record.save() of the new state, which locks the row, and the audit event.
Save(r) ==
  LET t == Flow.transitions[tx[r].t]
  IN /\ pc[r] = "save" /\ lock = None
     /\ Len(trail) < MaxMoves[kind]
     /\ Fresh(tx[r].rec)
     /\ lock' = r
     /\ tx' = [tx EXCEPT ![r].rec = [state |-> t.to, by |-> tx[r].actor,
                                      number |-> tx[r].rec.number,
                                      version |-> tx[r].rec.version + 1]]
     /\ pc' = [pc EXCEPT ![r] = "effects"]
     /\ UNCHANGED <<kind, record, trail, jobs, counter>>

\* Mutant: a record gets a number every time.
NumberEveryTime(rec) == [rec EXCEPT !.number = counter + 1, !.version = @ + 1]

\* allocate_number(): a record that has a number keeps it; one with no numbering_kind gets none.
AllocateNumber(rec) ==
  IF rec.number # 0 \/ kind \notin Numbered THEN rec
  ELSE [rec EXCEPT !.number = counter + 1, !.version = @ + 1]

\* Mutant: the events are handed over at once.
RunEffectsAtOnce(r) ==
  LET t == Flow.transitions[tx[r].t]
  IN /\ pc[r] = "effects"
     /\ jobs' = jobs \o EventsOf(t)
     /\ tx' = [tx EXCEPT ![r].rec = IF \E i \in DOMAIN t.effects : t.effects[i] = "allocate_number"
                                    THEN AllocateNumber(@) ELSE @]
     /\ pc' = [pc EXCEPT ![r] = "commit"]
     /\ UNCHANGED <<kind, record, trail, counter, lock>>

\* _run_effects(): the jobs are rows of the same transaction.
RunEffects(r) ==
  LET t == Flow.transitions[tx[r].t]
  IN /\ pc[r] = "effects"
     /\ tx' = [tx EXCEPT
          ![r].rec = IF \E i \in DOMAIN t.effects : t.effects[i] = "allocate_number"
                     THEN AllocateNumber(@) ELSE @,
          ![r].events = EventsOf(t)]
     /\ pc' = [pc EXCEPT ![r] = "commit"]
     /\ UNCHANGED <<kind, record, trail, jobs, counter, lock>>

Commit(r) ==
  /\ pc[r] = "commit"
  /\ record' = tx[r].rec
  /\ trail' = Append(trail, [t |-> tx[r].t, by |-> tx[r].actor, reason |-> tx[r].reason])
  /\ jobs' = jobs \o tx[r].events
  /\ counter' = IF tx[r].rec.number > counter THEN tx[r].rec.number ELSE counter
  /\ Leave(r)
  /\ UNCHANGED kind

\* No transition, a guard that fails, ConcurrentUpdate, an effect that raises, a crash.
RollBack(r) ==
  /\ pc[r] # "idle"
  /\ UNCHANGED <<kind, record, trail, jobs, counter>>
  /\ Leave(r)

\* No request need come.
Quiet == (\A r \in Request : pc[r] = "idle") /\ UNCHANGED vars

Next == \/ \E r \in Request : \/ Load(r) \/ Perform(r) \/ Save(r) \/ RunEffects(r)
                              \/ Commit(r) \/ RollBack(r)
        \/ Quiet

Spec == Init /\ [][Next]_vars

-----------------------------------------------------------------------------
Row == [state : UNION {Default[k].states : k \in Kind}, by : Actor \cup {None}, number : Nat,
        version : Nat \ {0}]
Entry == [t : Nat, by : Actor, reason : BOOLEAN]
Tx == [actor : Actor \cup {None}, rec : Row, t : Nat, reason : BOOLEAN, events : Seq(STRING)]

TypeOK ==
  /\ kind \in Kind
  /\ record \in Row
  /\ trail \in Seq(Entry)
  /\ jobs \in Seq(STRING)
  /\ counter \in Nat
  /\ lock \in Request \cup {None}
  /\ pc \in [Request -> {"idle", "loaded", "save", "effects", "commit"}]
  /\ tx \in [Request -> Tx]

\* The transition of each audit event, and the state it left.
Step(n)   == Flow.transitions[trail[n].t]
Before(n) == IF n = 1 THEN Flow.initial ELSE Step(n - 1).to

\* The audit trail is the path the record took: its transitions join up from the initial
\* state to the present one, also when requests that loaded the same row cross.
TrailIsThePath ==
  /\ \A n \in DOMAIN trail : Step(n).from = Before(n) \/ (Step(n).from = AnyState
                                                          /\ Before(n) \notin Flow.terminal)
  /\ record.state = IF trail = <<>> THEN Flow.initial ELSE Step(Len(trail)).to
  /\ trail # <<>> => record.by = trail[Len(trail)].by

\* No result is taken under review by the one who measured it, whoever moved the record
\* between the loading of the row and the save.
ReviewedByAnother ==
  Strict => \A n \in DOMAIN trail \ {1} :
    Step(n).to = "UNDER_REVIEW" => trail[n].by # trail[n - 1].by

\* A record draws one number in its life, through revisions and requests that cross, and
\* has it before any of its documents is issued.
NumberedOnce ==
  /\ counter = record.number /\ counter <= 1
  /\ kind \in Numbered /\ (\E n \in DOMAIN trail :
       \E i \in DOMAIN Step(n).effects : Step(n).effects[i] = "issue_document")
     => record.number # 0

\* Exactly the events of the committed transitions go out, in their order, whichever
\* effect failed on the way.
JobsMatchTrail ==
  LET due[n \in 0..Len(trail)] == IF n = 0 THEN <<>> ELSE due[n - 1] \o EventsOf(Step(n))
  IN jobs = due[Len(trail)]

\* To whoever reads committed rows, the record moves by whole transitions one after the other,
\* each allowed for the record it moved: requests that cross are as good as serial ones.
Serial == INSTANCE SerialWorkflow WITH
            record <- [state |-> record.state, by |-> record.by, number |-> record.number]
MovesAreSerial == Serial!Spec
=============================================================================
