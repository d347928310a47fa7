----------------------------- MODULE SerialWorkflow -----------------------------
(***************************************************************************)
(* What the workflow engine promises of one record: it is moved by one     *)
(* whole transition after the other, each allowed for the record as it     *)
(* then is.  There are no requests, versions, locks or roll-backs here.    *)
(***************************************************************************)
EXTENDS Naturals, Sequences

CONSTANTS
  Kind,         \* kinds of record
  Numbered,     \* those whose records have a numbering_kind
  User,
  System,       \* the actor of type SYSTEM
  None,         \* nobody
  Strict,       \* the branch's reviewer_must_differ_from_entrant
  Default,      \* the workflow of each kind
  AnyState,     \* the from_state of a transition from any state that is not terminal
  EventsOf(_)   \* the events that the effects of a transition emit

VARIABLES
  kind,      \* the record's kind
  record,    \* its state, who moved it there, and its number
  trail,     \* audit events: transition, actor, reason
  jobs,      \* events handed over to the outbox
  counter    \* value of the numbering counter

Flow == Default[kind]

Init ==
  /\ kind \in Kind
  /\ record = [state |-> Flow.initial, by |-> None, number |-> 0]
  /\ trail = <<>> /\ jobs = <<>> /\ counter = 0

Leaves(t) ==
  /\ record.state \notin Flow.terminal
  /\ t.from \in {record.state, AnyState} /\ t.to # record.state

Mentions(list, name) == \E i \in DOMAIN list : list[i] = name

\* The actor may take the transition i, giving a reason or not, with the record as it is.
Allowed(i, actor, reason) ==
  LET t == Flow.transitions[i]
  IN /\ Leaves(t)
     /\ (t.action = "system") = (actor = System)
     /\ Mentions(t.guards, "reason_required") => reason
     /\ Mentions(t.guards, "actor_is_not_entrant") /\ Strict => record.by # actor

\* A record that has none draws the next number.
Draws(t) ==
  kind \in Numbered /\ record.number = 0 /\ Mentions(t.effects, "allocate_number")

Move(i, actor, reason) ==
  LET t == Flow.transitions[i]
  IN /\ trail' = Append(trail, [t |-> i, by |-> actor, reason |-> reason])
     /\ Allowed(i, actor, reason)
     /\ record' = [state |-> t.to, by |-> actor,
                   number |-> IF Draws(t) THEN counter + 1 ELSE record.number]
     /\ counter' = IF Draws(t) THEN counter + 1 ELSE counter
     /\ jobs' = jobs \o EventsOf(t)
     /\ UNCHANGED kind

Next == \E i \in DOMAIN Flow.transitions, actor \in User \cup {System}, reason \in BOOLEAN :
          Move(i, actor, reason)

Spec == Init /\ [][Next]_<<kind, record, trail, jobs, counter>>
=============================================================================
