------------------------------- MODULE Promise -------------------------------
(***************************************************************************)
(* What the notification pipeline promises for one event, one rule and one *)
(* recipient (SPEC section 19 and 27.4), without jobs, workers, versions   *)
(* or crashes: the deliveries of the rule appear together, each is settled *)
(* once, and another channel is tried exactly when one has failed.         *)
(*                                                                         *)
(* A delivery is named by the channels tried to get to it: <<sms>> is the  *)
(* rule's delivery by SMS, <<sms, email>> its fallback to e-mail.          *)
(***************************************************************************)
EXTENDS Naturals, Sequences, SequencesExt

CONSTANTS Channel, RuleChannels

VARIABLE outcome   \* status of each delivery there is

Outcome == {"pending", "skipped", "sent", "failed"}

Init == outcome = [d \in {} |-> "pending"]

\* The rule is applied to the event: all its deliveries at once.
Plan ==
  /\ outcome = [d \in {} |-> "pending"]
  /\ outcome' \in [{<<c>> : c \in RuleChannels} -> {"pending", "skipped"}]

Send(d) ==
  /\ outcome[d] = "pending"
  /\ outcome' = [outcome EXCEPT ![d] = "sent"]

\* A failure is recorded with its fallback, if there is one.
Fail(d) ==
  /\ outcome[d] = "pending"
  /\ \/ outcome' = [outcome EXCEPT ![d] = "failed"]
     \/ \E c \in Channel \ {Last(d)} :
          /\ Append(d, c) \notin DOMAIN outcome
          /\ outcome' = [e \in DOMAIN outcome \cup {Append(d, c)} |->
                           IF e = d THEN "failed"
                           ELSE IF e = Append(d, c) THEN "pending" ELSE outcome[e]]

\* An operator tries a failed or skipped delivery again.
Retry(d) ==
  /\ outcome[d] \in {"failed", "skipped"}
  /\ Append(d, Last(d)) \notin DOMAIN outcome
  /\ outcome' = [e \in DOMAIN outcome \cup {Append(d, Last(d))} |->
                   IF e = Append(d, Last(d)) THEN "pending" ELSE outcome[e]]

Next == Plan \/ \E d \in DOMAIN outcome : Send(d) \/ Fail(d) \/ Retry(d)

Spec == Init /\ [][Next]_outcome
=============================================================================
