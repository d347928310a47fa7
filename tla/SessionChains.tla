----------------------------- MODULE SessionChains -----------------------------
(***************************************************************************)
(* What the refresh tokens of a user promise, without requests, locks or   *)
(* transactions: a login opens a session with one usable token, a refresh  *)
(* swaps it for a new one of the same session, and a token that has become *)
(* unusable never is usable again.                                         *)
(***************************************************************************)
CONSTANT Token

VARIABLES
  issued,     \* tokens handed to the user
  usable,     \* those that a refresh would accept
  sessionOf   \* session of each token; it is named after its first

Init == issued = {} /\ usable = {} /\ sessionOf = [k \in Token |-> k]

Open(n) ==
  /\ n \notin issued
  /\ issued' = issued \cup {n}
  /\ usable' = usable \cup {n}
  /\ sessionOf[n] = n
  /\ UNCHANGED sessionOf

Swap(k, n) ==
  /\ n \notin issued
  /\ issued' = issued \cup {n}
  /\ usable' = (usable \ {k}) \cup {n}
  /\ sessionOf' = [sessionOf EXCEPT ![n] = sessionOf[k]]

\* A logout, a reuse, a disable or a change of password.
Close(ended) ==
  /\ usable' = usable \ ended
  /\ UNCHANGED <<issued, sessionOf>>

Next == \/ \E n \in Token : Open(n)
        \/ \E k \in usable, n \in Token : Swap(k, n)
        \/ \E ended \in SUBSET usable : Close(ended)

Spec == Init /\ [][Next]_<<issued, usable, sessionOf>>
=============================================================================
