-------------------------- MODULE MCRefreshSessions --------------------------
(* Concurrent requests on one account: its tokens and passwords.               *)
EXTENDS RefreshSessions, TLC

\* Request and token names are interchangeable.
Symmetry == Permutations(Request) \cup Permutations(Token)
=============================================================================
