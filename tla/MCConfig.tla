------------------------------ MODULE MCConfig ------------------------------
(* Every section, three rows, two concurrent requests.                       *)
EXTENDS Config, TLC

AllSections == Versioned \cup Coded \cup {"terms", "prices"}

\* Requests are interchangeable.
Symmetry == Permutations(Request)
=============================================================================
