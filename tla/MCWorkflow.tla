------------------------------ MODULE MCWorkflow ------------------------------
(* Five kinds of record, two users and the system, two concurrent requests.    *)
EXTENDS Workflow, TLC

MCMaxMoves == [k \in Kind |-> IF k = "TEST_RUN" THEN 5 ELSE 3]

\* Requests are interchangeable, and so are users.
Symmetry == Permutations(Request) \cup Permutations(User)
=============================================================================
