----------------------------- MODULE MCDocuments -----------------------------
(* Three documents, two concurrent requests, three keys, two heads.          *)
EXTENDS Documents, TLC

\* Requests are interchangeable, and so are documents.
Symmetry == Permutations(Request) \cup Permutations(Doc)
=============================================================================
