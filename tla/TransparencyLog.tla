---------------------------- MODULE TransparencyLog ----------------------------
(***************************************************************************)
(* What the log of issued documents promises whoever keeps a signed head:  *)
(* documents are appended, once each, and nothing else ever happens to the *)
(* log; a head is signed over the log as it is or as it was.               *)
(***************************************************************************)
EXTENDS Naturals, Sequences

CONSTANT Doc

VARIABLES
  log,    \* the documents, in the order of their leaves
  heads   \* what each signed head covers

Init == log = <<>> /\ heads = <<>>

Append1(d) ==
  /\ \A i \in DOMAIN log : log[i] # d
  /\ log' = Append(log, d)
  /\ UNCHANGED heads

Sign(size) ==
  /\ heads' = Append(heads, SubSeq(log, 1, size))
  /\ UNCHANGED log

Next == (\E d \in Doc : Append1(d)) \/ (\E size \in 0..Len(log) : Sign(size))

Spec == Init /\ [][Next]_<<log, heads>>
=============================================================================
