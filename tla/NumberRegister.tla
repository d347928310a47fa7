----------------------------- MODULE NumberRegister -----------------------------
(***************************************************************************)
(* What number allocation promises whoever reads committed rows: a         *)
(* register that hands out the next values of its counters, those for one  *)
(* request all at once, and passes over a value only when its number is    *)
(* reserved.  There are no locks, statements, roll-backs or deadlocks.     *)
(***************************************************************************)
EXTENDS Naturals

CONSTANTS
  Counter,              \* counter rows: a scheme and a period
  Date,
  PeriodKey(_, _),      \* the period of a date in a scheme
  FormatNumber(_, _, _) \* the number that a scheme, a date and a value give

VARIABLES
  base,          \* value of each counter
  issued,        \* the numbers handed out
  reservations   \* reserved numbers of each scheme

CounterOf(i) == <<i.scheme, i.key>>

Init ==
  /\ base = [c \in Counter |-> 0]
  /\ issued = {}
  /\ \A s \in DOMAIN reservations : reservations[s] = {}

\* The value n of the counter c is a reserved number.
Reserved(c, n) ==
  \E d \in Date : PeriodKey(c[1], d) = c[2] /\ FormatNumber(c[1], d, n) \in reservations[c[1]]

\* The number i shows its counter's value and a date of its period.
WellFormed(i) ==
  \E d \in Date : i.key = PeriodKey(i.scheme, d) /\ i.number = FormatNumber(i.scheme, d, i.seq)

\* One request gets the values from base to base', each of them once.
HandOut ==
  LET handed == issued' \ issued
      Carry(c, n) == {i \in handed : CounterOf(i) = c /\ i.seq = n}
  IN /\ issued \subseteq issued'
     /\ \A i, j \in handed : i.tx = j.tx
     /\ \A i \in handed : /\ WellFormed(i)
                          /\ i.seq \in (base[CounterOf(i)] + 1)..base'[CounterOf(i)]
     /\ \A i, j \in handed : CounterOf(i) = CounterOf(j) /\ i.seq = j.seq => i = j
     /\ \A c \in Counter :
          /\ base[c] <= base'[c]
          /\ \A n \in (base[c] + 1)..base'[c] : Carry(c, n) # {} \/ Reserved(c, n)
     /\ UNCHANGED reservations

Reserve ==
  /\ DOMAIN reservations' = DOMAIN reservations
  /\ \A s \in DOMAIN reservations : reservations[s] \subseteq reservations'[s]
  /\ UNCHANGED <<base, issued>>

Next == HandOut \/ Reserve

Spec == Init /\ [][Next]_<<base, issued, reservations>>
=============================================================================
