--------------------------- MODULE NumberingProofs ---------------------------
(***************************************************************************)
(* Theorems about Numbering for any number of schemes, periods and         *)
(* requests.  The inductive invariant IInv says what a request holds       *)
(* between two statements: the counter rows it has incremented stay locked *)
(* by it, the values it has drawn lie above the committed value, and each  *)
(* of them is one of its numbers or a reserved number.                     *)
(***************************************************************************)
EXTENDS Numbering, TLAPS

Row(i) == <<i.scheme, i.key>>

\* What a request has loaded when it is past its first statement.
LoadedInv ==
  /\ \A t \in Request : pc[t] \notin {"idle", "done"} => obj[t] \in Scheme
  /\ \A t \in Allocator :
       /\ pc[t] \in {"idle", "reserved", "count", "mark", "allocated", "done"}
       /\ pc[t] \notin {"idle", "done"} => day[t] \in Date
       /\ pc[t] \in {"idle", "done"} => taken[t] = {}

\* A counter row differs from its committed value only while a request locks it.
LockInv ==
  \A c \in Counter :
    /\ base[c] <= value[c]
    /\ counterLock[c] \in Allocator \cup {None}
    /\ counterLock[c] = None => value[c] = base[c]

IssuedInv ==
  \A i \in issued : 1 <= i.seq /\ i.seq <= base[Row(i)]

TakenInv ==
  \A t \in Allocator : \A i \in taken[t] :
    /\ counterLock[Row(i)] = t
    /\ base[Row(i)] < i.seq /\ i.seq <= value[Row(i)]

\* One allocation per row and value.
DistinctInv ==
  /\ \A i, j \in issued : Row(i) = Row(j) /\ i.seq = j.seq => i = j
  /\ \A t \in Allocator : \A i, j \in taken[t] :
       Row(i) = Row(j) /\ i.seq = j.seq => i = j

\* The number of an allocation is the one its row, value and a date of its period give.
FormatInv ==
  \A i \in Drawn : \E d \in Date :
    i.key = PeriodKey(i.scheme, d) /\ i.number = FormatNumber(i.scheme, d, i.seq)

SeenInv ==
  \A t \in Allocator : pc[t] = "count" => seen[t] \subseteq reservations[obj[t]]

Skipped(c, n) ==
  \E d \in Date : /\ PeriodKey(c[1], d) = c[2]
                  /\ FormatNumber(c[1], d, n) \in reservations[c[1]]

CoverInv ==
  \A c \in Counter :
    /\ \A n \in 1..base[c] :
         \/ \E i \in issued : i.scheme = c[1] /\ i.key = c[2] /\ i.seq = n
         \/ Skipped(c, n)
    /\ \A n \in (base[c] + 1)..value[c] :
         \/ \E t \in Allocator : \E i \in taken[t] :
              i.scheme = c[1] /\ i.key = c[2] /\ i.seq = n
         \/ Skipped(c, n)

\* A version that is being, or has been, used to allocate was active once.
Used(s) == status[s] \in {"ACTIVE", "RETIRED"}

FrozenInv ==
  /\ \A t \in Allocator :
       pc[t] \notin {"idle", "done"} =>
         /\ Used(obj[t])
         /\ objImmutable[t] => immutable[obj[t]] \/ rowLock[obj[t]] = t
  /\ \A t \in Allocator : \A i \in taken[t] :
       /\ Used(i.scheme)
       /\ \/ immutable[i.scheme]
          \/ rowLock[i.scheme] = t
          \/ pc[t] = "mark" /\ obj[t] = i.scheme
  /\ AllocatedIsFrozen

\* An activation only retires versions of the series it activates a version of.
RetiringInv ==
  \A t \in Activator :
    /\ pc[t] \in {"idle", "scan", "retire", "save", "saved", "done"}
    /\ pc[t] \in {"retire", "save", "saved"} =>
         \A s \in retiring[t] : SeriesOf[s] = SeriesOf[obj[t]]

IInv ==
  /\ TypeOK
  /\ LoadedInv
  /\ LockInv
  /\ IssuedInv
  /\ TakenInv
  /\ DistinctInv
  /\ FormatInv
  /\ SeenInv
  /\ CoverInv
  /\ FrozenInv
  /\ RetiringInv

-----------------------------------------------------------------------------
(* The proofs.                                                             *)

LEMMA InitIInv == Init => IInv
<1> SUFFICES ASSUME Init PROVE IInv
  OBVIOUS
<1> USE ConstantAssumption DEF Init, Request, Counter, Key
<1>1. TypeOK
  BY DEF TypeOK, PcValues, Number, Allocated
<1>2. LoadedInv /\ LockInv /\ RetiringInv
  BY DEF LoadedInv, LockInv, RetiringInv
<1>3. Drawn = {}
  BY DEF Drawn
<1>4. IssuedInv /\ TakenInv /\ DistinctInv /\ FormatInv /\ SeenInv
  BY <1>3 DEF IssuedInv, TakenInv, DistinctInv, FormatInv, SeenInv
<1>5. CoverInv
  BY DEF CoverInv
<1>6. FrozenInv
  BY DEF FrozenInv, AllocatedIsFrozen
<1>7. QED
  BY <1>1, <1>2, <1>4, <1>5, <1>6 DEF IInv

\* Type correctness, one step per action.
LEMMA TypeStep ==
  ASSUME TypeOK, LoadedInv, [Next]_vars
  PROVE  TypeOK'
<1> USE ConstantAssumption DEF TypeOK, LoadedInv, Request, Counter, Key, PcValues,
        schemeVars, counterVars, objVars, ReleaseLocks
<1>1. ASSUME NEW t \in Allocator, LoadScheme(t) PROVE TypeOK'
  <2>1. PICK s \in Scheme, d \in Date :
          /\ obj' = [obj EXCEPT ![t] = s]
          /\ objImmutable' = [objImmutable EXCEPT ![t] = immutable[s] \/ rowLock[s] = t]
          /\ day' = [day EXCEPT ![t] = d]
    BY <1>1 DEF LoadScheme, ActiveScheme, Latest, Active, Versions
  <2>2. QED
    BY <1>1, <2>1 DEF LoadScheme
<1>2. ASSUME NEW t \in Allocator, ReadReserved(t) PROVE TypeOK'
  <2>1. reservations[obj[t]] \in SUBSET Number /\ t \in Request
    BY <1>2 DEF ReadReserved
  <2>2. seen' \in [Request -> SUBSET Number] /\ pc' \in [Request -> PcValues]
    BY <1>2, <2>1 DEF ReadReserved
  <2>3. QED
    BY <1>2, <2>2 DEF ReadReserved
<1>3. ASSUME NEW t \in Allocator, SkipReserved(t) PROVE TypeOK'
  <2> DEFINE c == <<obj[t], PeriodKey(obj[t], day[t])>>
  <2>1. c \in Counter /\ t \in Request
    BY <1>3 DEF SkipReserved, PeriodKey
  <2>2. /\ value' = [value EXCEPT ![c] = value[c] + 1]
        /\ counterLock' = [counterLock EXCEPT ![c] = t]
    BY <1>3 DEF SkipReserved, Increment
  <2>3. /\ value' \in [Counter -> Nat]
        /\ counterLock' \in [Counter -> Request \cup {None}]
    BY <2>1, <2>2
  <2>4. QED
    BY <1>3, <2>3 DEF SkipReserved, Increment
<1>4. ASSUME NEW t \in Allocator, TakeNumber(t) PROVE TypeOK'
  <2> DEFINE s == obj[t]
             c == <<s, PeriodKey(s, day[t])>>
             i == [tx |-> t, ord |-> made[t] + 1, scheme |-> s, key |-> c[2],
                   seq |-> value[c] + 1, number |-> FormatNumber(s, day[t], value[c] + 1)]
  <2>1. s \in Scheme /\ day[t] \in Date /\ t \in Request
    BY <1>4 DEF TakeNumber
  <2>2. c \in Counter /\ c[2] \in Key
    BY <2>1 DEF PeriodKey
  <2>3. value[c] + 1 \in Nat /\ made[t] + 1 \in Nat
    BY <2>1, <2>2
  <2>4. FormatNumber(s, day[t], value[c] + 1) \in Number
    BY <2>1, <2>3 DEF FormatNumber, Shown, Number
  <2>5. i \in Allocated
    BY <2>1, <2>2, <2>3, <2>4 DEF Allocated
  <2>6. /\ taken' = [taken EXCEPT ![t] = @ \cup {i}]
        /\ value' = [value EXCEPT ![c] = value[c] + 1]
        /\ counterLock' = [counterLock EXCEPT ![c] = t]
        /\ made' = [made EXCEPT ![t] = made[t] + 1]
        /\ pc' = [pc EXCEPT ![t] = "mark"]
    BY <1>4 DEF TakeNumber, Increment
  <2>7. taken' \in [Request -> SUBSET Allocated]
    BY <2>1, <2>5, <2>6
  <2>8. value' \in [Counter -> Nat] /\ made' \in [Request -> Nat]
    BY <2>1, <2>2, <2>3, <2>6
  <2>9. counterLock' \in [Counter -> Request \cup {None}] /\ pc' \in [Request -> PcValues]
    BY <2>1, <2>6
  <2>10. QED
    BY <1>4, <2>7, <2>8, <2>9 DEF TakeNumber, Increment
<1>5. ASSUME NEW t \in Allocator, MarkImmutable(t) PROVE TypeOK'
  <2>1. rowLock' \in [Scheme -> Request \cup {None}]
    <3>1. rowLock' = rowLock \/ rowLock' = [rowLock EXCEPT ![obj[t]] = t]
      BY <1>5, Zenon DEF MarkImmutable
    <3>2. QED
      BY <3>1
  <2>2. QED
    BY <1>5, <2>1 DEF MarkImmutable
<1>6. ASSUME NEW t \in Allocator, CommitAllocation(t) PROVE TypeOK'
  BY <1>6 DEF CommitAllocation
<1>7. ASSUME NEW t \in Reserver, CheckReservations(t) PROVE TypeOK'
  <2>1. PICK s \in Scheme, d \in Date :
          \E wanted \in SUBSET {FormatNumber(s, d, n) : n \in Reservable} :
            /\ status[s] # "ABSENT"
            /\ wanted # {}
            /\ obj' = [obj EXCEPT ![t] = s]
            /\ seen' = [seen EXCEPT ![t] = wanted \ reservations[s]]
    <3> HIDE DEF TypeOK, LoadedInv, Request, Counter, Key, PcValues
    <3>1. QED
      BY <1>7 DEF CheckReservations
  <2>2. {FormatNumber(s, d, n) : n \in Reservable} \subseteq Number
    BY DEF FormatNumber, Shown, Number
  <2>3. seen' \in [Request -> SUBSET Number]
    BY <2>1, <2>2
  <2>4. obj' \in [Request -> Scheme \cup {None}] /\ pc' \in [Request -> PcValues]
    BY <1>7, <2>1 DEF CheckReservations
  <2>5. QED
    BY <1>7, <2>3, <2>4 DEF CheckReservations
<1>8. ASSUME NEW t \in Reserver, InsertReservations(t) PROVE TypeOK'
  <2>1. obj[t] \in Scheme /\ t \in Request
    BY <1>8 DEF InsertReservations
  <2>2. reservations' \in [Scheme -> SUBSET Number]
    BY <1>8, <2>1 DEF InsertReservations
  <2>3. QED
    BY <1>8, <2>2 DEF InsertReservations
<1>9. ASSUME NEW t \in Activator, LoadVersion(t) PROVE TypeOK'
  BY <1>9 DEF LoadVersion
<1>10. ASSUME NEW t \in Activator, ScanActive(t) PROVE TypeOK'
  BY <1>10 DEF ScanActive, Active, Versions
<1>11. ASSUME NEW t \in Activator, RetireOthers(t) PROVE TypeOK'
  BY <1>11 DEF RetireOthers
<1>12. ASSUME NEW t \in Activator, SaveActive(t) PROVE TypeOK'
  BY <1>12 DEF SaveActive
<1>13. ASSUME NEW t \in Activator, CommitActivation(t) PROVE TypeOK'
  BY <1>13 DEF CommitActivation
<1>14. ASSUME NEW s \in Scheme, NewVersion(s) PROVE TypeOK'
  BY <1>14 DEF NewVersion
<1>15. ASSUME NEW t \in Request, RollBack(t) PROVE TypeOK'
  BY <1>15 DEF RollBack
<1>16. CASE UNCHANGED vars
  BY <1>16 DEF vars
<1>17. QED
  BY <1>1, <1>2, <1>3, <1>4, <1>5, <1>6, <1>7, <1>8, <1>9, <1>10, <1>11, <1>12, <1>13,
     <1>14, <1>15, <1>16 DEF Next, Allocate, Reserve, Activate, DeadlockVictim,
     StaleVersion, Finished

LEMMA LoadedStep ==
  ASSUME TypeOK, LoadedInv, [Next]_vars
  PROVE  LoadedInv'
<1> USE ConstantAssumption DEF TypeOK, LoadedInv, Request, PcValues
<1>1. ASSUME NEW t \in Allocator, Allocate(t) PROVE LoadedInv'
  <2>1. CASE LoadScheme(t)
    <3>1. PICK s \in Scheme, d \in Date :
            obj' = [obj EXCEPT ![t] = s] /\ day' = [day EXCEPT ![t] = d]
      BY <2>1 DEF LoadScheme, ActiveScheme, Latest, Active, Versions
    <3>2. QED
      BY <2>1, <3>1 DEF LoadScheme
  <2>2. CASE ReadReserved(t)
    BY <2>2 DEF ReadReserved, objVars
  <2>3. CASE SkipReserved(t)
    BY <2>3 DEF SkipReserved, objVars
  <2>4. CASE TakeNumber(t)
    <3>1. \A u \in Request : u # t => taken'[u] = taken[u]
      BY <2>4 DEF TakeNumber
    <3>2. QED
      BY <2>4, <3>1 DEF TakeNumber, objVars
  <2>5. CASE MarkImmutable(t)
    BY <2>5 DEF MarkImmutable, objVars
  <2>6. CASE CommitAllocation(t)
    BY <2>6 DEF CommitAllocation, objVars
  <2>7. QED
    BY <1>1, <2>1, <2>2, <2>3, <2>4, <2>5, <2>6 DEF Allocate
<1>2. ASSUME NEW t \in Reserver, Reserve(t) PROVE LoadedInv'
  <2>1. CASE CheckReservations(t)
    <3>1. \E s \in Scheme : obj' = [obj EXCEPT ![t] = s]
      BY <2>1 DEF CheckReservations
    <3>2. QED
      BY <2>1, <3>1 DEF CheckReservations
  <2>2. CASE InsertReservations(t)
    BY <2>2 DEF InsertReservations, objVars
  <2>3. QED
    BY <1>2, <2>1, <2>2 DEF Reserve
<1>3. ASSUME NEW t \in Activator, Activate(t), ~RollBack(t) PROVE LoadedInv'
  BY <1>3 DEF Activate, LoadVersion, ScanActive, RetireOthers, SaveActive,
              CommitActivation, StaleVersion, objVars
<1>4. ASSUME NEW t \in Request, RollBack(t) PROVE LoadedInv'
  BY <1>4 DEF RollBack, objVars
<1>5. ASSUME NEW s \in Scheme, NewVersion(s) PROVE LoadedInv'
  BY <1>5 DEF NewVersion, objVars
<1>6. CASE UNCHANGED vars
  BY <1>6 DEF vars
<1>7. QED
  BY <1>1, <1>2, <1>3, <1>4, <1>5, <1>6 DEF Next, DeadlockVictim, Finished

\* The statements that touch counters, reservations or numbers, and the others.
NumberVars == <<base, value, counterLock, reservations, issued, taken>>

LEMMA StepCases ==
  ASSUME [Next]_vars
  PROVE  \/ \E t \in Allocator : SkipReserved(t)
         \/ \E t \in Allocator : TakeNumber(t)
         \/ \E t \in Allocator : CommitAllocation(t)
         \/ \E t \in Reserver : InsertReservations(t)
         \/ \E t \in Request : RollBack(t)
         \/ \E t \in Activator : CommitActivation(t)
         \/ UNCHANGED NumberVars
<1> USE DEF NumberVars, counterVars
<1>1. ASSUME NEW t \in Allocator, LoadScheme(t) \/ ReadReserved(t) \/ MarkImmutable(t)
      PROVE UNCHANGED NumberVars
  BY <1>1 DEF LoadScheme, ReadReserved, MarkImmutable
<1>2. ASSUME NEW t \in Reserver, CheckReservations(t) PROVE UNCHANGED NumberVars
  BY <1>2 DEF CheckReservations
<1>3. ASSUME NEW t \in Activator,
             LoadVersion(t) \/ ScanActive(t) \/ RetireOthers(t) \/ SaveActive(t)
      PROVE UNCHANGED NumberVars
  BY <1>3 DEF LoadVersion, ScanActive, RetireOthers, SaveActive
<1>4. ASSUME NEW t \in Activator, StaleVersion(t)
      PROVE \E u \in Request : RollBack(u)
  BY <1>4 DEF StaleVersion, Request
<1>5. ASSUME NEW s \in Scheme, NewVersion(s) PROVE UNCHANGED NumberVars
  BY <1>5 DEF NewVersion
<1>6. CASE UNCHANGED vars
  BY <1>6 DEF vars
<1> HIDE DEF NumberVars, counterVars
<1>7. QED
  BY <1>1, <1>2, <1>3, <1>4, <1>5, <1>6 DEF Next, Allocate, Reserve, Activate, Finished,
     DeadlockVictim

\* The counter row an allocating request increments, and the number it may take.
CounterOf(t) == <<obj[t], PeriodKey(obj[t], day[t])>>

NewNumber(t) ==
  [tx |-> t, ord |-> made[t] + 1, scheme |-> obj[t], key |-> CounterOf(t)[2],
   seq |-> value[CounterOf(t)] + 1,
   number |-> FormatNumber(obj[t], day[t], value[CounterOf(t)] + 1)]

LEMMA CountFacts ==
  ASSUME TypeOK, LoadedInv, NEW t \in Allocator, SkipReserved(t) \/ TakeNumber(t)
  PROVE  /\ obj[t] \in Scheme /\ day[t] \in Date /\ pc[t] = "count"
         /\ CounterOf(t) \in Counter
         /\ counterLock[CounterOf(t)] \in {None, t}
         /\ counterLock' = [counterLock EXCEPT ![CounterOf(t)] = t]
         /\ value' = [value EXCEPT ![CounterOf(t)] = value[CounterOf(t)] + 1]
         /\ base' = base /\ reservations' = reservations /\ issued' = issued
<1>1. obj[t] \in Scheme /\ day[t] \in Date /\ pc[t] = "count"
  BY DEF LoadedInv, SkipReserved, TakeNumber, Request
<1>2. CounterOf(t) \in Counter
  BY <1>1 DEF CounterOf, Counter, PeriodKey, Key
<1>3. QED
  BY <1>1, <1>2 DEF CounterOf, SkipReserved, TakeNumber, Increment, Free

LEMMA SkipFacts ==
  ASSUME TypeOK, LoadedInv, NEW t \in Allocator, SkipReserved(t)
  PROVE  /\ taken' = taken
         /\ FormatNumber(obj[t], day[t], value[CounterOf(t)] + 1) \in seen[t]
BY DEF SkipReserved, CounterOf

LEMMA TakeFacts ==
  ASSUME TypeOK, LoadedInv, NEW t \in Allocator, TakeNumber(t)
  PROVE  /\ taken' = [taken EXCEPT ![t] = taken[t] \cup {NewNumber(t)}]
         /\ Row(NewNumber(t)) = CounterOf(t)
BY DEF TakeNumber, CounterOf, NewNumber, Row

LEMMA CommitFacts ==
  ASSUME TypeOK, NEW t \in Allocator, CommitAllocation(t)
  PROVE  /\ base' = [c \in Counter |-> IF counterLock[c] = t THEN value[c] ELSE base[c]]
         /\ counterLock' = [c \in Counter |-> IF counterLock[c] = t THEN None ELSE counterLock[c]]
         /\ issued' = issued \cup taken[t]
         /\ taken' = [taken EXCEPT ![t] = {}]
         /\ value' = value /\ reservations' = reservations
BY DEF CommitAllocation, ReleaseLocks

LEMMA RollBackFacts ==
  ASSUME TypeOK, NEW t \in Request, RollBack(t)
  PROVE  /\ value' = [c \in Counter |-> IF counterLock[c] = t THEN base[c] ELSE value[c]]
         /\ counterLock' = [c \in Counter |-> IF counterLock[c] = t THEN None ELSE counterLock[c]]
         /\ taken' = [taken EXCEPT ![t] = {}]
         /\ base' = base /\ reservations' = reservations /\ issued' = issued
BY DEF RollBack, ReleaseLocks

LEMMA InsertFacts ==
  ASSUME TypeOK, LoadedInv, NEW t \in Reserver, InsertReservations(t)
  PROVE  /\ UNCHANGED <<base, value, counterLock, issued, taken, obj, day>>
         /\ \A s \in Scheme : reservations[s] \subseteq reservations'[s]
BY DEF InsertReservations, TypeOK, counterVars, objVars

LEMMA ActivationFacts ==
  ASSUME LockInv, TypeOK, NEW t \in Activator, CommitActivation(t)
  PROVE  UNCHANGED NumberVars
<1>1. \A c \in Counter : counterLock[c] # t
  BY ConstantAssumption DEF LockInv, Request
<1>2. counterLock' = counterLock
  BY <1>1 DEF CommitActivation, ReleaseLocks, TypeOK
<1>3. QED
  BY <1>2 DEF CommitActivation, NumberVars

LEMMA LockStep ==
  ASSUME TypeOK, LoadedInv, LockInv, [Next]_vars
  PROVE  LockInv'
<1> USE ConstantAssumption DEF TypeOK, LockInv, Request
<1>1. ASSUME NEW t \in Allocator, SkipReserved(t) \/ TakeNumber(t) PROVE LockInv'
  BY <1>1, CountFacts
<1>2. ASSUME NEW t \in Allocator, CommitAllocation(t) PROVE LockInv'
  BY <1>2, CommitFacts
<1>3. ASSUME NEW t \in Reserver, InsertReservations(t) PROVE LockInv'
  BY <1>3, InsertFacts
<1>4. ASSUME NEW t \in Request, RollBack(t) PROVE LockInv'
  BY <1>4, RollBackFacts
<1>5. CASE UNCHANGED NumberVars
  BY <1>5 DEF NumberVars
<1>6. QED
  BY <1>1, <1>2, <1>3, <1>4, <1>5, StepCases, ActivationFacts

\* Committed values lie below the committed counter, in-flight ones above it, in rows
\* locked by the request that drew them.
LEMMA RangeStep ==
  ASSUME TypeOK, LoadedInv, LockInv, IssuedInv, TakenInv, [Next]_vars
  PROVE  IssuedInv' /\ TakenInv'
<1> USE ConstantAssumption DEF TypeOK, IssuedInv, TakenInv, Request
<1>0. \A i \in Allocated : Row(i) \in Counter /\ i.seq \in Nat
  BY DEF Allocated, Row, Counter
<1>1. ASSUME NEW t \in Allocator, SkipReserved(t) PROVE IssuedInv' /\ TakenInv'
  BY <1>0, <1>1, CountFacts, SkipFacts DEF Row
<1>2. ASSUME NEW t \in Allocator, TakeNumber(t) PROVE IssuedInv' /\ TakenInv'
  <2>1. IssuedInv'
    BY <1>2, CountFacts DEF Row
  <2>2. ASSUME NEW u \in Allocator, NEW i \in taken'[u]
        PROVE  /\ counterLock'[Row(i)] = u
               /\ base'[Row(i)] < i.seq /\ i.seq <= value'[Row(i)]
    <3>1. CASE i \in taken[u]
      BY <1>0, <1>2, <2>2, <3>1, CountFacts
    <3>2. CASE i \notin taken[u]
      <4>1. u = t /\ i = NewNumber(t)
        BY <1>2, <2>2, <3>2, TakeFacts
      <4>2. i.seq = value[CounterOf(t)] + 1 /\ Row(i) = CounterOf(t)
        BY <1>2, <4>1, TakeFacts DEF NewNumber
      <4>3. base[CounterOf(t)] <= value[CounterOf(t)]
        BY <1>2, CountFacts DEF LockInv
      <4>4. QED
        BY <1>2, <4>1, <4>2, <4>3, CountFacts
    <3>3. QED
      BY <3>1, <3>2
  <2>3. QED
    BY <2>1, <2>2 DEF Row
<1>3. ASSUME NEW t \in Allocator, CommitAllocation(t) PROVE IssuedInv' /\ TakenInv'
  <2>1. ASSUME NEW i \in issued'
        PROVE  1 <= i.seq /\ i.seq <= base'[Row(i)]
    <3>1. CASE i \in issued
      BY <1>0, <1>3, <3>1, CommitFacts DEF LockInv
    <3>2. CASE i \in taken[t]
      BY <1>0, <1>3, <3>2, CommitFacts
    <3>3. QED
      BY <1>3, <2>1, <3>1, <3>2, CommitFacts
  <2>2. ASSUME NEW u \in Allocator, NEW i \in taken'[u]
        PROVE  /\ counterLock'[Row(i)] = u
               /\ base'[Row(i)] < i.seq /\ i.seq <= value'[Row(i)]
    <3>1. u # t /\ i \in taken[u]
      BY <1>3, <2>2, CommitFacts
    <3>2. QED
      BY <1>0, <1>3, <3>1, CommitFacts
  <2>3. QED
    BY <2>1, <2>2 DEF Row
<1>4. ASSUME NEW t \in Reserver, InsertReservations(t) PROVE IssuedInv' /\ TakenInv'
  BY <1>4, InsertFacts DEF Row
<1>5. ASSUME NEW t \in Request, RollBack(t) PROVE IssuedInv' /\ TakenInv'
  <2>1. IssuedInv'
    BY <1>5, RollBackFacts DEF Row
  <2>2. ASSUME NEW u \in Allocator, NEW i \in taken'[u]
        PROVE  /\ counterLock'[Row(i)] = u
               /\ base'[Row(i)] < i.seq /\ i.seq <= value'[Row(i)]
    <3>1. u # t /\ i \in taken[u]
      BY <1>5, <2>2, RollBackFacts
    <3>2. QED
      BY <1>0, <1>5, <3>1, RollBackFacts
  <2>3. QED
    BY <2>1, <2>2 DEF Row
<1>6. CASE UNCHANGED NumberVars
  BY <1>6 DEF NumberVars, Row
<1>7. QED
  BY <1>1, <1>2, <1>3, <1>4, <1>5, <1>6, StepCases, ActivationFacts

LEMMA DistinctStep ==
  ASSUME TypeOK, LoadedInv, LockInv, IssuedInv, TakenInv, DistinctInv, [Next]_vars
  PROVE  DistinctInv'
<1> USE ConstantAssumption DEF TypeOK, DistinctInv, Request
<1>0. \A i \in Allocated : Row(i) \in Counter /\ i.seq \in Nat
  BY DEF Allocated, Row, Counter
<1>1. ASSUME NEW t \in Allocator, SkipReserved(t) PROVE DistinctInv'
  BY <1>1, CountFacts, SkipFacts DEF Row
<1>2. ASSUME NEW t \in Allocator, TakeNumber(t) PROVE DistinctInv'
  <2>1. \A i \in taken[t] : Row(i) = CounterOf(t) => i.seq # NewNumber(t).seq
    BY <1>0, <1>2, CountFacts DEF TakenInv, NewNumber
  <2>2. QED
    BY <1>2, <2>1, CountFacts, TakeFacts, SMTT(30) DEF Row
<1>3. ASSUME NEW t \in Allocator, CommitAllocation(t) PROVE DistinctInv'
  <2>1. \A i \in issued, j \in taken[t] : Row(i) = Row(j) => i.seq # j.seq
    BY <1>0 DEF IssuedInv, TakenInv
  <2>2. QED
    BY <1>3, <2>1, CommitFacts DEF Row
<1>4. ASSUME NEW t \in Reserver, InsertReservations(t) PROVE DistinctInv'
  BY <1>4, InsertFacts DEF Row
<1>5. ASSUME NEW t \in Request, RollBack(t) PROVE DistinctInv'
  BY <1>5, RollBackFacts DEF Row
<1>6. CASE UNCHANGED NumberVars
  BY <1>6 DEF NumberVars, Row
<1>7. QED
  BY <1>1, <1>2, <1>3, <1>4, <1>5, <1>6, StepCases, ActivationFacts

LEMMA FormatStep ==
  ASSUME TypeOK, LoadedInv, LockInv, FormatInv, [Next]_vars
  PROVE  FormatInv'
<1> USE ConstantAssumption DEF TypeOK, Request
<1>1. ASSUME Drawn' \subseteq Drawn PROVE FormatInv'
  BY <1>1 DEF FormatInv, PeriodKey, FormatNumber, Shown
<1>2. ASSUME NEW t \in Allocator, SkipReserved(t) PROVE Drawn' \subseteq Drawn
  BY <1>2, CountFacts, SkipFacts DEF Drawn
<1>3. ASSUME NEW t \in Allocator, TakeNumber(t) PROVE FormatInv'
  <2>1. Drawn' \subseteq Drawn \cup {NewNumber(t)}
    BY <1>3, CountFacts, TakeFacts DEF Drawn
  <2>2. /\ NewNumber(t).key = PeriodKey(NewNumber(t).scheme, day[t])
        /\ NewNumber(t).number =
             FormatNumber(NewNumber(t).scheme, day[t], NewNumber(t).seq)
    BY DEF NewNumber, CounterOf
  <2>3. day[t] \in Date
    BY <1>3, CountFacts
  <2>4. QED
    BY <2>1, <2>2, <2>3 DEF FormatInv, PeriodKey, FormatNumber, Shown
<1>4. ASSUME NEW t \in Allocator, CommitAllocation(t) PROVE Drawn' \subseteq Drawn
  BY <1>4, CommitFacts DEF Drawn
<1>5. ASSUME NEW t \in Reserver, InsertReservations(t) PROVE Drawn' \subseteq Drawn
  BY <1>5, InsertFacts DEF Drawn
<1>6. ASSUME NEW t \in Request, RollBack(t) PROVE Drawn' \subseteq Drawn
  BY <1>6, RollBackFacts DEF Drawn
<1>7. ASSUME UNCHANGED NumberVars PROVE Drawn' \subseteq Drawn
  BY <1>7 DEF NumberVars, Drawn
<1>8. QED
  BY <1>1, <1>2, <1>3, <1>4, <1>5, <1>6, <1>7, StepCases, ActivationFacts

LEMMA SeenStep ==
  ASSUME TypeOK, LoadedInv, SeenInv, [Next]_vars
  PROVE  SeenInv'
<1> USE ConstantAssumption DEF TypeOK, SeenInv, LoadedInv, Request, objVars
<1>1. ASSUME NEW t \in Allocator, Allocate(t) PROVE SeenInv'
  <2>1. CASE LoadScheme(t)
    <3>1. PICK s \in Scheme : obj' = [obj EXCEPT ![t] = s]
      BY <2>1 DEF LoadScheme, ActiveScheme, Latest, Active, Versions
    <3>2. QED
      BY <2>1, <3>1 DEF LoadScheme
  <2>2. CASE ReadReserved(t)
    BY <2>2 DEF ReadReserved
  <2>3. CASE SkipReserved(t)
    BY <2>3 DEF SkipReserved
  <2>4. CASE TakeNumber(t)
    BY <2>4 DEF TakeNumber
  <2>5. CASE MarkImmutable(t)
    BY <2>5 DEF MarkImmutable
  <2>6. CASE CommitAllocation(t)
    BY <2>6 DEF CommitAllocation
  <2>7. QED
    BY <1>1, <2>1, <2>2, <2>3, <2>4, <2>5, <2>6 DEF Allocate
<1>2. ASSUME NEW t \in Reserver, Reserve(t) PROVE SeenInv'
  <2>1. CASE CheckReservations(t)
    <3>1. \A u \in Allocator : u # t
      OBVIOUS
    <3>2. \A u \in Allocator : obj'[u] = obj[u] /\ seen'[u] = seen[u] /\ pc'[u] = pc[u]
      BY <2>1, <3>1 DEF CheckReservations
    <3>3. QED
      BY <2>1, <3>1, <3>2 DEF CheckReservations
  <2>2. CASE InsertReservations(t)
    <3>1. \A u \in Allocator : obj'[u] = obj[u] /\ seen'[u] = seen[u]
      BY <2>2 DEF InsertReservations
    <3>2. \A u \in Allocator : pc'[u] = pc[u]
      BY <2>2 DEF InsertReservations
    <3>3. QED
      BY <2>2, <3>1, <3>2, InsertFacts
  <2>3. QED
    BY <1>2, <2>1, <2>2 DEF Reserve
<1>3. ASSUME NEW t \in Activator, Activate(t), ~RollBack(t) PROVE SeenInv'
  BY <1>3 DEF Activate, LoadVersion, ScanActive, RetireOthers, SaveActive,
              CommitActivation, StaleVersion
<1>4. ASSUME NEW t \in Request, RollBack(t) PROVE SeenInv'
  BY <1>4 DEF RollBack
<1>5. ASSUME NEW s \in Scheme, NewVersion(s) PROVE SeenInv'
  BY <1>5 DEF NewVersion
<1>6. CASE UNCHANGED vars
  BY <1>6 DEF vars
<1>7. QED
  BY <1>1, <1>2, <1>3, <1>4, <1>5, <1>6 DEF Next, DeadlockVictim, Finished

\* Every value a counter has passed belongs to a record or is reserved.
LEMMA CoverStep ==
  ASSUME TypeOK, LoadedInv, LockInv, TakenInv, SeenInv, CoverInv, [Next]_vars
  PROVE  CoverInv'
<1> USE ConstantAssumption DEF TypeOK, Request
<1> DEFINE Held(S, c, n) == \E i \in S : i.scheme = c[1] /\ i.key = c[2] /\ i.seq = n
<1>0. \A c \in Counter : c[1] \in Scheme /\ c[2] \in Key /\ c = <<c[1], c[2]>>
  BY DEF Counter
<1>1. ASSUME \A s \in Scheme : reservations[s] \subseteq reservations'[s],
             NEW c \in Counter, NEW n, Skipped(c, n)
      PROVE Skipped(c, n)'
  BY <1>0, <1>1 DEF Skipped, PeriodKey, FormatNumber, Shown
<1>2. ASSUME NEW t \in Allocator, SkipReserved(t) \/ TakeNumber(t) PROVE CoverInv'
  <2>1. /\ base' = base /\ issued' = issued /\ reservations' = reservations
        /\ value' = [value EXCEPT ![CounterOf(t)] = value[CounterOf(t)] + 1]
        /\ CounterOf(t) \in Counter
        /\ \A u \in Allocator : taken[u] \subseteq taken'[u]
    BY <1>2, CountFacts, SkipFacts, TakeFacts
  <2>2. \/ \E u \in Allocator : Held(taken'[u], CounterOf(t), value[CounterOf(t)] + 1)
        \/ Skipped(CounterOf(t), value[CounterOf(t)] + 1)
    <3>1. CASE SkipReserved(t)
      <4>1. /\ obj[t] \in Scheme /\ day[t] \in Date /\ pc[t] = "count"
            /\ FormatNumber(obj[t], day[t], value[CounterOf(t)] + 1) \in seen[t]
        BY <3>1, CountFacts, SkipFacts
      <4>2. FormatNumber(obj[t], day[t], value[CounterOf(t)] + 1) \in reservations[obj[t]]
        BY <4>1 DEF SeenInv
      <4>3. QED
        BY <4>1, <4>2 DEF Skipped, CounterOf
    <3>2. CASE TakeNumber(t)
      <4>1. NewNumber(t) \in taken'[t]
        BY <3>2, TakeFacts
      <4>2. /\ NewNumber(t).scheme = CounterOf(t)[1]
            /\ NewNumber(t).key = CounterOf(t)[2]
            /\ NewNumber(t).seq = value[CounterOf(t)] + 1
        BY DEF NewNumber, CounterOf
      <4>3. QED
        BY <4>1, <4>2
    <3>3. QED
      BY <1>2, <3>1, <3>2
  <2>3. ASSUME NEW c \in Counter, NEW n \in (base'[c] + 1)..value'[c]
        PROVE \/ \E u \in Allocator : Held(taken'[u], c, n)
              \/ Skipped(c, n)
    <3>1. CASE n \in (base[c] + 1)..value[c]
      BY <2>1, <3>1 DEF CoverInv
    <3>2. CASE n \notin (base[c] + 1)..value[c]
      <4>1. c = CounterOf(t) /\ n = value[CounterOf(t)] + 1
        BY <2>1, <2>3, <3>2
      <4>2. QED
        BY <2>2, <4>1
    <3>3. QED
      BY <3>1, <3>2
  <2>4. ASSUME NEW c \in Counter, NEW n \in 1..base'[c]
        PROVE Held(issued', c, n) \/ Skipped(c, n)
    BY <2>1 DEF CoverInv
  <2>5. QED
    BY <1>1, <2>1, <2>3, <2>4 DEF CoverInv
<1>3. ASSUME NEW t \in Allocator, CommitAllocation(t) PROVE CoverInv'
  <2>1. \A c \in Counter : \A n : Skipped(c, n) => Skipped(c, n)'
    BY <1>1, <1>3, CommitFacts
  <2>2. ASSUME NEW c \in Counter, NEW n \in 1..base'[c]
        PROVE Held(issued', c, n) \/ Skipped(c, n)
    <3>1. CASE n \in 1..base[c]
      BY <1>3, <3>1, CommitFacts DEF CoverInv
    <3>2. CASE n \notin 1..base[c]
      <4>1. counterLock[c] = t /\ n \in (base[c] + 1)..value[c]
        BY <1>3, <2>2, <3>2, CommitFacts
      <4>2. CASE Skipped(c, n)
        BY <4>2
      <4>3. CASE \E u \in Allocator : Held(taken[u], c, n)
        <5>0. PICK u \in Allocator : Held(taken[u], c, n)
          BY <4>3
        <5>1. PICK i \in taken[u] : i.scheme = c[1] /\ i.key = c[2] /\ i.seq = n
          BY <5>0
        <5>2. Row(i) = c
          BY <1>0, <5>1 DEF Row
        <5>3. u = t
          BY <4>1, <5>1, <5>2 DEF TakenInv
        <5>4. QED
          BY <1>3, <5>1, <5>3, CommitFacts
      <4>4. QED
        BY <4>1, <4>2, <4>3 DEF CoverInv
    <3>3. QED
      BY <3>1, <3>2
  <2>3. ASSUME NEW c \in Counter, NEW n \in (base'[c] + 1)..value'[c]
        PROVE \/ \E u \in Allocator : Held(taken'[u], c, n)
              \/ Skipped(c, n)
    <3>1. counterLock[c] # t /\ n \in (base[c] + 1)..value[c]
      BY <1>3, <2>3, CommitFacts
    <3>2. CASE \E u \in Allocator : Held(taken[u], c, n)
      <4>0. PICK u \in Allocator : Held(taken[u], c, n)
        BY <3>2
      <4>1. PICK i \in taken[u] : i.scheme = c[1] /\ i.key = c[2] /\ i.seq = n
        BY <4>0
      <4>2. Row(i) = c
        BY <1>0, <4>1 DEF Row
      <4>3. u # t
        BY <3>1, <4>1, <4>2 DEF TakenInv
      <4>4. taken'[u] = taken[u]
        BY <1>3, <4>3, CommitFacts
      <4>5. QED
        BY <4>1, <4>4
    <3>3. QED
      BY <3>1, <3>2 DEF CoverInv
  <2>4. QED
    BY <2>1, <2>2, <2>3 DEF CoverInv
<1>4. ASSUME NEW t \in Reserver, InsertReservations(t) PROVE CoverInv'
  <2>1. \A c \in Counter : \A n : Skipped(c, n) => Skipped(c, n)'
    BY <1>1, <1>4, InsertFacts
  <2>2. QED
    BY <1>4, <2>1, InsertFacts DEF CoverInv
<1>5. ASSUME NEW t \in Request, RollBack(t) PROVE CoverInv'
  <2>1. \A c \in Counter : \A n : Skipped(c, n) => Skipped(c, n)'
    BY <1>1, <1>5, RollBackFacts
  <2>2. ASSUME NEW c \in Counter, NEW n \in (base'[c] + 1)..value'[c]
        PROVE \/ \E u \in Allocator : Held(taken'[u], c, n)
              \/ Skipped(c, n)
    <3>1. counterLock[c] # t /\ n \in (base[c] + 1)..value[c]
      BY <1>5, <2>2, RollBackFacts
    <3>2. CASE \E u \in Allocator : Held(taken[u], c, n)
      <4>0. PICK u \in Allocator : Held(taken[u], c, n)
        BY <3>2
      <4>1. PICK i \in taken[u] : i.scheme = c[1] /\ i.key = c[2] /\ i.seq = n
        BY <4>0
      <4>2. Row(i) = c
        BY <1>0, <4>1 DEF Row
      <4>3. u # t
        BY <3>1, <4>1, <4>2 DEF TakenInv
      <4>4. taken'[u] = taken[u]
        BY <1>5, <4>3, RollBackFacts
      <4>5. QED
        BY <4>1, <4>4
    <3>3. QED
      BY <3>1, <3>2 DEF CoverInv
  <2>3. QED
    BY <1>5, <2>1, <2>2, RollBackFacts DEF CoverInv
<1>6. CASE UNCHANGED NumberVars
  <2>1. /\ base' = base /\ value' = value /\ issued' = issued /\ taken' = taken
        /\ reservations' = reservations
    BY <1>6 DEF NumberVars
  <2>2. ASSUME NEW c \in Counter, NEW n PROVE Skipped(c, n)' = Skipped(c, n)
    BY <2>1 DEF Skipped, FormatNumber, PeriodKey, Shown
  <2>3. QED
    BY <2>1, <2>2 DEF CoverInv
<1>7. QED
  BY <1>2, <1>3, <1>4, <1>5, <1>6, StepCases, ActivationFacts

\* Use freezes a version: the flag is set, or about to be, under the version's row lock.
LEMMA FrozenStep ==
  ASSUME TypeOK, LoadedInv, RetiringInv, FrozenInv, [Next]_vars
  PROVE  FrozenInv'
<1> USE ConstantAssumption DEF TypeOK, LoadedInv, FrozenInv, AllocatedIsFrozen, Used,
        Request, objVars, schemeVars
<1>0. \A i \in Allocated : i.scheme \in Scheme
  BY DEF Allocated
<1>1. ASSUME NEW t \in Allocator, LoadScheme(t) PROVE FrozenInv'
  <2>1. PICK s \in Scheme :
          /\ status[s] = "ACTIVE"
          /\ obj' = [obj EXCEPT ![t] = s]
          /\ objImmutable' = [objImmutable EXCEPT ![t] = immutable[s] \/ rowLock[s] = t]
    BY <1>1 DEF LoadScheme, ActiveScheme, Latest, Active, Versions
  <2>2. QED
    BY <1>1, <2>1 DEF LoadScheme
<1>2. ASSUME NEW t \in Allocator, ReadReserved(t) PROVE FrozenInv'
  BY <1>2 DEF ReadReserved
<1>3. ASSUME NEW t \in Allocator, SkipReserved(t) PROVE FrozenInv'
  BY <1>3 DEF SkipReserved
<1>4. ASSUME NEW t \in Allocator, TakeNumber(t) PROVE FrozenInv'
  <2>1. taken' = [taken EXCEPT ![t] = taken[t] \cup {NewNumber(t)}]
    BY <1>4, TakeFacts
  <2>2. NewNumber(t).scheme = obj[t]
    BY DEF NewNumber
  <2>3. QED
    BY <1>4, <2>1, <2>2 DEF TakeNumber
<1>5. ASSUME NEW t \in Allocator, MarkImmutable(t) PROVE FrozenInv'
  <2>1. \A s \in Scheme : rowLock[s] = t => rowLock'[s] = t
    BY <1>5 DEF MarkImmutable, Free
  <2>2. immutable[obj[t]] \/ rowLock'[obj[t]] = t
    BY <1>5 DEF MarkImmutable
  <2>3. \A u \in Allocator, s \in Scheme : rowLock[s] = u => rowLock'[s] = u
    BY <1>5 DEF MarkImmutable, Free
  <2>4. QED
    BY <1>0, <1>5, <2>1, <2>2, <2>3 DEF MarkImmutable
<1>6. ASSUME NEW t \in Allocator, CommitAllocation(t) PROVE FrozenInv'
  <2>1. \A s \in Scheme : immutable[s] \/ rowLock[s] = t => immutable'[s]
    BY <1>6 DEF CommitAllocation
  <2>2. \A u \in Allocator, s \in Scheme : u # t /\ rowLock[s] = u => rowLock'[s] = u
    BY <1>6 DEF CommitAllocation, ReleaseLocks
  <2>3. status' = status /\ obj' = obj /\ objImmutable' = objImmutable
        /\ pc' = [pc EXCEPT ![t] = "done"] /\ pc[t] = "allocated"
    BY <1>6 DEF CommitAllocation
  <2>4. QED
    BY <1>0, <1>6, <2>1, <2>2, <2>3, CommitFacts
<1>7. ASSUME NEW t \in Reserver, Reserve(t) PROVE FrozenInv'
  BY <1>7 DEF Reserve, CheckReservations, InsertReservations
<1>8. ASSUME NEW t \in Activator, LoadVersion(t) \/ ScanActive(t) PROVE FrozenInv'
  BY <1>8 DEF LoadVersion, ScanActive
<1>9. ASSUME NEW t \in Activator, RetireOthers(t) \/ SaveActive(t) PROVE FrozenInv'
  <2>1. \A u \in Allocator, s \in Scheme : rowLock[s] = u => rowLock'[s] = u
    BY <1>9 DEF RetireOthers, SaveActive, Free
  <2>2. QED
    BY <1>0, <1>9, <2>1 DEF RetireOthers, SaveActive
<1>10. ASSUME NEW t \in Activator, CommitActivation(t) PROVE FrozenInv'
  <2>1. \A s \in Scheme : Used(s) => Used(s)'
    BY <1>10 DEF CommitActivation
  <2>2. \A u \in Allocator, s \in Scheme : rowLock[s] = u => rowLock'[s] = u
    BY <1>10 DEF CommitActivation, ReleaseLocks
  <2>3. QED
    BY <1>0, <1>10, <2>1, <2>2 DEF CommitActivation
<1>11. ASSUME NEW t \in Request, RollBack(t) PROVE FrozenInv'
  <2>1. \A u \in Allocator, s \in Scheme : u # t /\ rowLock[s] = u => rowLock'[s] = u
    BY <1>11 DEF RollBack, ReleaseLocks
  <2>2. QED
    BY <1>0, <1>11, <2>1, RollBackFacts DEF RollBack
<1>12. ASSUME NEW s \in Scheme, NewVersion(s) PROVE FrozenInv'
  <2>1. \A r \in Scheme : Used(r) => Used(r)'
    BY <1>12 DEF NewVersion
  <2>2. QED
    BY <1>0, <1>12, <2>1 DEF NewVersion
<1>13. CASE UNCHANGED vars
  BY <1>13 DEF vars
<1>14. QED
  BY <1>1, <1>2, <1>3, <1>4, <1>5, <1>6, <1>7, <1>8, <1>9, <1>10, <1>11, <1>12, <1>13
  DEF Next, Allocate, Activate, StaleVersion, DeadlockVictim, Finished

LEMMA RetiringStep ==
  ASSUME TypeOK, LoadedInv, RetiringInv, [Next]_vars
  PROVE  RetiringInv'
<1> USE ConstantAssumption DEF TypeOK, LoadedInv, RetiringInv, Request, objVars
<1>1. ASSUME NEW t \in Activator, LoadVersion(t) PROVE RetiringInv'
  BY <1>1 DEF LoadVersion
<1>2. ASSUME NEW t \in Activator, ScanActive(t) PROVE RetiringInv'
  BY <1>2 DEF ScanActive, Active, Versions
<1>3. ASSUME NEW t \in Activator, RetireOthers(t) PROVE RetiringInv'
  BY <1>3 DEF RetireOthers
<1>4. ASSUME NEW t \in Activator, SaveActive(t) \/ CommitActivation(t) PROVE RetiringInv'
  BY <1>4 DEF SaveActive, CommitActivation
<1>5. ASSUME NEW t \in Request, RollBack(t) PROVE RetiringInv'
  BY <1>5 DEF RollBack
<1>6. ASSUME NEW t \in Allocator, Allocate(t) PROVE RetiringInv'
  BY <1>6 DEF Allocate, LoadScheme, ReadReserved, SkipReserved, TakeNumber, MarkImmutable,
              CommitAllocation
<1>7. ASSUME NEW t \in Reserver, Reserve(t) PROVE RetiringInv'
  <2>1. \A u \in Activator : obj'[u] = obj[u] /\ pc'[u] = pc[u] /\ retiring'[u] = retiring[u]
    BY <1>7 DEF Reserve, CheckReservations, InsertReservations
  <2>2. QED
    BY <2>1
<1>8. ASSUME NEW s \in Scheme, NewVersion(s) PROVE RetiringInv'
  BY <1>8 DEF NewVersion
<1>9. CASE UNCHANGED vars
  BY <1>9 DEF vars
<1>10. QED
  BY <1>1, <1>2, <1>3, <1>4, <1>5, <1>6, <1>7, <1>8, <1>9
  DEF Next, Activate, StaleVersion, DeadlockVictim, Finished

-----------------------------------------------------------------------------
(* The theorems.                                                           *)

\* The inductive invariant holds in every reachable state.
THEOREM Inductive == Spec => []IInv
<1>1. Init => IInv
  BY InitIInv
<1>2. IInv /\ [Next]_vars => IInv'
  BY TypeStep, LoadedStep, LockStep, RangeStep, DistinctStep, FormatStep, SeenStep,
     CoverStep, FrozenStep, RetiringStep DEF IInv
<1>3. QED
  BY <1>1, <1>2, PTL DEF Spec

\* Type correctness of numbering.py's tables and requests, for every set of requests.
THEOREM NumberingTypeOK == Spec => []TypeOK
<1>1. IInv => TypeOK
  BY DEF IInv
<1>2. QED
  BY <1>1, Inductive, PTL

\* allocate() never gives one formatted number to two records of a scheme.
THEOREM NumbersAreUnique == Spec => []UniqueNumbers
<1>1. ASSUME IInv, NEW i \in Drawn, NEW j \in Drawn, i.scheme = j.scheme,
             i.number = j.number, i.scheme \in Periodic => i.scheme \in Dated
      PROVE  i = j
  <2> USE <1>1, ConstantAssumption DEF IInv
  <2>1. i \in Allocated /\ j \in Allocated
    BY DEF TypeOK, Drawn, Request
  <2>2. PICK d \in Date :
          i.key = PeriodKey(i.scheme, d) /\ i.number = FormatNumber(i.scheme, d, i.seq)
    BY DEF FormatInv
  <2>3. PICK e \in Date :
          j.key = PeriodKey(j.scheme, e) /\ j.number = FormatNumber(j.scheme, e, j.seq)
    BY DEF FormatInv
  <2>4. i.seq = j.seq /\ Shown(i.scheme, d) = Shown(i.scheme, e)
    <3>1. <<Pattern[i.scheme], Shown(i.scheme, d), i.seq>>
            = <<Pattern[i.scheme], Shown(i.scheme, e), j.seq>>
      BY <1>1, <2>2, <2>3 DEF FormatNumber
    <3>2. QED
      BY <3>1
  <2>5. i.key = j.key
    BY <2>2, <2>3, <2>4 DEF PeriodKey, Shown
  <2>6. Row(i) = Row(j) /\ Row(i) \in Counter
    BY <2>1, <2>5 DEF Row, Allocated, Counter
  <2>7. CASE i \in issued /\ j \in issued
    BY <2>4, <2>6, <2>7 DEF DistinctInv
  <2>8. CASE \E t \in Allocator : i \in taken[t]
    <3>1. PICK t \in Allocator : i \in taken[t]
      BY <2>8
    <3>2. counterLock[Row(i)] = t /\ base[Row(i)] < i.seq
      BY <3>1 DEF TakenInv
    <3>3. j \notin issued
      BY <2>1, <2>4, <2>6, <3>2 DEF IssuedInv, TypeOK, Allocated
    <3>4. PICK u \in Allocator : j \in taken[u]
      BY <3>3 DEF Drawn
    <3>5. u = t
      BY <2>6, <3>2, <3>4 DEF TakenInv
    <3>6. QED
      BY <2>4, <2>6, <3>1, <3>4, <3>5 DEF DistinctInv
  <2>9. CASE \E t \in Allocator : j \in taken[t]
    <3>1. PICK t \in Allocator : j \in taken[t]
      BY <2>9
    <3>2. counterLock[Row(j)] = t /\ base[Row(j)] < j.seq
      BY <3>1 DEF TakenInv
    <3>3. i \notin issued
      BY <2>1, <2>4, <2>6, <3>2 DEF IssuedInv, TypeOK, Allocated
    <3>4. QED
      BY <2>8, <3>3 DEF Drawn
  <2>10. QED
    BY <2>7, <2>8, <2>9 DEF Drawn
<1>2. IInv => UniqueNumbers
  BY <1>1 DEF UniqueNumbers
<1>3. QED
  BY <1>2, Inductive, PTL

\* A counter never passes a value no record carries and nobody reserved.
THEOREM NumbersAreGapFree == Spec => []GapFree
<1>1. IInv => GapFree
  BY DEF IInv, CoverInv, GapFree, Skipped
<1>2. QED
  BY <1>1, Inductive, PTL

\* A version that has allocated is immutable and no draft, stale reads notwithstanding.
THEOREM UsedVersionsAreFrozen == Spec => []AllocatedIsFrozen
<1>1. IInv => AllocatedIsFrozen
  BY DEF IInv, FrozenInv
<1>2. QED
  BY <1>1, Inductive, PTL

\* activate() never leaves a series that had an active version without one.
THEOREM SeriesKeepAnActiveVersion == Spec => SeriesStaysNumbered
<1>1. ASSUME IInv, [Next]_vars, NEW ser \in Series, NEW s \in Active(ser)
      PROVE  Active(ser)' # {}
  <2> USE <1>1 DEF Active, Versions
  <2>1. CASE UNCHANGED status
    BY <2>1
  <2>2. CASE \E t \in Activator : CommitActivation(t)
    <3>1. PICK t \in Activator : CommitActivation(t)
      BY <2>2
    <3>2. obj[t] \in Scheme /\ \A r \in retiring[t] : SeriesOf[r] = SeriesOf[obj[t]]
      BY <3>1 DEF CommitActivation, IInv, LoadedInv, RetiringInv, Request
    <3>3. status'[obj[t]] = "ACTIVE"
      BY <3>1, <3>2 DEF CommitActivation
    <3>4. CASE SeriesOf[obj[t]] = ser
      BY <3>2, <3>3, <3>4
    <3>5. CASE SeriesOf[obj[t]] # ser
      <4>1. s \notin retiring[t]
        BY <3>2, <3>5
      <4>2. status'[s] = "ACTIVE"
        BY <3>1, <4>1 DEF CommitActivation
      <4>3. QED
        BY <4>2
    <3>6. QED
      BY <3>4, <3>5
  <2>3. CASE \E r \in Scheme : NewVersion(r)
    <3>1. status'[s] = "ACTIVE"
      BY <2>3 DEF NewVersion, IInv, TypeOK
    <3>2. QED
      BY <3>1
  <2>4. CASE ~UNCHANGED status
    <3>1. (\E t \in Activator : CommitActivation(t)) \/ (\E r \in Scheme : NewVersion(r))
      BY <2>4 DEF Next, Allocate, Reserve, Activate, StaleVersion, DeadlockVictim, Finished,
         LoadScheme, ReadReserved, SkipReserved, TakeNumber, MarkImmutable,
         CommitAllocation, CheckReservations, InsertReservations, LoadVersion, ScanActive,
         RetireOthers, SaveActive, RollBack, schemeVars, vars
    <3>2. QED
      BY <2>2, <2>3, <3>1
  <2>5. QED
    BY <2>1, <2>4
<1>2. IInv /\ [Next]_vars =>
        [\A ser \in Series : Active(ser) # {} => Active(ser)' # {}]_vars
  BY <1>1
<1>3. QED
  BY <1>2, Inductive, PTL DEF Spec, SeriesStaysNumbered

-----------------------------------------------------------------------------
(* The register.                                                           *)

\* A request's numbers bear its name.
OwnInv == \A t \in Allocator : \A i \in taken[t] : i.tx = t

LEMMA OwnStep == IInv /\ OwnInv /\ [Next]_vars => OwnInv'
<1> SUFFICES ASSUME IInv, OwnInv, [Next]_vars PROVE OwnInv'
  OBVIOUS
<1> USE DEF IInv, OwnInv
<1>1. ASSUME NEW t \in Allocator, TakeNumber(t) PROVE OwnInv'
  <2>1. taken' = [taken EXCEPT ![t] = taken[t] \cup {NewNumber(t)}]
    BY <1>1, TakeFacts
  <2>2. NewNumber(t).tx = t
    BY DEF NewNumber
  <2> QED BY <2>1, <2>2 DEF TypeOK, Request
<1>2. ASSUME NEW t \in Request, taken' = [taken EXCEPT ![t] = {}] PROVE OwnInv'
  BY <1>2 DEF TypeOK, Request
<1>3. CASE taken' = taken
  BY <1>3
<1> HIDE DEF OwnInv
<1> QED BY <1>1, <1>2, <1>3, StepCases, SkipFacts, CommitFacts, RollBackFacts, InsertFacts,
           ActivationFacts DEF NumberVars, Request

\* A commit hands out the values its counters have passed.
LEMMA CommitHandsOut ==
  ASSUME IInv, OwnInv, NEW t \in Allocator, CommitAllocation(t)
  PROVE  Register!HandOut
<1> USE DEF IInv
<1> DEFINE handed == issued' \ issued
           Carry(c, n) == {i \in handed : Register!CounterOf(i) = c /\ i.seq = n}
<1>1. /\ base' = [c \in Counter |-> IF counterLock[c] = t THEN value[c] ELSE base[c]]
      /\ issued' = issued \cup taken[t] /\ reservations' = reservations
  BY CommitFacts
<1>2. \A i : Register!CounterOf(i) = Row(i)
  BY DEF Register!CounterOf, Row
<1>3. ASSUME NEW i \in taken[t]
      PROVE  /\ i \in Allocated /\ Row(i) \in Counter /\ counterLock[Row(i)] = t
             /\ i.seq \in (base[Row(i)] + 1)..base'[Row(i)]
             /\ Register!WellFormed(i)
  <2>1. t \in Request /\ i \in Drawn
    BY DEF Request, Drawn
  <2>2. i \in Allocated /\ Row(i) \in Counter
    BY <2>1 DEF TypeOK, Allocated, Row, Counter
  <2>3. counterLock[Row(i)] = t /\ base[Row(i)] < i.seq /\ i.seq <= value[Row(i)]
    BY DEF TakenInv
  <2>4. base'[Row(i)] = value[Row(i)] /\ base[Row(i)] \in Nat /\ value[Row(i)] \in Nat
    BY <1>1, <2>2, <2>3 DEF TypeOK
  <2>5. i.seq \in (base[Row(i)] + 1)..base'[Row(i)]
    BY <2>2, <2>3, <2>4 DEF Allocated
  <2>6. Register!WellFormed(i)
    BY <2>1 DEF FormatInv, Register!WellFormed
  <2> QED BY <2>2, <2>3, <2>5, <2>6
<1>4. taken[t] \cap issued = {}
  <2> SUFFICES ASSUME NEW i \in taken[t], i \in issued PROVE FALSE
    OBVIOUS
  <2>1. base[Row(i)] < i.seq /\ i.seq <= base[Row(i)]
    BY DEF TakenInv, IssuedInv
  <2>2. base[Row(i)] \in Nat /\ i.seq \in Nat
    BY <1>3 DEF TypeOK, Allocated
  <2> QED BY <2>1, <2>2
<1>5. handed = taken[t]
  BY <1>1, <1>4
<1>6. \A i, j \in handed : /\ i.tx = j.tx
                           /\ Row(i) = Row(j) /\ i.seq = j.seq => i = j
  BY <1>5 DEF OwnInv, DistinctInv
<1>7. ASSUME NEW c \in Counter
      PROVE  /\ base[c] <= base'[c]
             /\ \A n \in (base[c] + 1)..base'[c] : Carry(c, n) # {} \/ Register!Reserved(c, n)
  <2>1. base[c] \in Nat /\ value[c] \in Nat /\ base[c] <= value[c]
    BY DEF TypeOK, LockInv
  <2>2. CASE counterLock[c] # t
    BY <1>1, <2>1, <2>2
  <2>3. CASE counterLock[c] = t
    <3>1. base'[c] = value[c]
      BY <1>1, <2>3
    <3> SUFFICES ASSUME NEW n \in (base[c] + 1)..value[c]
                 PROVE  Carry(c, n) # {} \/ Register!Reserved(c, n)
      BY <2>1, <3>1
    <3>2. CASE Skipped(c, n)
      BY <3>2 DEF Skipped, Register!Reserved
    <3>3. ASSUME NEW u \in Allocator, NEW i \in taken[u],
                 i.scheme = c[1], i.key = c[2], i.seq = n
          PROVE  i \in Carry(c, n)
      <4>1. Row(i) = c
        BY <3>3 DEF Row, Counter
      <4>2. u = t
        BY <2>3, <4>1 DEF TakenInv
      <4> QED BY <1>2, <1>5, <3>3, <4>1, <4>2
    <3>4. Skipped(c, n) \/ \E u \in Allocator : \E i \in taken[u] :
            i.scheme = c[1] /\ i.key = c[2] /\ i.seq = n
      BY DEF CoverInv
    <3> QED BY <3>2, <3>3, <3>4
  <2> QED BY <2>2, <2>3
<1>8. \A i \in handed : /\ Register!WellFormed(i)
                        /\ i.seq \in (base[Row(i)] + 1)..base'[Row(i)]
  BY <1>3, <1>5
<1>9. issued \subseteq issued'
  BY <1>1
<1> DEFINE Held(i) == Register!CounterOf(i)
<1>10. \A i, j \in handed : Held(i) = Held(j) /\ i.seq = j.seq => i = j
  BY <1>2, <1>6
<1>11. \A i \in handed : i.seq \in (base[Held(i)] + 1)..base'[Held(i)]
  BY <1>2, <1>8
<1>12. \A c \in Counter :
         /\ base[c] <= base'[c]
         /\ \A n \in (base[c] + 1)..base'[c] : Carry(c, n) # {} \/ Register!Reserved(c, n)
  BY <1>7
<1>13. reservations' = reservations /\ \A i, j \in handed : i.tx = j.tx
  BY <1>1, <1>6
<1> HIDE DEF IInv
<1> QED BY <1>8, <1>9, <1>10, <1>11, <1>12, <1>13, Zenon DEF Register!HandOut

LEMMA RegisterStep ==
  ASSUME IInv, OwnInv, [Next]_vars
  PROVE  Register!Next \/ UNCHANGED <<base, issued, reservations>>
<1>1. ASSUME NEW t \in Reserver, InsertReservations(t) PROVE Register!Reserve
  <2>1. base' = base /\ issued' = issued
    BY <1>1, InsertFacts DEF IInv
  <2>2. /\ reservations \in [Scheme -> SUBSET Number]
        /\ \/ reservations' = reservations
           \/ reservations' = [reservations EXCEPT ![obj[t]] = @ \cup seen[t]]
    BY <1>1 DEF IInv, TypeOK, InsertReservations
  <2>3. /\ DOMAIN reservations' = DOMAIN reservations
        /\ \A s \in DOMAIN reservations : reservations[s] \subseteq reservations'[s]
    BY <2>2
  <2> QED BY <2>1, <2>3 DEF Register!Reserve
<1>2. ASSUME NEW t \in Allocator, SkipReserved(t) \/ TakeNumber(t)
      PROVE  UNCHANGED <<base, issued, reservations>>
  BY <1>2, CountFacts DEF IInv
<1>3. ASSUME NEW t \in Request, RollBack(t) PROVE UNCHANGED <<base, issued, reservations>>
  BY <1>3, RollBackFacts DEF IInv
<1>4. ASSUME NEW t \in Activator, CommitActivation(t)
      PROVE  UNCHANGED <<base, issued, reservations>>
  BY <1>4, ActivationFacts DEF IInv, NumberVars
<1>5. CASE UNCHANGED NumberVars
  BY <1>5 DEF NumberVars
<1> QED BY <1>1, <1>2, <1>3, <1>4, <1>5, CommitHandsOut, StepCases DEF Register!Next

\* However many requests allocate, wait, reserve and roll back at once, committed numbers are
\* those of a register that hands out the next values of its counters, a request's all at once.
THEOREM NumbersAreHandedOutInOrder == Spec => HandedOutInOrder
<1>1. Init => OwnInv /\ Register!Init
  BY DEF Init, OwnInv, Register!Init, Request
<1>2. Spec => [](IInv /\ OwnInv)
  BY <1>1, Inductive, OwnStep, PTL DEF Spec
<1>3. IInv /\ OwnInv /\ [Next]_vars => [Register!Next]_<<base, issued, reservations>>
  BY RegisterStep
<1> QED BY <1>1, <1>2, <1>3, PTL DEF Spec, HandedOutInOrder, Register!Spec
=============================================================================
