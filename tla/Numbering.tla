------------------------------ MODULE Numbering ------------------------------
(***************************************************************************)
(* Number allocation, reservation and scheme versions                      *)
(* (src/backend/mizan/apps/config/numbering.py) under PostgreSQL's READ    *)
(* COMMITTED isolation.  A request is one database transaction; its        *)
(* statements are separate steps, so that requests interleave where the    *)
(* database lets them: between statements, and while one waits for a row   *)
(* another has locked.                                                     *)
(*                                                                         *)
(* A formatted number is abstracted to what distinguishes two numbers: the *)
(* pattern, the date the pattern shows (if it shows one) and the sequence. *)
(***************************************************************************)
EXTENDS Integers, FiniteSets

CONSTANTS
  Scheme,      \* numbering_scheme rows that exist or will be created
  Series,      \* (branch, department or none, kind) triples
  SeriesOf,    \* the series of each scheme
  Fallback,    \* series of the same branch and kind without the department
  Pattern,     \* the scheme's pattern, up to its date tokens
  Periodic,    \* schemes whose reset is YEARLY or MONTHLY
  Dated,       \* schemes whose pattern shows the period (YYYY, YY, MM tokens)
  Date,        \* the days of allocation, one per period
  Reservable,  \* sequence values an administrator may type in a reservation
  Allocator,   \* requests that allocate
  Activator,   \* requests that activate a version
  Reserver,    \* requests that reserve numbers
  Installed,   \* schemes installed ACTIVE with the branch
  MaxPerTx,    \* bound: numbers allocated by one request
  None         \* no request, no scheme, no period

Request == Allocator \cup Activator \cup Reserver
Key     == Date \cup {None}
Counter == Scheme \X Key

ASSUME ConstantAssumption ==
  /\ SeriesOf \in [Scheme -> Series]
  /\ Fallback \in [Series -> Series]
  /\ DOMAIN Pattern = Scheme
  /\ Periodic \subseteq Scheme /\ Dated \subseteq Scheme
  /\ Installed \subseteq Scheme
  /\ Reservable \subseteq Nat \ {0}
  /\ MaxPerTx \in Nat \ {0}
  /\ None \notin Request \cup Scheme \cup Date
  /\ Allocator \cap Activator = {}
  /\ Allocator \cap Reserver = {}
  /\ Activator \cap Reserver = {}

VARIABLES
  status,       \* committed status of each scheme row
  version,      \* committed version of each scheme row
  rowVersion,   \* committed row_version, bumped by save() only
  immutable,    \* committed "a number has been allocated" flag
  rowLock,      \* request holding the lock of a scheme row
  base,         \* committed value of each counter row
  value,        \* value of each counter row as its lock holder sees it
  counterLock,  \* request holding the lock of a counter row
  reservations, \* committed number_reservation rows of each scheme
  issued,       \* numbers carried by committed records
  pc,           \* next statement of each request
  obj,          \* the scheme object a request has loaded
  objImmutable, \* its immutable attribute, as loaded
  objVersion,   \* its row_version, as loaded
  day,          \* date of the allocation in progress
  seen,         \* reserved numbers an allocation has read / a reserver will insert
  taken,        \* numbers allocated by a request, not yet committed
  made,         \* how many it has allocated
  retiring      \* rows an activation's UPDATE has matched

schemeVars  == <<status, version, rowVersion>>
counterVars == <<base, value, counterLock>>
objVars     == <<obj, objImmutable, objVersion>>
vars == <<status, version, rowVersion, immutable, rowLock, base, value, counterLock,
          reservations, issued, pc, obj, objImmutable, objVersion, day, seen, taken,
          made, retiring>>

-----------------------------------------------------------------------------
(* Pure helpers.                                                           *)

PeriodKey(s, d) == IF s \in Periodic THEN d ELSE None
Shown(s, d)     == IF s \in Dated THEN d ELSE None
FormatNumber(s, d, n) == <<Pattern[s], Shown(s, d), n>>

Number    == {Pattern[s] : s \in Scheme} \X Key \X Nat
Allocated == [tx : Allocator, ord : Nat, scheme : Scheme, key : Key,
              seq : Nat, number : Number]

Versions(ser) == {s \in Scheme : SeriesOf[s] = ser /\ status[s] # "ABSENT"}
Active(ser)   == {s \in Versions(ser) : status[s] = "ACTIVE"}
Latest(S)     == {s \in S : \A r \in S : version[r] <= version[s]}

\* Mutant: the status filter is forgotten.
ActiveSchemeAnyStatus(ser) ==
  IF Versions(ser) # {} THEN Latest(Versions(ser)) ELSE Latest(Versions(Fallback[ser]))

\* active_scheme: the department's scheme first, then the branch's.
ActiveScheme(ser) ==
  IF Active(ser) # {} THEN Latest(Active(ser)) ELSE Latest(Active(Fallback[ser]))

Free(lock, t) == lock \in {None, t}

-----------------------------------------------------------------------------
Init ==
  /\ status       = [s \in Scheme |-> IF s \in Installed THEN "ACTIVE" ELSE "ABSENT"]
  /\ version      = [s \in Scheme |-> IF s \in Installed THEN 1 ELSE 0]
  /\ rowVersion   = [s \in Scheme |-> 1]
  /\ immutable    = [s \in Scheme |-> FALSE]
  /\ rowLock      = [s \in Scheme |-> None]
  /\ base         = [c \in Counter |-> 0]
  /\ value        = [c \in Counter |-> 0]
  /\ counterLock  = [c \in Counter |-> None]
  /\ reservations = [s \in Scheme |-> {}]
  /\ issued       = {}
  /\ pc           = [t \in Request |-> "idle"]
  /\ obj          = [t \in Request |-> None]
  /\ objImmutable = [t \in Request |-> FALSE]
  /\ objVersion   = [t \in Request |-> 0]
  /\ day          = [t \in Request |-> None]
  /\ seen         = [t \in Request |-> {}]
  /\ taken        = [t \in Request |-> {}]
  /\ made         = [t \in Request |-> 0]
  /\ retiring     = [t \in Request |-> {}]

\* The transaction of t ends: its row locks are released.
ReleaseLocks(t) ==
  /\ counterLock' = [c \in Counter |-> IF counterLock[c] = t THEN None ELSE counterLock[c]]
  /\ rowLock'     = [s \in Scheme |-> IF rowLock[s] = t THEN None ELSE rowLock[s]]

-----------------------------------------------------------------------------
(* Allocation: the allocate_number effect of a workflow transition.        *)

\* active_scheme() for the record's series.  The object is used until the end of the
\* allocation: its status is not read again.
LoadScheme(t) ==
  /\ pc[t] \in {"idle", "allocated"}
  /\ made[t] < MaxPerTx
  /\ \E ser \in Series, d \in Date :
       \E s \in ActiveScheme(ser) :
         /\ obj' = [obj EXCEPT ![t] = s]
         /\ objImmutable' = [objImmutable EXCEPT ![t] = immutable[s] \/ rowLock[s] = t]
         /\ day' = [day EXCEPT ![t] = d]
  /\ pc' = [pc EXCEPT ![t] = "reserved"]
  /\ UNCHANGED <<schemeVars, immutable, rowLock, counterVars, reservations, issued,
                 objVersion, seen, taken, made, retiring>>

\* The reserved numbers are read before the counter row is locked.
ReadReserved(t) ==
  /\ pc[t] = "reserved"
  /\ seen' = [seen EXCEPT ![t] = reservations[obj[t]]]
  /\ pc' = [pc EXCEPT ![t] = "count"]
  /\ UNCHANGED <<schemeVars, immutable, rowLock, counterVars, reservations, issued,
                 objVars, day, taken, made, retiring>>

\* Mutant: the value is read and written back without keeping the row locked.
IncrementUnlocked(t, c) ==
  /\ counterLock' = [counterLock EXCEPT ![c] = t]
  /\ value' = [value EXCEPT ![c] = @ + 1]
  /\ UNCHANGED base

\* INSERT ... ON CONFLICT DO UPDATE ... RETURNING: takes (or waits for) the row lock.
Increment(t, c) ==
  /\ Free(counterLock[c], t)
  /\ counterLock' = [counterLock EXCEPT ![c] = t]
  /\ value' = [value EXCEPT ![c] = @ + 1]
  /\ UNCHANGED base

\* The value read is a reserved number: the loop goes round.
SkipReserved(t) ==
  LET s == obj[t]
      c == <<s, PeriodKey(s, day[t])>>
  IN /\ pc[t] = "count"
     /\ FormatNumber(s, day[t], value[c] + 1) \in seen[t]
     /\ Increment(t, c)
     /\ UNCHANGED <<schemeVars, immutable, rowLock, reservations, issued, pc,
                    objVars, day, seen, taken, made, retiring>>

TakeNumber(t) ==
  LET s == obj[t]
      c == <<s, PeriodKey(s, day[t])>>
      number == FormatNumber(s, day[t], value[c] + 1)
  IN /\ pc[t] = "count"
     /\ number \notin seen[t]
     /\ Increment(t, c)
     /\ taken' = [taken EXCEPT ![t] = @ \cup
          {[tx |-> t, ord |-> made[t] + 1, scheme |-> s, key |-> c[2],
            seq |-> value[c] + 1, number |-> number]}]
     /\ made' = [made EXCEPT ![t] = @ + 1]
     /\ pc' = [pc EXCEPT ![t] = "mark"]
     /\ UNCHANGED <<schemeVars, immutable, rowLock, reservations, issued,
                    objVars, day, seen, retiring>>

\* Mutant: a version that another request is marking is left to that request.
MarkImmutableSkipLocked(t) ==
  /\ pc[t] = "mark"
  /\ \/ (objImmutable[t] \/ ~Free(rowLock[obj[t]], t)) /\ UNCHANGED rowLock
     \/ /\ ~objImmutable[t] /\ Free(rowLock[obj[t]], t)
        /\ rowLock' = [rowLock EXCEPT ![obj[t]] = t]
  /\ pc' = [pc EXCEPT ![t] = "allocated"]
  /\ UNCHANGED <<schemeVars, immutable, counterVars, reservations, issued,
                 objVars, day, seen, taken, made, retiring>>

\* UPDATE ... SET immutable = TRUE WHERE NOT immutable, not even sent when the loaded
\* object already says so; a row that still matches is locked.
MarkImmutable(t) ==
  /\ pc[t] = "mark"
  /\ \/ (objImmutable[t] \/ immutable[obj[t]]) /\ UNCHANGED rowLock
     \/ /\ ~objImmutable[t] /\ ~immutable[obj[t]]
        /\ Free(rowLock[obj[t]], t)
        /\ rowLock' = [rowLock EXCEPT ![obj[t]] = t]
  /\ pc' = [pc EXCEPT ![t] = "allocated"]
  /\ UNCHANGED <<schemeVars, immutable, counterVars, reservations, issued,
                 objVars, day, seen, taken, made, retiring>>

\* The request commits: counter values, immutable flags and the numbered records
\* become visible together.
CommitAllocation(t) ==
  /\ pc[t] = "allocated"
  /\ base' = [c \in Counter |-> IF counterLock[c] = t THEN value[c] ELSE base[c]]
  /\ immutable' = [s \in Scheme |-> immutable[s] \/ rowLock[s] = t]
  /\ issued' = issued \cup taken[t]
  /\ taken' = [taken EXCEPT ![t] = {}]
  /\ pc' = [pc EXCEPT ![t] = "done"]
  /\ ReleaseLocks(t)
  /\ UNCHANGED <<schemeVars, value, reservations, objVars, day, seen, made, retiring>>

-----------------------------------------------------------------------------
(* Reservation.                                                            *)

\* reserve(): the numbers not yet reserved are the rows to insert.
CheckReservations(t) ==
  /\ pc[t] = "idle"
  /\ \E s \in Scheme, d \in Date :
       \E wanted \in SUBSET {FormatNumber(s, d, n) : n \in Reservable} :
         /\ status[s] # "ABSENT"
         /\ wanted # {}
         /\ obj' = [obj EXCEPT ![t] = s]
         /\ seen' = [seen EXCEPT ![t] = wanted \ reservations[s]]
  /\ pc' = [pc EXCEPT ![t] = "insert"]
  /\ UNCHANGED <<schemeVars, immutable, rowLock, counterVars, reservations, issued,
                 objImmutable, objVersion, day, taken, made, retiring>>

\* bulk_create and commit; a row inserted meanwhile makes it fail on the unique
\* constraint and rolls the request back.
InsertReservations(t) ==
  /\ pc[t] = "insert"
  /\ reservations' = IF seen[t] \cap reservations[obj[t]] = {}
                       THEN [reservations EXCEPT ![obj[t]] = @ \cup seen[t]]
                       ELSE reservations
  /\ pc' = [pc EXCEPT ![t] = "done"]
  /\ UNCHANGED <<schemeVars, immutable, rowLock, counterVars, issued,
                 objVars, day, seen, taken, made, retiring>>

-----------------------------------------------------------------------------
(* Versions.                                                               *)

\* new_version() and the creation of a draft: the next version of its series.  Two
\* creations of the same version cannot both commit (uq_numbering_scheme_version),
\* so one step per creation is enough.
NewVersion(s) ==
  /\ status[s] = "ABSENT"
  /\ status' = [status EXCEPT ![s] = "DRAFT"]
  /\ \E v \in 1..Cardinality(Scheme) :
       /\ \A r \in Versions(SeriesOf[s]) : version[r] < v
       /\ v = 1 \/ \E r \in Versions(SeriesOf[s]) : version[r] = v - 1
       /\ version' = [version EXCEPT ![s] = v]
  /\ UNCHANGED <<rowVersion, immutable, rowLock, counterVars, reservations, issued,
                 pc, objVars, day, seen, taken, made, retiring>>

\* activate(): any existing version may be loaded, whatever its status.
LoadVersion(t) ==
  /\ pc[t] = "idle"
  /\ \E s \in Scheme :
       /\ status[s] # "ABSENT"
       /\ obj' = [obj EXCEPT ![t] = s]
       /\ objVersion' = [objVersion EXCEPT ![t] = rowVersion[s]]
  /\ pc' = [pc EXCEPT ![t] = "scan"]
  /\ UNCHANGED <<schemeVars, immutable, rowLock, counterVars, reservations, issued,
                 objImmutable, day, seen, taken, made, retiring>>

\* The snapshot of UPDATE ... SET status = RETIRED WHERE status = ACTIVE.
ScanActive(t) ==
  /\ pc[t] = "scan"
  /\ retiring' = [retiring EXCEPT ![t] = Active(SeriesOf[obj[t]]) \ {obj[t]}]
  /\ pc' = [pc EXCEPT ![t] = "retire"]
  /\ UNCHANGED <<schemeVars, immutable, rowLock, counterVars, reservations, issued,
                 objVars, day, seen, taken, made>>

\* The rows it matched are locked; one that is no longer ACTIVE is left alone.
RetireOthers(t) ==
  /\ pc[t] = "retire"
  /\ \A r \in retiring[t] : Free(rowLock[r], t)
  /\ retiring' = [retiring EXCEPT ![t] = {r \in @ : status[r] = "ACTIVE"}]
  /\ rowLock' = [s \in Scheme |-> IF s \in retiring'[t] THEN t ELSE rowLock[s]]
  /\ pc' = [pc EXCEPT ![t] = "save"]
  /\ UNCHANGED <<schemeVars, immutable, counterVars, reservations, issued,
                 objVars, day, seen, taken, made>>

\* save(update_fields=[status, effective_from]) with its row_version condition.
SaveActive(t) ==
  /\ pc[t] = "save"
  /\ Free(rowLock[obj[t]], t)
  /\ rowVersion[obj[t]] = objVersion[t]
  /\ rowLock' = [rowLock EXCEPT ![obj[t]] = t]
  /\ pc' = [pc EXCEPT ![t] = "saved"]
  /\ UNCHANGED <<schemeVars, immutable, counterVars, reservations, issued,
                 objVars, day, seen, taken, made, retiring>>

CommitActivation(t) ==
  /\ pc[t] = "saved"
  /\ status' = [s \in Scheme |-> IF s = obj[t] THEN "ACTIVE"
                                 ELSE IF s \in retiring[t] THEN "RETIRED"
                                 ELSE status[s]]
  /\ rowVersion' = [rowVersion EXCEPT ![obj[t]] = @ + 1]
  /\ pc' = [pc EXCEPT ![t] = "done"]
  /\ ReleaseLocks(t)
  /\ UNCHANGED <<version, immutable, base, value, reservations, issued, objVars, day,
                 seen, taken, made, retiring>>

-----------------------------------------------------------------------------
(* Roll-back, for any reason.                                              *)

\* The row t waits for is locked by this request.
Blockers(t) ==
  {counterLock[c] : c \in {k \in Counter : /\ pc[t] = "count"
                                           /\ k = <<obj[t], PeriodKey(obj[t], day[t])>>}}
  \cup {rowLock[s] : s \in {r \in Scheme :
          \/ pc[t] = "mark" /\ ~objImmutable[t] /\ ~immutable[r] /\ r = obj[t]
          \/ pc[t] = "retire" /\ r \in retiring[t]
          \/ pc[t] = "save" /\ r = obj[t]}}

Waits(t) == Blockers(t) \ {None, t}

\* Mutant: nothing looks for cycles of waiting requests.
NeverDeadlocked(t) == FALSE

\* t is on a cycle of requests that wait for each other.
Deadlocked(t) ==
  \E D \in SUBSET Request :
    /\ t \in D
    /\ \A u \in D : (\E w \in D : w \in Waits(u)) /\ (\E w \in D : u \in Waits(w))

\* Mutant: the counter is outside the transaction, as a SEQUENCE would be.
RollBackKeepsCounter(t) ==
  /\ pc[t] \notin {"idle", "done"}
  /\ base' = [c \in Counter |-> IF counterLock[c] = t THEN value[c] ELSE base[c]]
  /\ taken' = [taken EXCEPT ![t] = {}]
  /\ pc' = [pc EXCEPT ![t] = "done"]
  /\ ReleaseLocks(t)
  /\ UNCHANGED <<schemeVars, immutable, value, reservations, issued, objVars, day,
                 seen, made, retiring>>

RollBack(t) ==
  /\ pc[t] \notin {"idle", "done"}
  /\ value' = [c \in Counter |-> IF counterLock[c] = t THEN base[c] ELSE value[c]]
  /\ taken' = [taken EXCEPT ![t] = {}]
  /\ pc' = [pc EXCEPT ![t] = "done"]
  /\ ReleaseLocks(t)
  /\ UNCHANGED <<schemeVars, immutable, base, reservations, issued, objVars, day,
                 seen, made, retiring>>

\* PostgreSQL's deadlock detector picks a victim.
DeadlockVictim(t) == Deadlocked(t) /\ RollBack(t)

\* Mutant: activate() without its transaction.atomic(): the request answers with an
\* error and commits the retirement it made first.
StaleVersionKeepsRetirement(t) ==
  /\ pc[t] = "save"
  /\ Free(rowLock[obj[t]], t)
  /\ rowVersion[obj[t]] # objVersion[t]
  /\ status' = [s \in Scheme |-> IF s \in retiring[t] THEN "RETIRED" ELSE status[s]]
  /\ pc' = [pc EXCEPT ![t] = "done"]
  /\ ReleaseLocks(t)
  /\ UNCHANGED <<version, rowVersion, immutable, base, value, reservations, issued,
                 objVars, day, seen, taken, made, retiring>>

\* ConcurrentUpdate: the row has moved on since it was loaded.
StaleVersion(t) ==
  /\ pc[t] = "save"
  /\ Free(rowLock[obj[t]], t)
  /\ rowVersion[obj[t]] # objVersion[t]
  /\ RollBack(t)

-----------------------------------------------------------------------------
Allocate(t) == \/ LoadScheme(t) \/ ReadReserved(t) \/ SkipReserved(t)
               \/ TakeNumber(t) \/ MarkImmutable(t) \/ CommitAllocation(t)

Reserve(t)  == CheckReservations(t) \/ InsertReservations(t)

Activate(t) == \/ LoadVersion(t) \/ ScanActive(t) \/ RetireOthers(t)
               \/ SaveActive(t) \/ CommitActivation(t) \/ StaleVersion(t)

\* All requests have ended: the model stops here (more requests are more elements).
Finished == (\A t \in Request : pc[t] = "done") /\ UNCHANGED vars

Next ==
  \/ \E t \in Allocator : Allocate(t)
  \/ \E t \in Reserver : Reserve(t)
  \/ \E t \in Activator : Activate(t)
  \/ \E s \in Scheme : NewVersion(s)
  \/ \E t \in Request : RollBack(t) \/ DeadlockVictim(t)
  \/ Finished

Spec == Init /\ [][Next]_vars

\* A request that has begun runs on, and the database breaks deadlocks.  Nothing makes
\* a request begin.
Fairness ==
  /\ \A t \in Allocator : WF_vars(pc[t] # "idle" /\ Allocate(t))
  /\ \A t \in Reserver : WF_vars(pc[t] # "idle" /\ Reserve(t))
  /\ \A t \in Activator : WF_vars(pc[t] # "idle" /\ Activate(t))
  /\ \A t \in Request : WF_vars(DeadlockVictim(t))

FairSpec == Spec /\ Fairness

-----------------------------------------------------------------------------
(* Properties.                                                             *)

PcValues == {"idle", "reserved", "count", "mark", "allocated", "insert", "scan",
             "retire", "save", "saved", "done"}

TypeOK ==
  /\ status \in [Scheme -> {"ABSENT", "DRAFT", "ACTIVE", "RETIRED"}]
  /\ version \in [Scheme -> Nat]
  /\ rowVersion \in [Scheme -> Nat]
  /\ immutable \in [Scheme -> BOOLEAN]
  /\ rowLock \in [Scheme -> Request \cup {None}]
  /\ base \in [Counter -> Nat]
  /\ value \in [Counter -> Nat]
  /\ counterLock \in [Counter -> Request \cup {None}]
  /\ reservations \in [Scheme -> SUBSET Number]
  /\ issued \subseteq Allocated
  /\ pc \in [Request -> PcValues]
  /\ obj \in [Request -> Scheme \cup {None}]
  /\ objImmutable \in [Request -> BOOLEAN]
  /\ objVersion \in [Request -> Nat]
  /\ day \in [Request -> Date \cup {None}]
  /\ seen \in [Request -> SUBSET Number]
  /\ taken \in [Request -> SUBSET Allocated]
  /\ made \in [Request -> Nat]
  /\ retiring \in [Request -> SUBSET Scheme]

\* No two committed or in-flight allocations of one scheme carry the same formatted
\* number, whatever interleaving, waiting and roll-back produced them; for a scheme that
\* restarts its counter every period this supposes that the pattern shows the period.
\* (test_concurrent_allocation_is_gap_free_and_unique.)
Drawn == issued \cup UNION {taken[t] : t \in Allocator}

UniqueNumbers ==
  \A i, j \in Drawn :
    /\ i.scheme = j.scheme
    /\ i.number = j.number
    /\ i.scheme \in Periodic => i.scheme \in Dated
    => i = j

\* Every value a committed counter has passed is carried by exactly the record that
\* drew it or is a reserved number: a roll-back leaves no hole behind (GAP_FREE).
GapFree ==
  \A c \in Counter : \A n \in 1..base[c] :
    \/ \E i \in issued : i.scheme = c[1] /\ i.key = c[2] /\ i.seq = n
    \/ \E d \in Date : /\ PeriodKey(c[1], d) = c[2]
                       /\ FormatNumber(c[1], d, n) \in reservations[c[1]]

\* A version that has given a number out is frozen: it is flagged immutable in the same
\* commit and it is not a draft, although the request that numbered the record looked at
\* its status and flag before, and not since.
AllocatedIsFrozen ==
  \A i \in issued : /\ immutable[i.scheme]
                    /\ status[i.scheme] \in {"ACTIVE", "RETIRED"}

\* A series with an active version is never left without one: the retirement of the
\* previous version and the activation of the next commit or fail together, even when
\* the second save is refused by its row_version.
SeriesStaysNumbered ==
  [][\A ser \in Series : Active(ser) # {} => Active(ser)' # {}]_vars

\* A request that has begun ends, even if it must wait for numbers other requests hold
\* and even if they wait for each other.
RequestsEnd == \A t \in Request : pc[t] # "idle" ~> pc[t] = "done"

\* "Allocate the next number [...]; reserved numbers are skipped": the number a request
\* draws is not one already reserved.
ReservedAreSkipped ==
  [][\A t \in Allocator : \A i \in taken'[t] \ taken[t] :
       i.number \notin reservations[i.scheme]]_vars

\* "The previous active version of the same kind is retired": one active version.
OneActiveVersion == \A ser \in Series : Cardinality(Active(ser)) <= 1

\* To whoever reads committed rows, each request gets the next values of the counters at one
\* go, none twice and none left out: the row locks make allocations as good as serial.
Register == INSTANCE NumberRegister
HandedOutInOrder == Register!Spec
=============================================================================
