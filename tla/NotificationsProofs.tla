-------------------------- MODULE NotificationsProofs --------------------------
(***************************************************************************)
(* The pipeline of Notifications keeps its Promise for any channels,       *)
(* workers, bounds and names, and records as SENT only what a provider has *)
(* accepted.  The inductive invariant says what a worker knows of the      *)
(* delivery it has loaded: if its row_version is still the row's, the      *)
(* delivery is pending; and in the transaction of a final failure it is,   *)
(* and the fallback it has picked does not exist.  Without faults, a       *)
(* second invariant follows each job and counts its runs.                  *)
(***************************************************************************)
EXTENDS Notifications, SequenceTheorems, WellFoundedInduction, TLAPS

RowType == [status : {"pending", "skipped", "sent", "failed"}, attempts : Nat,
            version : Nat \ {0}]
Steps == {"idle", "plan", "load", "attempt", "send", "sent", "error", "failed", "fallback",
          "finish"}
Run == [job : DOMAIN rows \cup {EventJob}, tries : Nat, attempts : Nat, version : Nat,
        next : Channel \cup {None}, permanent : BOOLEAN]

\* Steps of a worker that has a delivery, and of one that has loaded it.
Delivering == {"load", "attempt", "send", "sent", "error", "failed", "fallback"}
Loaded     == Delivering \ {"load"}

FunctionsInv ==
  /\ rows = [d \in DOMAIN rows |-> rows[d]]
  /\ queue = [j \in DOMAIN queue |-> queue[j]]

\* What a worker knows.
Knows(w) ==
  LET d == run[w].job
  IN /\ pc[w] \in Delivering => d \in DOMAIN rows
     /\ pc[w] \in Loaded => /\ run[w].version <= rows[d].version
                            /\ run[w].version = rows[d].version => rows[d].status = "pending"
     /\ pc[w] = "sent" => d \in accepted
     /\ pc[w] = "fallback" =>
          /\ run[w].version = rows[d].version
          /\ run[w].next # None =>
               run[w].next # Last(d) /\ Append(d, run[w].next) \notin DOMAIN rows

KnowsInv == \A w \in Worker : Knows(w)

\* One transaction of a final failure at a time has the row.
LockInv ==
  \A v, w \in Worker : v # w /\ pc[v] = "fallback" /\ pc[w] = "fallback" => run[v].job # run[w].job

\* The deliveries of the rule are there with the first, and only they may be skipped.
PlannedInv == DOMAIN rows # {} => {<<c>> : c \in RuleChannels} \subseteq DOMAIN rows
SkippedInv == \A d \in DOMAIN rows : rows[d].status = "skipped" => Len(d) = 1

IInv ==
  /\ TypeOK
  /\ FunctionsInv
  /\ KnowsInv
  /\ LockInv
  /\ PlannedInv
  /\ SkippedInv
  /\ SentWasAccepted

-----------------------------------------------------------------------------
\* Names of deliveries.
LEMMA Names ==
  ASSUME NEW d \in Seq(Channel), NEW c \in Channel
  PROVE  /\ Append(d, c) \in Seq(Channel) \ {EventJob}
         /\ Last(Append(d, c)) = c /\ Len(Append(d, c)) = Len(d) + 1
         /\ <<c>> \in Seq(Channel) \ {EventJob} /\ Last(<<c>>) = c /\ Len(<<c>>) = 1
  BY DEF Last, EventJob

LEMMA NameOfFallback ==
  ASSUME NEW d \in Seq(Channel), NEW c \in Channel, NEW e \in Seq(Channel), NEW b \in Channel,
         Append(d, c) = Append(e, b)
  PROVE  d = e /\ c = b
  BY AppendInjective

LEMMA LastOfName ==
  ASSUME NEW d \in Seq(Channel) \ {EventJob}
  PROVE  Last(d) \in Channel /\ Len(d) \in Nat \ {0}
  BY EmptySeq, LenProperties DEF Last, EventJob

\* A set of numbers has a least one.
Less == {p \in Nat \X Nat : p[1] < p[2]}
LEMMA LeastNumber ==
  ASSUME NEW S \in SUBSET Nat, S # {}
  PROVE  \E m \in S : \A n \in S : m <= n
<1>1. Less = OpToRel(<, Nat)
  BY DEF OpToRel, Less
<1>2. IsWellFoundedOn(Less, Nat)
  BY <1>1, NatLessThanWellFounded, Zenon
<1>3. PICK m \in S : \A n \in S : ~(<<n, m>> \in Less)
  BY <1>2, WFMin
<1>4. \A n \in S : m <= n
  <2> SUFFICES ASSUME NEW n \in S, n < m PROVE FALSE
    OBVIOUS
  <2>1. <<n, m>> \in Less
    BY DEF Less
  <2> QED BY <2>1, <1>3
<1> QED BY <1>4

\* fallback() picks a candidate, or nothing.
LEMMA FirstCandidateFact ==
  ASSUME NEW w \in Worker
  PROVE  FirstCandidate(w) \in Candidates(w) \cup {None}
<1> SUFFICES ASSUME Candidates(w) # {} PROVE FirstCandidate(w) \in Candidates(w)
  BY DEF FirstCandidate
<1> DEFINE S == {i \in DOMAIN FallbackOrder : FallbackOrder[i] \in Candidates(w)}
<1>1. FallbackOrder \in Seq(Channel) /\ DOMAIN FallbackOrder = 1..Len(FallbackOrder)
      /\ Len(FallbackOrder) \in Nat
  BY NotificationAssumption, LenProperties
<1>2. S \in SUBSET Nat /\ S # {}
  BY <1>1 DEF Candidates, Range
<1>3. PICK m \in S : \A n \in S : m <= n
  BY <1>2, LeastNumber
<1>4. \A j \in 1..(m - 1) : FallbackOrder[j] \notin Candidates(w)
  <2> SUFFICES ASSUME NEW j \in 1..(m - 1), FallbackOrder[j] \in Candidates(w) PROVE FALSE
    OBVIOUS
  <2>1. m \in 1..Len(FallbackOrder)
    BY <1>1
  <2>2. j \in S /\ j < m /\ j \in Nat
    BY <2>1, <1>1
  <2> QED BY <2>1, <2>2, <1>3
<1>5. \E i \in DOMAIN FallbackOrder : /\ FallbackOrder[i] \in Candidates(w)
                                      /\ \A j \in 1..(i - 1) : FallbackOrder[j] \notin Candidates(w)
  BY <1>3, <1>4
<1> QED BY <1>5 DEF FirstCandidate

-----------------------------------------------------------------------------
LEMMA NoRunType == NoRun \in Run
  BY DEF NoRun, Run

LEMMA InitHolds == Init => IInv
<1> SUFFICES ASSUME Init PROVE IInv
  OBVIOUS
<1>1. DOMAIN rows = {} /\ DOMAIN queue = {}
  BY DEF Init
<1>2. TypeOK
  <2>1. pc \in [Worker -> Steps] /\ run \in [Worker -> Run]
    BY NoRunType DEF Init, Steps
  <2>2. emitted \in BOOLEAN /\ stalled = {} /\ accepted = {} /\ faults = 0 /\ retries = 0
    BY DEF Init
  <2>3. faults \in 0..MaxFaults /\ retries \in 0..MaxRetries
    BY <2>2, NotificationAssumption
  <2> QED BY <1>1, <2>1, <2>2, <2>3 DEF TypeOK, Steps, Run
<1>3. FunctionsInv
  BY DEF Init, FunctionsInv
<1>4. KnowsInv /\ LockInv /\ PlannedInv /\ SkippedInv /\ SentWasAccepted
  BY <1>1 DEF Init, KnowsInv, Knows, Delivering, Loaded, LockInv, PlannedInv, SkippedInv,
              SentWasAccepted
<1> QED BY <1>2, <1>3, <1>4 DEF IInv

LEMMA LeaveFacts ==
  ASSUME IInv, NEW w \in Worker, Leave(w)
  PROVE  /\ pc' \in [Worker -> Steps] /\ run' \in [Worker -> Run]
         /\ pc'[w] = "idle" /\ run'[w] = NoRun
         /\ \A u \in Worker \ {w} : pc'[u] = pc[u] /\ run'[u] = run[u]
  BY NoRunType DEF IInv, TypeOK, Leave, Steps, Run

\* A task that raises leaves a queue of known jobs.
LEMMA RaiseFacts ==
  ASSUME IInv, NEW w \in Worker, Raise(w)
  PROVE  /\ queue' = [j \in DOMAIN queue' |-> queue'[j]]
         /\ DOMAIN queue' \subseteq DOMAIN rows \cup {EventJob}
         /\ \A j \in DOMAIN queue' : queue'[j] \in Nat
<1>1. /\ run[w].job \in DOMAIN rows \cup {EventJob} /\ run[w].tries \in Nat
      /\ DOMAIN queue \subseteq DOMAIN rows \cup {EventJob}
      /\ \A j \in DOMAIN queue : queue[j] \in Nat
      /\ queue = [j \in DOMAIN queue |-> queue[j]]
  BY DEF IInv, TypeOK, FunctionsInv
<1>2. CASE queue' = queue
  BY <1>1, <1>2
<1>3. CASE queue' = Put(queue, run[w].job, run[w].tries + 1)
  BY <1>1, <1>3 DEF Put
<1> QED BY <1>2, <1>3 DEF Raise

LEMMA EnqueueFacts ==
  ASSUME IInv, NEW jobs
  PROVE  /\ DOMAIN Enqueue(queue, jobs) = DOMAIN queue \cup jobs
         /\ \A j \in DOMAIN queue \cup jobs : Enqueue(queue, jobs)[j] \in Nat
         /\ Enqueue(queue, jobs) = [j \in DOMAIN Enqueue(queue, jobs) |-> Enqueue(queue, jobs)[j]]
  BY DEF IInv, TypeOK, Enqueue

\* A step of one worker that leaves the rows alone: what the others know stays, what it knows
\* itself has to be shown.
LEMMA RowsKept ==
  ASSUME IInv, NEW w \in Worker, rows' = rows, accepted \subseteq accepted',
         accepted' \subseteq DOMAIN rows,
         pc' \in [Worker -> Steps], run' \in [Worker -> Run],
         \A u \in Worker \ {w} : pc'[u] = pc[u] /\ run'[u] = run[u],
         queue' = [j \in DOMAIN queue' |-> queue'[j]],
         DOMAIN queue' \subseteq DOMAIN rows \cup {EventJob},
         \A j \in DOMAIN queue' : queue'[j] \in Nat,
         \A s \in stalled' : s[1] \in DOMAIN rows \cup {EventJob} /\ s[2] \in Nat,
         faults' \in 0..MaxFaults, UNCHANGED <<emitted, retries>>,
         Knows(w)',
         pc'[w] = "fallback" => \A u \in Worker \ {w} : pc[u] = "fallback" =>
                                  run[u].job # run'[w].job
  PROVE  IInv'
<1>1. TypeOK'
  BY DEF IInv, TypeOK, Run, Steps
<1>2. FunctionsInv' /\ PlannedInv' /\ SkippedInv' /\ SentWasAccepted'
  BY DEF IInv, FunctionsInv, PlannedInv, SkippedInv, SentWasAccepted
<1>3. \A u \in Worker \ {w} : Knows(u)'
  BY DEF IInv, KnowsInv, Knows
<1>4. LockInv'
  BY DEF IInv, LockInv
<1> QED BY <1>1, <1>2, <1>3, <1>4 DEF IInv, KnowsInv

-----------------------------------------------------------------------------
(* Steps that leave the rows alone.                                        *)

LEMMA QueueFacts ==
  ASSUME IInv
  PROVE  /\ queue = [j \in DOMAIN queue |-> queue[j]]
         /\ DOMAIN queue \subseteq DOMAIN rows \cup {EventJob}
         /\ \A j \in DOMAIN queue : queue[j] \in Nat
         /\ \A s \in stalled : s[1] \in DOMAIN rows \cup {EventJob} /\ s[2] \in Nat
         /\ faults \in 0..MaxFaults
         /\ accepted \subseteq DOMAIN rows
  BY DEF IInv, TypeOK, FunctionsInv

LEMMA EmitKeeps == ASSUME IInv, Emit PROVE IInv'
<1>1. /\ DOMAIN queue' = DOMAIN queue \cup {EventJob}
      /\ \A j \in DOMAIN queue' : queue'[j] \in Nat
      /\ queue' = [j \in DOMAIN queue' |-> queue'[j]]
  BY EnqueueFacts DEF Emit
<1>2. TypeOK' /\ FunctionsInv'
  <2>1. emitted' \in BOOLEAN /\ DOMAIN queue' \subseteq DOMAIN rows \cup {EventJob}
    BY <1>1, QueueFacts DEF Emit
  <2>2. UNCHANGED <<rows, stalled, accepted, pc, run, faults, retries>>
    BY DEF Emit
  <2> QED BY <1>1, <2>1, <2>2 DEF IInv, TypeOK, FunctionsInv
<1>3. KnowsInv' /\ LockInv' /\ PlannedInv' /\ SkippedInv' /\ SentWasAccepted'
  BY DEF Emit, IInv, KnowsInv, Knows, LockInv, PlannedInv, SkippedInv, SentWasAccepted
<1> QED BY <1>2, <1>3 DEF IInv

LEMMA TakeJobKeeps == ASSUME IInv, NEW w \in Worker, TakeJob(w) PROVE IInv'
<1> PICK j \in DOMAIN queue :
      /\ run' = [run EXCEPT ![w] = [job |-> j, tries |-> queue[j], attempts |-> 0, version |-> 0,
                                    next |-> None, permanent |-> FALSE]]
      /\ pc' = [pc EXCEPT ![w] = IF j = EventJob THEN "plan" ELSE "load"]
      /\ queue' = [i \in DOMAIN queue \ {j} |-> queue[i]]
  BY DEF TakeJob
<1> DEFINE taken == [job |-> j, tries |-> queue[j], attempts |-> 0, version |-> 0,
                     next |-> None, permanent |-> FALSE]
<1>1. UNCHANGED <<emitted, rows, stalled, accepted, faults, retries>>
  BY DEF TakeJob
<1>2. taken \in Run /\ taken.job = j /\ j \in DOMAIN rows \cup {EventJob}
  BY QueueFacts DEF Run
<1>3. run' = [run EXCEPT ![w] = taken]
  OBVIOUS
<1> HIDE DEF taken
<1>4. /\ run' \in [Worker -> Run] /\ run'[w] = taken
      /\ pc' \in [Worker -> Steps] /\ pc'[w] = IF j = EventJob THEN "plan" ELSE "load"
      /\ \A u \in Worker \ {w} : pc'[u] = pc[u] /\ run'[u] = run[u]
  BY <1>2, <1>3 DEF IInv, TypeOK, Run, Steps
<1>5. Knows(w)'
  BY <1>1, <1>2, <1>4 DEF Knows, Delivering, Loaded
<1>6. pc'[w] # "fallback"
  BY <1>4
<1>7. /\ DOMAIN queue' \subseteq DOMAIN rows \cup {EventJob}
      /\ \A i \in DOMAIN queue' : queue'[i] \in Nat
      /\ queue' = [i \in DOMAIN queue' |-> queue'[i]]
  BY QueueFacts
<1> QED BY <1>1, <1>4, <1>5, <1>6, <1>7, QueueFacts, RowsKept

\* Every step that ends the job of a worker, and leaves the rows alone.
LEMMA EndKeeps ==
  ASSUME IInv, NEW w \in Worker, Leave(w), UNCHANGED <<emitted, rows, accepted, retries>>,
         faults' \in 0..MaxFaults,
         queue' = queue \/ Raise(w),
         stalled' = stalled \/ stalled' = stalled \cup {<<run[w].job, run[w].tries>>}
  PROVE  IInv'
<1>1. /\ queue' = [j \in DOMAIN queue' |-> queue'[j]]
      /\ DOMAIN queue' \subseteq DOMAIN rows \cup {EventJob}
      /\ \A j \in DOMAIN queue' : queue'[j] \in Nat
  BY QueueFacts, RaiseFacts
<1>2. \A s \in stalled' : s[1] \in DOMAIN rows \cup {EventJob} /\ s[2] \in Nat
  <2>1. run[w].job \in DOMAIN rows \cup {EventJob} /\ run[w].tries \in Nat
    BY DEF IInv, TypeOK
  <2> QED BY <2>1, QueueFacts
<1>3. pc' \in [Worker -> Steps] /\ run' \in [Worker -> Run] /\ pc'[w] = "idle"
      /\ \A u \in Worker \ {w} : pc'[u] = pc[u] /\ run'[u] = run[u]
  BY LeaveFacts
<1>4. Knows(w)'
  BY <1>3 DEF Knows, Delivering, Loaded
<1>5. accepted \subseteq DOMAIN rows
  BY QueueFacts
<1> QED BY <1>1, <1>2, <1>3, <1>4, <1>5, RowsKept

LEMMA EndsKeep ==
  ASSUME IInv, NEW w \in Worker,
         Finish(w) \/ RuleFails(w) \/ FallbackFails(w) \/ Conflict(w) \/ Crash(w)
  PROVE  IInv'
<1>1. faults \in 0..MaxFaults /\ MaxFaults \in Nat
  BY NotificationAssumption, QueueFacts
<1>2. CASE Finish(w)
  BY <1>1, <1>2, EndKeeps DEF Finish
<1>3. CASE RuleFails(w)
  BY <1>1, <1>3, EndKeeps DEF RuleFails, Raise
<1>4. CASE FallbackFails(w)
  <2>1. faults' \in 0..MaxFaults
    BY <1>1, <1>4 DEF FallbackFails
  <2> QED BY <2>1, <1>4, EndKeeps DEF FallbackFails, Raise
<1>5. CASE Conflict(w)
  BY <1>1, <1>5, EndKeeps DEF Conflict, Raise
<1>6. CASE Crash(w)
  <2>1. faults' \in 0..MaxFaults
    BY <1>1, <1>6 DEF Crash
  <2> QED BY <2>1, <1>6, EndKeeps DEF Crash
<1> QED BY <1>2, <1>3, <1>4, <1>5, <1>6

LEMMA RescueKeeps == ASSUME IInv, NEW s \in stalled, Rescue(s) PROVE IInv'
<1>1. /\ s[1] \in DOMAIN rows \cup {EventJob} /\ s[2] \in Nat
      /\ queue' = Put(queue, s[1], s[2] + 1) /\ stalled' = stalled \ {s}
      /\ UNCHANGED <<emitted, rows, accepted, pc, run, faults, retries>>
  BY QueueFacts DEF Rescue
<1>2. /\ DOMAIN queue' \subseteq DOMAIN rows \cup {EventJob}
      /\ \A j \in DOMAIN queue' : queue'[j] \in Nat
      /\ queue' = [j \in DOMAIN queue' |-> queue'[j]]
  BY <1>1, QueueFacts DEF Put
<1>3. TypeOK' /\ FunctionsInv'
  BY <1>1, <1>2 DEF IInv, TypeOK, FunctionsInv
<1>4. KnowsInv' /\ LockInv' /\ PlannedInv' /\ SkippedInv' /\ SentWasAccepted'
  BY <1>1 DEF IInv, KnowsInv, Knows, LockInv, PlannedInv, SkippedInv, SentWasAccepted
<1> QED BY <1>3, <1>4 DEF IInv

LEMMA ReadDeliveryKeeps == ASSUME IInv, NEW w \in Worker, ReadDelivery(w) PROVE IInv'
<1> DEFINE d == run[w].job
           read == [run[w] EXCEPT !.attempts = rows[d].attempts, !.version = rows[d].version]
<1>1. /\ pc[w] = "load" /\ run' = [run EXCEPT ![w] = read]
      /\ pc' = [pc EXCEPT ![w] = IF rows[d].status = "pending" THEN "attempt" ELSE "finish"]
      /\ UNCHANGED <<emitted, rows, queue, stalled, accepted, faults, retries>>
  BY DEF ReadDelivery
<1>2. d \in DOMAIN rows /\ rows[d] \in RowType /\ run[w] \in Run
  BY <1>1 DEF IInv, KnowsInv, Knows, TypeOK, RowType, Run, Delivering
<1>3. read \in Run /\ read.job = d /\ read.version = rows[d].version /\ rows[d].version \in Nat
  BY <1>2 DEF Run, RowType
<1> HIDE DEF read
<1>4. /\ run' \in [Worker -> Run] /\ run'[w] = read
      /\ pc' \in [Worker -> Steps]
      /\ pc'[w] = IF rows[d].status = "pending" THEN "attempt" ELSE "finish"
      /\ \A u \in Worker \ {w} : pc'[u] = pc[u] /\ run'[u] = run[u]
  BY <1>1, <1>3 DEF IInv, TypeOK, Run, Steps
<1>5. Knows(w)'
  BY <1>1, <1>2, <1>3, <1>4 DEF Knows, Delivering, Loaded
<1> QED BY <1>1, <1>4, <1>5, QueueFacts, RowsKept

\* The provider's answer.
LEMMA SentKeeps == ASSUME IInv, NEW w \in Worker, Sent(w) PROVE IInv'
<1>1. /\ pc[w] = "send" /\ pc' = [pc EXCEPT ![w] = "sent"] /\ run' = run
      /\ accepted' = accepted \cup {run[w].job}
      /\ UNCHANGED <<emitted, rows, queue, stalled, faults, retries>>
  BY DEF Sent
<1>2. Knows(w) /\ run[w].job \in DOMAIN rows /\ run \in [Worker -> Run]
  BY <1>1 DEF IInv, KnowsInv, Knows, Delivering, TypeOK, Run
<1>3. /\ pc' \in [Worker -> Steps] /\ pc'[w] = "sent"
      /\ \A u \in Worker \ {w} : pc'[u] = pc[u]
  BY <1>1 DEF IInv, TypeOK, Steps
<1>4. Knows(w)'
  BY <1>1, <1>2, <1>3 DEF Knows, Delivering, Loaded
<1> QED BY <1>1, <1>2, <1>3, <1>4, QueueFacts, RowsKept

LEMMA SendFailsKeeps == ASSUME IInv, NEW w \in Worker, SendFails(w) PROVE IInv'
<1> PICK p \in BOOLEAN :
      /\ run' = [run EXCEPT ![w].permanent = p]
      /\ pc' = [pc EXCEPT ![w] = IF p \/ run[w].attempts >= MaxAttempts THEN "failed"
                                 ELSE "error"]
      /\ \/ UNCHANGED accepted
         \/ ~p /\ accepted' = accepted \cup {run[w].job}
  BY DEF SendFails
<1>1. pc[w] = "send" /\ UNCHANGED <<emitted, rows, queue, stalled, faults, retries>>
  BY DEF SendFails
<1>2. Knows(w) /\ run[w].job \in DOMAIN rows /\ run \in [Worker -> Run]
  BY <1>1 DEF IInv, KnowsInv, Knows, Delivering, TypeOK, Run
<1>3. accepted \subseteq accepted' /\ accepted' \subseteq DOMAIN rows
  BY <1>2, QueueFacts
<1>4. /\ run' \in [Worker -> Run] /\ run'[w].job = run[w].job /\ run'[w].version = run[w].version
      /\ \A u \in Worker \ {w} : run'[u] = run[u]
  BY <1>2 DEF Run
<1>5. /\ pc' \in [Worker -> Steps] /\ pc'[w] \in {"failed", "error"}
      /\ \A u \in Worker \ {w} : pc'[u] = pc[u]
  BY DEF IInv, TypeOK, Steps
<1>6. Knows(w)'
  BY <1>1, <1>2, <1>4, <1>5 DEF Knows, Delivering, Loaded
<1> QED BY <1>1, <1>3, <1>4, <1>5, <1>6, QueueFacts, RowsKept

\* The channel picked leads to a name that is not there: a row of that name would use the
\* channel, or be skipped and the first of its name.
LEMMA RecordFailureKeeps == ASSUME IInv, NEW w \in Worker, RecordFailure(w) PROVE IInv'
<1> DEFINE d == run[w].job
           c == FirstCandidate(w)
           picked == [run[w] EXCEPT !.next = c]
<1>1. /\ pc[w] = "failed" /\ ~Locked(d) /\ rows[d].version = run[w].version
      /\ run' = [run EXCEPT ![w] = picked] /\ pc' = [pc EXCEPT ![w] = "fallback"]
      /\ UNCHANGED <<emitted, rows, queue, stalled, accepted, faults, retries>>
  BY DEF RecordFailure, Fresh
<1>2. /\ Knows(w) /\ d \in DOMAIN rows /\ run[w] \in Run
      /\ DOMAIN rows \subseteq Seq(Channel) \ {EventJob}
  BY <1>1 DEF IInv, KnowsInv, Knows, Delivering, TypeOK, Run
<1>3. c \in Candidates(w) \cup {None}
  BY FirstCandidateFact
<1>4. c # None => c \in Channel /\ c # Last(d) /\ Append(d, c) \notin DOMAIN rows
  <2> SUFFICES ASSUME c \in Candidates(w)
               PROVE  c \in Channel /\ c # Last(d) /\ Append(d, c) \notin DOMAIN rows
    BY <1>3
  <2>1. /\ c \in Channel /\ c # Last(d)
        /\ \A e \in DOMAIN rows : rows[e].status # "skipped" => Last(e) # c
    BY NotificationAssumption DEF Candidates
  <2>2. Last(Append(d, c)) = c /\ Len(Append(d, c)) = Len(d) + 1 /\ Len(d) \in Nat \ {0}
    BY <2>1, <1>2, Names, LastOfName
  <2>3. Append(d, c) \in DOMAIN rows => Len(Append(d, c)) = 1
    BY <2>1, <2>2 DEF IInv, SkippedInv
  <2> QED BY <2>1, <2>2, <2>3
<1>5. picked \in Run /\ picked.job = d /\ picked.next = c /\ picked.version = run[w].version
  BY <1>2, <1>3, <1>4 DEF Run
<1> HIDE DEF c, picked
<1>6. /\ run' \in [Worker -> Run] /\ run'[w] = picked
      /\ pc' \in [Worker -> Steps] /\ pc'[w] = "fallback"
      /\ \A u \in Worker \ {w} : pc'[u] = pc[u] /\ run'[u] = run[u]
  BY <1>1, <1>5 DEF IInv, TypeOK, Run, Steps
<1>7. Knows(w)'
  BY <1>1, <1>2, <1>4, <1>5, <1>6 DEF Knows, Delivering, Loaded
<1>8. \A u \in Worker \ {w} : pc[u] = "fallback" => run[u].job # run'[w].job
  BY <1>1, <1>5, <1>6 DEF Locked
<1> QED BY <1>1, <1>6, <1>7, <1>8, QueueFacts, RowsKept

-----------------------------------------------------------------------------
(* Steps that change rows.                                                 *)

\* What another worker knows, when a worker saves the row it has loaded, or inserts rows.
LEMMA OthersKnow ==
  ASSUME IInv, NEW w \in Worker, NEW u \in Worker \ {w}, NEW d \in DOMAIN rows,
         pc'[u] = pc[u], run'[u] = run[u], accepted' = accepted,
         DOMAIN rows \subseteq DOMAIN rows',
         \A e \in DOMAIN rows \ {d} : rows'[e] = rows[e],
         rows'[d] = rows[d] \/ rows'[d].version = rows[d].version + 1,
         pc[u] = "fallback" => rows'[run[u].job] = rows[run[u].job],
         pc[u] = "fallback" /\ run[u].next # None =>
           Append(run[u].job, run[u].next) \notin DOMAIN rows'
  PROVE  Knows(u)'
<1>1. Knows(u) /\ run[u] \in Run /\ \A e \in DOMAIN rows : rows[e].version \in Nat
  BY DEF IInv, KnowsInv, TypeOK, Run
<1>2. CASE run[u].job = d /\ rows'[d] # rows[d]
  BY <1>1, <1>2 DEF Knows, Delivering, Loaded, Run
<1>3. CASE ~(run[u].job = d /\ rows'[d] # rows[d])
  <2>1. run[u].job \in DOMAIN rows => rows'[run[u].job] = rows[run[u].job]
    BY <1>3
  <2> QED BY <2>1, <1>1 DEF Knows, Delivering, Loaded
<1> QED BY <1>2, <1>3

\* The rows stay well formed when one is saved.
LEMMA SaveFacts ==
  ASSUME IInv, NEW d \in DOMAIN rows, NEW row \in RowType, row.status # "skipped",
         rows' = [rows EXCEPT ![d] = row]
  PROVE  /\ DOMAIN rows' = DOMAIN rows /\ rows'[d] = row
         /\ \A e \in DOMAIN rows \ {d} : rows'[e] = rows[e]
         /\ rows' = [e \in DOMAIN rows' |-> rows'[e]]
         /\ \A e \in DOMAIN rows' : rows'[e] \in RowType
         /\ PlannedInv' /\ SkippedInv'
<1>1. /\ DOMAIN rows' = DOMAIN rows /\ rows'[d] = row
      /\ \A e \in DOMAIN rows \ {d} : rows'[e] = rows[e]
      /\ rows' = [e \in DOMAIN rows' |-> rows'[e]]
  BY DEF IInv, FunctionsInv
<1>2. \A e \in DOMAIN rows' : rows'[e] \in RowType
  BY <1>1 DEF IInv, TypeOK, RowType
<1>3. PlannedInv' /\ SkippedInv'
  BY <1>1 DEF IInv, PlannedInv, SkippedInv
<1> QED BY <1>1, <1>2, <1>3

LEMMA SaveKeeps ==
  ASSUME IInv, NEW w \in Worker, NEW st \in {"pending", "sent"}, NEW a \in Nat,
         pc[w] \in Loaded, Fresh(w), Save(w, st, a), st = "sent" => run[w].job \in accepted,
         pc' \in [Worker -> Steps], run' \in [Worker -> Run],
         \A u \in Worker \ {w} : pc'[u] = pc[u] /\ run'[u] = run[u],
         pc'[w] \notin {"fallback", "sent"},
         pc'[w] \in Delivering => /\ run'[w].job = run[w].job /\ st = "pending"
                                  /\ run'[w].version = run[w].version + 1,
         queue' = [j \in DOMAIN queue' |-> queue'[j]],
         DOMAIN queue' \subseteq DOMAIN rows \cup {EventJob},
         \A j \in DOMAIN queue' : queue'[j] \in Nat
  PROVE  IInv'
<1> DEFINE d == run[w].job
           row == [status |-> st, attempts |-> a, version |-> run[w].version + 1]
<1>1. /\ rows' = [rows EXCEPT ![d] = row]
      /\ UNCHANGED <<emitted, stalled, accepted, faults, retries>>
  BY DEF Save
<1>2. /\ d \in DOMAIN rows /\ run[w].version = rows[d].version
      /\ \A u \in Worker : pc[u] = "fallback" => run[u].job # d
      /\ run[w].version \in Nat
  BY DEF IInv, KnowsInv, Knows, Fresh, Locked, TypeOK, Loaded
<1>3. row \in RowType /\ row.version = rows[d].version + 1 /\ row.status = st
  BY <1>2 DEF RowType
<1> HIDE DEF d, row
<1>4. /\ DOMAIN rows' = DOMAIN rows /\ rows'[d] = row
      /\ \A e \in DOMAIN rows \ {d} : rows'[e] = rows[e]
      /\ rows' = [e \in DOMAIN rows' |-> rows'[e]]
      /\ \A e \in DOMAIN rows' : rows'[e] \in RowType
      /\ PlannedInv' /\ SkippedInv'
  BY <1>1, <1>2, <1>3, SaveFacts
<1>5. \A u \in Worker \ {w} : Knows(u)'
  <2> SUFFICES ASSUME NEW u \in Worker \ {w} PROVE Knows(u)'
    OBVIOUS
  <2>1. /\ pc[u] = "fallback" => rows'[run[u].job] = rows[run[u].job]
        /\ pc[u] = "fallback" /\ run[u].next # None =>
             Append(run[u].job, run[u].next) \notin DOMAIN rows'
    BY <1>2, <1>4 DEF IInv, KnowsInv, Knows, Delivering
  <2> QED BY <2>1, <1>1, <1>2, <1>3, <1>4, OthersKnow
<1>6. Knows(w)'
  <2>1. pc'[w] \in Delivering => run'[w].job = d /\ run'[w].version = row.version
    BY DEF d, row
  <2> QED BY <2>1, <1>2, <1>3, <1>4 DEF Knows, Delivering, Loaded
<1>7. TypeOK' /\ FunctionsInv'
  <2>1. \A e \in DOMAIN rows' : e \in Seq(Channel) \ {EventJob}
    BY <1>4 DEF IInv, TypeOK
  <2> QED BY <2>1, <1>1, <1>4 DEF IInv, TypeOK, FunctionsInv, RowType, Run, Steps
<1>8. LockInv'
  BY DEF IInv, LockInv
<1>9. SentWasAccepted'
  BY <1>1, <1>3, <1>4 DEF IInv, SentWasAccepted, d
<1> QED BY <1>4, <1>5, <1>6, <1>7, <1>8, <1>9 DEF IInv, KnowsInv

LEMMA SaveAttemptKeeps == ASSUME IInv, NEW w \in Worker, SaveAttempt(w) PROVE IInv'
<1>1. /\ pc[w] = "attempt" /\ Fresh(w) /\ Save(w, "pending", run[w].attempts + 1)
      /\ run' = [run EXCEPT ![w].attempts = run[w].attempts + 1,
                            ![w].version = run[w].version + 1]
      /\ pc' = [pc EXCEPT ![w] = "send"] /\ queue' = queue
  BY DEF SaveAttempt
<1>2. run \in [Worker -> Run] /\ run[w].attempts + 1 \in Nat /\ run[w].version + 1 \in Nat
  BY DEF IInv, TypeOK, Run
<1>3. /\ run' \in [Worker -> Run] /\ run'[w].job = run[w].job
      /\ run'[w].version = run[w].version + 1
      /\ \A u \in Worker \ {w} : run'[u] = run[u]
  BY <1>1, <1>2 DEF Run
<1>4. /\ pc' \in [Worker -> Steps] /\ pc'[w] = "send"
      /\ \A u \in Worker \ {w} : pc'[u] = pc[u]
  BY <1>1 DEF IInv, TypeOK, Steps
<1> QED BY <1>1, <1>2, <1>3, <1>4, QueueFacts, SaveKeeps DEF Loaded, Delivering

LEMMA RecordSentKeeps == ASSUME IInv, NEW w \in Worker, RecordSent(w) PROVE IInv'
<1>1. /\ pc[w] = "sent" /\ Fresh(w) /\ Save(w, "sent", run[w].attempts)
      /\ pc' = [pc EXCEPT ![w] = "finish"] /\ queue' = queue /\ run' = run
  BY DEF RecordSent
<1>2. run \in [Worker -> Run] /\ run[w].attempts \in Nat /\ run[w].job \in accepted
  BY <1>1 DEF IInv, TypeOK, Run, KnowsInv, Knows
<1>3. /\ pc' \in [Worker -> Steps] /\ pc'[w] = "finish"
      /\ \A u \in Worker \ {w} : pc'[u] = pc[u]
  BY <1>1 DEF IInv, TypeOK, Steps
<1> QED BY <1>1, <1>2, <1>3, QueueFacts, SaveKeeps DEF Loaded, Delivering

LEMMA RecordErrorKeeps == ASSUME IInv, NEW w \in Worker, RecordError(w) PROVE IInv'
<1>1. /\ pc[w] = "error" /\ Fresh(w) /\ Save(w, "pending", run[w].attempts) /\ Raise(w)
  BY DEF RecordError
<1>2. run[w].attempts \in Nat
  BY DEF IInv, TypeOK
<1>3. Leave(w)
  BY <1>1 DEF Raise
<1>4. /\ pc' \in [Worker -> Steps] /\ run' \in [Worker -> Run] /\ pc'[w] = "idle"
      /\ \A u \in Worker \ {w} : pc'[u] = pc[u] /\ run'[u] = run[u]
  BY <1>3, LeaveFacts
<1>5. pc'[w] \notin Delivering
  BY <1>4 DEF Delivering
<1> QED BY <1>1, <1>2, <1>4, <1>5, RaiseFacts, SaveKeeps DEF Loaded, Delivering

\* A final failure with its fallback.
LEMMA CommitFailureKeeps == ASSUME IInv, NEW w \in Worker, CommitFailure(w) PROVE IInv'
<1> DEFINE d == run[w].job
           c == run[w].next
           failed == [status |-> "failed", attempts |-> run[w].attempts,
                      version |-> run[w].version + 1]
           first == [status |-> "pending", attempts |-> 0, version |-> 2]
           saved == [rows EXCEPT ![d] = failed]
           fallback == Append(d, c)
<1>1. /\ pc[w] = "fallback"
      /\ \/ c = None /\ rows' = saved /\ queue' = queue
         \/ c # None /\ rows' = Put(saved, fallback, first) /\ queue' = Enqueue(queue, {fallback})
      /\ pc' = [pc EXCEPT ![w] = "finish"]
      /\ UNCHANGED <<emitted, stalled, accepted, run, faults, retries>>
  BY DEF CommitFailure
<1>2. /\ d \in DOMAIN rows /\ run[w].version = rows[d].version
      /\ c # None => c \in Channel /\ fallback \notin DOMAIN rows
      /\ run[w].version \in Nat /\ run[w].attempts \in Nat
      /\ run \in [Worker -> Run]
      /\ d \in Seq(Channel) \ {EventJob}
  BY <1>1 DEF IInv, KnowsInv, Knows, TypeOK, Delivering, Loaded, Run
<1>3. /\ failed \in RowType /\ failed.version = rows[d].version + 1 /\ failed.status = "failed"
      /\ first \in RowType /\ first.status = "pending"
  BY <1>2 DEF RowType
<1>4. /\ DOMAIN saved = DOMAIN rows /\ saved[d] = failed
      /\ \A e \in DOMAIN rows \ {d} : saved[e] = rows[e]
      /\ saved = [e \in DOMAIN saved |-> saved[e]]
  BY <1>2 DEF IInv, FunctionsInv
<1>5. c # None => fallback \in Seq(Channel) \ {EventJob} /\ Len(fallback) # 1
  <2> SUFFICES ASSUME c # None
               PROVE  fallback \in Seq(Channel) \ {EventJob} /\ Len(fallback) # 1
    OBVIOUS
  <2>1. c \in Channel /\ d \in Seq(Channel) \ {EventJob}
    BY <1>2
  <2>2. Len(d) \in Nat \ {0}
    BY <2>1, LastOfName
  <2> HIDE DEF c, d
  <2>3. fallback \in Seq(Channel) \ {EventJob} /\ Len(fallback) = Len(d) + 1
    BY <2>1, Names
  <2> QED BY <2>2, <2>3
<1> HIDE DEF d, c, failed, first, saved, fallback
<1>6. /\ DOMAIN rows' = IF c = None THEN DOMAIN rows ELSE DOMAIN rows \cup {fallback}
      /\ rows'[d] = failed
      /\ \A e \in DOMAIN rows \ {d} : rows'[e] = rows[e]
      /\ c # None => rows'[fallback] = first
      /\ rows' = [e \in DOMAIN rows' |-> rows'[e]]
  <2>1. CASE c = None
    BY <2>1, <1>1, <1>4
  <2>2. CASE c # None
    BY <2>2, <1>1, <1>2, <1>4 DEF Put
  <2> QED BY <2>1, <2>2
<1>7. \A e \in DOMAIN rows' : e \in Seq(Channel) \ {EventJob} /\ rows'[e] \in RowType
  BY <1>3, <1>5, <1>6, SMTT(30) DEF IInv, TypeOK, RowType
<1>8. /\ DOMAIN queue' \subseteq DOMAIN rows' \cup {EventJob}
      /\ \A j \in DOMAIN queue' : queue'[j] \in Nat
      /\ queue' = [j \in DOMAIN queue' |-> queue'[j]]
  <2>1. CASE c = None
    BY <2>1, <1>1, <1>6, QueueFacts
  <2>2. CASE c # None
    <3>1. queue' = Enqueue(queue, {fallback}) /\ DOMAIN rows' = DOMAIN rows \cup {fallback}
      BY <2>2, <1>1, <1>6
    <3>2. /\ DOMAIN queue' = DOMAIN queue \cup {fallback}
          /\ \A j \in DOMAIN queue \cup {fallback} : queue'[j] \in Nat
          /\ queue' = [j \in DOMAIN queue' |-> queue'[j]]
      BY <3>1, EnqueueFacts
    <3>3. DOMAIN queue \subseteq DOMAIN rows \cup {EventJob}
      BY QueueFacts
    <3> QED BY <3>1, <3>2, <3>3
  <2> QED BY <2>1, <2>2
<1>9. /\ pc' \in [Worker -> Steps] /\ pc'[w] = "finish"
      /\ \A u \in Worker \ {w} : pc'[u] = pc[u]
  BY <1>1 DEF IInv, TypeOK, Steps
<1>10. TypeOK' /\ FunctionsInv'
  BY <1>1, <1>6, <1>7, <1>8, <1>9 DEF IInv, TypeOK, FunctionsInv, RowType, Run, Steps
<1>11. \A u \in Worker \ {w} : Knows(u)'
  <2> SUFFICES ASSUME NEW u \in Worker \ {w} PROVE Knows(u)'
    OBVIOUS
  <2>1. pc[u] = "fallback" => run[u].job # d /\ run[u].job \in DOMAIN rows
    BY <1>1 DEF IInv, LockInv, KnowsInv, Knows, Delivering, d
  <2>2. ASSUME pc[u] = "fallback", run[u].next # None
        PROVE  Append(run[u].job, run[u].next) \notin DOMAIN rows'
    <3>1. /\ Append(run[u].job, run[u].next) \notin DOMAIN rows /\ run[u].next \in Channel
          /\ run[u].job \in Seq(Channel)
      BY <2>1, <2>2 DEF IInv, KnowsInv, Knows, TypeOK
    <3>2. c # None => Append(run[u].job, run[u].next) # fallback
      <4> SUFFICES ASSUME c # None, Append(run[u].job, run[u].next) = Append(d, c) PROVE FALSE
        BY DEF fallback
      <4>1. c \in Channel /\ d \in Seq(Channel)
        BY <1>2
      <4>2. run[u].job = d
        BY <3>1, <4>1, NameOfFallback
      <4> QED BY <4>2, <2>1, <2>2
    <3> QED BY <3>1, <3>2, <1>6
  <2>3. rows'[d].version = rows[d].version + 1
    BY <1>3, <1>6
  <2> QED BY <2>1, <2>2, <2>3, <1>1, <1>2, <1>6, <1>9, OthersKnow
<1>12. Knows(w)'
  BY <1>9 DEF Knows, Delivering, Loaded
<1>13. LockInv'
  BY <1>1, <1>9 DEF IInv, LockInv
<1>14. PlannedInv' /\ SkippedInv'
  BY <1>3, <1>5, <1>6, <1>2 DEF IInv, PlannedInv, SkippedInv
<1>15. SentWasAccepted'
  BY <1>1, <1>3, <1>6 DEF IInv, SentWasAccepted
<1> QED BY <1>10, <1>11, <1>12, <1>13, <1>14, <1>15 DEF IInv, KnowsInv

\* Rows are inserted, and nothing else happens to them.
LEMMA InsertKeeps ==
  ASSUME IInv, DOMAIN rows \subseteq DOMAIN rows',
         rows' = [e \in DOMAIN rows' |-> rows'[e]],
         \A e \in DOMAIN rows : rows'[e] = rows[e],
         \A e \in DOMAIN rows' \ DOMAIN rows :
           /\ e \in Seq(Channel) \ {EventJob} /\ rows'[e] \in RowType
           /\ rows'[e].status \in {"pending", "skipped"}
           /\ rows'[e].status = "skipped" => Len(e) = 1
           /\ \A d \in DOMAIN rows : \A c \in Channel \ {Last(d)} : e # Append(d, c),
         {<<c>> : c \in RuleChannels} \subseteq DOMAIN rows' \/ DOMAIN rows # {},
         DOMAIN queue' \subseteq DOMAIN rows' \cup {EventJob},
         \A j \in DOMAIN queue' : queue'[j] \in Nat,
         queue' = [j \in DOMAIN queue' |-> queue'[j]],
         pc' \in [Worker -> Steps], run' = run,
         \A u \in Worker : pc'[u] = pc[u] \/ pc'[u] \notin Delivering,
         retries' \in 0..MaxRetries, UNCHANGED <<emitted, stalled, accepted, faults>>
  PROVE  IInv'
<1>1. \A e \in DOMAIN rows' : e \in Seq(Channel) \ {EventJob} /\ rows'[e] \in RowType
  BY DEF IInv, TypeOK, RowType
<1>2. TypeOK' /\ FunctionsInv'
  BY <1>1 DEF IInv, TypeOK, FunctionsInv, RowType, Run, Steps
<1>3. KnowsInv'
  <2> SUFFICES ASSUME NEW u \in Worker PROVE Knows(u)'
    BY DEF KnowsInv
  <2>1. CASE pc'[u] \notin Delivering
    BY <2>1 DEF Knows, Delivering, Loaded
  <2>2. CASE pc'[u] = pc[u] /\ pc[u] \in Delivering
    <3>1. Knows(u) /\ run[u].job \in DOMAIN rows /\ rows'[run[u].job] = rows[run[u].job]
      BY <2>2 DEF IInv, KnowsInv, Knows
    <3>2. ASSUME pc[u] = "fallback", run[u].next # None
          PROVE  Append(run[u].job, run[u].next) \notin DOMAIN rows'
      <4>1. /\ Append(run[u].job, run[u].next) \notin DOMAIN rows
            /\ run[u].next \in Channel \ {Last(run[u].job)}
        BY <3>1, <3>2 DEF IInv, Knows, TypeOK
      <4> QED BY <3>1, <4>1
    <3> QED BY <2>2, <3>1, <3>2 DEF Knows, Delivering, Loaded
  <2> QED BY <2>1, <2>2
<1>4. LockInv'
  BY DEF IInv, LockInv, Delivering
<1>5. PlannedInv'
  BY DEF IInv, PlannedInv
<1>6. SkippedInv' /\ SentWasAccepted'
  <2> SUFFICES ASSUME NEW e \in DOMAIN rows'
               PROVE  /\ rows'[e].status = "skipped" => Len(e) = 1
                      /\ rows'[e].status = "sent" => e \in accepted'
    BY DEF SkippedInv, SentWasAccepted
  <2>1. CASE e \in DOMAIN rows
    BY <2>1 DEF IInv, SkippedInv, SentWasAccepted
  <2>2. CASE e \notin DOMAIN rows
    BY <2>2
  <2> QED BY <2>1, <2>2
<1> QED BY <1>2, <1>3, <1>4, <1>5, <1>6 DEF IInv

LEMMA RowFact == \A s \in {"pending", "skipped"} : Row(s) \in RowType /\ Row(s).status = s
  BY DEF Row, RowType

LEMMA ApplyRuleKeeps == ASSUME IInv, NEW w \in Worker, ApplyRule(w) PROVE IInv'
<1> DEFINE names == {<<c>> : c \in RuleChannels}
           jobs == {d \in DOMAIN rows' : rows'[d].status = "pending" /\ Len(d) = 1}
<1>1. /\ rows' = [d \in DOMAIN rows \cup names |->
                    IF d \in DOMAIN rows THEN rows[d]
                    ELSE Row(IF Last(d) \in Reachable THEN "pending" ELSE "skipped")]
      /\ queue' = Enqueue(queue, jobs)
      /\ pc' = [pc EXCEPT ![w] = "finish"]
      /\ UNCHANGED <<emitted, stalled, accepted, run, faults, retries>>
  BY DEF ApplyRule
<1>2. \A e \in names : e \in Seq(Channel) \ {EventJob} /\ Len(e) = 1
  <2> SUFFICES ASSUME NEW c \in RuleChannels
               PROVE  <<c>> \in Seq(Channel) \ {EventJob} /\ Len(<<c>>) = 1
    OBVIOUS
  <2>1. c \in Channel /\ <<>> \in Seq(Channel)
    BY NotificationAssumption
  <2> QED BY <2>1, Names
<1>3. \A e \in DOMAIN rows' \ DOMAIN rows :
        /\ e \in Seq(Channel) \ {EventJob} /\ Len(e) = 1
        /\ rows'[e] \in RowType /\ rows'[e].status \in {"pending", "skipped"}
  BY <1>1, <1>2, RowFact
<1>4. \A e \in DOMAIN rows' \ DOMAIN rows : \A d \in DOMAIN rows : \A c \in Channel \ {Last(d)} :
        e # Append(d, c)
  <2> SUFFICES ASSUME NEW d \in DOMAIN rows, NEW c \in Channel PROVE Len(Append(d, c)) # 1
    BY <1>3
  <2>1. d \in Seq(Channel) \ {EventJob}
    BY DEF IInv, TypeOK
  <2> QED BY <2>1, Names, LastOfName
<1>5. /\ DOMAIN queue' = DOMAIN queue \cup jobs
      /\ \A j \in DOMAIN queue' : queue'[j] \in Nat
      /\ queue' = [j \in DOMAIN queue' |-> queue'[j]]
  BY <1>1, EnqueueFacts
<1>6. /\ pc' \in [Worker -> Steps] /\ pc'[w] \notin Delivering
      /\ \A u \in Worker \ {w} : pc'[u] = pc[u]
  BY <1>1 DEF IInv, TypeOK, Steps, Delivering
<1>7. retries' \in 0..MaxRetries
  BY <1>1 DEF IInv, TypeOK
<1>8. /\ DOMAIN rows \subseteq DOMAIN rows' /\ names \subseteq DOMAIN rows'
      /\ rows' = [e \in DOMAIN rows' |-> rows'[e]]
      /\ \A e \in DOMAIN rows : rows'[e] = rows[e]
  BY <1>1
<1>9. DOMAIN queue' \subseteq DOMAIN rows' \cup {EventJob}
  BY <1>5, <1>8, QueueFacts
<1> HIDE DEF jobs
<1> QED BY <1>1, <1>3, <1>4, <1>5, <1>6, <1>7, <1>8, <1>9, InsertKeeps

LEMMA RetryKeeps == ASSUME IInv, NEW d \in DOMAIN rows, Retry(d) PROVE IInv'
<1> DEFINE copy == Append(d, Last(d))
<1>1. /\ retries < MaxRetries /\ copy \notin DOMAIN rows
      /\ rows' = Put(rows, copy, Row("pending"))
      /\ queue' = Enqueue(queue, {copy}) /\ retries' = retries + 1
      /\ UNCHANGED <<emitted, stalled, accepted, pc, run, faults>>
  BY DEF Retry
<1>2. d \in Seq(Channel) \ {EventJob} /\ Last(d) \in Channel
  BY LastOfName DEF IInv, TypeOK
<1>3. copy \in Seq(Channel) \ {EventJob}
  BY <1>2, Names
<1>4. \A e \in DOMAIN rows : \A c \in Channel \ {Last(e)} : copy # Append(e, c)
  <2> SUFFICES ASSUME NEW e \in DOMAIN rows, NEW c \in Channel, copy = Append(e, c)
               PROVE  c = Last(e)
    OBVIOUS
  <2>1. e \in Seq(Channel)
    BY DEF IInv, TypeOK
  <2>2. d = e /\ Last(d) = c
    BY <1>2, <2>1, NameOfFallback
  <2> QED BY <2>2
<1> HIDE DEF copy
<1>5. /\ DOMAIN rows' = DOMAIN rows \cup {copy} /\ rows'[copy] = Row("pending")
      /\ \A e \in DOMAIN rows : rows'[e] = rows[e]
      /\ rows' = [e \in DOMAIN rows' |-> rows'[e]]
  BY <1>1 DEF Put
<1>6. /\ DOMAIN queue' = DOMAIN queue \cup {copy}
      /\ \A j \in DOMAIN queue' : queue'[j] \in Nat
      /\ queue' = [j \in DOMAIN queue' |-> queue'[j]]
  BY <1>1, EnqueueFacts
<1>7. retries' \in 0..MaxRetries /\ pc' \in [Worker -> Steps]
  BY <1>1, NotificationAssumption DEF IInv, TypeOK, Steps
<1>8. Row("pending") \in RowType /\ Row("pending").status = "pending"
  BY RowFact
<1>9. DOMAIN queue' \subseteq DOMAIN rows' \cup {EventJob}
  BY <1>5, <1>6, QueueFacts
<1> QED BY <1>1, <1>3, <1>4, <1>5, <1>6, <1>7, <1>8, <1>9, InsertKeeps

-----------------------------------------------------------------------------
LEMMA StutterKeeps == IInv /\ UNCHANGED vars => IInv'
  BY DEF IInv, TypeOK, FunctionsInv, KnowsInv, Knows, LockInv, PlannedInv, SkippedInv,
         SentWasAccepted, vars

LEMMA NextKeeps == IInv /\ [Next]_vars => IInv'
<1> SUFFICES ASSUME IInv, [Next]_vars PROVE IInv'
  OBVIOUS
<1>1. CASE Emit
  BY <1>1, EmitKeeps
<1>2. ASSUME NEW w \in Worker, TakeJob(w) PROVE IInv'
  BY <1>2, TakeJobKeeps
<1>3. ASSUME NEW w \in Worker, Dispatch(w) PROVE IInv'
  BY <1>3, ApplyRuleKeeps, EndsKeep DEF Dispatch
<1>4. ASSUME NEW w \in Worker, Deliver(w) PROVE IInv'
  BY <1>4, ReadDeliveryKeeps, SaveAttemptKeeps, SentKeeps, SendFailsKeeps, RecordSentKeeps,
     RecordErrorKeeps, RecordFailureKeeps, CommitFailureKeeps, EndsKeep DEF Deliver
<1>5. ASSUME NEW w \in Worker, Finish(w) \/ Crash(w) PROVE IInv'
  BY <1>5, EndsKeep
<1>6. ASSUME NEW d \in DOMAIN rows, Retry(d) PROVE IInv'
  BY <1>6, RetryKeeps
<1>7. ASSUME NEW s \in stalled, Rescue(s) PROVE IInv'
  BY <1>7, RescueKeeps
<1>8. CASE Quiet \/ UNCHANGED vars
  BY <1>8, StutterKeeps DEF Quiet
<1> QED BY <1>1, <1>2, <1>3, <1>4, <1>5, <1>6, <1>7, <1>8 DEF Next, Work

LEMMA Invariant == Spec => []IInv
  BY InitHolds, NextKeeps, PTL DEF Spec

\* A delivery recorded as SENT has been accepted by the provider, however many workers run
\* it, die or read it too early.
THEOREM NothingSentUnaccepted == Spec => []SentWasAccepted
  BY Invariant, PTL DEF IInv

-----------------------------------------------------------------------------
(* Without a fault no delivery is left behind.  The invariant follows the  *)
(* job: it waits or one worker has it, and the runs it has had are the     *)
(* attempts of its delivery, until the worker counts one more.             *)

Working == Delivering \cup {"plan"}

OnePlace ==
  /\ \A w \in Worker : pc[w] \in Working => run[w].job \notin DOMAIN queue
  /\ \A v, w \in Worker : v # w /\ pc[v] \in Working /\ pc[w] \in Working =>
                            run[v].job # run[w].job

\* The event is dispatched once.
EventInv ==
  /\ EventJob \in DOMAIN queue => emitted
  /\ \A w \in Worker : pc[w] = "plan" => emitted /\ run[w].job = EventJob /\ DOMAIN rows = {}
  /\ DOMAIN rows # {} => emitted /\ EventJob \notin DOMAIN queue

WaitingInv ==
  \A d \in DOMAIN queue \ {EventJob} : rows[d].status = "pending" /\ queue[d] = rows[d].attempts

Counts(w) ==
  LET row == rows[run[w].job]
  IN /\ pc[w] \in Delivering => row.status = "pending"
     /\ pc[w] \in {"load", "attempt"} => run[w].tries = row.attempts
     /\ pc[w] \in Loaded => run[w].attempts = row.attempts /\ run[w].version = row.version
     /\ pc[w] \in {"send", "sent", "error"} => run[w].tries + 1 = row.attempts
     /\ pc[w] = "error" => run[w].attempts < MaxAttempts

CountsInv == \A w \in Worker : Counts(w)

KeptInv ==
  \A d \in Pending : d \in DOMAIN queue \/ \E w \in Worker : pc[w] \in Working /\ run[w].job = d

Handed == /\ stalled = {}
          /\ OnePlace
          /\ EventInv
          /\ WaitingInv
          /\ CountsInv
          /\ KeptInv

JobInv == faults = 0 => Handed

\* The delivery of a worker is its own.
LEMMA OwnDelivery ==
  ASSUME IInv, Handed, NEW w \in Worker, pc[w] \in Delivering
  PROVE  /\ run[w].job \in DOMAIN rows /\ run[w].job # EventJob
         /\ rows[run[w].job] \in RowType /\ rows[run[w].job].status = "pending"
         /\ run[w].job \notin DOMAIN queue
         /\ \A u \in Worker \ {w} : pc[u] \in Working => run[u].job # run[w].job
         /\ ~Locked(run[w].job) \/ pc[w] = "fallback"
         /\ emitted /\ EventJob \notin DOMAIN queue
         /\ \A u \in Worker : pc[u] # "plan"
<1>1. run[w].job \in DOMAIN rows
  BY DEF IInv, KnowsInv, Knows
<1>2. run[w].job # EventJob /\ rows[run[w].job] \in RowType
  BY <1>1 DEF IInv, TypeOK, RowType
<1>3. rows[run[w].job].status = "pending"
  BY DEF Handed, CountsInv, Counts
<1>4. /\ run[w].job \notin DOMAIN queue
      /\ \A u \in Worker \ {w} : pc[u] \in Working => run[u].job # run[w].job
  BY DEF Handed, OnePlace, Working
<1>5. ~Locked(run[w].job) \/ pc[w] = "fallback"
  BY <1>4 DEF Locked, Working, Delivering
<1>6. emitted /\ EventJob \notin DOMAIN queue /\ \A u \in Worker : pc[u] # "plan"
  BY <1>1 DEF Handed, EventInv
<1> QED BY <1>1, <1>2, <1>3, <1>4, <1>5, <1>6

\* A worker goes on with its delivery.
LEMMA GoesOn ==
  ASSUME IInv, Handed, NEW w \in Worker, UNCHANGED <<emitted, rows, queue, stalled>>,
         pc[w] \in Delivering, pc'[w] \in Delivering, run'[w].job = run[w].job,
         \A u \in Worker \ {w} : pc'[u] = pc[u] /\ run'[u] = run[u],
         Counts(w)'
  PROVE  Handed'
<1>1. \A u \in Worker : /\ run'[u].job = run[u].job
                        /\ pc'[u] \in Working <=> pc[u] \in Working
  BY DEF Working
<1>2. OnePlace'
  BY <1>1 DEF Handed, OnePlace
<1>3. EventInv' /\ WaitingInv'
  BY <1>1 DEF Handed, EventInv, WaitingInv, Delivering
<1>4. CountsInv'
  BY DEF Handed, CountsInv, Counts
<1>5. KeptInv'
  BY <1>1 DEF Handed, KeptInv, Pending
<1> QED BY <1>2, <1>3, <1>4, <1>5 DEF Handed

\* A worker saves its delivery, and goes on with it, is done with it or queues it again.
LEMMA SaveHands ==
  ASSUME IInv, Handed, NEW w \in Worker, UNCHANGED <<emitted, stalled>>,
         pc[w] \in Delivering,
         NEW row, rows' = [rows EXCEPT ![run[w].job] = row],
         \A u \in Worker \ {w} : pc'[u] = pc[u] /\ run'[u] = run[u],
         \/ /\ queue' = queue /\ row.status = "pending" /\ Counts(w)'
            /\ pc'[w] \in Delivering /\ run'[w].job = run[w].job
         \/ queue' = queue /\ row.status # "pending" /\ pc'[w] = "finish"
         \/ /\ queue' = Put(queue, run[w].job, row.attempts)
            /\ row.status = "pending" /\ pc'[w] = "idle"
  PROVE  Handed'
<1> PICK d \in DOMAIN rows : d = run[w].job
  BY OwnDelivery
<1>1. /\ d # EventJob /\ d \notin DOMAIN queue /\ emitted /\ EventJob \notin DOMAIN queue
      /\ \A u \in Worker \ {w} : pc[u] \in Working => run[u].job # d
      /\ \A u \in Worker : pc[u] # "plan"
  BY OwnDelivery
<1>2. /\ DOMAIN rows' = DOMAIN rows /\ rows'[d] = row
      /\ \A e \in DOMAIN rows \ {d} : rows'[e] = rows[e]
  OBVIOUS
<1>3. /\ DOMAIN queue' \subseteq DOMAIN queue \cup {d}
      /\ \A e \in DOMAIN queue : e \in DOMAIN queue' /\ queue'[e] = queue[e]
      /\ d \in DOMAIN queue' => /\ queue'[d] = row.attempts /\ row.status = "pending"
                                /\ pc'[w] = "idle"
  BY <1>1 DEF Put
<1>4. DOMAIN queue \subseteq DOMAIN rows
  BY <1>1 DEF IInv, TypeOK
<1>5. \A u \in Worker \ {w} : pc[u] \in Delivering => run[u].job \in DOMAIN rows \ {d}
  BY <1>1 DEF IInv, KnowsInv, Knows, Working
<1>6. OnePlace'
  BY <1>1, <1>3 DEF Handed, OnePlace, Working, Delivering
<1>7. EventInv'
  BY <1>1, <1>2, <1>3 DEF EventInv, Delivering
<1>8. WaitingInv'
  BY <1>1, <1>2, <1>3, <1>4 DEF Handed, WaitingInv
<1>9. CountsInv'
  <2>1. \A u \in Worker \ {w} : Counts(u)'
    BY <1>2, <1>5 DEF Handed, CountsInv, Counts, Delivering, Loaded
  <2>2. Counts(w)'
    <3>1. CASE pc'[w] \in {"finish", "idle"}
      BY <3>1 DEF Counts, Delivering, Loaded
    <3> QED BY <3>1
  <2> QED BY <2>1, <2>2 DEF CountsInv
<1>10. KeptInv'
  <2> SUFFICES ASSUME NEW e \in DOMAIN rows, rows'[e].status = "pending"
               PROVE  \/ e \in DOMAIN queue'
                      \/ \E u \in Worker : pc'[u] \in Working /\ run'[u].job = e
    BY <1>2 DEF KeptInv, Pending
  <2>1. CASE e = d
    BY <1>2, <2>1 DEF Put, Working
  <2>2. CASE e # d
    BY <1>2, <1>3, <2>2 DEF Handed, KeptInv, Pending
  <2> QED BY <2>1, <2>2
<1> QED BY <1>6, <1>7, <1>8, <1>9, <1>10 DEF Handed

LEMMA EmitHands == ASSUME IInv, Handed, Emit PROVE Handed'
<1>1. /\ ~emitted /\ emitted' = TRUE
      /\ \A j \in DOMAIN queue : queue'[j] = queue[j]
      /\ DOMAIN queue' = DOMAIN queue \cup {EventJob}
      /\ UNCHANGED <<rows, stalled, pc, run>>
  BY DEF Emit, Enqueue
<1>2. DOMAIN rows = {} /\ \A w \in Worker : pc[w] \notin Working
  <2>1. DOMAIN rows = {}
    BY <1>1 DEF Handed, EventInv
  <2> QED BY <2>1, <1>1 DEF Handed, EventInv, IInv, KnowsInv, Knows, Working, Delivering
<1>3. DOMAIN queue' = {EventJob}
  BY <1>1, <1>2 DEF IInv, TypeOK
<1>4. OnePlace' /\ EventInv' /\ WaitingInv'
  BY <1>1, <1>2, <1>3 DEF OnePlace, EventInv, WaitingInv, Working
<1>5. CountsInv' /\ KeptInv'
  BY <1>1, <1>2 DEF CountsInv, Counts, KeptInv, Pending, Working, Delivering, Loaded
<1> QED BY <1>1, <1>4, <1>5 DEF Handed

LEMMA TakeJobHands == ASSUME IInv, Handed, NEW w \in Worker, TakeJob(w) PROVE Handed'
<1> PICK j \in DOMAIN queue :
      /\ run' = [run EXCEPT ![w] = [job |-> j, tries |-> queue[j], attempts |-> 0, version |-> 0,
                                    next |-> None, permanent |-> FALSE]]
      /\ pc' = [pc EXCEPT ![w] = IF j = EventJob THEN "plan" ELSE "load"]
      /\ queue' = [i \in DOMAIN queue \ {j} |-> queue[i]]
  BY DEF TakeJob
<1>1. /\ pc \in [Worker -> Steps] /\ DOMAIN run = Worker
  BY DEF IInv, TypeOK, Steps
<1>2. /\ pc[w] = "idle" /\ UNCHANGED <<emitted, rows, stalled>>
      /\ pc'[w] = IF j = EventJob THEN "plan" ELSE "load"
      /\ run'[w].job = j /\ run'[w].tries = queue[j]
      /\ \A u \in Worker \ {w} : pc'[u] = pc[u] /\ run'[u] = run[u]
  BY <1>1 DEF TakeJob
<1>3. /\ DOMAIN queue' = DOMAIN queue \ {j}
      /\ \A i \in DOMAIN queue' : queue'[i] = queue[i]
  OBVIOUS
<1>4. OnePlace'
  BY <1>2, <1>3 DEF Handed, OnePlace
<1>5. EventInv'
  <2>1. EventJob \in DOMAIN queue => emitted /\ DOMAIN rows = {}
    BY DEF Handed, EventInv
  <2> QED BY <2>1, <1>2, <1>3 DEF Handed, EventInv
<1>6. WaitingInv'
  BY <1>2, <1>3 DEF Handed, WaitingInv
<1>7. CountsInv'
  <2>1. Counts(w)'
    BY <1>2 DEF Handed, WaitingInv, Counts, Delivering, Loaded
  <2> QED BY <2>1, <1>2 DEF Handed, CountsInv, Counts
<1>8. KeptInv'
  BY <1>2, <1>3 DEF Handed, KeptInv, Pending, Working, Delivering
<1> QED BY <1>2, <1>4, <1>5, <1>6, <1>7, <1>8 DEF Handed

\* A worker that has nothing to do with a delivery becomes idle, with or without a job of
\* the event queued again.
LEMMA EndHands ==
  ASSUME IInv, Handed, NEW w \in Worker, UNCHANGED <<emitted, rows, stalled>>,
         pc[w] \in {"plan", "finish"}, pc'[w] = "idle",
         \A u \in Worker \ {w} : pc'[u] = pc[u] /\ run'[u] = run[u],
         \/ queue' = queue
         \/ pc[w] = "plan" /\ queue' = Put(queue, EventJob, run[w].tries + 1)
  PROVE  Handed'
<1>1. /\ DOMAIN queue' \subseteq DOMAIN queue \cup {EventJob}
      /\ \A j \in DOMAIN queue \ {EventJob} : j \in DOMAIN queue' /\ queue'[j] = queue[j]
  BY DEF Put
<1>2. pc[w] = "plan" => emitted /\ DOMAIN rows = {} /\ run[w].job = EventJob
  BY DEF Handed, EventInv
<1>3. OnePlace'
  BY <1>1, <1>2 DEF Handed, OnePlace, Working, Delivering
<1>4. EventInv'
  BY <1>1, <1>2 DEF Handed, EventInv
<1>5. WaitingInv'
  BY <1>1 DEF Handed, WaitingInv
<1>6. CountsInv'
  BY DEF Handed, CountsInv, Counts, Delivering, Loaded
<1>7. KeptInv'
  <2> SUFFICES ASSUME NEW d \in DOMAIN rows, rows[d].status = "pending"
               PROVE  \/ d \in DOMAIN queue'
                      \/ \E u \in Worker : pc'[u] \in Working /\ run'[u].job = d
    BY DEF KeptInv, Pending
  <2>1. pc[w] = "finish" /\ queue' = queue
    BY <1>2
  <2> QED BY <2>1 DEF Handed, KeptInv, Pending, Working, Delivering
<1> QED BY <1>3, <1>4, <1>5, <1>6, <1>7 DEF Handed

LEMMA EndsHand ==
  ASSUME IInv, Handed, NEW w \in Worker, Finish(w) \/ RuleFails(w)
  PROVE  Handed'
<1>1. CASE Finish(w)
  BY <1>1, LeaveFacts, EndHands DEF Finish
<1>2. CASE RuleFails(w)
  <2>1. Leave(w) /\ pc[w] = "plan" /\ UNCHANGED <<emitted, rows, stalled>>
    BY <1>2 DEF RuleFails, Raise
  <2>2. run[w].job = EventJob
    BY <2>1 DEF Handed, EventInv
  <2>3. queue' = queue \/ queue' = Put(queue, EventJob, run[w].tries + 1)
    BY <1>2, <2>2 DEF RuleFails, Raise
  <2> QED BY <2>1, <2>3, LeaveFacts, EndHands
<1> QED BY <1>1, <1>2

LEMMA ApplyRuleHands == ASSUME IInv, Handed, NEW w \in Worker, ApplyRule(w) PROVE Handed'
<1> DEFINE names == {<<c>> : c \in RuleChannels}
<1>1. /\ pc[w] = "plan" /\ run[w].job = EventJob /\ emitted /\ DOMAIN rows = {}
      /\ EventJob \notin DOMAIN queue
      /\ \A u \in Worker \ {w} : pc[u] \in Working => run[u].job # EventJob
  BY DEF ApplyRule, Handed, EventInv, OnePlace, Working
<1>2. DOMAIN queue = {} /\ \A u \in Worker \ {w} : pc[u] \notin Working
  <2>1. DOMAIN queue = {}
    BY <1>1 DEF IInv, TypeOK
  <2> QED BY <2>1, <1>1 DEF IInv, KnowsInv, Knows, Handed, EventInv, Working, Delivering
<1>3. /\ rows' = [d \in names |-> Row(IF Last(d) \in Reachable THEN "pending" ELSE "skipped")]
      /\ UNCHANGED <<emitted, stalled, run>>
      /\ pc' = [pc EXCEPT ![w] = "finish"]
  BY <1>1 DEF ApplyRule
<1>4. \A d \in names : /\ Len(d) = 1 /\ d # EventJob /\ rows'[d].attempts = 0
                       /\ rows'[d].status \in {"pending", "skipped"}
  BY <1>3 DEF EventJob, Row
<1>5. /\ DOMAIN queue' = {d \in DOMAIN rows' : rows'[d].status = "pending" /\ Len(d) = 1}
      /\ \A d \in DOMAIN queue' : queue'[d] = 0
  BY <1>2 DEF ApplyRule, Enqueue
<1>6. \A u \in Worker : pc'[u] \notin Working
  BY <1>2, <1>3 DEF IInv, TypeOK, Working, Delivering
<1>7. OnePlace'
  BY <1>6 DEF OnePlace
<1>8. EventInv'
  BY <1>1, <1>3, <1>4, <1>5, <1>6 DEF EventInv, Working
<1>9. WaitingInv'
  BY <1>3, <1>4, <1>5 DEF WaitingInv
<1>10. CountsInv'
  BY <1>6 DEF CountsInv, Counts, Working, Delivering, Loaded
<1>11. KeptInv'
  BY <1>3, <1>4, <1>5 DEF KeptInv, Pending
<1> QED BY <1>3, <1>7, <1>8, <1>9, <1>10, <1>11 DEF Handed

LEMMA DeliverHands ==
  ASSUME IInv, Handed, NEW w \in Worker,
         ReadDelivery(w) \/ Sent(w) \/ SendFails(w) \/ RecordFailure(w)
  PROVE  Handed'
<1> DEFINE d == run[w].job
<1>1. /\ pc[w] \in Delivering
      /\ UNCHANGED <<emitted, rows, queue, stalled>>
  BY DEF ReadDelivery, Sent, SendFails, RecordFailure, Delivering
<1>2. /\ pc \in [Worker -> Steps] /\ run \in [Worker -> Run]
      /\ rows[d] \in RowType /\ rows[d].status = "pending" /\ Counts(w)
      /\ MaxAttempts \in Nat
  BY <1>1, OwnDelivery, NotificationAssumption
     DEF IInv, TypeOK, Steps, Run, Handed, CountsInv
<1>3. CASE ReadDelivery(w)
  <2>1. /\ pc[w] = "load" /\ pc'[w] = "attempt"
        /\ run'[w].job = d /\ run'[w].tries = run[w].tries
        /\ run'[w].attempts = rows[d].attempts /\ run'[w].version = rows[d].version
        /\ \A u \in Worker \ {w} : pc'[u] = pc[u] /\ run'[u] = run[u]
    BY <1>2, <1>3 DEF ReadDelivery, Run
  <2>2. Counts(w)'
    BY <1>1, <1>2, <2>1 DEF Counts, Delivering, Loaded
  <2> QED BY <1>1, <2>1, <2>2, GoesOn DEF Delivering
<1>4. CASE Sent(w)
  <2>1. /\ pc[w] = "send" /\ pc'[w] = "sent" /\ run' = run
        /\ \A u \in Worker \ {w} : pc'[u] = pc[u]
    BY <1>2, <1>4 DEF Sent
  <2>2. Counts(w)'
    BY <1>1, <1>2, <2>1 DEF Counts, Delivering, Loaded
  <2> QED BY <1>1, <2>1, <2>2, GoesOn DEF Delivering
<1>5. CASE SendFails(w)
  <2> PICK p \in BOOLEAN :
        /\ run' = [run EXCEPT ![w].permanent = p]
        /\ pc' = [pc EXCEPT ![w] = IF p \/ run[w].attempts >= MaxAttempts THEN "failed"
                                   ELSE "error"]
    BY <1>5 DEF SendFails
  <2>1. /\ pc[w] = "send" /\ pc'[w] \in {"error", "failed"}
        /\ pc'[w] = "error" => ~(run[w].attempts >= MaxAttempts)
        /\ run'[w].job = d /\ run'[w].tries = run[w].tries
        /\ run'[w].attempts = run[w].attempts /\ run'[w].version = run[w].version
        /\ \A u \in Worker \ {w} : pc'[u] = pc[u] /\ run'[u] = run[u]
    BY <1>2, <1>5 DEF SendFails, Run
  <2>2. run[w].attempts \in Nat
    BY <1>2 DEF Run
  <2>3. Counts(w)'
    BY <1>1, <1>2, <2>1, <2>2 DEF Counts, Delivering, Loaded
  <2> QED BY <1>1, <2>1, <2>3, GoesOn DEF Delivering
<1>6. CASE RecordFailure(w)
  <2>1. /\ pc[w] = "failed" /\ pc'[w] = "fallback"
        /\ run'[w].job = d
        /\ run'[w].attempts = run[w].attempts /\ run'[w].version = run[w].version
        /\ \A u \in Worker \ {w} : pc'[u] = pc[u] /\ run'[u] = run[u]
    BY <1>2, <1>6 DEF RecordFailure, Run
  <2>2. Counts(w)'
    BY <1>1, <1>2, <2>1 DEF Counts, Delivering, Loaded
  <2> QED BY <1>1, <2>1, <2>2, GoesOn DEF Delivering
<1> QED BY <1>3, <1>4, <1>5, <1>6

\* A delivery that is saved for another try has a run left: its attempts are the runs of its
\* job, and not yet MaxAttempts.
LEMMA SavesHand ==
  ASSUME IInv, Handed, NEW w \in Worker, SaveAttempt(w) \/ RecordSent(w) \/ RecordError(w)
  PROVE  Handed'
<1> DEFINE d == run[w].job
           row(s, a) == [status |-> s, attempts |-> a, version |-> run[w].version + 1]
<1>1. /\ pc[w] \in Delivering
      /\ UNCHANGED <<emitted, stalled>>
  BY DEF SaveAttempt, RecordSent, RecordError, Save, Delivering
<1>2. /\ pc \in [Worker -> Steps] /\ run \in [Worker -> Run]
      /\ rows[d] \in RowType /\ d \in DOMAIN rows /\ d \notin DOMAIN queue /\ Counts(w)
      /\ MaxAttempts \in Nat /\ MaxTries \in Nat /\ MaxAttempts <= MaxTries
  BY <1>1, OwnDelivery, NotificationAssumption, EnoughRuns
     DEF IInv, TypeOK, Steps, Run, Handed, CountsInv
<1>3. /\ run[w].attempts \in Nat /\ run[w].tries \in Nat /\ run[w].version \in Nat
      /\ rows[d].attempts \in Nat
  BY <1>2 DEF Run, RowType
<1>4. CASE SaveAttempt(w)
  <2>1. /\ pc[w] = "attempt" /\ pc'[w] = "send" /\ queue' = queue
        /\ run'[w].job = d /\ run'[w].tries = run[w].tries
        /\ run'[w].attempts = run[w].attempts + 1 /\ run'[w].version = run[w].version + 1
        /\ \A u \in Worker \ {w} : pc'[u] = pc[u] /\ run'[u] = run[u]
    BY <1>2, <1>4 DEF SaveAttempt, Run
  <2>2. rows' = [rows EXCEPT ![d] = row("pending", run[w].attempts + 1)]
    BY <1>4 DEF SaveAttempt, Save
  <2>3. rows'[d] = row("pending", run[w].attempts + 1)
    BY <1>2, <2>2
  <2>4. Counts(w)'
    BY <1>2, <1>3, <2>1, <2>3 DEF Counts, Delivering, Loaded
  <2>5. pc'[w] \in Delivering /\ row("pending", run[w].attempts + 1).status = "pending"
    BY <2>1 DEF Delivering
  <2> HIDE DEF row
  <2> QED BY <1>1, <2>1, <2>2, <2>4, <2>5, SaveHands
<1>5. CASE RecordSent(w)
  <2>1. /\ pc'[w] = "finish" /\ queue' = queue
        /\ \A u \in Worker \ {w} : pc'[u] = pc[u] /\ run'[u] = run[u]
        /\ rows' = [rows EXCEPT ![d] = row("sent", run[w].attempts)]
        /\ row("sent", run[w].attempts).status # "pending"
    BY <1>2, <1>5 DEF RecordSent, Save
  <2> HIDE DEF row
  <2> QED BY <1>1, <2>1, SaveHands
<1>6. CASE RecordError(w)
  <2>1. pc[w] = "error" /\ Raise(w) /\ Save(w, "pending", run[w].attempts)
    BY <1>6 DEF RecordError
  <2>2. run[w].attempts = rows[d].attempts /\ run[w].tries + 1 = run[w].attempts
        /\ run[w].attempts < MaxAttempts
    BY <1>2, <2>1 DEF Counts, Loaded, Delivering
  <2>3. run[w].tries + 1 < MaxTries
    BY <1>2, <1>3, <2>2
  <2>4. queue' = Put(queue, d, run[w].attempts)
    BY <1>2, <2>1, <2>2, <2>3 DEF Raise
  <2>5. /\ rows' = [rows EXCEPT ![d] = row("pending", run[w].attempts)]
        /\ row("pending", run[w].attempts).status = "pending"
        /\ row("pending", run[w].attempts).attempts = run[w].attempts
    BY <2>1 DEF Save
  <2>6. pc'[w] = "idle" /\ \A u \in Worker \ {w} : pc'[u] = pc[u] /\ run'[u] = run[u]
    BY <2>1, LeaveFacts DEF Raise
  <2> HIDE DEF row
  <2> QED BY <1>1, <2>4, <2>5, <2>6, SaveHands
<1> QED BY <1>4, <1>5, <1>6

\* A new delivery gets its job in the same step, which may settle one that a worker has.
LEMMA InsertHands ==
  ASSUME IInv, Handed, NEW name, name \notin DOMAIN rows \cup {EventJob}, DOMAIN rows # {},
         NEW D \in SUBSET DOMAIN rows, UNCHANGED <<emitted, stalled, run>>,
         DOMAIN rows' = DOMAIN rows \cup {name},
         rows'[name].status = "pending", rows'[name].attempts = 0,
         queue' = Enqueue(queue, {name}),
         \A e \in DOMAIN rows \ D : rows'[e] = rows[e],
         \A e \in D : rows'[e].status # "pending" /\ e \notin DOMAIN queue,
         \A u \in Worker : /\ pc'[u] = pc[u] \/ (pc'[u] = "finish" /\ run[u].job \in D)
                           /\ pc'[u] \in Working => run[u].job \notin D
  PROVE  Handed'
<1>1. /\ DOMAIN queue \subseteq DOMAIN rows \cup {EventJob}
      /\ DOMAIN queue' = DOMAIN queue \cup {name} /\ queue'[name] = 0
      /\ \A j \in DOMAIN queue : queue'[j] = queue[j]
  BY DEF Enqueue, IInv, TypeOK
<1>2. /\ emitted /\ EventJob \notin DOMAIN queue
      /\ \A u \in Worker : pc[u] # "plan" /\ pc'[u] # "plan"
  BY DEF Handed, EventInv
<1>3. \A u \in Worker : pc'[u] \in Working =>
        /\ pc'[u] = pc[u] /\ pc[u] \in Delivering /\ run[u].job \in DOMAIN rows \ D
  BY <1>2 DEF IInv, KnowsInv, Knows, Working, Delivering
<1>4. OnePlace'
  BY <1>1, <1>3 DEF Handed, OnePlace
<1>5. EventInv'
  BY <1>1, <1>2 DEF EventInv
<1>6. WaitingInv'
  BY <1>1, <1>2 DEF Handed, WaitingInv
<1>7. CountsInv'
  <2> SUFFICES ASSUME NEW u \in Worker PROVE Counts(u)'
    BY DEF CountsInv
  <2>1. CASE pc'[u] \in Working
    BY <2>1, <1>3 DEF Handed, CountsInv, Counts
  <2>2. CASE pc'[u] \notin Working
    BY <2>2 DEF Counts, Working, Delivering, Loaded
  <2> QED BY <2>1, <2>2
<1>8. KeptInv'
  <2> SUFFICES ASSUME NEW e \in DOMAIN rows', rows'[e].status = "pending"
               PROVE  \/ e \in DOMAIN queue'
                      \/ \E u \in Worker : pc'[u] \in Working /\ run'[u].job = e
    BY DEF KeptInv, Pending
  <2>1. CASE e = name
    BY <1>1, <2>1
  <2>2. CASE e # name
    <3>1. e \in DOMAIN rows \ D /\ rows[e].status = "pending"
      BY <2>2
    <3> QED BY <3>1, <1>1 DEF Handed, KeptInv, Pending, Working, Delivering
  <2> QED BY <2>1, <2>2
<1> QED BY <1>4, <1>5, <1>6, <1>7, <1>8 DEF Handed

LEMMA CommitFailureHands ==
  ASSUME IInv, Handed, NEW w \in Worker, CommitFailure(w)
  PROVE  Handed'
<1> DEFINE d == run[w].job
           failed == [status |-> "failed", attempts |-> run[w].attempts,
                      version |-> run[w].version + 1]
           first == [status |-> "pending", attempts |-> 0, version |-> 2]
           fallback == Append(d, run[w].next)
<1>1. /\ pc[w] = "fallback" /\ pc[w] \in Delivering
      /\ pc' = [pc EXCEPT ![w] = "finish"]
      /\ UNCHANGED <<emitted, stalled, run>>
  BY DEF CommitFailure, Delivering
<1>2. /\ d \in DOMAIN rows /\ d \notin DOMAIN queue /\ d \in Seq(Channel)
      /\ \A u \in Worker \ {w} : pc[u] \in Working => run[u].job # d
      /\ pc'[w] = "finish" /\ \A u \in Worker \ {w} : pc'[u] = pc[u]
  BY <1>1, OwnDelivery DEF IInv, TypeOK
<1>3. CASE run[w].next = None
  <2>1. rows' = [rows EXCEPT ![d] = failed] /\ queue' = queue /\ failed.status # "pending"
    BY <1>3 DEF CommitFailure
  <2> HIDE DEF failed
  <2> QED BY <2>1, <1>1, <1>2, SaveHands
<1>4. CASE run[w].next # None
  <2>1. /\ rows' = Put([rows EXCEPT ![d] = failed], fallback, first)
        /\ queue' = Enqueue(queue, {fallback})
    BY <1>4 DEF CommitFailure
  <2>2. run[w].next \in Channel /\ fallback \notin DOMAIN rows
    BY <1>1, <1>4 DEF IInv, TypeOK, KnowsInv, Knows
  <2>3. fallback # EventJob
    BY <1>2, <2>2, Names
  <2>4. failed.status = "failed" /\ first.status = "pending" /\ first.attempts = 0
    OBVIOUS
  <2> HIDE DEF failed, first, fallback
  <2>5. /\ DOMAIN rows' = DOMAIN rows \cup {fallback} /\ rows'[fallback] = first
        /\ rows'[d] = failed /\ \A e \in DOMAIN rows \ {d} : rows'[e] = rows[e]
    BY <1>2, <2>1, <2>2 DEF Put
  <2>6. \A u \in Worker : /\ pc'[u] = pc[u] \/ (pc'[u] = "finish" /\ run[u].job \in {d})
                          /\ pc'[u] \in Working => run[u].job \notin {d}
    BY <1>2 DEF Working, Delivering
  <2>7. /\ \A e \in {d} : rows'[e].status # "pending" /\ e \notin DOMAIN queue
        /\ {d} \in SUBSET DOMAIN rows /\ DOMAIN rows # {}
        /\ fallback \notin DOMAIN rows \cup {EventJob}
    BY <1>2, <2>2, <2>3, <2>4, <2>5
  <2> HIDE DEF d
  <2> QED BY <1>1, <2>1, <2>4, <2>5, <2>6, <2>7, InsertHands
<1> QED BY <1>3, <1>4

LEMMA RetryHands == ASSUME IInv, Handed, NEW d \in DOMAIN rows, Retry(d) PROVE Handed'
<1> DEFINE copy == Append(d, Last(d))
<1>1. /\ copy \notin DOMAIN rows /\ rows' = Put(rows, copy, Row("pending"))
      /\ queue' = Enqueue(queue, {copy}) /\ UNCHANGED <<emitted, stalled, pc, run>>
  BY DEF Retry
<1>2. copy # EventJob
  <2>1. d \in Seq(Channel) \ {EventJob}
    BY DEF IInv, TypeOK
  <2> QED BY <2>1, LastOfName, Names
<1> HIDE DEF copy
<1>3. /\ DOMAIN rows' = DOMAIN rows \cup {copy}
      /\ rows'[copy].status = "pending" /\ rows'[copy].attempts = 0
      /\ \A e \in DOMAIN rows \ {} : rows'[e] = rows[e]
  BY <1>1 DEF Put, Row
<1>4. {} \in SUBSET DOMAIN rows
  OBVIOUS
<1> QED BY <1>1, <1>2, <1>3, <1>4, InsertHands

LEMMA NextHands == ASSUME IInv, JobInv, [Next]_vars PROVE JobInv'
<1> SUFFICES ASSUME faults' = 0 PROVE Handed'
  BY DEF JobInv
<1>1. faults = 0 /\ Handed
  <2>1. faults \in Nat
    BY NotificationAssumption DEF IInv, TypeOK
  <2>2. faults' = faults \/ faults' = faults + 1
    BY DEF Next, vars, Emit, Work, Dispatch, Deliver, TakeJob, ApplyRule, RuleFails, Save,
           ReadDelivery, SaveAttempt, Sent, SendFails, RecordSent, RecordError, RecordFailure,
           CommitFailure, FallbackFails, Conflict, Finish, Crash, Retry, Rescue, Quiet
  <2> QED BY <2>1, <2>2 DEF JobInv
<1>2. CASE Emit
  BY <1>1, <1>2, EmitHands
<1>3. ASSUME NEW w \in Worker, TakeJob(w) \/ Finish(w) PROVE Handed'
  BY <1>1, <1>3, TakeJobHands, EndsHand
<1>4. ASSUME NEW w \in Worker, Dispatch(w) PROVE Handed'
  BY <1>1, <1>4, ApplyRuleHands, EndsHand DEF Dispatch
<1>5. ASSUME NEW w \in Worker, FallbackFails(w) \/ Crash(w) PROVE FALSE
  BY <1>1, <1>5 DEF FallbackFails, Crash
<1>6. ASSUME NEW w \in Worker, Conflict(w) PROVE FALSE
  <2>1. pc[w] \in Delivering /\ pc[w] \in Loaded /\ ~Fresh(w) /\ ~Locked(run[w].job)
    BY <1>6 DEF Conflict, Delivering, Loaded
  <2>2. Counts(w)
    BY <1>1 DEF Handed, CountsInv
  <2> QED BY <2>1, <2>2 DEF Fresh, Counts
<1>7. ASSUME NEW w \in Worker, Deliver(w) PROVE Handed'
  BY <1>1, <1>5, <1>6, <1>7, DeliverHands, SavesHand, CommitFailureHands DEF Deliver
<1>8. ASSUME NEW d \in DOMAIN rows, Retry(d) PROVE Handed'
  BY <1>1, <1>8, RetryHands
<1>9. ASSUME NEW s \in stalled, Rescue(s) PROVE FALSE
  BY <1>1, <1>9 DEF Handed
<1>10. CASE Quiet \/ UNCHANGED vars
  <2>1. UNCHANGED vars
    BY <1>10 DEF Quiet
  <2> QED BY <1>1, <2>1 DEF Handed, OnePlace, EventInv, WaitingInv, CountsInv, Counts, KeptInv,
                            Pending, vars
<1> QED BY <1>2, <1>3, <1>4, <1>5, <1>7, <1>8, <1>9, <1>10 DEF Next, Work

LEMMA InitHands == Init => JobInv
  BY DEF Init, JobInv, Handed, OnePlace, EventInv, WaitingInv, CountsInv, Counts, KeptInv, Pending,
         Working, Delivering, Loaded

\* As long as no worker dies and no roll-over to a fallback fails, a pending delivery has a
\* job that waits or runs, for any number of workers and any MAX_ATTEMPTS: the runs of the
\* retry strategy do not end before the attempts of the delivery do.
THEOREM NoDeliveryIsLeftBehind == Spec => []PendingHasJob
<1>1. JobInv => PendingHasJob
  BY DEF JobInv, Handed, KeptInv, PendingHasJob, Jobs, Working, Delivering
<1> QED BY <1>1, InitHands, NextHands, Invariant, PTL DEF Spec

-----------------------------------------------------------------------------
(* The refinement of Promise.                                              *)

Outcome == [d \in DOMAIN rows |-> rows[d].status]

\* Steps that neither insert a row nor change a status.
LEMMA SameOutcome ==
  ASSUME DOMAIN rows' = DOMAIN rows, \A d \in DOMAIN rows : rows'[d].status = rows[d].status
  PROVE  Outcome' = Outcome
  BY DEF Outcome

LEMMA PlanIsPromised ==
  ASSUME IInv, NEW w \in Worker, ApplyRule(w)
  PROVE  P!Plan \/ Outcome' = Outcome
<1> DEFINE names == {<<c>> : c \in RuleChannels}
<1>1. rows' = [d \in DOMAIN rows \cup names |->
                 IF d \in DOMAIN rows THEN rows[d]
                 ELSE Row(IF Last(d) \in Reachable THEN "pending" ELSE "skipped")]
  BY DEF ApplyRule
<1>2. CASE DOMAIN rows # {}
  <2>1. DOMAIN rows' = DOMAIN rows /\ \A d \in DOMAIN rows : rows'[d] = rows[d]
    BY <1>1, <1>2 DEF IInv, PlannedInv
  <2> QED BY <2>1, SameOutcome
<1>3. CASE DOMAIN rows = {}
  <2>1. Outcome = [d \in {} |-> "pending"]
    BY <1>3 DEF Outcome
  <2>2. DOMAIN rows' = names /\ \A d \in names : rows'[d].status \in {"pending", "skipped"}
    BY <1>1, <1>3, RowFact
  <2>3. Outcome' \in [names -> {"pending", "skipped"}]
    BY <2>2 DEF Outcome
  <2> QED BY <2>1, <2>3 DEF P!Plan, Outcome
<1> QED BY <1>2, <1>3

LEMMA SaveIsPromised ==
  ASSUME IInv, NEW w \in Worker, NEW st \in {"pending", "sent"}, NEW a \in Nat,
         pc[w] \in Loaded, Fresh(w), Save(w, st, a)
  PROVE  (st = "sent" /\ P!Next) \/ Outcome' = Outcome
<1>0. PICK d \in DOMAIN rows : d = run[w].job /\ rows[d].status = "pending"
  BY DEF IInv, KnowsInv, Knows, Fresh, Loaded
<1> DEFINE row == [status |-> st, attempts |-> a, version |-> run[w].version + 1]
<1>1. rows' = [rows EXCEPT ![d] = row] /\ row.status = st
  BY <1>0 DEF Save
<1>2. d \in DOMAIN rows /\ rows[d].status = "pending"
  BY <1>0
<1> HIDE DEF row
<1>3. /\ DOMAIN rows' = DOMAIN rows /\ rows'[d] = row
      /\ \A e \in DOMAIN rows \ {d} : rows'[e] = rows[e]
  BY <1>1, <1>2
<1>4. CASE st = "pending"
  <2>1. \A e \in DOMAIN rows : rows'[e].status = rows[e].status
    BY <1>1, <1>2, <1>3, <1>4
  <2> QED BY <2>1, <1>3, SameOutcome
<1>5. CASE st = "sent"
  <2>1. DOMAIN Outcome = DOMAIN rows /\ Outcome[d] = "pending"
    BY <1>2 DEF Outcome
  <2>2. Outcome' = [Outcome EXCEPT ![d] = "sent"]
    BY <1>1, <1>2, <1>3, <1>5 DEF Outcome
  <2>3. P!Send(d)
    BY <2>1, <2>2 DEF P!Send, Outcome
  <2> QED BY <2>3, <1>2, <1>5 DEF P!Next
<1> QED BY <1>4, <1>5

LEMMA FailureIsPromised ==
  ASSUME IInv, NEW w \in Worker, CommitFailure(w)
  PROVE  P!Next
<1>0. PICK d \in DOMAIN rows : d = run[w].job /\ rows[d].status = "pending"
  BY DEF CommitFailure, IInv, KnowsInv, Knows, TypeOK, Delivering, Loaded
<1> DEFINE c == run[w].next
           failed == [status |-> "failed", attempts |-> run[w].attempts,
                      version |-> run[w].version + 1]
           first == [status |-> "pending", attempts |-> 0, version |-> 2]
           saved == [rows EXCEPT ![d] = failed]
           fallback == Append(d, c)
<1>1. /\ pc[w] = "fallback"
      /\ \/ c = None /\ rows' = saved
         \/ c # None /\ rows' = Put(saved, fallback, first)
  BY <1>0 DEF CommitFailure
<1>2. /\ d \in DOMAIN rows /\ rows[d].status = "pending"
      /\ c # None => c \in Channel \ {Last(d)} /\ fallback \notin DOMAIN rows
  BY <1>0, <1>1 DEF IInv, KnowsInv, Knows, TypeOK, Delivering, Loaded
<1>3. failed.status = "failed" /\ first.status = "pending"
  OBVIOUS
<1> HIDE DEF c, failed, first, fallback
<1>4. /\ DOMAIN saved = DOMAIN rows /\ saved[d] = failed
      /\ \A e \in DOMAIN rows \ {d} : saved[e] = rows[e]
  BY <1>2
<1> HIDE DEF saved
<1>5. DOMAIN Outcome = DOMAIN rows /\ \A e \in DOMAIN rows : Outcome[e] = rows[e].status
  BY DEF Outcome
<1>6. CASE c = None
  <2>1. Outcome' = [Outcome EXCEPT ![d] = "failed"]
    BY <1>1, <1>2, <1>3, <1>4, <1>6 DEF Outcome
  <2>2. P!Fail(d)
    BY <2>1, <1>2, <1>5 DEF P!Fail, Outcome
  <2> QED BY <2>2, <1>2 DEF P!Next
<1>7. CASE c # None
  <2>1. /\ DOMAIN rows' = DOMAIN rows \cup {fallback}
        /\ rows'[fallback] = first
        /\ \A e \in DOMAIN rows : rows'[e] = saved[e]
    BY <1>1, <1>2, <1>4, <1>7 DEF Put
  <2>2. Outcome' = [e \in DOMAIN Outcome \cup {fallback} |->
                      IF e = d THEN "failed"
                      ELSE IF e = fallback THEN "pending" ELSE Outcome[e]]
    BY <2>1, <1>2, <1>3, <1>4, <1>5, <1>7 DEF Outcome
  <2>3. fallback = Append(d, c) /\ c \in Channel \ {Last(d)} /\ fallback \notin DOMAIN Outcome
    BY <1>2, <1>5, <1>7 DEF fallback
  <2>4. \E b \in Channel \ {Last(d)} :
          /\ Append(d, b) \notin DOMAIN Outcome
          /\ Outcome' = [e \in DOMAIN Outcome \cup {Append(d, b)} |->
                           IF e = d THEN "failed"
                           ELSE IF e = Append(d, b) THEN "pending" ELSE Outcome[e]]
    BY <2>2, <2>3
  <2>5. Outcome[d] = "pending"
    BY <1>2, <1>5
  <2>6. P!Fail(d)
    BY <2>4, <2>5 DEF P!Fail, P!Last, Last, Outcome
  <2> QED BY <2>6, <1>2 DEF P!Next
<1> QED BY <1>6, <1>7

LEMMA RetryIsPromised ==
  ASSUME IInv, NEW d \in DOMAIN rows, Retry(d)
  PROVE  P!Next
<1> DEFINE copy == Append(d, Last(d))
<1>1. /\ rows[d].status \in {"failed", "skipped"} /\ copy \notin DOMAIN rows
      /\ rows' = Put(rows, copy, Row("pending"))
  BY DEF Retry
<1> HIDE DEF copy
<1>2. /\ DOMAIN rows' = DOMAIN rows \cup {copy} /\ rows'[copy].status = "pending"
      /\ \A e \in DOMAIN rows : rows'[e] = rows[e]
  BY <1>1, RowFact DEF Put
<1>3. Outcome' = [e \in DOMAIN Outcome \cup {copy} |->
                    IF e = copy THEN "pending" ELSE Outcome[e]]
  BY <1>1, <1>2 DEF Outcome
<1>4. copy = Append(d, Last(d)) /\ copy \notin DOMAIN Outcome
  BY <1>1 DEF copy, Outcome
<1>5. Outcome[d] \in {"failed", "skipped"}
  BY <1>1 DEF Outcome
<1>6. /\ Append(d, Last(d)) \notin DOMAIN Outcome
      /\ Outcome' = [e \in DOMAIN Outcome \cup {Append(d, Last(d))} |->
                      IF e = Append(d, Last(d)) THEN "pending" ELSE Outcome[e]]
  BY <1>3, <1>4
<1>7. P!Retry(d)
  BY <1>5, <1>6 DEF P!Retry, P!Last, Last, Outcome
<1> QED BY <1>7 DEF P!Next

\* Jobs, workers, versions, crashes and retries implement the promise: the deliveries of a
\* rule appear together, each is settled once, a fallback appears with the failure it follows.
THEOREM PipelineKeepsPromise == Spec => PromiseKept
<1>1. Init => P!Init
  BY DEF Init, P!Init
<1>2. IInv /\ [Next]_vars => [P!Next]_Outcome
  <2> SUFFICES ASSUME IInv, [Next]_vars PROVE P!Next \/ Outcome' = Outcome
    OBVIOUS
  <2>1. ASSUME UNCHANGED rows PROVE Outcome' = Outcome
    BY <2>1 DEF Outcome
  <2>2. ASSUME NEW w \in Worker, ApplyRule(w) PROVE P!Next \/ Outcome' = Outcome
    BY <2>2, PlanIsPromised DEF P!Next
  <2>3. ASSUME NEW w \in Worker, SaveAttempt(w) \/ RecordError(w) \/ RecordSent(w)
        PROVE  P!Next \/ Outcome' = Outcome
    <3>1. run[w].attempts \in Nat /\ run[w].attempts + 1 \in Nat
      BY DEF IInv, TypeOK
    <3> QED BY <2>3, <3>1, SaveIsPromised DEF SaveAttempt, RecordError, RecordSent, Loaded,
                                              Delivering
  <2>4. ASSUME NEW w \in Worker, CommitFailure(w) PROVE P!Next
    BY <2>4, FailureIsPromised
  <2>5. ASSUME NEW d \in DOMAIN rows, Retry(d) PROVE P!Next
    BY <2>5, RetryIsPromised
  <2>6. ASSUME NEW w \in Worker,
               \/ TakeJob(w) \/ RuleFails(w) \/ ReadDelivery(w) \/ Sent(w) \/ SendFails(w)
               \/ RecordFailure(w) \/ FallbackFails(w) \/ Conflict(w) \/ Finish(w) \/ Crash(w)
        PROVE  UNCHANGED rows
    BY <2>6 DEF TakeJob, RuleFails, ReadDelivery, Sent, SendFails, RecordFailure, FallbackFails,
                Conflict, Finish, Crash
  <2>7. ASSUME NEW s \in stalled, Rescue(s) PROVE UNCHANGED rows
    BY <2>7 DEF Rescue
  <2>8. CASE Emit \/ Quiet \/ UNCHANGED vars
    BY <2>8, <2>1 DEF Emit, Quiet, vars
  <2> QED BY <2>1, <2>2, <2>3, <2>4, <2>5, <2>6, <2>7, <2>8 DEF Next, Work, Dispatch, Deliver
<1> QED BY <1>1, <1>2, Invariant, PTL DEF Spec, PromiseKept, P!Spec, Outcome

\* The kinds of all variables.
THEOREM TypeCorrect == Spec => []TypeOK
  BY Invariant, PTL DEF IInv
=============================================================================
