---------------------------- MODULE Notifications ----------------------------
(***************************************************************************)
(* From an emitted event to the deliveries of one rule to one recipient:   *)
(* outbox (platform/events.py, platform/tasks.py), planning, sending,      *)
(* retries and channel fallback (apps/notify/dispatch.py), worked on by    *)
(* concurrent workers that may die.                                        *)
(*                                                                         *)
(* A delivery is named by the channels tried to get to it: <<sms>> is the  *)
(* rule's delivery by SMS, <<sms, email>> its fallback to e-mail, and      *)
(* <<sms, sms>> an operator's retry.  The job of a delivery has its name,  *)
(* the job that dispatches the event is named <<>>.  SCHEDULED deliveries  *)
(* are PENDING ones whose job starts later.  Procrastinate is modelled     *)
(* from how the code uses it.                                              *)
(***************************************************************************)
EXTENDS Integers, Sequences, SequencesExt

CONSTANTS
  Channel,       \* channel codes
  RuleChannels,  \* channels of the rule
  FallbackOrder, \* fallback channels of the branch, in order
  Reachable,     \* channels with an address, a preference and a template that allow it
  Address,       \* the recipient's address on each channel
  Worker,        \* worker processes
  MaxAttempts,   \* MAX_ATTEMPTS of dispatch.py
  MaxTries,      \* runs Procrastinate grants a job: the first, and max_attempts retries
  MaxFaults,     \* bound: workers that die, and failed roll-overs to a fallback
  MaxRetries,    \* bound: operator retries in a chain of deliveries
  None           \* no worker, no channel

ASSUME NotificationAssumption ==
  /\ RuleChannels \subseteq Channel /\ Reachable \subseteq Channel
  /\ FallbackOrder \in Seq(Channel)
  /\ DOMAIN Address = Channel
  /\ MaxAttempts \in Nat \ {0} /\ MaxTries \in Nat \ {0}
  /\ MaxFaults \in Nat /\ MaxRetries \in Nat
  /\ None \notin Worker \cup Channel

\* A job has at least as many runs as its delivery has attempts: both numbers come from
\* MAX_ATTEMPTS.
ASSUME EnoughRuns == MaxAttempts <= MaxTries

VARIABLES
  emitted,   \* the business transaction has committed, its event with it
  rows,      \* notification_delivery rows: name -> [status, attempts, version]
  queue,     \* waiting jobs: name -> runs so far
  stalled,   \* jobs of dead workers: <<name, runs so far>>
  accepted,  \* deliveries a provider has accepted
  pc,        \* next step of each worker
  run,       \* the job it runs, the object it has loaded and its decisions
  faults,    \* bounds
  retries

vars == <<emitted, rows, queue, stalled, accepted, pc, run, faults, retries>>

EventJob == <<>>
Row(s)   == [status |-> s, attempts |-> 0, version |-> 1]
NoRun    == [job |-> EventJob, tries |-> 0, attempts |-> 0, version |-> 0,
             next |-> None, permanent |-> FALSE]

Pending == {d \in DOMAIN rows : rows[d].status = "pending"}

\* A row, or a job, is inserted.
Put(f, name, value) == [n \in DOMAIN f \cup {name} |-> IF n = name THEN value ELSE f[n]]

\* The queueing lock: a job that already waits is not inserted again.
Enqueue(q, jobs) == [j \in DOMAIN q \cup jobs |-> IF j \in DOMAIN q THEN q[j] ELSE 0]

-----------------------------------------------------------------------------
Init ==
  /\ emitted = FALSE
  /\ rows = [d \in {} |-> Row("pending")]
  /\ queue = [j \in {} |-> 0]
  /\ stalled = {}
  /\ accepted = {}
  /\ pc = [w \in Worker |-> "idle"]
  /\ run = [w \in Worker |-> NoRun]
  /\ faults = 0
  /\ retries = 0

\* emit(): the job of the handler is inserted by the business transaction and commits
\* with it (or rolls back with it, and nothing has happened).
Emit ==
  /\ ~emitted
  /\ emitted' = TRUE
  /\ queue' = Enqueue(queue, {EventJob})
  /\ UNCHANGED <<rows, stalled, accepted, pc, run, faults, retries>>

TakeJob(w) ==
  /\ pc[w] = "idle"
  /\ \E j \in DOMAIN queue :
       /\ run' = [run EXCEPT ![w] = [job |-> j, tries |-> queue[j], attempts |-> 0, version |-> 0,
                                     next |-> None, permanent |-> FALSE]]
       /\ pc' = [pc EXCEPT ![w] = IF j = EventJob THEN "plan" ELSE "load"]
       /\ queue' = [i \in DOMAIN queue \ {j} |-> queue[i]]
  /\ UNCHANGED <<emitted, rows, stalled, accepted, faults, retries>>

Leave(w) ==
  /\ pc' = [pc EXCEPT ![w] = "idle"]
  /\ run' = [run EXCEPT ![w] = NoRun]

\* The task returns.
Finish(w) ==
  /\ pc[w] = "finish"
  /\ Leave(w)
  /\ UNCHANGED <<emitted, rows, queue, stalled, accepted, faults, retries>>

\* The task raises: the retry strategy queues the job again, or it has had its runs.  A
\* job of that name that already waits takes its place.
Raise(w) ==
  /\ Leave(w)
  /\ queue' = IF run[w].tries + 1 < MaxTries /\ run[w].job \notin DOMAIN queue
                THEN Put(queue, run[w].job, run[w].tries + 1)
                ELSE queue

-----------------------------------------------------------------------------
(* Dispatch: run_handler() of on_event(), one transaction.                 *)

\* get_or_create under the dedupe key: a dispatch that runs again finds its deliveries.
\* Those that are pending get a job, if they have none waiting.
ApplyRule(w) ==
  /\ pc[w] = "plan"
  /\ rows' = [d \in DOMAIN rows \cup {<<c>> : c \in RuleChannels} |->
                IF d \in DOMAIN rows THEN rows[d]
                ELSE Row(IF Last(d) \in Reachable THEN "pending" ELSE "skipped")]
  /\ queue' = Enqueue(queue, {d \in DOMAIN rows' : /\ rows'[d].status = "pending"
                                                   /\ Len(d) = 1})
  /\ pc' = [pc EXCEPT ![w] = "finish"]
  /\ UNCHANGED <<emitted, stalled, accepted, run, faults, retries>>

\* The handler fails and its transaction is rolled back.
RuleFails(w) ==
  /\ pc[w] = "plan"
  /\ Raise(w)
  /\ UNCHANGED <<emitted, rows, stalled, accepted, faults, retries>>

-----------------------------------------------------------------------------
(* deliver(): four transactions at most, the message is sent between them. *)

\* A transaction that records a failure and its fallback is open.
Locked(d) == \E w \in Worker : pc[w] = "fallback" /\ run[w].job = d

\* The condition of an UPDATE on row_version.
Fresh(w) == ~Locked(run[w].job) /\ rows[run[w].job].version = run[w].version

\* Only a pending (or scheduled) delivery is sent.
ReadDelivery(w) ==
  LET row == rows[run[w].job]
  IN /\ pc[w] = "load"
     /\ run' = [run EXCEPT ![w].attempts = row.attempts, ![w].version = row.version]
     /\ pc' = [pc EXCEPT ![w] = IF row.status = "pending" THEN "attempt" ELSE "finish"]
     /\ UNCHANGED <<emitted, rows, queue, stalled, accepted, faults, retries>>

\* save(): the row takes the object's values and the next version, as the object does.
Save(w, status, attempts) ==
  /\ rows' = [rows EXCEPT ![run[w].job] =
                [status |-> status, attempts |-> attempts, version |-> run[w].version + 1]]
  /\ UNCHANGED <<emitted, stalled, accepted, faults, retries>>

SaveAttempt(w) ==
  /\ pc[w] = "attempt" /\ Fresh(w)
  /\ Save(w, "pending", run[w].attempts + 1)
  /\ run' = [run EXCEPT ![w].attempts = @ + 1, ![w].version = @ + 1]
  /\ pc' = [pc EXCEPT ![w] = "send"]
  /\ UNCHANGED queue

Sent(w) ==
  /\ pc[w] = "send"
  /\ accepted' = accepted \cup {run[w].job}
  /\ pc' = [pc EXCEPT ![w] = "sent"]
  /\ UNCHANGED <<emitted, rows, queue, stalled, run, faults, retries>>

\* Mutant: the error is swallowed, the message taken for sent.
SendFailsUnnoticed(w) ==
  /\ pc[w] = "send"
  /\ pc' = [pc EXCEPT ![w] = "sent"]
  /\ UNCHANGED <<emitted, rows, queue, stalled, accepted, run, faults, retries>>

\* Mutant: the last attempt is not recognised.
SendFailsOffByOne(w) ==
  /\ pc[w] = "send"
  /\ pc' = [pc EXCEPT ![w] = IF run[w].attempts > MaxAttempts THEN "failed" ELSE "error"]
  /\ UNCHANGED <<emitted, rows, queue, stalled, accepted, run, faults, retries>>

\* The backend raises; a provider may have accepted the message before a time-out.  The
\* last attempt, or a PermanentChannelError, is final.
SendFails(w) ==
  /\ pc[w] = "send"
  /\ \E p \in BOOLEAN :
       /\ run' = [run EXCEPT ![w].permanent = p]
       /\ pc' = [pc EXCEPT ![w] = IF p \/ run[w].attempts >= MaxAttempts THEN "failed"
                                  ELSE "error"]
       /\ \/ UNCHANGED accepted
          \/ ~p /\ accepted' = accepted \cup {run[w].job}
  /\ UNCHANGED <<emitted, rows, queue, stalled, faults, retries>>

RecordSent(w) ==
  /\ pc[w] = "sent" /\ Fresh(w)
  /\ Save(w, "sent", run[w].attempts)
  /\ pc' = [pc EXCEPT ![w] = "finish"]
  /\ UNCHANGED <<queue, run>>

\* Mutant: the exception is not raised again, so that the job ends.
RecordErrorReturns(w) ==
  /\ pc[w] = "error" /\ Fresh(w)
  /\ Save(w, "pending", run[w].attempts)
  /\ pc' = [pc EXCEPT ![w] = "finish"]
  /\ UNCHANGED <<queue, run>>

\* The error is noted, the status saved again as loaded, and the exception goes on to
\* the retry strategy.
RecordError(w) ==
  /\ pc[w] = "error" /\ Fresh(w)
  /\ Save(w, "pending", run[w].attempts)
  /\ Raise(w)

\* What fallback() may pick: the channels of the order that no delivery of the same rule,
\* event and recipient has used, and that do not lead to an address found bad.
Candidates(w) ==
  {c \in Reachable :
     /\ c \in Range(FallbackOrder)
     /\ c # Last(run[w].job)
     /\ \A d \in DOMAIN rows : rows[d].status # "skipped" => Last(d) # c
     /\ run[w].permanent => Address[c] # Address[Last(run[w].job)]}

FirstCandidate(w) ==
  IF Candidates(w) = {} THEN None
  ELSE FallbackOrder[CHOOSE i \in DOMAIN FallbackOrder :
         /\ FallbackOrder[i] \in Candidates(w)
         /\ \A j \in 1..(i - 1) : FallbackOrder[j] \notin Candidates(w)]

\* Mutant: FAILED is written without the condition on row_version.
RecordFailureUnversioned(w) ==
  /\ pc[w] = "failed" /\ ~Locked(run[w].job)
  /\ run' = [run EXCEPT ![w].next = FirstCandidate(w)]
  /\ pc' = [pc EXCEPT ![w] = "fallback"]
  /\ UNCHANGED <<emitted, rows, queue, stalled, accepted, faults, retries>>

\* The transaction of a final failure: the UPDATE locks the row, the channels used are
\* read from what is committed.
RecordFailure(w) ==
  /\ pc[w] = "failed" /\ Fresh(w)
  /\ run' = [run EXCEPT ![w].next = FirstCandidate(w)]
  /\ pc' = [pc EXCEPT ![w] = "fallback"]
  /\ UNCHANGED <<emitted, rows, queue, stalled, accepted, faults, retries>>

\* Mutant: a job is queued also when there is no channel left.
CommitFailureAlwaysEnqueues(w) ==
  LET failed == [rows EXCEPT ![run[w].job].status = "failed"]
      fallback == Append(run[w].job, run[w].next)
  IN /\ pc[w] = "fallback"
     /\ rows' = IF run[w].next = None THEN failed
                ELSE Put(failed, fallback, Row("pending"))
     /\ queue' = Enqueue(queue, {fallback})
     /\ pc' = [pc EXCEPT ![w] = "finish"]
     /\ UNCHANGED <<emitted, stalled, accepted, run, faults, retries>>

\* FAILED, the fallback delivery (saved a second time, with its event) and its job.
CommitFailure(w) ==
  LET d == run[w].job
      failed == [status |-> "failed", attempts |-> run[w].attempts,
                 version |-> run[w].version + 1]
      fallback == Append(d, run[w].next)
  IN /\ pc[w] = "fallback"
     /\ IF run[w].next = None
          THEN /\ rows' = [rows EXCEPT ![d] = failed]
               /\ UNCHANGED queue
          ELSE /\ rows' = Put([rows EXCEPT ![d] = failed], fallback,
                              [status |-> "pending", attempts |-> 0, version |-> 2])
               /\ queue' = Enqueue(queue, {fallback})
     /\ pc' = [pc EXCEPT ![w] = "finish"]
     /\ UNCHANGED <<emitted, stalled, accepted, run, faults, retries>>

\* fallback() or the database raises: the failure is rolled back with it.
FallbackFails(w) ==
  /\ pc[w] = "fallback"
  /\ faults < MaxFaults
  /\ faults' = faults + 1
  /\ Raise(w)
  /\ UNCHANGED <<emitted, rows, stalled, accepted, retries>>

\* ConcurrentUpdate: another worker has saved the delivery since it was loaded.
Conflict(w) ==
  /\ pc[w] \in {"attempt", "sent", "error", "failed"}
  /\ ~Locked(run[w].job)
  /\ ~Fresh(w)
  /\ Raise(w)
  /\ UNCHANGED <<emitted, rows, stalled, accepted, faults, retries>>

-----------------------------------------------------------------------------
\* retry(): an operator copies a failed or skipped delivery.
Retry(d) ==
  LET copy == Append(d, Last(d))
  IN /\ rows[d].status \in {"failed", "skipped"}
     /\ retries < MaxRetries
     /\ copy \notin DOMAIN rows
     /\ rows' = Put(rows, copy, Row("pending"))
     /\ queue' = Enqueue(queue, {copy})
     /\ retries' = retries + 1
     /\ UNCHANGED <<emitted, stalled, accepted, pc, run, faults>>

\* A worker dies in the middle of a job: its open transaction is rolled back, the job
\* stays marked as running.
Crash(w) ==
  /\ pc[w] # "idle"
  /\ faults < MaxFaults
  /\ faults' = faults + 1
  /\ stalled' = stalled \cup {<<run[w].job, run[w].tries>>}
  /\ Leave(w)
  /\ UNCHANGED <<emitted, rows, queue, accepted, retries>>

\* The operator of the queue puts a stalled job back.  Nothing in the repository does, so that
\* a stalled job may as well stay where it is for ever.
Rescue(s) ==
  /\ s[1] \notin DOMAIN queue
  /\ queue' = Put(queue, s[1], s[2] + 1)
  /\ stalled' = stalled \ {s}
  /\ UNCHANGED <<emitted, rows, accepted, pc, run, faults, retries>>

Dispatch(w) == ApplyRule(w) \/ RuleFails(w)

Deliver(w) ==
  \/ ReadDelivery(w) \/ SaveAttempt(w) \/ Sent(w) \/ SendFails(w) \/ RecordSent(w)
  \/ RecordError(w) \/ RecordFailure(w) \/ CommitFailure(w) \/ FallbackFails(w)
  \/ Conflict(w)

Work(w) == TakeJob(w) \/ Dispatch(w) \/ Deliver(w) \/ Finish(w)

\* Nothing is left to do.
Quiet == /\ emitted /\ DOMAIN queue = {} /\ stalled = {}
         /\ \A w \in Worker : pc[w] = "idle"
         /\ UNCHANGED vars

Next ==
  \/ Emit
  \/ \E w \in Worker : Work(w) \/ Crash(w)
  \/ \E d \in DOMAIN rows : Retry(d)
  \/ \E s \in stalled : Rescue(s)
  \/ Quiet

Spec == Init /\ [][Next]_vars

\* Workers take jobs and run them on.  Nothing makes a provider answer well, or an operator
\* retry a delivery or put a stalled job back.
Fairness == \A w \in Worker : WF_vars(Work(w))

FairSpec == Spec /\ Fairness

-----------------------------------------------------------------------------
(* Properties.                                                             *)

Jobs == {run[w].job : w \in {v \in Worker : pc[v] # "idle"}}

TypeOK ==
  /\ emitted \in BOOLEAN
  /\ \A d \in DOMAIN rows :
       /\ d \in Seq(Channel) \ {EventJob}
       /\ rows[d] \in [status : {"pending", "skipped", "sent", "failed"},
                       attempts : Nat, version : Nat \ {0}]
  /\ DOMAIN queue \subseteq DOMAIN rows \cup {EventJob}
  /\ \A j \in DOMAIN queue : queue[j] \in Nat
  /\ \A s \in stalled : s[1] \in DOMAIN rows \cup {EventJob} /\ s[2] \in Nat
  /\ accepted \subseteq DOMAIN rows
  /\ pc \in [Worker -> {"idle", "plan", "load", "attempt", "send", "sent", "error",
                        "failed", "fallback", "finish"}]
  /\ run \in [Worker -> [job : DOMAIN rows \cup {EventJob}, tries : Nat, attempts : Nat,
                         version : Nat, next : Channel \cup {None}, permanent : BOOLEAN]]
  /\ faults \in 0..MaxFaults
  /\ retries \in 0..MaxRetries

\* The pipeline keeps its promise: the deliveries of the rule appear together, each is
\* settled once however many workers run it, and a fallback appears with the failure it
\* follows.
P == INSTANCE Promise WITH outcome <- [d \in DOMAIN rows |-> rows[d].status]

PromiseKept == P!Spec

\* A delivery recorded as SENT has been accepted by the provider.
SentWasAccepted == \A d \in DOMAIN rows : rows[d].status = "sent" => d \in accepted

\* Without a fault, no delivery is left behind: the runs of its job and its own
\* attempts are counted apart, but one does not end before the other.
PendingHasJob == faults = 0 => Pending \subseteq DOMAIN queue \cup Jobs

\* Every delivery is settled in the end, unless the worker that ran its job has died and
\* nobody has put the job back: failures, time-outs, failed roll-overs and the death of other
\* workers do not keep it from that, and neither does its own worker's if the job is put back.
EveryDeliverySettles == []<>(Pending \subseteq {s[1] : s \in stalled})

\* "Next channel of the branch fallback order [...] that was not already used for the
\* same rule, event and recipient."
ChannelUsedOnce ==
  \A d, e \in DOMAIN rows :
    Last(d) = Last(e) /\ Len(d) > 1 /\ rows[e].status # "skipped" => d = e

=============================================================================
