------------------------------- MODULE Digests -------------------------------
(***************************************************************************)
(* The periodic scheduler (src/backend/mizan/platform/scheduler.py) and    *)
(* the job it runs today, the digests (apps/notify/digest.py): scheduler   *)
(* processes tick, one runs the job, which looks for rules whose cron      *)
(* fired in the last fifteen minutes, tenant after tenant, in one          *)
(* transaction.                                                            *)
(*                                                                         *)
(* Time is counted in minutes, or in ticks of five, by the wall clock of   *)
(* the branches.  A cron may match as often as it likes.  Each tenant has  *)
(* one digest rule, one branch and its staff, so a tenant's name stands    *)
(* for all three.                                                          *)
(***************************************************************************)
EXTENDS Naturals, FiniteSets

CONSTANTS
  Scheduler,   \* processes that tick: the loop, the Cloud Run job
  Tenants,     \* 1, 2, ... in the order Tenant.objects lists them
  FireAt,      \* times at which the cron of the rules matches
  Every,       \* every, of the job: five minutes
  Window,      \* WINDOW: fifteen minutes
  MaxTime      \* bound: time

ASSUME DigestsAssumption ==
  /\ Tenants \subseteq Nat /\ FireAt \subseteq Nat /\ MaxTime \in Nat
  /\ Every \in Nat \ {0} /\ Window \in Nat \ {0}

VARIABLES
  time,        \* now
  active,      \* tenants that are ACTIVE
  everywhere,  \* tenants whose rule names no branch
  started,     \* last_started_at of the job, 0 at first
  run,         \* what each process is doing
  digests,     \* committed deliveries of digests
  ran          \* times of the runs that committed

digestVars == <<time, active, everywhere, started, run, digests, ran>>

\* at: the run's now; left: tenants still to do; own: deliveries it has written.
Idle == [on |-> FALSE, at |-> 0, left |-> {}, own |-> {}]

DigestsInit ==
  /\ time = 1
  /\ active \in SUBSET Tenants /\ everywhere \in SUBSET Tenants
  /\ started = 0
  /\ run = [p \in Scheduler |-> Idle]
  /\ digests = {} /\ ran = {}

\* is_due(): never started, or five minutes ago.
IsDue == started = 0 \/ time - started >= Every

\* tick(): under the lock of the job's row, the run is marked as started, and begins.
Tick(p) ==
  /\ ~run[p].on /\ IsDue
  /\ started' = time
  /\ run' = [run EXCEPT ![p] = [on |-> TRUE, at |-> time, left |-> active, own |-> {}]]
  /\ UNCHANGED <<time, active, everywhere, digests, ran>>

-----------------------------------------------------------------------------
\* Mutant: the window ends with the last tick.
FirstMatchOfLastTick(now) == {f \in FireAt : f + 1 = now}

\* matches_window(): the first minute of [now - 15, now) that matches, if there is one.
FirstMatch(now) ==
  {f \in FireAt : /\ f + Window >= now /\ f < now
                  /\ \A g \in FireAt : g + Window >= now /\ g < now => f <= g}

\* Mutant: what the run itself has written is not looked for.
KnownBefore(p) == digests

\* Rows the run can see: the policies let it pass, it is in platform_scope().
Known(p) == digests \cup run[p].own

\* run_tenant_digests() within tenant_scope(t).  The bypass of platform_scope() still holds
\* there, so the rules and the branches are those of every tenant; only new rows are t's.
VisibleTenants(t) == Tenants

BranchesOf(rule, t) == IF rule \in everywhere THEN VisibleTenants(t) ELSE {rule}

\* run_branch_digest(): nothing when the stamp has deliveries, else one to the branch's staff.
SameDigest(d, e) == d.rule = e.rule /\ d.branch = e.branch /\ d.stamp = e.stamp

NewDigests(p, t) ==
  {d \in [tenant : {t}, rule : VisibleTenants(t), branch : Tenants,
          stamp : FirstMatch(run[p].at)] :
     d.branch \in BranchesOf(d.rule, t) /\ ~\E e \in Known(p) : SameDigest(d, e)}

\* get_or_create() waits while another run has written the same key.
Unlocked(p, new) ==
  \A q \in Scheduler \ {p} : \A d \in new, e \in run[q].own : ~SameDigest(d, e)

Pass(p) ==
  /\ run[p].on /\ run[p].left # {}
  /\ LET t == CHOOSE t \in run[p].left : \A u \in run[p].left : t <= u
     IN /\ Unlocked(p, NewDigests(p, t))
        /\ run' = [run EXCEPT ![p].left = @ \ {t}, ![p].own = @ \cup NewDigests(p, t)]
  /\ UNCHANGED <<time, active, everywhere, started, digests, ran>>

\* The job returns: its transaction commits.
Finish(p) ==
  /\ run[p].on /\ run[p].left = {}
  /\ digests' = digests \cup run[p].own
  /\ ran' = ran \cup {run[p].at}
  /\ run' = [run EXCEPT ![p] = Idle]
  /\ UNCHANGED <<time, active, everywhere, started>>

\* An exception, a deadlock, a crash: everything since the start is rolled back.
Fail(p) ==
  /\ run[p].on
  /\ run' = [run EXCEPT ![p] = Idle]
  /\ UNCHANGED <<time, active, everywhere, started, digests, ran>>

\* Time passes.
Wait ==
  /\ time < MaxTime
  /\ time' = time + 1
  /\ UNCHANGED <<active, everywhere, started, run, digests, ran>>

\* The bound of time is reached.
Rest == time = MaxTime /\ UNCHANGED digestVars

DigestsNext ==
  (\E p \in Scheduler : Tick(p) \/ Pass(p) \/ Finish(p) \/ Fail(p)) \/ Wait \/ Rest

DigestsSpec == DigestsInit /\ [][DigestsNext]_digestVars

-----------------------------------------------------------------------------
\* A digest of a rule for a branch and a minute is written once, whatever fails, is run again,
\* or runs at the same time.
DigestOnce ==
  \A d, e \in digests : SameDigest(d, e) => d = e

\* A digest whose minute was in the window of a run that committed, the minutes before it no
\* longer, is there: runs may fail, be late, overlap or be missing, and any one that commits
\* within the window of a minute, after that of the minute before, still finds it.  (A run
\* serves one minute of its window only, the first: that of a cron that fires more often than
\* once in a window has as long for its run as lies between it and the minute before.)
DigestWithinWindow ==
  \A f \in FireAt, at \in ran, t \in active :
    /\ f < at /\ at <= f + Window
    /\ \A g \in FireAt : g < f => g + Window < at
    => \E d \in digests : d.rule = t /\ d.branch = t /\ d.stamp = f

\* What tenant_scope() says of itself, "row-level security sees tenant_id": the digests of a
\* tenant are of its own rules and branches.
DigestStaysInTenant == \A d \in digests : d.rule = d.tenant /\ d.branch = d.tenant
=============================================================================
