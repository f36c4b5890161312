------------------------------ MODULE JobQueue ------------------------------
(***************************************************************************)
(* The job queue of VM1: table job_queue, the single portal-worker that    *)
(* drains it, the scheduler timer and the panel requests that fill it, and *)
(* the job_runs rows that record imapsync executions and drive throttling. *)
(*                                                                         *)
(* Every database transaction of the code is one action.  Where the code   *)
(* reads in one statement and writes on commit (sync_now, run_once), the   *)
(* read and the commit are two actions, because PostgreSQL runs them at    *)
(* READ COMMITTED and the inserted row is invisible until the commit.      *)
(*                                                                         *)
(* Abstractions: run_after <= now is the flag "due"; the age of a run      *)
(* relative to the rate window is the flag "recent" (one window stands for *)
(* the minute, hour and day windows); the interval of the schedule is the  *)
(* flag elapsed[m]; a handler's failure is a choice.                       *)
(***************************************************************************)
EXTENDS Naturals, FiniteSets

CONSTANTS
    Mailboxes,        \* ids of mailboxes that can be created (never reused)
    NoMailbox,        \* payload of a job that concerns no mailbox
    Requests,         \* panel request threads inside sync_now
    ClaimBatch,       \* LIMIT of the claim query (5 in the code)
    MaxTries,         \* default of JobQueue.max_attempts (5 in the code)
    ConcurrentLimit,  \* ThrottlePolicy.concurrent_job_limit
    RateLimit,        \* ThrottlePolicy.max_connections_per_<window>
    MaxJobs,          \* bound: job_queue rows ever inserted
    MaxRuns,          \* bound: job_runs rows ever inserted
    MaxCrashes,       \* bound: crashes of portal-worker
    MaxLeaks          \* bound: failed closing transactions of the sync handler

ASSUME JobQueueAssumption ==
    /\ NoMailbox \notin Mailboxes
    /\ IsFiniteSet(Mailboxes)
    /\ ClaimBatch \in Nat \ {0}
    /\ MaxTries \in Nat \ {0}
    /\ ConcurrentLimit \in Nat
    /\ RateLimit \in Nat
    /\ MaxJobs \in Nat
    /\ MaxRuns \in Nat
    /\ MaxCrashes \in Nat
    /\ MaxLeaks \in Nat

VARIABLES
    jobs,      \* table job_queue
    lastJob,   \* highest id handed out by its sequence
    runs,      \* table job_runs
    lastRun,   \* highest id handed out by its sequence
    mbox,      \* mailboxes.provisioning_status, or absent / deleted
    enabled,   \* sync_jobs.is_enabled
    elapsed,   \* sync_jobs.last_enqueued_at is NULL or older than the interval
    worker,    \* program state of portal-worker
    tick,      \* mailboxes the running scheduler tick is about to enqueue
    asked,     \* mailbox a sync_now request is about to enqueue
    deletions, \* delete_mailbox transactions that have not ended yet
    crashes,   \* crashes so far
    leaked     \* closing transactions failed since the worker started

vars == <<jobs, lastJob, runs, lastRun, mbox, enabled, elapsed, worker, tick,
          asked, crashes, leaked, deletions>>

-----------------------------------------------------------------------------
Jobs == 1..MaxJobs
Runs == 1..MaxRuns

\* "sync" and "assess" are both job_type = 'sync'; "assess" carries
\* mode = 'assess' in its payload (imapsync --dry).
Kinds == {"sync", "assess", "provision", "update"}
SyncKinds == {"sync", "assess"}

\* "none": the id is not used yet; "gone": the row was deleted.
JobStates == {"none", "queued", "running", "retrying", "done", "failed", "gone"}
PendingStates == {"queued", "running", "retrying"}
RunStates == {"none", "running", "success", "failed", "gone"}

JobRow == [kind : Kinds, mb : Mailboxes \cup {NoMailbox}, st : JobStates,
           due : BOOLEAN, tries : Nat]
RunRow == [mb : Mailboxes \cup {NoMailbox}, st : RunStates, dry : BOOLEAN,
           recent : BOOLEAN]

WorkerPcs == {"down", "poll", "claimed", "provisioning", "imapsync", "finish"}
Outcomes == {"success", "error"}
\* job, run: the row being worked on (0: none);
\* outcome: what _finish_job is told.
Worker == [pc : WorkerPcs, job : Jobs \cup {0}, run : Runs \cup {0}, outcome : Outcomes]
Polling == [pc |-> "poll", job |-> 0, run |-> 0, outcome |-> "success"]
Stopped == [pc |-> "down", job |-> 0, run |-> 0, outcome |-> "success"]

NoJob == [kind |-> "sync", mb |-> NoMailbox, st |-> "none", due |-> FALSE, tries |-> 0]
NoRun == [mb |-> NoMailbox, st |-> "none", dry |-> FALSE, recent |-> FALSE]

\* A row as every producer inserts it: queued, run_after = now, attempts = 0.
Queued(k, m) == [kind |-> k, mb |-> m, st |-> "queued", due |-> TRUE, tries |-> 0]

\* max_attempts of a row: 1 for system updates, the column default otherwise.
TriesAllowed(k) == IF k = "update" THEN 1 ELSE MaxTries

\* ORDER BY priority, id: system updates have priority 10, the rest 100.
Before(i, j) ==
    \/ jobs[i].kind = "update" /\ jobs[j].kind # "update"
    \/ (jobs[i].kind = "update" <=> jobs[j].kind = "update") /\ i < j

RunningRuns == {r \in Runs : runs[r].st = "running"}
\* Seeded fault: the window is forgotten.
CountedForEver == {r \in Runs : runs[r].st \notin {"none", "gone"}}

CountedRuns == {r \in Runs : runs[r].st \notin {"none", "gone"} /\ runs[r].recent}

\* The pending check of sync_now and of the scheduler.
AlreadyPending(m) ==
    \E j \in Jobs : /\ jobs[j].kind \in SyncKinds
                    /\ jobs[j].mb = m
                    /\ jobs[j].st \in PendingStates

\* A deletion of mb that has sent DELETE for the sync rows of the mailbox and
\* keeps them locked until it commits or is rolled back.
Deletion == [mb : Mailboxes, rows : SUBSET Jobs]
Locked == UNION {d.rows : d \in deletions}

-----------------------------------------------------------------------------
Init ==
    /\ jobs = [j \in Jobs |-> NoJob]
    /\ lastJob = 0
    /\ runs = [r \in Runs |-> NoRun]
    /\ lastRun = 0
    /\ mbox = [m \in Mailboxes |-> "absent"]
    /\ enabled = [m \in Mailboxes |-> TRUE]
    /\ elapsed = [m \in Mailboxes |-> TRUE]
    /\ worker = Stopped
    /\ tick = {}
    /\ asked = [p \in Requests |-> NoMailbox]
    /\ crashes = 0
    /\ leaked = 0
    /\ deletions = {}

-----------------------------------------------------------------------------
(* The worker: claiming *)

\* FOR UPDATE SKIP LOCKED: the rows of a deletion are passed over.
Claimable == {j \in Jobs \ Locked : jobs[j].st = "queued" /\ jobs[j].due}

\* The rows the claim query returns and locks.
Candidates ==
    {j \in Claimable : Cardinality({i \in Claimable : Before(i, j)}) < ClaimBatch}

\* Seeded fault: off by one at the limit.
ThrottledTooLate ==
    \/ Cardinality(RunningRuns) > ConcurrentLimit
    \/ Cardinality(CountedRuns) >= RateLimit

\* can_start_sync_now refuses.
Throttled ==
    \/ Cardinality(RunningRuns) >= ConcurrentLimit
    \/ Cardinality(CountedRuns) >= RateLimit

Startable == {j \in Candidates : jobs[j].kind \in SyncKinds => ~Throttled}

\* Seeded fault: the claim query without its ORDER BY.
ClaimUnordered(j) ==
    /\ worker.pc = "poll"
    /\ j \in Startable
    /\ jobs' = [jobs EXCEPT ![j].st = "running", ![j].tries = @ + 1]
    /\ worker' = [Polling EXCEPT !.pc = "claimed", !.job = j]
    /\ UNCHANGED <<lastJob, runs, lastRun, mbox, enabled, elapsed, tick, asked,
                   crashes, leaked, deletions>>

\* _claim_next_job takes the first candidate that may start; the candidates
\* before it are throttled syncs, postponed by 30 s in the same transaction.
Claim(j) ==
    /\ worker.pc = "poll"
    /\ j \in Startable
    /\ \A i \in Startable : ~Before(i, j)
    /\ jobs' = [i \in Jobs |->
                  IF i = j THEN [jobs[i] EXCEPT !.st = "running", !.tries = @ + 1]
                  ELSE IF i \in Candidates /\ Before(i, j)
                       THEN [jobs[i] EXCEPT !.due = FALSE]
                       ELSE jobs[i]]
    /\ worker' = [Polling EXCEPT !.pc = "claimed", !.job = j]
    /\ UNCHANGED <<lastJob, runs, lastRun, mbox, enabled, elapsed, tick, asked,
                   crashes, leaked, deletions>>

\* No candidate may start: all of them are throttled syncs and are postponed.
Postpone ==
    /\ worker.pc = "poll"
    /\ Candidates # {}
    /\ Startable = {}
    /\ jobs' = [i \in Jobs |-> IF i \in Candidates THEN [jobs[i] EXCEPT !.due = FALSE]
                                                   ELSE jobs[i]]
    /\ UNCHANGED <<lastJob, runs, lastRun, mbox, enabled, elapsed, worker,
                   tick, asked, crashes, leaked, deletions>>

\* run_after passes.
BecomesDue(j) ==
    /\ jobs[j].st = "queued"
    /\ ~jobs[j].due
    /\ jobs' = [jobs EXCEPT ![j].due = TRUE]
    /\ UNCHANGED <<lastJob, runs, lastRun, mbox, enabled, elapsed, worker,
                   tick, asked, crashes, leaked, deletions>>

\* started_at leaves the throttling window.
LeavesWindow(r) ==
    /\ runs[r].recent
    /\ runs[r].st # "gone"
    /\ runs' = [runs EXCEPT ![r].recent = FALSE]
    /\ UNCHANGED <<jobs, lastJob, lastRun, mbox, enabled, elapsed, worker,
                   tick, asked, crashes, leaked, deletions>>

-----------------------------------------------------------------------------
(* The worker: handlers *)

Handler(kinds) == worker.pc = "claimed" /\ jobs[worker.job].kind \in kinds

\* provision_handler.handle up to the VM2 call: nothing to do for a mailbox
\* that was deleted or is active already.
ProvisionStart ==
    /\ Handler({"provision"})
    /\ worker' = IF mbox[jobs[worker.job].mb] = "pending"
                 THEN [worker EXCEPT !.pc = "provisioning"]
                 ELSE [worker EXCEPT !.pc = "finish", !.outcome = "success"]
    /\ UNCHANGED <<jobs, lastJob, runs, lastRun, mbox, enabled, elapsed, tick,
                   asked, crashes, leaked, deletions>>

\* Seeded fault: the commit does not notice that the row is gone.
ProvisionCommitBlind ==
    /\ worker.pc = "provisioning"
    /\ lastJob < MaxJobs
    /\ mbox' = [mbox EXCEPT ![jobs[worker.job].mb] = "active"]
    /\ jobs' = [jobs EXCEPT ![lastJob + 1] = Queued("assess", jobs[worker.job].mb)]
    /\ lastJob' = lastJob + 1
    /\ worker' = [worker EXCEPT !.pc = "finish", !.outcome = "success"]
    /\ UNCHANGED <<runs, lastRun, enabled, elapsed, tick, asked, crashes,
                   leaked, deletions>>

\* VM2 answered; the commit stores the status and the inventory job.  If the
\* mailbox was deleted since the read, the UPDATE matches no row and the
\* transaction is rolled back.
ProvisionCommit ==
    /\ worker.pc = "provisioning"
    /\ LET m == jobs[worker.job].mb IN
       IF mbox[m] = "pending"
       THEN /\ lastJob < MaxJobs
            /\ mbox' = [mbox EXCEPT ![m] = "active"]
            /\ jobs' = [jobs EXCEPT ![lastJob + 1] = Queued("assess", m)]
            /\ lastJob' = lastJob + 1
            /\ worker' = [worker EXCEPT !.pc = "finish", !.outcome = "success"]
       ELSE /\ worker' = [worker EXCEPT !.pc = "finish", !.outcome = "error"]
            /\ UNCHANGED <<mbox, jobs, lastJob>>
    /\ UNCHANGED <<runs, lastRun, enabled, elapsed, tick, asked, crashes,
                   leaked, deletions>>

\* VM2 unreachable, no connection configured, or the commit fails.
ProvisionFail ==
    /\ worker.pc = "provisioning"
    /\ worker' = [worker EXCEPT !.pc = "finish", !.outcome = "error"]
    /\ UNCHANGED <<jobs, lastJob, runs, lastRun, mbox, enabled, elapsed, tick,
                   asked, crashes, leaked, deletions>>

\* First transaction of sync_job_handler.handle: the early returns, or a
\* job_runs row in state running.
SyncStart ==
    /\ Handler(SyncKinds)
    /\ LET m == jobs[worker.job].mb IN
       IF mbox[m] = "active" /\ enabled[m]
       THEN /\ lastRun < MaxRuns
            /\ lastRun' = lastRun + 1
            /\ runs' = [runs EXCEPT ![lastRun + 1] =
                          [mb |-> m, st |-> "running", recent |-> TRUE,
                           dry |-> jobs[worker.job].kind = "assess"]]
            /\ worker' = [worker EXCEPT !.pc = "imapsync", !.run = lastRun + 1]
       ELSE /\ worker' = [worker EXCEPT !.pc = "finish", !.outcome = "success"]
            /\ UNCHANGED <<runs, lastRun>>
    /\ UNCHANGED <<jobs, lastJob, mbox, enabled, elapsed, tick, asked, crashes,
                   leaked, deletions>>

\* The first transaction raises: a password cannot be decrypted, the database
\* fails.
SyncStartFails ==
    /\ Handler(SyncKinds)
    /\ worker' = [worker EXCEPT !.pc = "finish", !.outcome = "error"]
    /\ UNCHANGED <<jobs, lastJob, runs, lastRun, mbox, enabled, elapsed, tick,
                   asked, crashes, leaked, deletions>>

\* Second transaction: a failed imapsync is recorded in the run and the job
\* still succeeds; if the run was deleted with its mailbox, the handler raises.
SyncEnd(result) ==
    /\ worker.pc = "imapsync"
    /\ IF runs[worker.run].st = "gone"
       THEN /\ worker' = [worker EXCEPT !.pc = "finish", !.outcome = "error"]
            /\ UNCHANGED runs
       ELSE /\ runs' = [runs EXCEPT ![worker.run].st = result]
            /\ worker' = [worker EXCEPT !.pc = "finish", !.outcome = "success"]
    /\ UNCHANGED <<jobs, lastJob, lastRun, mbox, enabled, elapsed, tick, asked,
                   crashes, leaked, deletions>>

\* The second transaction is rolled back (deadlock victim, lost connection):
\* the run keeps the state the first one committed.
SyncEndFails ==
    /\ worker.pc = "imapsync"
    /\ leaked < MaxLeaks
    /\ leaked' = leaked + 1
    /\ worker' = [worker EXCEPT !.pc = "finish", !.outcome = "error"]
    /\ UNCHANGED <<jobs, lastJob, runs, lastRun, mbox, enabled, elapsed, tick,
                   asked, crashes, deletions>>

\* system_update_handler.handle, as the queue sees it.
UpdateHandled(outcome) ==
    /\ Handler({"update"})
    /\ worker' = [worker EXCEPT !.pc = "finish", !.outcome = outcome]
    /\ UNCHANGED <<jobs, lastJob, runs, lastRun, mbox, enabled, elapsed, tick,
                   asked, crashes, leaked, deletions>>

\* _finish_job: nothing if the row was deleted meanwhile; the UPDATE waits for a
\* deletion under way.
AfterFinish(row) ==
    IF worker.outcome = "success" THEN [row EXCEPT !.st = "done"]
    ELSE IF row.tries >= TriesAllowed(row.kind) THEN [row EXCEPT !.st = "failed"]
         ELSE [row EXCEPT !.st = "retrying", !.due = FALSE]

Finish ==
    /\ worker.pc = "finish"
    /\ worker.job \notin Locked
    /\ jobs' = IF jobs[worker.job].st = "gone" THEN jobs
               ELSE [jobs EXCEPT ![worker.job] = AfterFinish(@)]
    /\ worker' = Polling
    /\ UNCHANGED <<lastJob, runs, lastRun, mbox, enabled, elapsed, tick, asked,
                   crashes, leaked, deletions>>

-----------------------------------------------------------------------------
(* The worker: crash and restart *)

\* SIGKILL, reboot of VM1, or an exception outside the handler's try block.
Crash ==
    /\ worker.pc # "down"
    /\ crashes < MaxCrashes
    /\ crashes' = crashes + 1
    /\ worker' = Stopped
    /\ UNCHANGED <<jobs, lastJob, runs, lastRun, mbox, enabled, elapsed, tick,
                   asked, leaked, deletions>>

\* Seeded faults: updates are resumed like any job; updates are overlooked.
ReapedResumesAll(row) ==
    IF row.st = "running" THEN [row EXCEPT !.st = "queued", !.due = TRUE] ELSE row
ReapedOverlooksUpdates(row) ==
    IF row.st = "running" /\ row.kind # "update"
    THEN [row EXCEPT !.st = "queued", !.due = TRUE] ELSE row

\* What _reap_orphans does with a row found running at start.
Reaped(row) ==
    IF row.st # "running" THEN row
    ELSE IF row.kind = "update" THEN [row EXCEPT !.st = "failed"]
         ELSE [row EXCEPT !.st = "queued", !.due = TRUE]

\* The UPDATE of the reaper waits for the deletions of running rows.
ReaperWaits == \E j \in Locked : jobs[j].st = "running"

\* Seeded fault: only the queue is cleaned up, as before runs were reaped.
RestartKeepsRuns ==
    /\ worker.pc = "down"
    /\ ~ReaperWaits
    /\ jobs' = [j \in Jobs |-> Reaped(jobs[j])]
    /\ worker' = Polling
    /\ leaked' = 0
    /\ UNCHANGED <<runs, lastJob, lastRun, mbox, enabled, elapsed, tick, asked,
                   crashes, deletions>>

Restart ==
    /\ worker.pc = "down"
    /\ ~ReaperWaits
    /\ runs' = [r \in Runs |-> IF runs[r].st = "running"
                               THEN [runs[r] EXCEPT !.st = "failed"] ELSE runs[r]]
    /\ jobs' = [j \in Jobs |-> Reaped(jobs[j])]
    /\ worker' = Polling
    /\ leaked' = 0
    /\ UNCHANGED <<lastJob, lastRun, mbox, enabled, elapsed, tick, asked,
                   crashes, deletions>>

-----------------------------------------------------------------------------
(* The scheduler timer: one tick at a time *)

IntervalPasses(m) ==
    /\ ~elapsed[m]
    /\ mbox[m] \in {"pending", "active"}
    /\ elapsed' = [elapsed EXCEPT ![m] = TRUE]
    /\ UNCHANGED <<jobs, lastJob, runs, lastRun, mbox, enabled, worker, tick,
                   asked, crashes, leaked, deletions>>

\* Seeded fault: a finished job still counts as pending.
ToEnqueueOnce ==
    {m \in Mailboxes : /\ mbox[m] \in {"pending", "active"}
                       /\ enabled[m]
                       /\ elapsed[m]
                       /\ \A j \in Jobs : ~(jobs[j].kind \in SyncKinds /\ jobs[j].mb = m)}

\* Every enabled sync_jobs row, whatever the status of its mailbox.
ToEnqueue ==
    {m \in Mailboxes : /\ mbox[m] \in {"pending", "active"}
                       /\ enabled[m]
                       /\ elapsed[m]
                       /\ ~AlreadyPending(m)}

TickRead ==
    /\ tick = {}
    /\ tick' = ToEnqueue
    /\ tick' # {}
    /\ UNCHANGED <<jobs, lastJob, runs, lastRun, mbox, enabled, elapsed,
                   worker, asked, crashes, leaked, deletions>>

\* The rows of a tick are inserted in one transaction, in no promised order.
\* If a mailbox of the tick was deleted since the read, the UPDATE of its
\* sync_jobs row fails and the whole transaction is rolled back.
TickCommit ==
    /\ tick # {}
    /\ IF \A m \in tick : mbox[m] # "deleted"
       THEN LET new == (lastJob + 1)..(lastJob + Cardinality(tick)) IN
            /\ lastJob + Cardinality(tick) <= MaxJobs
            /\ \E f \in [new -> tick] :
                 /\ \A m \in tick : \E j \in new : f[j] = m
                 /\ jobs' = [j \in Jobs |-> IF j \in new THEN Queued("sync", f[j])
                                                         ELSE jobs[j]]
            /\ lastJob' = lastJob + Cardinality(tick)
            /\ elapsed' = [m \in Mailboxes |-> elapsed[m] /\ m \notin tick]
       ELSE UNCHANGED <<jobs, lastJob, elapsed>>
    /\ tick' = {}
    /\ UNCHANGED <<runs, lastRun, mbox, enabled, worker, asked, crashes,
                   leaked, deletions>>

-----------------------------------------------------------------------------
(* The panel *)

SyncNowRead(p, m) ==
    /\ asked[p] = NoMailbox
    /\ mbox[m] \in {"pending", "active"}
    /\ ~AlreadyPending(m)
    /\ asked' = [asked EXCEPT ![p] = m]
    /\ UNCHANGED <<jobs, lastJob, runs, lastRun, mbox, enabled, elapsed,
                   worker, tick, crashes, leaked, deletions>>

\* Seeded fault: the id is taken without advancing the sequence.
SyncNowCommitReusesId(p) ==
    /\ asked[p] # NoMailbox
    /\ lastJob < MaxJobs
    /\ jobs' = [jobs EXCEPT ![lastJob + 1] = Queued("sync", asked[p])]
    /\ asked' = [asked EXCEPT ![p] = NoMailbox]
    /\ UNCHANGED <<lastJob, runs, lastRun, mbox, enabled, elapsed, worker,
                   tick, crashes, leaked, deletions>>

SyncNowCommit(p) ==
    /\ asked[p] # NoMailbox
    /\ lastJob < MaxJobs
    /\ jobs' = [jobs EXCEPT ![lastJob + 1] = Queued("sync", asked[p])]
    /\ lastJob' = lastJob + 1
    /\ asked' = [asked EXCEPT ![p] = NoMailbox]
    /\ UNCHANGED <<runs, lastRun, mbox, enabled, elapsed, worker, tick,
                   crashes, leaked, deletions>>

\* upsert_mailbox, from an import or the manual form: a provision job is
\* enqueued whether the mailbox is new or known.
UpsertMailbox(m) ==
    /\ mbox[m] # "deleted"
    /\ lastJob < MaxJobs
    /\ mbox' = [mbox EXCEPT ![m] = IF @ = "absent" THEN "pending" ELSE @]
    /\ jobs' = [jobs EXCEPT ![lastJob + 1] = Queued("provision", m)]
    /\ lastJob' = lastJob + 1
    /\ UNCHANGED <<runs, lastRun, enabled, elapsed, worker, tick, asked,
                   crashes, leaked, deletions>>

\* delete_mailbox, local part: DELETE of the sync jobs of the mailbox in any
\* state; a second deletion of the mailbox waits for the first.
BeginDelete(m) ==
    /\ mbox[m] \in {"pending", "active"}
    /\ \A d \in deletions : d.mb # m
    /\ deletions' = deletions \cup
         {[mb |-> m, rows |-> {j \in Jobs : jobs[j].kind \in SyncKinds /\ jobs[j].mb = m}]}
    /\ UNCHANGED <<jobs, lastJob, runs, lastRun, mbox, enabled, elapsed, worker,
                   tick, asked, crashes, leaked>>

\* With the mailbox, and by cascade its runs; provision jobs stay, and so does
\* a sync job inserted since the DELETE.
DeleteMailbox(d) ==
    /\ mbox' = [mbox EXCEPT ![d.mb] = "deleted"]
    /\ jobs' = [j \in Jobs |-> IF j \in d.rows THEN [jobs[j] EXCEPT !.st = "gone"]
                                               ELSE jobs[j]]
    /\ runs' = [r \in Runs |-> IF runs[r].mb = d.mb THEN [runs[r] EXCEPT !.st = "gone"]
                                                    ELSE runs[r]]
    /\ deletions' = deletions \ {d}
    /\ UNCHANGED <<lastJob, lastRun, enabled, elapsed, worker, tick, asked,
                   crashes, leaked>>

\* The transaction is rolled back: deadlock victim, lost connection, watchdog.
DeleteRolledBack(d) ==
    /\ deletions' = deletions \ {d}
    /\ UNCHANGED <<jobs, lastJob, runs, lastRun, mbox, enabled, elapsed, worker,
                   tick, asked, crashes, leaked>>

\* bulk_sync_config, one mailbox of the selection.
SwitchSync(m) ==
    /\ mbox[m] \in {"pending", "active"}
    /\ enabled' = [enabled EXCEPT ![m] = ~@]
    /\ UNCHANGED <<jobs, lastJob, runs, lastRun, mbox, elapsed, worker, tick,
                   asked, crashes, leaked, deletions>>

\* _start_run of the updates page; module SystemUpdate has its own guards.
RequestUpdate ==
    /\ lastJob < MaxJobs
    /\ jobs' = [jobs EXCEPT ![lastJob + 1] = Queued("update", NoMailbox)]
    /\ lastJob' = lastJob + 1
    /\ UNCHANGED <<runs, lastRun, mbox, enabled, elapsed, worker, tick, asked,
                   crashes, leaked, deletions>>

-----------------------------------------------------------------------------
ClaimNext == Postpone \/ \E j \in Jobs : Claim(j)
ProvisionEnd == ProvisionCommit \/ ProvisionFail
SyncFinish == SyncEndFails \/ \E result \in {"success", "failed"} : SyncEnd(result)
UpdateEnd == \E outcome \in Outcomes : UpdateHandled(outcome)

WorkerStep ==
    \/ ClaimNext
    \/ ProvisionStart
    \/ ProvisionEnd
    \/ SyncStart \/ SyncStartFails
    \/ SyncFinish
    \/ UpdateEnd
    \/ Finish
    \/ Restart

Clock ==
    \/ \E j \in Jobs : BecomesDue(j)
    \/ \E r \in Runs : LeavesWindow(r)
    \/ \E m \in Mailboxes : IntervalPasses(m)

Panel ==
    \/ \E p \in Requests, m \in Mailboxes : SyncNowRead(p, m)
    \/ \E p \in Requests : SyncNowCommit(p)
    \/ \E m \in Mailboxes : UpsertMailbox(m) \/ BeginDelete(m) \/ SwitchSync(m)
    \/ \E d \in deletions : DeleteMailbox(d) \/ DeleteRolledBack(d)
    \/ RequestUpdate

Next == WorkerStep \/ Clock \/ TickRead \/ TickCommit \/ Panel \/ Crash

Spec == Init /\ [][Next]_vars

EndDelete(m) == \E d \in deletions : d.mb = m /\ (DeleteMailbox(d) \/ DeleteRolledBack(d))

\* systemd restarts the worker (Restart=on-failure) and its loop goes on; a
\* deletion that has begun ends, and those that come and go do not hold a row at
\* each of the worker's polls for ever (SF); the timer starts the scheduler
\* every minute; time passes.  Administrators and crashes owe nothing.
Fairness ==
    /\ SF_vars(WorkerStep)
    /\ \A m \in Mailboxes : WF_vars(EndDelete(m))
    /\ \A j \in Jobs : WF_vars(BecomesDue(j))
    /\ \A r \in Runs : WF_vars(LeavesWindow(r))
    /\ \A m \in Mailboxes : WF_vars(IntervalPasses(m))
    /\ WF_vars(TickRead)
    /\ WF_vars(TickCommit)

FairSpec == Spec /\ Fairness

-----------------------------------------------------------------------------
(* Properties *)

\* Every variable has its type; rows are used in the order of their ids.
TypeOK ==
    /\ jobs \in [Jobs -> JobRow]
    /\ lastJob \in 0..MaxJobs
    /\ runs \in [Runs -> RunRow]
    /\ lastRun \in 0..MaxRuns
    /\ mbox \in [Mailboxes -> {"absent", "pending", "active", "deleted"}]
    /\ enabled \in [Mailboxes -> BOOLEAN]
    /\ elapsed \in [Mailboxes -> BOOLEAN]
    /\ worker \in Worker
    /\ tick \in SUBSET Mailboxes
    /\ asked \in [Requests -> Mailboxes \cup {NoMailbox}]
    /\ crashes \in 0..MaxCrashes
    /\ leaked \in 0..MaxLeaks
    /\ deletions \in SUBSET Deletion
    /\ \A j \in Jobs : jobs[j].st = "none" <=> j > lastJob
    /\ \A r \in Runs : runs[r].st = "none" <=> r > lastRun

\* While the worker is up, a job row in state running is the one the worker
\* holds: there is nobody else whose row a restart could steal, which is what
\* _reap_orphans relies on when it takes every running row for an orphan.
RunningIsHeld ==
    worker.pc # "down" =>
        \A j \in Jobs : jobs[j].st = "running" =>
            worker.job = j /\ worker.pc # "poll"

\* A system update is started at most once, whatever crashes: dnf is never
\* run again by a worker that comes back (attempts counts the claims).
UpdateStartedOnce ==
    \A j \in Jobs : jobs[j].kind = "update" => jobs[j].tries <= 1

\* While no closing transaction has failed since the worker started, a run in
\* state running is the imapsync the worker is waiting for, so the panel's
\* "synchronisation in progress" and the throttle count are truthful.
NoStaleRun ==
    worker.pc # "down" /\ leaked = 0 =>
        \A r \in Runs : runs[r].st = "running" =>
            worker.pc = "imapsync" /\ worker.run = r

\* The number of runs in state running stays within the policy although the
\* count is taken when the job is claimed and the run is inserted by a later
\* transaction of the handler.
ConcurrencyWithinPolicy ==
    Cardinality(RunningRuns) <= ConcurrentLimit

\* Of the runs the table has, no more are within the window than the rate limit
\* allows, although they are counted one transaction before one is inserted.  A
\* run deleted with its mailbox is not counted any more, so more may have run.
RateWithinPolicy ==
    Cardinality(CountedRuns) <= RateLimit

\* A job is never overtaken: when one starts, every job that was due and comes
\* before it in (priority, id) order is a sync that the throttle holds back, or
\* that a deletion holds locked, be it one that is rolled back afterwards.
NoOvertaking ==
    [][\A i, j \in Jobs :
          (/\ jobs[j].st = "queued" /\ jobs'[j].st = "running"
           /\ jobs[i].st = "queued" /\ jobs[i].due
           /\ Before(i, j))
          => jobs[i].kind \in SyncKinds /\ (Throttled \/ i \in Locked)]_vars

\* A provision job that was reading VM2 while its mailbox was deleted does not
\* bring the mailbox back.
DeletedStaysDeleted ==
    [][\A m \in Mailboxes : mbox[m] = "deleted" => mbox'[m] = "deleted"]_vars

\* What the queue has finished or dropped, it never starts again: a row that is
\* done, failed or deleted is left alone by the worker and the reaper.
FinishedIsFinal ==
    [][\A j \in Jobs : jobs[j].st \in {"done", "failed", "gone"} =>
          jobs'[j].st \in {jobs[j].st, "gone"}]_vars

\* A queued job is eventually taken or deleted, however often it is postponed
\* by the throttle, unless the closing transaction of a sync fails.
QueuedIsServed ==
    \A j \in Jobs : jobs[j].st = "queued" ~> jobs[j].st # "queued" \/ leaked # 0

\* A run in state running ends, also when the worker dies in the middle, unless
\* a closing transaction fails.
RunEndsUnlessLeaked ==
    \A r \in Runs : runs[r].st = "running" ~> runs[r].st # "running" \/ leaked # 0

\* The same, whatever fails: what the reaper of the worker is there for.
RunEnds ==
    \A r \in Runs : runs[r].st = "running" ~> runs[r].st # "running"

\* A mailbox that is due for a scheduled synchronisation gets a pending job,
\* unless it is switched off or deleted, or a closing transaction fails (or the
\* model has no row left).
DueIsEnqueued ==
    \A m \in Mailboxes :
        (mbox[m] = "active" /\ enabled[m] /\ elapsed[m])
        ~> (AlreadyPending(m) \/ ~enabled[m] \/ mbox[m] = "deleted"
            \/ lastJob + Cardinality(Mailboxes) > MaxJobs
            \/ leaked # 0)

\* A job that failed with attempts left is tried again.
FailedJobIsRetried ==
    \A j \in Jobs : jobs[j].st = "retrying" ~> jobs[j].st # "retrying"

\* The first run of a mailbox is the inventory, which transfers nothing.
FirstRunIsInventory ==
    \A r \in Runs : (runs[r].st \notin {"none", "gone"} /\ ~runs[r].dry) =>
        \E s \in Runs : s < r /\ runs[s].mb = runs[r].mb /\ runs[s].dry

\* The queue as those who submit to it see it.
StateOf == [j \in Jobs |-> jobs[j].st]
Updates == {j \in Jobs : jobs[j].kind = "update"}
InHand == IF worker.job = 0 THEN {} ELSE {worker.job}

Queue == INSTANCE WorkQueue WITH Ids <- Jobs, state <- StateOf, once <- Updates,
                                 held <- InHand

\* The table with its producers, its worker and the reaper implements the work
\* queue: a row is started only from the queue, by a worker that holds no other,
\* ends in its hands, and comes back after a crash unless it is a system update,
\* which is never started twice.
ImplementsQueue == Queue!Spec
=============================================================================
