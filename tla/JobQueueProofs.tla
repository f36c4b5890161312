--------------------------- MODULE JobQueueProofs ---------------------------
(***************************************************************************)
(* Proofs about JobQueue, for every number of mailboxes, requests, rows,   *)
(* crashes and failed transactions and for every throttling policy.        *)
(***************************************************************************)
EXTENDS JobQueue, FiniteSetTheorems, TLAPS

Holding == {"claimed", "provisioning", "imapsync", "finish"}

\* The worker between two transactions: it holds a row exactly when it is
\* past the claim, and that row, and during imapsync the run it opened, are
\* still running unless a deletion of the mailbox removed them.
WorkerInv ==
    /\ worker.pc \in Holding =>
         worker.job \in Jobs /\ jobs[worker.job].st \in {"running", "gone"}
    /\ worker.pc = "imapsync" =>
         worker.run \in Runs /\ runs[worker.run].st \in {"running", "gone"}
    /\ worker.pc \notin Holding => worker.job = 0

\* A system update waiting in the queue has never been claimed, one that runs has.
UpdateInv ==
    \A j \in Jobs : jobs[j].kind = "update" =>
        /\ jobs[j].tries <= 1
        /\ jobs[j].st = "queued" => jobs[j].tries = 0
        /\ jobs[j].st = "running" => jobs[j].tries = 1

\* An id that was never handed out carries no mailbox and is no system update.
UnusedInv ==
    /\ \A j \in Jobs : jobs[j].st = "none" =>
         jobs[j].mb = NoMailbox /\ jobs[j].kind # "update"
    /\ \A r \in Runs : runs[r].st = "none" => runs[r].mb = NoMailbox

\* A deletion holds rows of synchronisations that have been inserted.
DeletionInv ==
    \A d \in deletions : \A j \in d.rows :
        jobs[j].kind \in SyncKinds /\ jobs[j].st # "none"

IInv == TypeOK /\ UnusedInv /\ DeletionInv /\ WorkerInv /\ RunningIsHeld /\ UpdateInv
        /\ NoStaleRun

-----------------------------------------------------------------------------
\* The rows of the two tables have the types the producers give them.
LEMMA RowTypes ==
    /\ NoJob \in JobRow /\ NoJob.st = "none" /\ NoJob.kind = "sync"
    /\ NoRun \in RunRow /\ NoRun.st = "none"
    /\ \A k \in Kinds, m \in Mailboxes \cup {NoMailbox} :
         /\ Queued(k, m) \in JobRow
         /\ Queued(k, m).st = "queued"
         /\ Queued(k, m).kind = k
         /\ Queued(k, m).tries = 0
    /\ Polling \in Worker /\ Polling.pc = "poll" /\ Polling.job = 0
    /\ Stopped \in Worker /\ Stopped.pc = "down" /\ Stopped.job = 0
BY JobQueueAssumption
   DEF NoJob, NoRun, Queued, JobRow, RunRow, Kinds, JobStates, RunStates,
       Polling, Stopped, Worker, WorkerPcs, Outcomes, Jobs, Runs

\* Updating fields of a job row keeps its type and leaves the others alone.
LEMMA JobRowFields ==
    ASSUME NEW row \in JobRow
    PROVE  row.kind \in Kinds /\ row.st \in JobStates /\ row.tries \in Nat
BY DEF JobRow

LEMMA DueRow ==
    ASSUME NEW row \in JobRow
    PROVE  /\ [row EXCEPT !.due = TRUE] \in JobRow
           /\ [row EXCEPT !.due = TRUE].st = row.st
           /\ [row EXCEPT !.due = TRUE].kind = row.kind
           /\ [row EXCEPT !.due = TRUE].tries = row.tries
           /\ [row EXCEPT !.due = FALSE] \in JobRow
           /\ [row EXCEPT !.due = FALSE].st = row.st
           /\ [row EXCEPT !.due = FALSE].kind = row.kind
           /\ [row EXCEPT !.due = FALSE].tries = row.tries
BY DEF JobRow

LEMMA ClaimedRow ==
    ASSUME NEW row \in JobRow
    PROVE  /\ [row EXCEPT !.st = "running", !.tries = @ + 1] \in JobRow
           /\ [row EXCEPT !.st = "running", !.tries = @ + 1].st = "running"
           /\ [row EXCEPT !.st = "running", !.tries = @ + 1].kind = row.kind
           /\ [row EXCEPT !.st = "running", !.tries = @ + 1].tries = row.tries + 1
<1> DEFINE n == row.tries + 1
<1>1. [row EXCEPT !.st = "running", !.tries = @ + 1] \in JobRow
  <2>1. n \in Nat
    BY DEF JobRow
  <2> HIDE DEF n
  <2>2. [row EXCEPT !.st = "running", !.tries = n] \in JobRow
    BY <2>1 DEF JobRow, JobStates
  <2> QED
    BY <2>2 DEF n
<1>2. [row EXCEPT !.st = "running", !.tries = @ + 1].st = "running"
  BY DEF JobRow
<1>3. [row EXCEPT !.st = "running", !.tries = @ + 1].kind = row.kind
  BY DEF JobRow
<1>4. [row EXCEPT !.st = "running", !.tries = @ + 1].tries = row.tries + 1
  BY DEF JobRow
<1> QED
  BY <1>1, <1>2, <1>3, <1>4

LEMMA RunRowUpdates ==
    ASSUME NEW row \in RunRow, NEW s \in RunStates, NEW b \in BOOLEAN
    PROVE  /\ [row EXCEPT !.st = s] \in RunRow
           /\ [row EXCEPT !.st = s].st = s
           /\ [row EXCEPT !.recent = b] \in RunRow
           /\ [row EXCEPT !.recent = b].st = row.st
BY DEF RunRow

\* What the reaper and the end of a job make of a row.
LEMMA ReapedRow ==
    ASSUME NEW row \in JobRow
    PROVE  /\ Reaped(row) \in JobRow
           /\ Reaped(row).st # "running"
           /\ Reaped(row).st = "none" <=> row.st = "none"
           /\ Reaped(row).kind = row.kind
           /\ Reaped(row).tries = row.tries
           /\ row.kind = "update" /\ Reaped(row).st = "queued" => row.st = "queued"
BY DEF Reaped, JobRow, JobStates

LEMMA FinishedRow ==
    ASSUME NEW row \in JobRow
    PROVE  /\ AfterFinish(row) \in JobRow
           /\ AfterFinish(row).st \in {"done", "failed", "retrying"}
           /\ AfterFinish(row).kind = row.kind
           /\ AfterFinish(row).tries = row.tries
BY DEF AfterFinish, JobRow, JobStates

LEMMA InitIInv == Init => IInv
<1> SUFFICES ASSUME Init PROVE IInv
  OBVIOUS
<1> USE JobQueueAssumption DEF Init
<1>1. TypeOK
  BY RowTypes DEF TypeOK, Jobs, Runs
<1>2. UnusedInv /\ DeletionInv /\ WorkerInv /\ RunningIsHeld /\ UpdateInv /\ NoStaleRun
  BY DEF UnusedInv, DeletionInv, NoRun, WorkerInv, Holding, RunningIsHeld, UpdateInv, NoStaleRun, Stopped, NoJob
<1>3. QED
  BY <1>1, <1>2 DEF IInv

-----------------------------------------------------------------------------
(* One lemma per component of the invariant, one step per action. *)

LEMMA WorkerTypeStep ==
    ASSUME worker \in Worker, lastRun \in 0..MaxRuns, Next
    PROVE  worker' \in Worker
<1> USE JobQueueAssumption DEF Worker, WorkerPcs, Outcomes, Polling, Stopped
<1>1. ASSUME NEW j \in Jobs, Claim(j) PROVE worker' \in Worker
  BY <1>1 DEF Claim
<1>2. CASE ProvisionStart
  BY <1>2 DEF ProvisionStart
<1>3. CASE ProvisionCommit
  BY <1>3 DEF ProvisionCommit
<1>4. CASE ProvisionFail \/ SyncStartFails
  BY <1>4 DEF ProvisionFail, SyncStartFails
<1>5. CASE SyncStart
  <2>1. \/ /\ lastRun + 1 \in Runs
           /\ worker' = [worker EXCEPT !.pc = "imapsync", !.run = lastRun + 1]
        \/ worker' = [worker EXCEPT !.pc = "finish", !.outcome = "success"]
    BY <1>5 DEF SyncStart, Runs
  <2> QED
    BY <2>1
<1>6. ASSUME NEW result \in {"success", "failed"}, SyncEnd(result) PROVE worker' \in Worker
  BY <1>6 DEF SyncEnd
<1>7. CASE SyncEndFails
  BY <1>7 DEF SyncEndFails
<1>8. ASSUME NEW outcome \in Outcomes, UpdateHandled(outcome) PROVE worker' \in Worker
  BY <1>8 DEF UpdateHandled
<1>9. CASE Finish \/ Crash \/ Restart
  BY <1>9, RowTypes DEF Finish, Crash, Restart
<1>10. CASE UNCHANGED worker
  BY <1>10
<1> QED
  BY <1>1, <1>2, <1>3, <1>4, <1>5, <1>6, <1>7, <1>8, <1>9, <1>10
  DEF Next, WorkerStep, ClaimNext, ProvisionEnd, SyncFinish, UpdateEnd, Clock, Panel,
      Postpone, BecomesDue, LeavesWindow, IntervalPasses, TickRead, TickCommit,
      SyncNowRead, SyncNowCommit, UpsertMailbox, BeginDelete, DeleteMailbox,
      DeleteRolledBack, SwitchSync, RequestUpdate

LEMMA TypeStep == ASSUME IInv, Next PROVE TypeOK'
<1> USE JobQueueAssumption, RowTypes
<1>1. TypeOK /\ WorkerInv /\ UnusedInv
  BY DEF IInv
<1>w. worker' \in Worker
  BY <1>1, WorkerTypeStep DEF TypeOK
<1> USE <1>1, <1>w DEF TypeOK
<1>2. ASSUME NEW j \in Jobs, Claim(j) PROVE TypeOK'
  <2>1. \A i \in Jobs :
          /\ [jobs[i] EXCEPT !.due = FALSE] \in JobRow
          /\ [jobs[i] EXCEPT !.due = FALSE].st = jobs[i].st
    BY DueRow
  <2>2. jobs[j].st = "queued"
    BY <1>2 DEF Claim, Startable, Candidates, Claimable
  <2>3. /\ jobs' \in [Jobs -> JobRow]
        /\ \A i \in Jobs : jobs'[i].st = "none" <=> jobs[i].st = "none"
    BY <1>2, <2>1, <2>2, ClaimedRow DEF Claim
  <2> QED
    BY <1>2, <2>3 DEF Claim
<1>3. CASE Postpone
  <2>1. /\ jobs' \in [Jobs -> JobRow]
        /\ \A i \in Jobs : jobs'[i].st = jobs[i].st
    BY <1>3, DueRow DEF Postpone
  <2> QED
    BY <1>3, <2>1 DEF Postpone
<1>4. ASSUME NEW j \in Jobs, BecomesDue(j) PROVE TypeOK'
  <2> DEFINE new == [jobs[j] EXCEPT !.due = TRUE]
  <2>r. new \in JobRow /\ new.st = jobs[j].st
    BY DueRow
  <2>w. jobs' = [jobs EXCEPT ![j] = new]
    BY <1>4 DEF BecomesDue
  <2>1. /\ jobs' \in [Jobs -> JobRow]
        /\ \A i \in Jobs : jobs'[i].st = jobs[i].st
    <3> HIDE DEF new
    <3> QED
      BY <2>r, <2>w
  <2> QED
    BY <1>4, <2>1 DEF BecomesDue
<1>5. ASSUME NEW r \in Runs, LeavesWindow(r) PROVE TypeOK'
  <2>1. /\ [runs[r] EXCEPT !.recent = FALSE] \in RunRow
        /\ [runs[r] EXCEPT !.recent = FALSE].st = runs[r].st
    BY RunRowUpdates DEF RunStates
  <2>2. /\ runs' \in [Runs -> RunRow]
        /\ \A i \in Runs : runs'[i].st = runs[i].st
    BY <1>5, <2>1 DEF LeavesWindow
  <2> QED
    BY <1>5, <2>2 DEF LeavesWindow
<1>6. CASE ProvisionStart
  BY <1>6 DEF ProvisionStart
<1>7. CASE ProvisionFail \/ SyncStartFails
  BY <1>7 DEF ProvisionFail, SyncStartFails
<1>8. CASE ProvisionCommit
  <2> DEFINE m == jobs[worker.job].mb
  <2>1. worker.job \in Jobs /\ m \in Mailboxes \cup {NoMailbox}
    BY <1>8 DEF ProvisionCommit, WorkerInv, Holding, JobRow
  <2>3. CASE mbox[m] = "pending"
    <3>1. lastJob + 1 \in Jobs /\ lastJob' = lastJob + 1
      BY <1>8, <2>3 DEF ProvisionCommit, Jobs
    <3>2. jobs' = [jobs EXCEPT ![lastJob + 1] = Queued("assess", m)]
      BY <1>8, <2>3 DEF ProvisionCommit
    <3>3. /\ jobs' \in [Jobs -> JobRow]
          /\ \A j \in Jobs : jobs'[j].st = "none" <=> j > lastJob'
      <4> DEFINE new == Queued("assess", m)
      <4>1. new \in JobRow /\ new.st = "queued"
        BY <2>1 DEF Kinds
      <4>2. jobs' = [jobs EXCEPT ![lastJob + 1] = new]
        BY <3>2
      <4> HIDE DEF new
      <4> QED
        BY <3>1, <4>1, <4>2 DEF Jobs
    <3>4. mbox' \in [Mailboxes -> {"absent", "pending", "active", "deleted"}]
      BY <1>8, <2>3 DEF ProvisionCommit
    <3>5. UNCHANGED <<runs, lastRun, enabled, elapsed, tick, asked, crashes, leaked,
                   deletions>>
      BY <1>8 DEF ProvisionCommit
    <3> QED
      BY <3>1, <3>3, <3>4, <3>5 DEF Jobs
  <2>4. CASE mbox[m] # "pending"
    BY <1>8, <2>4 DEF ProvisionCommit
  <2> QED
    BY <2>3, <2>4
<1>9. CASE SyncStart
  <2> DEFINE m == jobs[worker.job].mb
  <2>1. m \in Mailboxes \cup {NoMailbox}
    BY <1>9 DEF SyncStart, Handler, WorkerInv, Holding, JobRow
  <2>2. CASE mbox[m] = "active" /\ enabled[m]
    <3> DEFINE new == [mb |-> m, st |-> "running", recent |-> TRUE,
                       dry |-> jobs[worker.job].kind = "assess"]
    <3>1. new \in RunRow /\ new.st = "running"
      BY <2>1 DEF RunRow, RunStates
    <3>2. lastRun + 1 \in Runs /\ lastRun' = lastRun + 1
      BY <1>9, <2>2 DEF SyncStart, Runs
    <3>3. runs' = [runs EXCEPT ![lastRun + 1] = new]
      BY <1>9, <2>2 DEF SyncStart
    <3> HIDE DEF new
    <3>4. /\ runs' \in [Runs -> RunRow]
          /\ \A r \in Runs : runs'[r].st = "none" <=> r > lastRun'
      BY <3>1, <3>2, <3>3 DEF Runs
    <3>6. UNCHANGED <<jobs, lastJob, mbox, enabled, elapsed, tick, asked, crashes, leaked,
                   deletions>>
      BY <1>9 DEF SyncStart
    <3> QED
      BY <3>2, <3>4, <3>6 DEF Runs
  <2>3. CASE ~(mbox[m] = "active" /\ enabled[m])
    BY <1>9, <2>3 DEF SyncStart
  <2> QED
    BY <2>2, <2>3
<1>10. ASSUME NEW result \in {"success", "failed"}, SyncEnd(result) PROVE TypeOK'
  <2>2. worker.run \in Runs /\ runs[worker.run].st # "none"
    BY <1>10 DEF SyncEnd, WorkerInv
  <2>3. /\ [runs[worker.run] EXCEPT !.st = result] \in RunRow
        /\ [runs[worker.run] EXCEPT !.st = result].st = result
    BY <2>2 DEF RunRow, RunStates
  <2> DEFINE new == [runs[worker.run] EXCEPT !.st = result]
  <2>4. \/ runs' = runs
        \/ runs' = [runs EXCEPT ![worker.run] = new]
    BY <1>10 DEF SyncEnd
  <2>5. new \in RunRow /\ new.st # "none"
    BY <2>3
  <2> HIDE DEF new
  <2>6. /\ runs' \in [Runs -> RunRow]
        /\ \A r \in Runs : runs'[r].st = "none" <=> runs[r].st = "none"
    BY <2>2, <2>4, <2>5
  <2> QED
    BY <1>10, <2>6 DEF SyncEnd
<1>11. CASE SyncEndFails
  BY <1>11 DEF SyncEndFails
<1>12. ASSUME NEW outcome \in Outcomes, UpdateHandled(outcome) PROVE TypeOK'
  BY <1>12 DEF UpdateHandled
<1>13. CASE Finish
  <2>1. worker.job \in Jobs /\ jobs[worker.job].st # "none"
    BY <1>13 DEF Finish, WorkerInv, Holding
  <2>2. /\ jobs' \in [Jobs -> JobRow]
        /\ \A j \in Jobs : jobs'[j].st = "none" <=> jobs[j].st = "none"
    BY <1>13, <2>1, FinishedRow DEF Finish
  <2> QED
    BY <1>13, <2>2 DEF Finish
<1>14. CASE Crash
  BY <1>14 DEF Crash
<1>15. CASE Restart
  <2>1. /\ jobs' \in [Jobs -> JobRow]
        /\ \A j \in Jobs : jobs'[j].st = "none" <=> jobs[j].st = "none"
    BY <1>15, ReapedRow DEF Restart
  <2>2. \A r \in Runs : [runs[r] EXCEPT !.st = "failed"] \in RunRow
                        /\ [runs[r] EXCEPT !.st = "failed"].st = "failed"
    BY DEF RunRow, RunStates
  <2>3. /\ runs' \in [Runs -> RunRow]
        /\ \A r \in Runs : runs'[r].st = "none" <=> runs[r].st = "none"
    BY <1>15, <2>2 DEF Restart
  <2> QED
    BY <1>15, <2>1, <2>3 DEF Restart
<1>16. ASSUME NEW m \in Mailboxes, IntervalPasses(m) PROVE TypeOK'
  BY <1>16 DEF IntervalPasses
<1>17. CASE TickRead
  BY <1>17 DEF TickRead, ToEnqueue
<1>18. CASE TickCommit
  <2>1. CASE \A m \in tick : mbox[m] # "deleted"
    <3> DEFINE new == (lastJob + 1)..(lastJob + Cardinality(tick))
    <3>1. Cardinality(tick) \in Nat
      BY FS_Subset, FS_CardinalityType
    <3>2. PICK f \in [new -> tick] :
            jobs' = [j \in Jobs |-> IF j \in new THEN Queued("sync", f[j]) ELSE jobs[j]]
      BY <1>18, <2>1 DEF TickCommit
    <3>3. lastJob' = lastJob + Cardinality(tick) /\ lastJob' \in 0..MaxJobs
      BY <1>18, <2>1, <3>1 DEF TickCommit
    <3>4. jobs' \in [Jobs -> JobRow]
      BY <3>2 DEF Kinds
    <3>5. \A j \in Jobs : jobs'[j].st = "none" <=> j > lastJob'
      BY <3>1, <3>2, <3>3 DEF Queued, Jobs
    <3>6. elapsed' = [m \in Mailboxes |-> elapsed[m] /\ m \notin tick]
      BY <1>18, <2>1 DEF TickCommit
    <3>7. elapsed' \in [Mailboxes -> BOOLEAN]
      BY <3>6, Zenon
    <3>8. /\ tick' \in SUBSET Mailboxes
          /\ UNCHANGED <<runs, lastRun, mbox, enabled, worker, asked, crashes, leaked,
                   deletions>>
      BY <1>18, <2>1 DEF TickCommit
    <3> QED
      BY <3>3, <3>4, <3>5, <3>7, <3>8
  <2>2. CASE ~ \A m \in tick : mbox[m] # "deleted"
    BY <1>18, <2>2 DEF TickCommit
  <2> QED
    BY <2>1, <2>2
<1>19. ASSUME NEW p \in Requests, NEW m \in Mailboxes, SyncNowRead(p, m) PROVE TypeOK'
  BY <1>19 DEF SyncNowRead
<1>20. ASSUME NEW p \in Requests, SyncNowCommit(p) PROVE TypeOK'
  BY <1>20 DEF SyncNowCommit, Queued, Kinds, Jobs
<1>21. ASSUME NEW m \in Mailboxes, UpsertMailbox(m) PROVE TypeOK'
  BY <1>21 DEF UpsertMailbox, Queued, Kinds, Jobs
<1>22. ASSUME NEW d \in deletions, DeleteMailbox(d) PROVE TypeOK'
  <2>1. \A j \in Jobs : /\ [jobs[j] EXCEPT !.st = "gone"] \in JobRow
                        /\ [jobs[j] EXCEPT !.st = "gone"].st = "gone"
    BY DEF JobRow, JobStates
  <2>2. \A r \in Runs : /\ [runs[r] EXCEPT !.st = "gone"] \in RunRow
                        /\ [runs[r] EXCEPT !.st = "gone"].st = "gone"
    BY DEF RunRow, RunStates
  <2>3. /\ jobs' \in [Jobs -> JobRow]
        /\ \A j \in Jobs : jobs'[j].st = "none" <=> jobs[j].st = "none"
    BY <1>22, <2>1 DEF DeleteMailbox, DeletionInv, IInv
  <2>4. /\ runs' \in [Runs -> RunRow]
        /\ \A r \in Runs : runs'[r].st = "none" <=> runs[r].st = "none"
    BY <1>22, <2>2 DEF DeleteMailbox, UnusedInv, Deletion
  <2>5. mbox' \in [Mailboxes -> {"absent", "pending", "active", "deleted"}]
    BY <1>22 DEF DeleteMailbox
  <2> QED
    BY <1>22, <2>3, <2>4, <2>5 DEF DeleteMailbox
<1>23. ASSUME NEW m \in Mailboxes, SwitchSync(m) PROVE TypeOK'
  BY <1>23 DEF SwitchSync
<1>24. CASE RequestUpdate
  BY <1>24 DEF RequestUpdate, Queued, Kinds, Jobs
<1>25. ASSUME NEW m \in Mailboxes, BeginDelete(m) PROVE TypeOK'
  <2> DEFINE d == [mb |-> m, rows |-> {j \in Jobs : jobs[j].kind \in SyncKinds /\ jobs[j].mb = m}]
  <2>1. d \in Deletion
    BY DEF Deletion
  <2>2. deletions' = deletions \cup {d}
    BY <1>25 DEF BeginDelete
  <2> HIDE DEF d
  <2> QED
    BY <1>25, <2>1, <2>2 DEF BeginDelete
<1>26. ASSUME NEW d \in deletions, DeleteRolledBack(d) PROVE TypeOK'
  BY <1>26 DEF DeleteRolledBack
<1> QED
  BY <1>2, <1>3, <1>4, <1>5, <1>6, <1>7, <1>8, <1>9, <1>10, <1>11, <1>12, <1>13,
     <1>14, <1>15, <1>16, <1>17, <1>18, <1>19, <1>20, <1>21, <1>22, <1>23, <1>24,
     <1>25, <1>26
  DEF Next, WorkerStep, ClaimNext, ProvisionEnd, SyncFinish, UpdateEnd, Clock, Panel

-----------------------------------------------------------------------------
(* What the other processes can do to the rows the worker relies on. *)

\* A row the worker holds may only be deleted under it, no row becomes running
\* but by the worker, and new rows are unclaimed.
JobsKept ==
    \A j \in Jobs :
        /\ jobs[j].st = "running" => jobs'[j].st \in {"running", "gone"}
        /\ jobs[j].st = "gone" => jobs'[j].st = "gone"
        /\ jobs'[j].st = "running" => jobs[j].st = "running"
        /\ jobs[j].st \in {"running", "gone"} => jobs'[j].kind = jobs[j].kind
        /\ jobs'[j].kind = "update" =>
             \/ jobs'[j].tries = 0 /\ jobs'[j].st = "queued"
             \/ /\ jobs[j].kind = "update"
                /\ jobs'[j].tries = jobs[j].tries
                /\ jobs'[j].st = "queued" => jobs[j].st = "queued"

RunsKept ==
    \A r \in Runs :
        /\ runs[r].st = "running" => runs'[r].st \in {"running", "gone"}
        /\ runs[r].st = "gone" => runs'[r].st = "gone"
        /\ runs'[r].st = "running" => runs[r].st = "running"

\* Inserting a row at an unused id keeps all others.
LEMMA InsertKept ==
    ASSUME TypeOK, lastJob + 1 \in Jobs, NEW k \in Kinds,
           NEW m \in Mailboxes \cup {NoMailbox},
           jobs' = [jobs EXCEPT ![lastJob + 1] = Queued(k, m)]
    PROVE  JobsKept
<1> DEFINE new == Queued(k, m)
<1>1. new.st = "queued" /\ new.tries = 0
  BY RowTypes
<1>2. jobs' = [jobs EXCEPT ![lastJob + 1] = new]
  OBVIOUS
<1>3. jobs[lastJob + 1].st = "none"
  BY JobQueueAssumption DEF TypeOK, Jobs
<1> HIDE DEF new
<1> QED
  BY <1>1, <1>2, <1>3 DEF TypeOK, JobsKept

LEMMA OthersKeep ==
    ASSUME IInv, Clock \/ TickRead \/ TickCommit \/ Panel
    PROVE  UNCHANGED <<worker, leaked>> /\ JobsKept /\ RunsKept
<1> USE JobQueueAssumption
<1>1. TypeOK /\ UnusedInv
  BY DEF IInv
<1>2. jobs \in [Jobs -> JobRow] /\ runs \in [Runs -> RunRow] /\ lastJob \in 0..MaxJobs
  BY <1>1 DEF TypeOK
<1>3. UNCHANGED jobs => JobsKept
  BY DEF JobsKept
<1>4. UNCHANGED runs => RunsKept
  BY DEF RunsKept
<1>5. ASSUME NEW j \in Jobs, BecomesDue(j)
      PROVE  UNCHANGED <<worker, leaked>> /\ JobsKept /\ RunsKept
  <2>1. JobsKept
    BY <1>2, <1>5, DueRow DEF BecomesDue, JobsKept
  <2> QED
    BY <1>4, <1>5, <2>1 DEF BecomesDue
<1>6. ASSUME NEW r \in Runs, LeavesWindow(r)
      PROVE  UNCHANGED <<worker, leaked>> /\ JobsKept /\ RunsKept
  <2>1. [runs[r] EXCEPT !.recent = FALSE].st = runs[r].st
    BY <1>2 DEF RunRow
  <2>2. RunsKept
    BY <1>2, <1>6, <2>1 DEF LeavesWindow, RunsKept
  <2> QED
    BY <1>3, <1>6, <2>2 DEF LeavesWindow
<1>7. ASSUME NEW m \in Mailboxes, IntervalPasses(m)
      PROVE  UNCHANGED <<worker, leaked>> /\ JobsKept /\ RunsKept
  BY <1>3, <1>4, <1>7 DEF IntervalPasses
<1>8. CASE TickRead
  BY <1>3, <1>4, <1>8 DEF TickRead
<1>9. CASE TickCommit
  <2>1. CASE \A m \in tick : mbox[m] # "deleted"
    <3> DEFINE new == (lastJob + 1)..(lastJob + Cardinality(tick))
    <3>1. PICK f \in [new -> tick] :
            jobs' = [j \in Jobs |-> IF j \in new THEN Queued("sync", f[j]) ELSE jobs[j]]
      BY <1>9, <2>1 DEF TickCommit
    <3>2. \A j \in new : f[j] \in Mailboxes
      BY <1>1 DEF TypeOK
    <3>3. \A j \in new : Queued("sync", f[j]).st = "queued"
                         /\ Queued("sync", f[j]).tries = 0
      BY <3>2, RowTypes DEF Kinds
    <3>4. \A j \in Jobs : j \in new => jobs[j].st = "none"
      BY <1>1 DEF TypeOK, Jobs
    <3>5. JobsKept
      BY <1>2, <3>1, <3>3, <3>4 DEF JobsKept
    <3> QED
      BY <1>4, <1>9, <3>5 DEF TickCommit
  <2>2. CASE ~ \A m \in tick : mbox[m] # "deleted"
    BY <1>3, <1>4, <1>9, <2>2 DEF TickCommit
  <2> QED
    BY <2>1, <2>2
<1>10. ASSUME NEW p \in Requests, NEW m \in Mailboxes, SyncNowRead(p, m)
       PROVE  UNCHANGED <<worker, leaked>> /\ JobsKept /\ RunsKept
  BY <1>3, <1>4, <1>10 DEF SyncNowRead
<1>11. ASSUME NEW p \in Requests, SyncNowCommit(p)
       PROVE  UNCHANGED <<worker, leaked>> /\ JobsKept /\ RunsKept
  <2>1. asked[p] \in Mailboxes \cup {NoMailbox} /\ lastJob + 1 \in Jobs
    BY <1>1, <1>11 DEF TypeOK, SyncNowCommit, Jobs
  <2>2. JobsKept
    BY <1>1, <1>11, <2>1, InsertKept DEF SyncNowCommit, Kinds
  <2> QED
    BY <1>4, <1>11, <2>2 DEF SyncNowCommit
<1>12. ASSUME NEW m \in Mailboxes, UpsertMailbox(m)
       PROVE  UNCHANGED <<worker, leaked>> /\ JobsKept /\ RunsKept
  <2>1. lastJob + 1 \in Jobs
    BY <1>2, <1>12 DEF UpsertMailbox, Jobs
  <2>2. JobsKept
    BY <1>1, <1>12, <2>1, InsertKept DEF UpsertMailbox, Kinds
  <2> QED
    BY <1>4, <1>12, <2>2 DEF UpsertMailbox
<1>13. ASSUME NEW d \in deletions, DeleteMailbox(d)
       PROVE  UNCHANGED <<worker, leaked>> /\ JobsKept /\ RunsKept
  <2>1. \A j \in Jobs : /\ [jobs[j] EXCEPT !.st = "gone"].st = "gone"
                        /\ [jobs[j] EXCEPT !.st = "gone"].kind = jobs[j].kind
                        /\ [jobs[j] EXCEPT !.st = "gone"].tries = jobs[j].tries
    BY <1>2 DEF JobRow
  <2>2. \A r \in Runs : [runs[r] EXCEPT !.st = "gone"].st = "gone"
    BY <1>2 DEF RunRow
  <2>3. JobsKept
    BY <1>2, <1>13, <2>1 DEF DeleteMailbox, JobsKept
  <2>4. RunsKept
    BY <1>2, <1>13, <2>2 DEF DeleteMailbox, RunsKept
  <2> QED
    BY <1>13, <2>3, <2>4 DEF DeleteMailbox
<1>14. ASSUME \/ \E m \in Mailboxes : SwitchSync(m) \/ BeginDelete(m)
              \/ \E d \in deletions : DeleteRolledBack(d)
       PROVE  UNCHANGED <<worker, leaked>> /\ JobsKept /\ RunsKept
  BY <1>3, <1>4, <1>14 DEF SwitchSync, BeginDelete, DeleteRolledBack
<1>15. CASE RequestUpdate
  <2>1. lastJob + 1 \in Jobs
    BY <1>2, <1>15 DEF RequestUpdate, Jobs
  <2>2. JobsKept
    BY <1>1, <1>15, <2>1, InsertKept DEF RequestUpdate, Kinds
  <2> QED
    BY <1>4, <1>15, <2>2 DEF RequestUpdate
<1> QED
  BY <1>5, <1>6, <1>7, <1>8, <1>9, <1>10, <1>11, <1>12, <1>13, <1>14, <1>15
  DEF Clock, Panel

-----------------------------------------------------------------------------
(* The worker's own steps. *)

ControlInv == WorkerInv /\ RunningIsHeld /\ UpdateInv /\ NoStaleRun

\* Steps of the other processes.
LEMMA OthersControl ==
    ASSUME IInv, Clock \/ TickRead \/ TickCommit \/ Panel
    PROVE  ControlInv'
<1>1. UNCHANGED <<worker, leaked>> /\ JobsKept /\ RunsKept
  BY OthersKeep
<1>2. ControlInv /\ TypeOK
  BY DEF IInv, ControlInv
<1>3. WorkerInv'
  BY <1>1, <1>2 DEF ControlInv, WorkerInv, JobsKept, RunsKept
<1>4. RunningIsHeld'
  BY <1>1, <1>2 DEF ControlInv, RunningIsHeld, JobsKept
<1>5. UpdateInv'
  <2>1. \A j \in Jobs : jobs[j].kind = "update" =>
          /\ jobs[j].tries <= 1
          /\ jobs[j].st = "queued" => jobs[j].tries = 0
          /\ jobs[j].st = "running" => jobs[j].tries = 1
    BY <1>2 DEF ControlInv, UpdateInv
  <2> QED
    BY <1>1, <2>1 DEF UpdateInv, JobsKept
<1>6. NoStaleRun'
  BY <1>1, <1>2 DEF ControlInv, NoStaleRun, RunsKept
<1> QED
  BY <1>3, <1>4, <1>5, <1>6 DEF ControlInv

\* Steps of the worker that write neither table.
LEMMA SilentControl ==
    ASSUME IInv, UNCHANGED <<jobs, runs, leaked>>, worker.pc \in Holding,
           worker.pc # "imapsync",
           worker' = Stopped \/ /\ worker'.pc \in {"provisioning", "finish"}
                                /\ worker'.job = worker.job
    PROVE  ControlInv'
<1>1. ControlInv
  BY DEF IInv, ControlInv
<1>2. Stopped.pc = "down" /\ Stopped.job = 0
  BY DEF Stopped
<1>3. WorkerInv'
  BY <1>1, <1>2 DEF ControlInv, WorkerInv, Holding
<1>4. RunningIsHeld'
  BY <1>1, <1>2 DEF ControlInv, RunningIsHeld, Holding
<1>5. UpdateInv'
  BY <1>1 DEF ControlInv, UpdateInv
<1>6. NoStaleRun'
  BY <1>1, <1>2 DEF ControlInv, NoStaleRun, Holding
<1> QED
  BY <1>3, <1>4, <1>5, <1>6 DEF ControlInv

LEMMA ClaimControl == ASSUME IInv, NEW j \in Jobs, Claim(j) PROVE ControlInv'
<1>1. ControlInv /\ jobs \in [Jobs -> JobRow] /\ worker.pc = "poll"
  BY DEF IInv, ControlInv, TypeOK, Claim
<1>2. jobs[j].st = "queued"
  BY DEF Claim, Startable, Candidates, Claimable
<1>3. \A i \in Jobs : jobs[i].st # "running"
  BY <1>1 DEF ControlInv, RunningIsHeld
<1>4. /\ jobs'[j].st = "running"
      /\ jobs'[j].kind = jobs[j].kind
      /\ jobs'[j].tries = jobs[j].tries + 1
  BY <1>1, ClaimedRow DEF Claim
<1>5. \A i \in Jobs \ {j} : /\ jobs'[i].st = jobs[i].st
                            /\ jobs'[i].kind = jobs[i].kind
                            /\ jobs'[i].tries = jobs[i].tries
  BY <1>1, DueRow DEF Claim
<1>6. worker'.pc = "claimed" /\ worker'.job = j
  BY DEF Claim, Polling
<1>7. WorkerInv'
  BY <1>4, <1>6 DEF WorkerInv, Holding
<1>8. RunningIsHeld'
  BY <1>3, <1>5, <1>6 DEF RunningIsHeld
<1>9. UpdateInv'
  <2>1. jobs[j].kind = "update" => jobs[j].tries = 0
    BY <1>1, <1>2 DEF ControlInv, UpdateInv
  <2>2. \A i \in Jobs \ {j} : jobs'[i].kind = "update" =>
          /\ jobs'[i].tries <= 1
          /\ jobs'[i].st = "queued" => jobs'[i].tries = 0
          /\ jobs'[i].st = "running" => jobs'[i].tries = 1
    BY <1>1, <1>5 DEF ControlInv, UpdateInv
  <2> QED
    BY <1>4, <2>1, <2>2 DEF UpdateInv
<1>10. NoStaleRun'
  BY <1>1, <1>6 DEF ControlInv, NoStaleRun, Claim
<1> QED
  BY <1>7, <1>8, <1>9, <1>10 DEF ControlInv

LEMMA PostponeControl == ASSUME IInv, Postpone PROVE ControlInv'
<1>1. ControlInv /\ jobs \in [Jobs -> JobRow] /\ worker.pc = "poll"
  BY DEF IInv, ControlInv, TypeOK, Postpone
<1>2. \A i \in Jobs : /\ jobs'[i].st = jobs[i].st
                      /\ jobs'[i].kind = jobs[i].kind
                      /\ jobs'[i].tries = jobs[i].tries
  BY <1>1, DueRow DEF Postpone
<1>3. UNCHANGED <<worker, runs, leaked>>
  BY DEF Postpone
<1> QED
  BY <1>1, <1>2, <1>3 DEF ControlInv, WorkerInv, Holding, RunningIsHeld, UpdateInv, NoStaleRun

LEMMA ProvisionControl == ASSUME IInv, ProvisionCommit PROVE ControlInv'
<1> DEFINE m == jobs[worker.job].mb
<1>1. ControlInv /\ TypeOK /\ worker \in Worker /\ worker.pc = "provisioning"
  BY DEF IInv, ControlInv, TypeOK, ProvisionCommit
<1>2. worker'.pc = "finish" /\ worker'.job = worker.job
  BY <1>1 DEF ProvisionCommit, Worker
<1>3. CASE mbox[m] = "pending"
  <2>1. lastJob + 1 \in Jobs
    BY <1>1, <1>3, JobQueueAssumption DEF ProvisionCommit, TypeOK, Jobs
  <2>2. m \in Mailboxes \cup {NoMailbox}
    BY <1>1 DEF TypeOK, ControlInv, WorkerInv, Holding, JobRow
  <2>3. jobs' = [jobs EXCEPT ![lastJob + 1] = Queued("assess", m)]
    BY <1>3 DEF ProvisionCommit
  <2>4. JobsKept
    BY <1>1, <2>1, <2>2, <2>3, InsertKept DEF Kinds
  <2>5. UNCHANGED <<runs, leaked>>
    BY DEF ProvisionCommit
  <2>6. WorkerInv' /\ RunningIsHeld' /\ NoStaleRun'
    BY <1>1, <1>2, <2>4, <2>5
    DEF ControlInv, WorkerInv, Holding, RunningIsHeld, NoStaleRun, JobsKept
  <2>7. UpdateInv'
    <3>1. \A j \in Jobs : jobs[j].kind = "update" =>
            /\ jobs[j].tries <= 1
            /\ jobs[j].st = "queued" => jobs[j].tries = 0
            /\ jobs[j].st = "running" => jobs[j].tries = 1
      BY <1>1 DEF ControlInv, UpdateInv
    <3> QED
      BY <2>4, <3>1 DEF UpdateInv, JobsKept
  <2> QED
    BY <2>6, <2>7 DEF ControlInv
<1>4. CASE mbox[m] # "pending"
  <2>1. UNCHANGED <<jobs, runs, leaked>>
    BY <1>4 DEF ProvisionCommit
  <2> QED
    BY <1>1, <1>2, <2>1, SilentControl DEF Holding
<1> QED
  BY <1>3, <1>4

LEMMA SyncStartControl == ASSUME IInv, SyncStart PROVE ControlInv'
<1> DEFINE m == jobs[worker.job].mb
           new == [mb |-> m, st |-> "running", recent |-> TRUE,
                   dry |-> jobs[worker.job].kind = "assess"]
<1>1. ControlInv /\ TypeOK /\ worker \in Worker /\ worker.pc = "claimed"
  BY DEF IInv, ControlInv, TypeOK, SyncStart, Handler
<1>2. CASE mbox[m] = "active" /\ enabled[m]
  <2>1. /\ lastRun + 1 \in Runs
        /\ runs' = [runs EXCEPT ![lastRun + 1] = new]
        /\ worker' = [worker EXCEPT !.pc = "imapsync", !.run = lastRun + 1]
    BY <1>1, <1>2, JobQueueAssumption DEF SyncStart, TypeOK, Runs
  <2>2. UNCHANGED <<jobs, leaked>>
    BY DEF SyncStart
  <2>3. new.st = "running"
    OBVIOUS
  <2>4. worker'.pc = "imapsync" /\ worker'.job = worker.job /\ worker'.run = lastRun + 1
    BY <1>1, <2>1 DEF Worker
  <2>5. /\ runs'[lastRun + 1].st = "running"
        /\ \A r \in Runs \ {lastRun + 1} : runs'[r] = runs[r]
    <3> HIDE DEF new
    <3> QED
      BY <1>1, <2>1, <2>3 DEF TypeOK
  <2>6. WorkerInv' /\ RunningIsHeld' /\ UpdateInv'
    BY <1>1, <2>1, <2>2, <2>4, <2>5
    DEF ControlInv, WorkerInv, Holding, RunningIsHeld, UpdateInv
  <2>7. NoStaleRun'
    BY <1>1, <2>2, <2>4, <2>5 DEF ControlInv, NoStaleRun
  <2> QED
    BY <2>6, <2>7 DEF ControlInv
<1>3. CASE ~(mbox[m] = "active" /\ enabled[m])
  <2>1. worker' = [worker EXCEPT !.pc = "finish", !.outcome = "success"]
    BY <1>3 DEF SyncStart
  <2>2. worker'.pc = "finish" /\ worker'.job = worker.job
    BY <1>1, <2>1 DEF Worker
  <2>3. UNCHANGED <<jobs, runs, leaked>>
    BY <1>3 DEF SyncStart
  <2> QED
    BY <1>1, <2>2, <2>3, SilentControl DEF Holding
<1> QED
  BY <1>2, <1>3

LEMMA SyncFinishControl == ASSUME IInv, SyncFinish PROVE ControlInv'
<1>1. ControlInv /\ TypeOK /\ worker \in Worker /\ worker.pc = "imapsync"
  BY DEF IInv, ControlInv, TypeOK, SyncFinish, SyncEnd, SyncEndFails
<1>2. worker'.pc = "finish" /\ worker'.job = worker.job /\ UNCHANGED jobs
  BY <1>1 DEF SyncFinish, SyncEnd, SyncEndFails, Worker
<1>3. WorkerInv' /\ RunningIsHeld' /\ UpdateInv'
  BY <1>1, <1>2 DEF ControlInv, WorkerInv, Holding, RunningIsHeld, UpdateInv
<1>4. NoStaleRun'
  <2>1. CASE SyncEndFails
    BY <1>1, <2>1, JobQueueAssumption DEF SyncEndFails, NoStaleRun, TypeOK
  <2>2. ASSUME NEW result \in {"success", "failed"}, SyncEnd(result) PROVE NoStaleRun'
    <3>1. worker.run \in Runs /\ runs[worker.run].st \in {"running", "gone"}
      BY <1>1 DEF ControlInv, WorkerInv
    <3>2. [runs[worker.run] EXCEPT !.st = result].st = result
      BY <1>1, <3>1 DEF TypeOK, RunRow
    <3>3. \A r \in Runs : runs'[r].st = "running" =>
            r # worker.run /\ runs[r].st = "running"
      BY <1>1, <2>2, <3>1, <3>2 DEF SyncEnd, TypeOK
    <3> QED
      BY <1>1, <2>2, <3>3 DEF ControlInv, NoStaleRun, SyncEnd
  <2> QED
    BY <2>1, <2>2 DEF SyncFinish
<1> QED
  BY <1>3, <1>4 DEF ControlInv

LEMMA FinishControl == ASSUME IInv, Finish PROVE ControlInv'
<1>1. ControlInv /\ TypeOK /\ jobs \in [Jobs -> JobRow] /\ worker.pc = "finish"
  BY DEF IInv, ControlInv, TypeOK, Finish
<1>2. worker.job \in Jobs /\ jobs[worker.job].st \in {"running", "gone"}
  BY <1>1 DEF ControlInv, WorkerInv, Holding
<1>3. /\ jobs'[worker.job].st \in {"gone", "done", "failed", "retrying"}
      /\ jobs'[worker.job].kind = jobs[worker.job].kind
      /\ jobs'[worker.job].tries = jobs[worker.job].tries
      /\ \A i \in Jobs \ {worker.job} : jobs'[i] = jobs[i]
  BY <1>1, <1>2, FinishedRow DEF Finish
<1>4. worker'.pc = "poll" /\ worker'.job = 0
  BY RowTypes DEF Finish
<1>5. WorkerInv'
  BY <1>4 DEF WorkerInv, Holding
<1>6. RunningIsHeld'
  BY <1>1, <1>3 DEF ControlInv, RunningIsHeld
<1>7. UpdateInv'
  BY <1>1, <1>2, <1>3 DEF ControlInv, UpdateInv
<1>8. NoStaleRun'
  BY <1>1 DEF ControlInv, NoStaleRun, Finish
<1> QED
  BY <1>5, <1>6, <1>7, <1>8 DEF ControlInv

LEMMA CrashControl == ASSUME IInv, Crash PROVE ControlInv'
<1>1. ControlInv
  BY DEF IInv, ControlInv
<1>2. worker'.pc = "down" /\ worker'.job = 0 /\ UNCHANGED <<jobs, runs>>
  BY RowTypes DEF Crash
<1> QED
  BY <1>1, <1>2 DEF ControlInv, WorkerInv, Holding, RunningIsHeld, UpdateInv, NoStaleRun

LEMMA RestartControl == ASSUME IInv, Restart PROVE ControlInv'
<1>1. ControlInv /\ jobs \in [Jobs -> JobRow] /\ runs \in [Runs -> RunRow]
  BY DEF IInv, ControlInv, TypeOK
<1>2. worker'.pc = "poll" /\ worker'.job = 0
  BY RowTypes DEF Restart
<1>3. \A j \in Jobs :
        /\ jobs'[j].st # "running"
        /\ jobs'[j].kind = jobs[j].kind
        /\ jobs'[j].tries = jobs[j].tries
        /\ jobs[j].kind = "update" /\ jobs'[j].st = "queued" => jobs[j].st = "queued"
  BY <1>1, ReapedRow DEF Restart
<1>4. \A r \in Runs : [runs[r] EXCEPT !.st = "failed"].st = "failed"
  BY <1>1 DEF RunRow
<1>5. \A r \in Runs : runs'[r].st # "running"
  BY <1>1, <1>4 DEF Restart
<1>6. UpdateInv'
  BY <1>1, <1>3 DEF ControlInv, UpdateInv
<1> QED
  BY <1>2, <1>3, <1>5, <1>6 DEF ControlInv, WorkerInv, Holding, RunningIsHeld, NoStaleRun

LEMMA ControlStep == ASSUME IInv, Next PROVE ControlInv'
<1>1. worker \in Worker
  BY DEF IInv, TypeOK
<1>2. CASE ProvisionStart
  BY <1>1, <1>2, SilentControl DEF ProvisionStart, Handler, Holding, Worker
<1>3. CASE ProvisionFail \/ SyncStartFails
  BY <1>1, <1>3, SilentControl DEF ProvisionFail, SyncStartFails, Handler, Holding, Worker
<1>4. ASSUME NEW outcome \in Outcomes, UpdateHandled(outcome) PROVE ControlInv'
  BY <1>1, <1>4, SilentControl DEF UpdateHandled, Handler, Holding, Worker
<1> QED
  BY <1>2, <1>3, <1>4, OthersControl, ClaimControl, PostponeControl, ProvisionControl,
     SyncStartControl, SyncFinishControl, FinishControl, CrashControl, RestartControl
  DEF Next, WorkerStep, ClaimNext, ProvisionEnd, UpdateEnd

-----------------------------------------------------------------------------
(* Unused ids. *)

\* A row unused after a step was so before it, and kept its mailbox; only the
\* step that inserts a row gives it its kind.
JobsFresh ==
    \A j \in Jobs :
        /\ jobs'[j].st = "none" => jobs[j].st = "none" /\ jobs'[j].mb = jobs[j].mb
        /\ jobs'[j].st = "none" \/ jobs[j].st # "none" => jobs'[j].kind = jobs[j].kind
RunsFresh == \A r \in Runs : runs'[r].st = "none" =>
                 runs[r].st = "none" /\ runs'[r].mb = runs[r].mb

\* Inserting a row leaves the other ids as they were.
LEMMA InsertFresh ==
    ASSUME TypeOK, NEW k, NEW m, lastJob + 1 \in Jobs,
           jobs' = [jobs EXCEPT ![lastJob + 1] = Queued(k, m)]
    PROVE  JobsFresh
<1>1. Queued(k, m).st = "queued"
  BY DEF Queued
<1>2. jobs[lastJob + 1].st = "none"
  BY JobQueueAssumption DEF TypeOK, Jobs
<1> QED
  BY <1>1, <1>2 DEF TypeOK, JobsFresh

\* The worker's own steps and the panel's treat job rows one field at a time.
LEMMA JobsFreshStep == ASSUME IInv, Next PROVE JobsFresh
<1> USE JobQueueAssumption
<1>1. TypeOK /\ jobs \in [Jobs -> JobRow] /\ lastJob \in 0..MaxJobs
  BY DEF IInv, TypeOK
<1>2. CASE UNCHANGED jobs
  BY <1>2 DEF JobsFresh
<1>3. ASSUME NEW j \in Jobs, Claim(j) PROVE JobsFresh
  <2>1. \A i \in Jobs : /\ [jobs[i] EXCEPT !.due = FALSE].mb = jobs[i].mb
                        /\ [jobs[i] EXCEPT !.due = FALSE].kind = jobs[i].kind
                        /\ [jobs[i] EXCEPT !.due = FALSE].st = jobs[i].st
    BY <1>1 DEF JobRow
  <2>2. jobs'[j].st = "running" /\ jobs'[j].kind = jobs[j].kind
    BY <1>1, <1>3, ClaimedRow DEF Claim
  <2> QED
    BY <1>1, <1>3, <2>1, <2>2 DEF Claim, JobsFresh
<1>4. ASSUME Postpone \/ \E j \in Jobs : BecomesDue(j) PROVE JobsFresh
  <2>1. \A i \in Jobs, b \in BOOLEAN : /\ [jobs[i] EXCEPT !.due = b].mb = jobs[i].mb
                                       /\ [jobs[i] EXCEPT !.due = b].kind = jobs[i].kind
                                       /\ [jobs[i] EXCEPT !.due = b].st = jobs[i].st
    BY <1>1 DEF JobRow
  <2> QED
    BY <1>1, <1>4, <2>1 DEF Postpone, BecomesDue, JobsFresh
<1>5. CASE ProvisionCommit
  <2>1. CASE mbox[jobs[worker.job].mb] = "pending"
    BY <1>1, <1>5, <2>1, InsertFresh DEF ProvisionCommit, Jobs
  <2> QED
    BY <1>2, <1>5, <2>1 DEF ProvisionCommit
<1>6. CASE Finish
  <2>1. worker.job \in Jobs
    BY <1>6 DEF Finish, IInv, WorkerInv, Holding
  <2>2. /\ AfterFinish(jobs[worker.job]).st # "none"
        /\ AfterFinish(jobs[worker.job]).kind = jobs[worker.job].kind
    BY <1>1, <2>1, FinishedRow
  <2> QED
    BY <1>1, <1>6, <2>1, <2>2 DEF Finish, JobsFresh
<1>7. CASE Restart
  <2>1. \A j \in Jobs : /\ Reaped(jobs[j]).st = "none" => Reaped(jobs[j]) = jobs[j]
                        /\ Reaped(jobs[j]).kind = jobs[j].kind
    BY <1>1 DEF Reaped, JobRow
  <2> QED
    BY <1>1, <1>7, <2>1 DEF Restart, JobsFresh
<1>8. CASE TickCommit
  <2>1. CASE \A m \in tick : mbox[m] # "deleted"
    <3> DEFINE new == (lastJob + 1)..(lastJob + Cardinality(tick))
    <3>1. PICK f \in [new -> tick] :
            jobs' = [j \in Jobs |-> IF j \in new THEN Queued("sync", f[j]) ELSE jobs[j]]
      BY <1>8, <2>1 DEF TickCommit
    <3>2. \A j \in new : j \in Jobs => jobs[j].st = "none"
      BY <1>1 DEF TypeOK, Jobs
    <3> QED
      BY <3>1, <3>2 DEF JobsFresh, Queued
  <2> QED
    BY <1>2, <1>8, <2>1 DEF TickCommit
<1>9. ASSUME NEW p \in Requests, SyncNowCommit(p) PROVE JobsFresh
  <2>1. lastJob + 1 \in Jobs /\ jobs' = [jobs EXCEPT ![lastJob + 1] = Queued("sync", asked[p])]
    BY <1>1, <1>9 DEF SyncNowCommit, Jobs
  <2> QED
    BY <1>1, <2>1, InsertFresh
<1>10. ASSUME NEW m \in Mailboxes, UpsertMailbox(m) PROVE JobsFresh
  <2>1. lastJob + 1 \in Jobs /\ jobs' = [jobs EXCEPT ![lastJob + 1] = Queued("provision", m)]
    BY <1>1, <1>10 DEF UpsertMailbox, Jobs
  <2> QED
    BY <1>1, <2>1, InsertFresh
<1>11. CASE RequestUpdate
  <2>1. lastJob + 1 \in Jobs /\ jobs' = [jobs EXCEPT ![lastJob + 1] = Queued("update", NoMailbox)]
    BY <1>1, <1>11 DEF RequestUpdate, Jobs
  <2> QED
    BY <1>1, <2>1, InsertFresh
<1>12. ASSUME NEW d \in deletions, DeleteMailbox(d) PROVE JobsFresh
  <2>1. \A j \in Jobs : /\ [jobs[j] EXCEPT !.st = "gone"].st = "gone"
                        /\ [jobs[j] EXCEPT !.st = "gone"].kind = jobs[j].kind
    BY <1>1 DEF JobRow
  <2> QED
    BY <1>1, <1>12, <2>1 DEF DeleteMailbox, JobsFresh
<1> QED
  BY <1>2, <1>3, <1>4, <1>5, <1>6, <1>7, <1>8, <1>9, <1>10, <1>11, <1>12
  DEF Next, WorkerStep, ClaimNext, ProvisionEnd, SyncFinish, UpdateEnd, Clock, Panel,
      ProvisionStart, ProvisionFail, SyncStart, SyncEnd, SyncStartFails, SyncEndFails, UpdateHandled,
      LeavesWindow, IntervalPasses, TickRead, SyncNowRead, SwitchSync, BeginDelete, DeleteRolledBack, Crash

\* Only the sync handler, the window, the reaper and the deletion write runs.
LEMMA RunsFreshStep == ASSUME IInv, Next PROVE RunsFresh
<1> USE JobQueueAssumption
<1>1. TypeOK /\ runs \in [Runs -> RunRow] /\ lastRun \in 0..MaxRuns
  BY DEF IInv, TypeOK
<1>2. CASE UNCHANGED runs
  BY <1>2 DEF RunsFresh
<1>3. ASSUME NEW r \in Runs, LeavesWindow(r) PROVE RunsFresh
  <2>1. /\ [runs[r] EXCEPT !.recent = FALSE].mb = runs[r].mb
        /\ [runs[r] EXCEPT !.recent = FALSE].st = runs[r].st
    BY <1>1 DEF RunRow
  <2> QED
    BY <1>1, <1>3, <2>1 DEF LeavesWindow, RunsFresh
<1>4. CASE SyncStart
  <2> DEFINE new == [mb |-> jobs[worker.job].mb, st |-> "running", recent |-> TRUE,
                     dry |-> jobs[worker.job].kind = "assess"]
  <2>1. new.st = "running"
    OBVIOUS
  <2>2. \/ UNCHANGED runs
        \/ lastRun + 1 \in Runs /\ runs' = [runs EXCEPT ![lastRun + 1] = new]
    BY <1>1, <1>4 DEF SyncStart, Runs
  <2> HIDE DEF new
  <2> QED
    BY <1>1, <2>1, <2>2 DEF RunsFresh
<1>5. ASSUME NEW result \in {"success", "failed"}, SyncEnd(result) PROVE RunsFresh
  <2>1. worker.run \in Runs
    BY <1>5 DEF SyncEnd, IInv, WorkerInv
  <2>2. [runs[worker.run] EXCEPT !.st = result].st = result
    BY <1>1, <2>1 DEF RunRow
  <2> QED
    BY <1>1, <1>5, <2>1, <2>2 DEF SyncEnd, RunsFresh
<1>6. CASE Restart
  <2>1. \A r \in Runs : [runs[r] EXCEPT !.st = "failed"].st = "failed"
    BY <1>1 DEF RunRow
  <2> QED
    BY <1>1, <1>6, <2>1 DEF Restart, RunsFresh
<1>7. ASSUME NEW d \in deletions, DeleteMailbox(d) PROVE RunsFresh
  <2>1. \A r \in Runs : [runs[r] EXCEPT !.st = "gone"].st = "gone"
    BY <1>1 DEF RunRow
  <2> QED
    BY <1>1, <1>7, <2>1 DEF DeleteMailbox, RunsFresh
<1> QED
  BY <1>2, <1>3, <1>4, <1>5, <1>6, <1>7
  DEF Next, WorkerStep, ClaimNext, ProvisionEnd, SyncFinish, UpdateEnd, Clock, Panel,
      Claim, Postpone, BecomesDue, ProvisionStart, ProvisionCommit, ProvisionFail,
      SyncStartFails, SyncEndFails, UpdateHandled, Finish, IntervalPasses, TickRead, TickCommit,
      SyncNowRead, SyncNowCommit, UpsertMailbox, SwitchSync, BeginDelete, DeleteRolledBack, RequestUpdate, Crash

LEMMA UnusedStep == ASSUME IInv, Next PROVE UnusedInv'
<1>1. JobsFresh /\ RunsFresh
  BY JobsFreshStep, RunsFreshStep
<1>2. UnusedInv
  BY DEF IInv
<1> QED
  BY <1>1, <1>2 DEF UnusedInv, JobsFresh, RunsFresh

\* The rows of a deletion exist when it begins and keep their kind.
LEMMA DeletionStep == ASSUME IInv, Next PROVE DeletionInv'
<1>1. TypeOK /\ jobs \in [Jobs -> JobRow] /\ deletions \in SUBSET Deletion
  BY DEF IInv, TypeOK
<1>2. \A d \in deletions : \A j \in d.rows :
        j \in Jobs /\ jobs[j].kind \in SyncKinds /\ jobs[j].st # "none"
  BY <1>1 DEF IInv, DeletionInv, Deletion
<1>3. CASE deletions' \in SUBSET deletions
  BY <1>2, <1>3, JobsFreshStep DEF DeletionInv, JobsFresh
<1>4. ASSUME NEW m \in Mailboxes, BeginDelete(m) PROVE DeletionInv'
  <2> DEFINE old == {j \in Jobs : jobs[j].kind \in SyncKinds /\ jobs[j].mb = m}
  <2>1. \A j \in old : jobs[j].kind \in SyncKinds /\ jobs[j].st # "none"
    BY JobQueueAssumption DEF IInv, UnusedInv
  <2>2. UNCHANGED jobs /\ deletions' = deletions \cup {[mb |-> m, rows |-> old]}
    BY <1>4 DEF BeginDelete
  <2> HIDE DEF old
  <2> QED
    BY <1>2, <2>1, <2>2 DEF DeletionInv
<1>5. CASE UNCHANGED deletions
  BY <1>3, <1>5
<1>6. ASSUME NEW d \in deletions, DeleteMailbox(d) \/ DeleteRolledBack(d) PROVE DeletionInv'
  BY <1>3, <1>6 DEF DeleteMailbox, DeleteRolledBack
<1> QED
  BY <1>4, <1>5, <1>6
  DEF Next, WorkerStep, ClaimNext, ProvisionEnd, SyncFinish, UpdateEnd, Clock, Panel,
      Claim, Postpone, BecomesDue, ProvisionStart, ProvisionCommit, ProvisionFail,
      SyncStart, SyncStartFails, SyncEnd, SyncEndFails, UpdateHandled, Finish,
      LeavesWindow, IntervalPasses, TickRead, TickCommit, SyncNowRead, SyncNowCommit,
      UpsertMailbox, SwitchSync, RequestUpdate, Crash, Restart

-----------------------------------------------------------------------------
(* The theorems. *)

\* IInv is inductive: every step of the worker, the clock, the scheduler and
\* the panel keeps it.
LEMMA NextIInv == IInv /\ [Next]_vars => IInv'
<1> SUFFICES ASSUME IInv, [Next]_vars PROVE IInv'
  OBVIOUS
<1>1. CASE Next
  BY <1>1, TypeStep, UnusedStep, DeletionStep, ControlStep DEF IInv, ControlInv
<1>2. CASE UNCHANGED vars
  BY <1>2 DEF IInv, vars, TypeOK, UnusedInv, DeletionInv, WorkerInv, RunningIsHeld, UpdateInv, NoStaleRun
<1> QED
  BY <1>1, <1>2

LEMMA Invariance == Spec => []IInv
BY InitIInv, NextIInv, PTL DEF Spec

\* Every variable of the queue keeps its type, and ids are handed out in order
\* (the tables of models/sync.py under every transaction of the code).
THEOREM TypeCorrect == Spec => []TypeOK
<1>1. IInv => TypeOK
  BY DEF IInv
<1> QED
  BY <1>1, Invariance, PTL

\* While the worker is up, a row in state running is the one it holds, so the
\* reaper of the next start never takes a row away from anybody
\* (worker_main._reap_orphans).
THEOREM RunningRowsAreHeld == Spec => []RunningIsHeld
<1>1. IInv => RunningIsHeld
  BY DEF IInv
<1> QED
  BY <1>1, Invariance, PTL

\* However often the worker crashes, a system update is claimed at most once
\* (worker_main._claim_next_job and _reap_orphans).
THEOREM UpdatesStartOnce == Spec => []UpdateStartedOnce
<1>1. IInv => UpdateStartedOnce
  BY DEF IInv, UpdateInv, UpdateStartedOnce
<1> QED
  BY <1>1, Invariance, PTL

\* A run in state running has an imapsync behind it while the worker is up and
\* none of its closing transactions failed (sync_job_handler.handle).
THEOREM RunsAreTruthful == Spec => []NoStaleRun
<1>1. IInv => NoStaleRun
  BY DEF IInv
<1> QED
  BY <1>1, Invariance, PTL
-----------------------------------------------------------------------------
(* The throttle: the count taken at the claim still holds at the insert. *)

\* Between the claim of a sync and the insert of its run there is room for it.
ClaimFits ==
    worker.pc = "claimed" /\ jobs[worker.job].kind \in SyncKinds =>
        Cardinality(RunningRuns) < ConcurrentLimit

RoomInv == IInv /\ ClaimFits /\ ConcurrencyWithinPolicy

\* Runs are finitely many, and so are those running.
LEMMA FiniteRuns ==
    /\ IsFiniteSet(RunningRuns)
    /\ Cardinality(RunningRuns) \in Nat
<1>1. IsFiniteSet(Runs)
  BY FS_Interval, JobQueueAssumption DEF Runs
<1>2. RunningRuns \in SUBSET Runs
  BY DEF RunningRuns
<1> QED
  BY <1>1, <1>2, FS_Subset, FS_CardinalityType

\* No more runs than before when none becomes running.
LEMMA RunsShrink ==
    ASSUME \A r \in Runs : runs'[r].st = "running" => runs[r].st = "running"
    PROVE  /\ Cardinality(RunningRuns') \in Nat
           /\ Cardinality(RunningRuns') <= Cardinality(RunningRuns)
<1>1. RunningRuns' \in SUBSET RunningRuns
  BY DEF RunningRuns, Runs
<1> QED
  BY <1>1, FiniteRuns, FS_Subset, FS_CardinalityType

\* Only the first transaction of the sync handler makes a run running.
LEMMA OnlyStartAdds ==
    ASSUME IInv, Next
    PROVE  \/ SyncStart
           \/ \A r \in Runs : runs'[r].st = "running" => runs[r].st = "running"
<1> DEFINE Kept == \A r \in Runs : runs'[r].st = "running" => runs[r].st = "running"
<1>1. runs \in [Runs -> RunRow]
  BY DEF IInv, TypeOK
<1>2. CASE UNCHANGED runs
  BY <1>2
<1>3. CASE Clock \/ TickRead \/ TickCommit \/ Panel
  BY <1>3, OthersKeep DEF RunsKept
<1>4. ASSUME NEW result \in {"success", "failed"}, SyncEnd(result) PROVE Kept
  <2>1. worker.run \in Runs
    BY <1>4 DEF SyncEnd, IInv, WorkerInv
  <2>2. [runs[worker.run] EXCEPT !.st = result].st = result
    BY <1>1, <2>1 DEF RunRow
  <2> QED
    BY <1>1, <1>4, <2>1, <2>2 DEF SyncEnd
<1>5. CASE Restart
  <2>1. \A r \in Runs : [runs[r] EXCEPT !.st = "failed"].st = "failed"
    BY <1>1 DEF RunRow
  <2> QED
    BY <1>1, <1>5, <2>1 DEF Restart
<1> QED
  BY <1>2, <1>3, <1>4, <1>5
  DEF Next, WorkerStep, ClaimNext, ProvisionEnd, SyncFinish, UpdateEnd, Claim, Postpone,
      ProvisionStart, ProvisionCommit, ProvisionFail, SyncStartFails, SyncEndFails, UpdateHandled,
      Finish, Crash

\* The insert itself uses the room the claim found.
LEMMA StartFits == ASSUME RoomInv, SyncStart PROVE ConcurrencyWithinPolicy' /\ ClaimFits'
<1> DEFINE m == jobs[worker.job].mb
           new == [mb |-> m, st |-> "running", recent |-> TRUE,
                   dry |-> jobs[worker.job].kind = "assess"]
<1>1. TypeOK /\ worker \in Worker /\ runs \in [Runs -> RunRow]
  BY DEF RoomInv, IInv, TypeOK
<1>2. Cardinality(RunningRuns) < ConcurrentLimit
  BY DEF RoomInv, ClaimFits, SyncStart, Handler
<1>3. worker'.pc # "claimed"
  <2>1. \/ worker' = [worker EXCEPT !.pc = "imapsync", !.run = lastRun + 1]
        \/ worker' = [worker EXCEPT !.pc = "finish", !.outcome = "success"]
    BY DEF SyncStart
  <2> QED
    BY <1>1, <2>1 DEF Worker
<1>4. CASE UNCHANGED runs
  BY <1>3, <1>4 DEF RoomInv, ConcurrencyWithinPolicy, ClaimFits, RunningRuns, Runs
<1>5. CASE ~ UNCHANGED runs
  <2>1. lastRun + 1 \in Runs /\ runs' = [runs EXCEPT ![lastRun + 1] = new]
    BY <1>1, <1>5, JobQueueAssumption DEF SyncStart, TypeOK, Runs
  <2> HIDE DEF new
  <2>2. RunningRuns' \in SUBSET (RunningRuns \cup {lastRun + 1})
    BY <1>1, <2>1 DEF RunningRuns, Runs
  <2>3. /\ IsFiniteSet(RunningRuns \cup {lastRun + 1})
        /\ Cardinality(RunningRuns \cup {lastRun + 1}) <= Cardinality(RunningRuns) + 1
    <3>1. /\ IsFiniteSet(RunningRuns \cup {lastRun + 1})
          /\ Cardinality(RunningRuns \cup {lastRun + 1}) =
               IF lastRun + 1 \in RunningRuns THEN Cardinality(RunningRuns)
                                              ELSE Cardinality(RunningRuns) + 1
      BY FiniteRuns, FS_AddElement, Zenon
    <3> QED
      BY <3>1, FiniteRuns
  <2>4. /\ Cardinality(RunningRuns') \in Nat
        /\ Cardinality(RunningRuns') <= Cardinality(RunningRuns \cup {lastRun + 1})
        /\ Cardinality(RunningRuns \cup {lastRun + 1}) \in Nat
    BY <2>2, <2>3, FS_Subset, FS_CardinalityType
  <2>5. Cardinality(RunningRuns') <= ConcurrentLimit
    BY <1>2, <2>3, <2>4, FiniteRuns, JobQueueAssumption
  <2> QED
    BY <1>3, <2>5 DEF ConcurrencyWithinPolicy, ClaimFits
<1> QED
  BY <1>4, <1>5

\* Any other step keeps the room: the claim checks it, nothing else takes it.
LEMMA RoomKept ==
    ASSUME RoomInv, Next, ~SyncStart PROVE ConcurrencyWithinPolicy' /\ ClaimFits'
<1>1. IInv /\ TypeOK /\ ClaimFits /\ ConcurrencyWithinPolicy
  BY DEF RoomInv, IInv
<1>2. /\ Cardinality(RunningRuns') \in Nat
      /\ Cardinality(RunningRuns') <= Cardinality(RunningRuns)
  BY <1>1, OnlyStartAdds, RunsShrink
<1>3. ConcurrencyWithinPolicy'
  BY <1>1, <1>2, FiniteRuns, JobQueueAssumption DEF ConcurrencyWithinPolicy
<1>4. CASE Clock \/ TickRead \/ TickCommit \/ Panel
  <2>1. UNCHANGED worker /\ JobsKept
    BY <1>1, <1>4, OthersKeep
  <2>2. worker.pc = "claimed" =>
          worker.job \in Jobs /\ jobs[worker.job].st \in {"running", "gone"}
    BY <1>1 DEF IInv, WorkerInv, Holding
  <2>3. worker.pc = "claimed" => jobs'[worker.job].kind = jobs[worker.job].kind
    BY <2>1, <2>2 DEF JobsKept
  <2> QED
    BY <1>1, <1>2, <1>3, <2>1, <2>3, FiniteRuns, JobQueueAssumption DEF ClaimFits
<1>5. ASSUME NEW j \in Jobs, Claim(j) PROVE ClaimFits'
  <2>1. /\ jobs \in [Jobs -> JobRow]
        /\ jobs'[j].kind = jobs[j].kind
        /\ worker'.job = j
        /\ UNCHANGED runs
    BY <1>1, <1>5, ClaimedRow DEF TypeOK, Claim, Polling
  <2>2. jobs[j].kind \in SyncKinds => ~(Cardinality(RunningRuns) >= ConcurrentLimit)
    BY <1>5 DEF Claim, Startable, Throttled
  <2> QED
    BY <1>2, <2>1, <2>2, FiniteRuns, JobQueueAssumption DEF ClaimFits
<1>6. CASE worker'.pc # "claimed"
  BY <1>3, <1>6 DEF ClaimFits
<1>7. CASE Postpone
  BY <1>3, <1>6, <1>7 DEF Postpone
<1> QED
  BY <1>1, <1>3, <1>4, <1>5, <1>6, <1>7, RowTypes
  DEF Next, WorkerStep, ClaimNext, ProvisionEnd, SyncFinish, UpdateEnd,
      ProvisionStart, ProvisionCommit, ProvisionFail, SyncEnd, SyncStartFails, SyncEndFails, UpdateHandled,
      Finish, Crash, Restart, TypeOK, Worker

\* The policy's concurrent_job_limit holds for every limit, every number of
\* mailboxes and whatever the other processes do between the check and the
\* insert (throttle_service.can_start_sync_now, sync_job_handler.handle).
THEOREM ConcurrencyRespected == Spec => []ConcurrencyWithinPolicy
<1>1. Init => RoomInv
  <2> SUFFICES ASSUME Init PROVE RoomInv
    OBVIOUS
  <2>1. RunningRuns = {}
    BY DEF Init, RunningRuns, NoRun
  <2>2. worker.pc = "down"
    BY RowTypes DEF Init
  <2> QED
    BY <2>1, <2>2, InitIInv, FS_EmptySet, JobQueueAssumption
    DEF RoomInv, ConcurrencyWithinPolicy, ClaimFits
<1>2. RoomInv /\ [Next]_vars => RoomInv'
  <2> SUFFICES ASSUME RoomInv, [Next]_vars PROVE RoomInv'
    OBVIOUS
  <2>1. IInv'
    BY NextIInv DEF RoomInv
  <2>2. CASE SyncStart
    BY <2>1, <2>2, StartFits DEF RoomInv
  <2>3. CASE Next /\ ~SyncStart
    BY <2>1, <2>3, RoomKept DEF RoomInv
  <2>4. CASE UNCHANGED vars
    BY <2>1, <2>4 DEF RoomInv, vars, ClaimFits, ConcurrencyWithinPolicy, RunningRuns, Runs
  <2> QED
    BY <2>2, <2>3, <2>4
<1>3. RoomInv => ConcurrencyWithinPolicy
  BY DEF RoomInv
<1> QED
  BY <1>1, <1>2, <1>3, PTL DEF Spec
-----------------------------------------------------------------------------
(* The same for the runs that were started within the window. *)

RateFits ==
    worker.pc = "claimed" /\ jobs[worker.job].kind \in SyncKinds =>
        Cardinality(CountedRuns) < RateLimit

RateInv == IInv /\ RateFits /\ RateWithinPolicy

LEMMA FiniteCounted ==
    /\ IsFiniteSet(CountedRuns)
    /\ Cardinality(CountedRuns) \in Nat
<1>1. IsFiniteSet(Runs)
  BY FS_Interval, JobQueueAssumption DEF Runs
<1>2. CountedRuns \in SUBSET Runs
  BY DEF CountedRuns
<1> QED
  BY <1>1, <1>2, FS_Subset, FS_CardinalityType

\* A run counts from the transaction that inserts it until the window has passed or
\* it is deleted; no other step makes one count.
LEMMA OnlyStartCounts ==
    ASSUME IInv, Next
    PROVE  SyncStart \/ CountedRuns' \in SUBSET CountedRuns
<1> DEFINE Kept == CountedRuns' \in SUBSET CountedRuns
<1>1. runs \in [Runs -> RunRow]
  BY DEF IInv, TypeOK
<1>2. ASSUME UNCHANGED runs PROVE Kept
  BY <1>2 DEF CountedRuns, Runs
<1>3. \A r \in Runs : runs[r] \in RunRow /\ runs[r].recent \in BOOLEAN
  BY <1>1 DEF RunRow
<1>4. \A r \in Runs : \A s : /\ [runs[r] EXCEPT !.st = s].st = s
                             /\ [runs[r] EXCEPT !.st = s].recent = runs[r].recent
  BY <1>3 DEF RunRow
<1>5. ASSUME NEW result \in {"success", "failed"}, SyncEnd(result) PROVE Kept
  <2>1. worker.run \in Runs /\ runs[worker.run].st \in {"running", "gone"}
    BY <1>5 DEF SyncEnd, IInv, WorkerInv
  <2>2. CASE runs[worker.run].st = "gone"
    <3>1. UNCHANGED runs
      BY <1>5, <2>2 DEF SyncEnd
    <3> QED BY <1>2, <3>1
  <2>3. CASE runs[worker.run].st = "running"
    <3>1. runs' = [runs EXCEPT ![worker.run].st = result]
      BY <1>5, <2>3 DEF SyncEnd
    <3>2. \A r \in Runs : runs'[r].recent = runs[r].recent
                         /\ (r # worker.run => runs'[r] = runs[r])
      BY <1>1, <1>4, <2>1, <3>1
    <3> QED BY <2>3, <3>2 DEF CountedRuns, Runs
  <2> QED BY <2>1, <2>2, <2>3
<1>6. ASSUME Restart PROVE Kept
  <2>1. \A r \in Runs : /\ runs'[r].st = IF runs[r].st = "running" THEN "failed" ELSE runs[r].st
                        /\ runs'[r].recent = runs[r].recent
    BY <1>4, <1>6 DEF Restart
  <2> QED BY <2>1 DEF CountedRuns, Runs
<1>7. ASSUME NEW r \in Runs, LeavesWindow(r) PROVE Kept
  <2>1. /\ [runs[r] EXCEPT !.recent = FALSE].recent = FALSE
        /\ \A x \in Runs \ {r} : runs'[x] = runs[x]
        /\ runs'[r] = [runs[r] EXCEPT !.recent = FALSE]
    BY <1>1, <1>3, <1>7 DEF LeavesWindow, RunRow
  <2> QED BY <2>1 DEF CountedRuns, Runs
<1>8. ASSUME NEW d \in deletions, DeleteMailbox(d) PROVE Kept
  <2>1. \A r \in Runs : runs'[r].st = "gone" \/ runs'[r] = runs[r]
    BY <1>4, <1>8 DEF DeleteMailbox
  <2> QED BY <2>1 DEF CountedRuns, Runs
<1> QED
  BY <1>2, <1>5, <1>6, <1>7, <1>8
  DEF Next, WorkerStep, ClaimNext, ProvisionEnd, SyncFinish, UpdateEnd, Clock, Panel, Claim,
      Postpone, BecomesDue, ProvisionStart, ProvisionCommit, ProvisionFail, SyncStartFails, SyncEndFails,
      UpdateHandled, Finish, Crash, IntervalPasses, TickRead, TickCommit, SyncNowRead,
      SyncNowCommit, UpsertMailbox, SwitchSync, BeginDelete, DeleteRolledBack, RequestUpdate

LEMMA StartCounted == ASSUME RateInv, SyncStart PROVE RateWithinPolicy' /\ RateFits'
<1>1. TypeOK /\ worker \in Worker /\ runs \in [Runs -> RunRow]
  BY DEF RateInv, IInv, TypeOK
<1>2. Cardinality(CountedRuns) < RateLimit
  BY DEF RateInv, RateFits, SyncStart, Handler
<1>3. worker'.pc # "claimed"
  <2>1. \/ worker' = [worker EXCEPT !.pc = "imapsync", !.run = lastRun + 1]
        \/ worker' = [worker EXCEPT !.pc = "finish", !.outcome = "success"]
    BY DEF SyncStart
  <2> QED BY <1>1, <2>1 DEF Worker
<1>4. CASE UNCHANGED runs
  BY <1>3, <1>4 DEF RateInv, RateWithinPolicy, RateFits, CountedRuns, Runs
<1>5. CASE ~ UNCHANGED runs
  <2>1. \A r \in Runs \ {lastRun + 1} : runs'[r] = runs[r]
    BY <1>1, <1>5 DEF SyncStart
  <2>2. CountedRuns' \in SUBSET (CountedRuns \cup {lastRun + 1})
    BY <2>1 DEF CountedRuns, Runs
  <2>3. /\ IsFiniteSet(CountedRuns \cup {lastRun + 1})
        /\ Cardinality(CountedRuns \cup {lastRun + 1}) =
             IF lastRun + 1 \in CountedRuns THEN Cardinality(CountedRuns)
                                            ELSE Cardinality(CountedRuns) + 1
    BY FiniteCounted, FS_AddElement, Zenon
  <2>4. /\ Cardinality(CountedRuns') \in Nat
        /\ Cardinality(CountedRuns') <= Cardinality(CountedRuns \cup {lastRun + 1})
        /\ Cardinality(CountedRuns \cup {lastRun + 1}) \in Nat
    BY <2>2, <2>3, FS_Subset, FS_CardinalityType
  <2>5. Cardinality(CountedRuns') <= RateLimit
    BY <1>2, <2>3, <2>4, FiniteCounted, JobQueueAssumption
  <2> QED BY <1>3, <2>5 DEF RateWithinPolicy, RateFits
<1> QED BY <1>4, <1>5

LEMMA RateKept == ASSUME RateInv, Next, ~SyncStart PROVE RateWithinPolicy' /\ RateFits'
<1>1. IInv /\ TypeOK /\ RateFits /\ RateWithinPolicy
  BY DEF RateInv, IInv
<1>2. /\ Cardinality(CountedRuns') \in Nat
      /\ Cardinality(CountedRuns') <= Cardinality(CountedRuns)
  BY <1>1, OnlyStartCounts, FiniteCounted, FS_Subset, FS_CardinalityType
<1>3. RateWithinPolicy'
  BY <1>1, <1>2, FiniteCounted, JobQueueAssumption DEF RateWithinPolicy
<1>4. CASE Clock \/ TickRead \/ TickCommit \/ Panel
  <2>1. UNCHANGED worker /\ JobsKept
    BY <1>1, <1>4, OthersKeep
  <2>2. worker.pc = "claimed" =>
          worker.job \in Jobs /\ jobs[worker.job].st \in {"running", "gone"}
    BY <1>1 DEF IInv, WorkerInv, Holding
  <2>3. worker.pc = "claimed" => jobs'[worker.job].kind = jobs[worker.job].kind
    BY <2>1, <2>2 DEF JobsKept
  <2> QED
    BY <1>1, <1>2, <1>3, <2>1, <2>3, FiniteCounted, JobQueueAssumption DEF RateFits
<1>5. ASSUME NEW j \in Jobs, Claim(j) PROVE RateFits'
  <2>1. /\ jobs \in [Jobs -> JobRow]
        /\ jobs'[j].kind = jobs[j].kind
        /\ worker'.job = j
    BY <1>1, <1>5, ClaimedRow DEF TypeOK, Claim, Polling
  <2>2. jobs[j].kind \in SyncKinds => ~(Cardinality(CountedRuns) >= RateLimit)
    BY <1>5 DEF Claim, Startable, Throttled
  <2> QED
    BY <1>2, <2>1, <2>2, FiniteCounted, JobQueueAssumption DEF RateFits
<1>6. CASE worker'.pc # "claimed"
  BY <1>3, <1>6 DEF RateFits
<1>7. CASE Postpone
  BY <1>3, <1>6, <1>7 DEF Postpone
<1> QED
  BY <1>1, <1>3, <1>4, <1>5, <1>6, <1>7, RowTypes
  DEF Next, WorkerStep, ClaimNext, ProvisionEnd, SyncFinish, UpdateEnd,
      ProvisionStart, ProvisionCommit, ProvisionFail, SyncEnd, SyncStartFails, SyncEndFails, UpdateHandled,
      Finish, Crash, Restart, TypeOK, Worker

\* Of the runs still in the table, never more started within the window than the
\* policy allows, for every limit and although the claim counts them before the handler
\* inserts its own; runs deleted with their mailbox are not counted, so more may have
\* run (throttle_service.can_start_sync_now, sync_job_handler.handle).
THEOREM RateRespected == Spec => []RateWithinPolicy
<1>1. Init => RateInv
  <2> SUFFICES ASSUME Init PROVE RateInv
    OBVIOUS
  <2>1. CountedRuns = {}
    BY DEF Init, CountedRuns, NoRun
  <2>2. worker.pc = "down"
    BY RowTypes DEF Init
  <2> QED
    BY <2>1, <2>2, InitIInv, FS_EmptySet, JobQueueAssumption
    DEF RateInv, RateWithinPolicy, RateFits
<1>2. RateInv /\ [Next]_vars => RateInv'
  <2> SUFFICES ASSUME RateInv, [Next]_vars PROVE RateInv'
    OBVIOUS
  <2>1. IInv'
    BY NextIInv DEF RateInv
  <2>2. CASE SyncStart
    BY <2>1, <2>2, StartCounted DEF RateInv
  <2>3. CASE Next /\ ~SyncStart
    BY <2>1, <2>3, RateKept DEF RateInv
  <2>4. CASE UNCHANGED vars
    BY <2>1, <2>4 DEF RateInv, vars, RateFits, RateWithinPolicy, CountedRuns, Runs
  <2> QED
    BY <2>2, <2>3, <2>4
<1>3. RateInv => RateWithinPolicy
  BY DEF RateInv
<1> QED
  BY <1>1, <1>2, <1>3, PTL DEF Spec
-----------------------------------------------------------------------------
(* What a step may never do. *)

\* A provision that ends after its mailbox was deleted leaves it deleted, and
\* no import creates the id again (provision_handler.handle, upsert_mailbox).
THEOREM DeletionIsFinal == Spec => DeletedStaysDeleted
<1> DEFINE Kept == \A m \in Mailboxes : mbox[m] = "deleted" => mbox'[m] = "deleted"
<1>1. ASSUME IInv, [Next]_vars PROVE Kept
  <2>1. mbox \in [Mailboxes -> {"absent", "pending", "active", "deleted"}]
    BY <1>1 DEF IInv, TypeOK
  <2>2. CASE UNCHANGED mbox
    BY <2>2
  <2>3. CASE ProvisionCommit
    BY <2>1, <2>3 DEF ProvisionCommit
  <2>4. ASSUME \/ \E m \in Mailboxes : UpsertMailbox(m)
               \/ \E d \in deletions : DeleteMailbox(d)
        PROVE  Kept
    BY <2>1, <2>4 DEF UpsertMailbox, DeleteMailbox
  <2> QED
    BY <1>1, <2>2, <2>3, <2>4
    DEF Next, WorkerStep, ClaimNext, ProvisionEnd, SyncFinish, UpdateEnd, Clock, Panel,
        Claim, Postpone, BecomesDue, LeavesWindow, ProvisionStart, ProvisionFail,
        SyncStart, SyncEnd, SyncStartFails, SyncEndFails, UpdateHandled, Finish, Crash, Restart,
        IntervalPasses, TickRead, TickCommit, SyncNowRead, SyncNowCommit, SwitchSync, BeginDelete, DeleteRolledBack,
        RequestUpdate, vars
<1> QED
  BY <1>1, Invariance, PTL DEF Spec, DeletedStaysDeleted

\* No step of anybody starts again what the queue has finished or dropped
\* (worker_main._claim_next_job, _finish_job and _reap_orphans).
THEOREM FinishedRowsAreFinal == Spec => FinishedIsFinal
<1> DEFINE Final(j) == jobs[j].st \in {"done", "failed", "gone"} =>
                         jobs'[j].st \in {jobs[j].st, "gone"}
           Kept == \A j \in Jobs : Final(j)
<1>1. ASSUME IInv, [Next]_vars PROVE Kept
  <2> USE JobQueueAssumption
  <2>1. TypeOK /\ jobs \in [Jobs -> JobRow] /\ lastJob \in 0..MaxJobs
    BY <1>1 DEF IInv, TypeOK
  <2>2. CASE UNCHANGED jobs
    BY <2>2
  <2>3. \A i \in Jobs, b \in BOOLEAN : [jobs[i] EXCEPT !.due = b].st = jobs[i].st
    BY <2>1 DEF JobRow
  <2>4. ASSUME NEW j \in Jobs, Claim(j) PROVE Kept
    BY <2>1, <2>3, <2>4 DEF Claim, Startable, Candidates, Claimable
  <2>5. ASSUME Postpone \/ \E j \in Jobs : BecomesDue(j) PROVE Kept
    BY <2>1, <2>3, <2>5 DEF Postpone, BecomesDue
  <2>6. ASSUME NEW k, NEW m, lastJob + 1 \in Jobs,
               jobs' = [jobs EXCEPT ![lastJob + 1] = Queued(k, m)]
        PROVE  Kept
    <3>1. jobs[lastJob + 1].st = "none"
      BY <2>1, <2>6 DEF TypeOK, Jobs
    <3>2. \A j \in Jobs \ {lastJob + 1} : jobs'[j] = jobs[j]
      BY <2>1, <2>6
    <3> QED
      BY <3>1, <3>2
  <2>7. CASE ProvisionCommit
    <3>1. \/ UNCHANGED jobs
          \/ /\ lastJob + 1 \in Jobs
             /\ jobs' = [jobs EXCEPT ![lastJob + 1] = Queued("assess", jobs[worker.job].mb)]
      BY <2>1, <2>7 DEF ProvisionCommit, Jobs
    <3> QED
      BY <2>2, <2>6, <3>1
  <2>8. CASE Finish
    <3>1. worker.job \in Jobs /\ jobs[worker.job].st \in {"running", "gone"}
      BY <1>1, <2>8 DEF Finish, IInv, WorkerInv, Holding
    <3> QED
      BY <2>1, <2>8, <3>1 DEF Finish
  <2>9. CASE Restart
    <3>1. \A j \in Jobs : jobs[j].st # "running" => Reaped(jobs[j]) = jobs[j]
      BY DEF Reaped
    <3> QED
      BY <2>1, <2>9, <3>1 DEF Restart
  <2>10. CASE TickCommit
    <3>1. CASE \A m \in tick : mbox[m] # "deleted"
      <4> DEFINE new == (lastJob + 1)..(lastJob + Cardinality(tick))
      <4>1. PICK f \in [new -> tick] :
              jobs' = [j \in Jobs |-> IF j \in new THEN Queued("sync", f[j]) ELSE jobs[j]]
        BY <2>10, <3>1 DEF TickCommit
      <4>2. \A j \in Jobs : j \in new => jobs[j].st = "none"
        BY <2>1 DEF TypeOK, Jobs
      <4>3. \A j \in Jobs : j \notin new => jobs'[j] = jobs[j]
        BY <4>1
      <4> QED
        BY <4>2, <4>3
    <3> QED
      BY <2>2, <2>10, <3>1 DEF TickCommit
  <2>11. ASSUME NEW p \in Requests, SyncNowCommit(p) PROVE Kept
    <3>1. lastJob + 1 \in Jobs /\ jobs' = [jobs EXCEPT ![lastJob + 1] = Queued("sync", asked[p])]
      BY <2>1, <2>11 DEF SyncNowCommit, Jobs
    <3> QED
      BY <2>6, <3>1
  <2>12. ASSUME NEW m \in Mailboxes, UpsertMailbox(m) PROVE Kept
    <3>1. lastJob + 1 \in Jobs /\ jobs' = [jobs EXCEPT ![lastJob + 1] = Queued("provision", m)]
      BY <2>1, <2>12 DEF UpsertMailbox, Jobs
    <3> QED
      BY <2>6, <3>1
  <2>13. CASE RequestUpdate
    <3>1. lastJob + 1 \in Jobs /\ jobs' = [jobs EXCEPT ![lastJob + 1] = Queued("update", NoMailbox)]
      BY <2>1, <2>13 DEF RequestUpdate, Jobs
    <3> QED
      BY <2>6, <3>1
  <2>14. ASSUME NEW d \in deletions, DeleteMailbox(d) PROVE Kept
    <3>1. \A j \in Jobs : [jobs[j] EXCEPT !.st = "gone"].st = "gone"
      BY <2>1 DEF JobRow
    <3> QED
      BY <2>1, <2>14, <3>1 DEF DeleteMailbox
  <2> QED
    BY <1>1, <2>2, <2>4, <2>5, <2>7, <2>8, <2>9, <2>10, <2>11, <2>12, <2>13, <2>14
    DEF Next, WorkerStep, ClaimNext, ProvisionEnd, SyncFinish, UpdateEnd, Clock, Panel,
        LeavesWindow, ProvisionStart, ProvisionFail, SyncStart, SyncEnd, SyncStartFails, SyncEndFails,
        UpdateHandled, Crash, IntervalPasses, TickRead, SyncNowRead, SwitchSync, BeginDelete, DeleteRolledBack, vars
<1> QED
  BY <1>1, Invariance, PTL DEF Spec, FinishedIsFinal
-----------------------------------------------------------------------------
(* The order of the queue. *)

\* Only the claim takes a row out of the queue.
LEMMA OnlyClaimStarts ==
    ASSUME IInv, [Next]_vars, NEW j \in Jobs,
           jobs[j].st = "queued", jobs'[j].st = "running"
    PROVE  \E i \in Jobs : Claim(i)
<1>1. jobs \in [Jobs -> JobRow] /\ worker.pc \in WorkerPcs
  BY DEF IInv, TypeOK, Worker
<1>2. ~(Clock \/ TickRead \/ TickCommit \/ Panel)
  BY OthersKeep DEF JobsKept
<1>3. ~UNCHANGED jobs
  OBVIOUS
<1>4. \A b \in BOOLEAN : [jobs[j] EXCEPT !.due = b].st = jobs[j].st
  BY <1>1 DEF JobRow
<1>5. ~Postpone
  BY <1>4 DEF Postpone
<1>6. ~ProvisionCommit
  <2> SUFFICES ASSUME ProvisionCommit PROVE FALSE
    OBVIOUS
  <2>1. jobs' = [jobs EXCEPT ![lastJob + 1] = Queued("assess", jobs[worker.job].mb)]
    BY <1>3 DEF ProvisionCommit
  <2> QED BY <1>1, <2>1 DEF Queued
<1>7. ~Finish
  <2> SUFFICES ASSUME Finish PROVE FALSE
    OBVIOUS
  <2>1. worker.job \in Jobs /\ jobs[worker.job].st \in {"running", "gone"}
    BY DEF Finish, IInv, WorkerInv, Holding
  <2> QED BY <1>1, <2>1 DEF Finish
<1>8. ~Restart
  BY <1>1, ReapedRow DEF Restart
<1> QED
  BY <1>2, <1>3, <1>5, <1>6, <1>7, <1>8
  DEF Next, WorkerStep, ClaimNext, ProvisionEnd, SyncFinish, UpdateEnd, ProvisionStart,
      ProvisionFail, SyncStart, SyncEnd, SyncStartFails, SyncEndFails, UpdateHandled, Crash, vars

\* The claim sees the first rows of the queue: whatever is due and comes before a row
\* that it sees, it sees as well.
LEMMA CandidatesFirst ==
    ASSUME TypeOK, NEW j \in Candidates, NEW i \in Claimable, Before(i, j)
    PROVE  i \in Candidates
<1> DEFINE Ahead(x) == {y \in Claimable : Before(y, x)}
<1>1. Jobs \subseteq Nat /\ Claimable \subseteq Jobs /\ j \in Jobs
  BY JobQueueAssumption DEF Jobs, Claimable, Candidates
<1>2. Ahead(i) \in SUBSET Ahead(j)
  <2>1. ASSUME NEW y \in Claimable, Before(y, i) PROVE Before(y, j)
    BY <1>1, <2>1 DEF Before
  <2> QED BY <2>1
<1>3. IsFiniteSet(Ahead(j))
  <2>1. IsFiniteSet(Jobs)
    BY FS_Interval, JobQueueAssumption DEF Jobs
  <2>2. Ahead(j) \in SUBSET Jobs
    BY <1>1
  <2> QED BY <2>1, <2>2, FS_Subset
<1>4. /\ Cardinality(Ahead(i)) <= Cardinality(Ahead(j))
      /\ Cardinality(Ahead(i)) \in Nat /\ Cardinality(Ahead(j)) \in Nat
  <2> HIDE DEF Ahead
  <2> QED BY <1>2, <1>3, FS_Subset, FS_CardinalityType
<1>5. Cardinality(Ahead(j)) < ClaimBatch
  BY DEF Candidates
<1>6. Cardinality(Ahead(i)) < ClaimBatch
  <2> HIDE DEF Ahead
  <2> QED BY <1>4, <1>5, JobQueueAssumption
<1> QED BY <1>6 DEF Candidates

\* Whatever the length of the queue and of the batch a claim reads, a job that starts
\* overtakes nobody but synchronisations that the throttle holds back or a deletion that
\* has not ended holds locked: the priority of a system update and the order of arrival
\* are kept but for what SKIP LOCKED skips (worker_main._claim_next_job).
THEOREM NobodyOvertaken == Spec => NoOvertaking
<1> DEFINE Fair == \A i, j \in Jobs :
          (/\ jobs[j].st = "queued" /\ jobs'[j].st = "running"
           /\ jobs[i].st = "queued" /\ jobs[i].due
           /\ Before(i, j))
          => jobs[i].kind \in SyncKinds /\ (Throttled \/ i \in Locked)
<1>1. ASSUME IInv, [Next]_vars PROVE Fair
  <2> SUFFICES ASSUME NEW i \in Jobs, NEW j \in Jobs,
                      jobs[j].st = "queued", jobs'[j].st = "running",
                      jobs[i].st = "queued", jobs[i].due, Before(i, j)
               PROVE  jobs[i].kind \in SyncKinds /\ (Throttled \/ i \in Locked)
    OBVIOUS
  <2>1. TypeOK /\ jobs \in [Jobs -> JobRow]
    BY <1>1 DEF IInv, TypeOK
  <2>2. PICK k \in Jobs : Claim(k)
    BY <1>1, OnlyClaimStarts
  <2>3. k = j
    <3>1. [jobs[j] EXCEPT !.due = FALSE].st = jobs[j].st
      BY <2>1 DEF JobRow
    <3> QED BY <2>2, <3>1 DEF Claim
  <2>4. CASE i \in Locked
    BY <1>1, <2>4 DEF Locked, IInv, DeletionInv
  <2>5. CASE i \notin Locked
    <3>1. j \in Candidates /\ i \in Claimable
      BY <2>2, <2>3, <2>5 DEF Claim, Startable, Claimable
    <3>2. i \in Candidates
      BY <2>1, <3>1, CandidatesFirst
    <3>3. i \notin Startable
      BY <2>2, <2>3 DEF Claim
    <3> QED BY <3>2, <3>3 DEF Startable
  <2> QED BY <2>4, <2>5
<1> QED
  BY <1>1, Invariance, PTL DEF Spec, NoOvertaking
-----------------------------------------------------------------------------
(* The table implements the work queue. *)

\* How the two tables meet: rows that change to one state become that state in
\* the queue, and what is an update is decided when a row is inserted.
LEMMA RowsBecome ==
    ASSUME NEW S \in SUBSET Jobs, NEW s,
           \A j \in S : jobs'[j].st = s,
           \A j \in Jobs \ S : jobs'[j].st = jobs[j].st
    PROVE  Queue!Become(S, s)
BY DEF Queue!Become, StateOf

LEMMA UpdatesKept ==
    ASSUME \A j \in Jobs : jobs'[j].kind = "update" <=> jobs[j].kind = "update"
    PROVE  Updates' = Updates
BY DEF Updates

LEMMA HandsFull ==
    ASSUME IInv
    PROVE  /\ worker.pc \in Holding => /\ worker.job \in Jobs
                                       /\ InHand = {worker.job}
                                       /\ jobs[worker.job].st \in {"running", "gone"}
           /\ worker.pc \notin Holding => InHand = {}
<1>1. 0 \notin Jobs
  BY JobQueueAssumption DEF Jobs
<1> QED
  BY <1>1 DEF IInv, WorkerInv, InHand

\* A step that changes no state and no kind of a row, nor the row in hand, is
\* invisible in the queue.
LEMMA Unseen ==
    ASSUME \A j \in Jobs : jobs'[j].st = jobs[j].st /\ jobs'[j].kind = jobs[j].kind,
           worker'.job = worker.job
    PROVE  UNCHANGED <<StateOf, Updates, InHand>>
BY DEF StateOf, Updates, InHand

\* Rows that are inserted at unused ids are submitted.
LEMMA Inserted ==
    ASSUME IInv, NEW new \in SUBSET Jobs, NEW k,
           \A j \in new : jobs[j].st = "none",
           \A j \in new : jobs'[j].st = "queued" /\ jobs'[j].kind = k,
           \A j \in Jobs \ new : jobs'[j] = jobs[j],
           worker'.job = worker.job
    PROVE  Queue!Next
<1>1. Queue!Become(new, "queued")
  BY RowsBecome
<1>2. Updates' \in {Updates, Updates \cup new}
  <2>1. \A j \in new : jobs[j].kind # "update"
    BY DEF IInv, UnusedInv
  <2>2. CASE k = "update"
    BY <2>1, <2>2 DEF Updates
  <2>3. CASE k # "update"
    BY <2>1, <2>3 DEF Updates
  <2> QED
    BY <2>2, <2>3
<1>3. InHand' = InHand
  BY DEF InHand
<1>4. new \in SUBSET Queue!In("none")
  BY DEF Queue!In, StateOf
<1> QED
  BY <1>1, <1>2, <1>3, <1>4 DEF Queue!Next, Queue!Submit

LEMMA InsertedOne ==
    ASSUME IInv, NEW k, NEW m, lastJob + 1 \in Jobs,
           jobs' = [jobs EXCEPT ![lastJob + 1] = Queued(k, m)],
           worker'.job = worker.job
    PROVE  Queue!Next
<1>1. TypeOK /\ jobs \in [Jobs -> JobRow] /\ lastJob \in 0..MaxJobs
  BY DEF IInv, TypeOK
<1>2. jobs[lastJob + 1].st = "none"
  BY <1>1, JobQueueAssumption DEF TypeOK, Jobs
<1>3. jobs'[lastJob + 1].st = "queued" /\ jobs'[lastJob + 1].kind = k
  BY <1>1 DEF Queued
<1>4. \A j \in Jobs \ {lastJob + 1} : jobs'[j] = jobs[j]
  BY <1>1
<1> DEFINE new == {lastJob + 1}
<1>5. /\ new \in SUBSET Jobs
      /\ \A j \in new : jobs[j].st = "none"
      /\ \A j \in new : jobs'[j].st = "queued" /\ jobs'[j].kind = k
      /\ \A j \in Jobs \ new : jobs'[j] = jobs[j]
  BY <1>2, <1>3, <1>4
<1> HIDE DEF new
<1> QED
  BY <1>5, Inserted

LEMMA TickSubmits == ASSUME IInv, TickCommit, ~UNCHANGED jobs PROVE Queue!Next
<1> DEFINE new == (lastJob + 1)..(lastJob + Cardinality(tick))
<1>1. TypeOK /\ jobs \in [Jobs -> JobRow] /\ lastJob \in 0..MaxJobs /\ tick \in SUBSET Mailboxes
  BY DEF IInv, TypeOK
<1>2. Cardinality(tick) \in Nat
  BY <1>1, FS_Subset, FS_CardinalityType, JobQueueAssumption
<1>3. PICK f \in [new -> tick] :
        jobs' = [j \in Jobs |-> IF j \in new THEN Queued("sync", f[j]) ELSE jobs[j]]
  BY DEF TickCommit
<1>4. lastJob + Cardinality(tick) <= MaxJobs
  BY DEF TickCommit
<1>5. new \in SUBSET Jobs /\ \A j \in new : jobs[j].st = "none"
  BY <1>1, <1>2, <1>4, JobQueueAssumption DEF TypeOK, Jobs
<1>6. /\ \A j \in new : jobs'[j].st = "queued" /\ jobs'[j].kind = "sync"
      /\ \A j \in Jobs \ new : jobs'[j] = jobs[j]
  BY <1>3, <1>5 DEF Queued
<1>7. worker'.job = worker.job
  BY DEF TickCommit
<1> HIDE DEF new
<1> QED
  BY <1>5, <1>6, <1>7, Inserted

\* A claim takes a queued row with empty hands, and nothing is left running.
LEMMA ClaimTakes == ASSUME IInv, NEW j \in Jobs, Claim(j) PROVE Queue!Take(j) /\ j \in Queue!In("queued")
<1>1. jobs \in [Jobs -> JobRow] /\ worker.pc = "poll"
  BY DEF IInv, TypeOK, Claim
<1>2. jobs[j].st = "queued"
  BY DEF Claim, Startable, Candidates, Claimable
<1>3. InHand = {}
  BY <1>1, HandsFull DEF Holding
<1>4. Queue!In("running") = {}
  BY <1>1 DEF IInv, RunningIsHeld, Queue!In, StateOf
<1>5. jobs'[j].st = "running" /\ jobs'[j].kind = jobs[j].kind
  BY <1>1, ClaimedRow DEF Claim
<1>6. \A i \in Jobs \ {j} : jobs'[i].st = jobs[i].st /\ jobs'[i].kind = jobs[i].kind
  BY <1>1, DueRow DEF Claim
<1>7. Queue!Become({j}, "running")
  BY <1>5, <1>6, RowsBecome
<1>8. Updates' = Updates
  BY <1>5, <1>6, UpdatesKept
<1>9. InHand' = {j}
  <2>1. worker'.job = j
    BY DEF Claim, Polling
  <2>2. j # 0
    BY JobQueueAssumption DEF Jobs
  <2> QED BY <2>1, <2>2 DEF InHand
<1>10. j \in Queue!In("queued")
  BY <1>2 DEF Queue!In, StateOf
<1> QED
  BY <1>3, <1>4, <1>7, <1>8, <1>9, <1>10 DEF Queue!Take

\* The end of a job changes the row in hand, if it is still there, and an update
\* is not tried again because it has been claimed once.
LEMMA FinishEnds == ASSUME IInv, Finish PROVE Queue!Next
<1>1. /\ jobs \in [Jobs -> JobRow] /\ worker.pc = "finish"
      /\ worker.job \in Jobs /\ InHand = {worker.job}
      /\ jobs[worker.job].st \in {"running", "gone"}
  BY HandsFull DEF IInv, TypeOK, Finish, Holding
<1> DEFINE j == worker.job
           s == AfterFinish(jobs[j]).st
           S == InHand \cap Queue!In("running")
<1>2. s \in {"done", "failed", "retrying"} /\ AfterFinish(jobs[j]).kind = jobs[j].kind
  BY <1>1, FinishedRow
<1>3. S = IF jobs[j].st = "running" THEN {j} ELSE {}
  BY <1>1 DEF Queue!In, StateOf
<1>4. \A i \in S : jobs'[i].st = s
  BY <1>1, <1>3 DEF Finish
<1>5. \A i \in Jobs \ S : jobs'[i].st = jobs[i].st
  BY <1>1, <1>3 DEF Finish
<1>6. Queue!Become(S, s)
  <2>1. S \in SUBSET Jobs
    BY <1>1
  <2> HIDE DEF S, s
  <2> QED BY <2>1, <1>4, <1>5, RowsBecome
<1>7. Updates' = Updates
  <2>1. \A i \in Jobs : jobs'[i].kind = jobs[i].kind
    BY <1>1, <1>2 DEF Finish
  <2> QED BY <2>1, UpdatesKept
<1>8. InHand' = {}
  BY DEF Finish, Polling, InHand
<1>9. CASE jobs[j].st = "gone"
  <2>1. Queue!Become(S, "done")
    <3>1. S = {}
      BY <1>3, <1>9
    <3> HIDE DEF S
    <3> QED BY <1>5, <3>1, RowsBecome
  <2>2. Queue!End(j, "done")
    BY <1>1, <1>7, <1>8, <2>1 DEF Queue!End
  <2> QED
    BY <1>1, <2>2 DEF Queue!Next
<1>10. CASE jobs[j].st = "running"
  <2>1. s = "retrying" => j \notin Updates
    <3>1. jobs[j].kind = "update" => jobs[j].tries = 1
      BY <1>1, <1>10 DEF IInv, UpdateInv
    <3>2. s = "retrying" => ~(jobs[j].tries >= TriesAllowed(jobs[j].kind))
      BY <1>1 DEF AfterFinish, JobRow
    <3> QED
      BY <3>1, <3>2 DEF Updates, TriesAllowed
  <2>2. Queue!End(j, s)
    BY <1>1, <1>6, <1>7, <1>8, <2>1 DEF Queue!End
  <2> QED
    BY <1>1, <1>2, <2>2 DEF Queue!Next
<1> QED
  BY <1>1, <1>9, <1>10

\* A deletion withdraws the synchronisations of the mailbox, never an update.
LEMMA DeleteWithdraws ==
    ASSUME IInv, NEW d \in deletions, DeleteMailbox(d) PROVE Queue!Next
<1>1. jobs \in [Jobs -> JobRow] /\ d.rows \in SUBSET Jobs
  BY DEF IInv, TypeOK, Deletion
<1> DEFINE old == d.rows
<1>2. \A j \in Jobs : /\ [jobs[j] EXCEPT !.st = "gone"].st = "gone"
                      /\ [jobs[j] EXCEPT !.st = "gone"].kind = jobs[j].kind
  BY <1>1 DEF JobRow
<1>3. /\ \A j \in old : jobs'[j].st = "gone"
      /\ \A j \in Jobs \ old : jobs'[j].st = jobs[j].st
      /\ \A j \in Jobs : jobs'[j].kind = jobs[j].kind
  BY <1>1, <1>2 DEF DeleteMailbox
<1>4. old \in SUBSET (Jobs \ (Queue!In("none") \cup Updates))
  BY <1>1 DEF IInv, DeletionInv, Queue!In, StateOf, Updates, SyncKinds
<1>5. Updates' = Updates /\ InHand' = InHand
  <2>1. worker' = worker
    BY DEF DeleteMailbox
  <2> QED BY <1>3, <2>1, UpdatesKept DEF InHand
<1> HIDE DEF old
<1>6. Queue!Become(old, "gone")
  BY <1>3, <1>4, RowsBecome
<1> QED
  BY <1>4, <1>5, <1>6 DEF Queue!Next, Queue!Withdraw

\* The reaper of a new worker resumes what the last one had begun.
LEMMA RestartResumes == ASSUME IInv, Restart PROVE Queue!Resume
<1>1. jobs \in [Jobs -> JobRow] /\ worker.pc = "down" /\ worker'.job = 0
  BY DEF IInv, TypeOK, Restart, Polling
<1>2. InHand = {} /\ InHand' = {}
  BY <1>1, HandsFull DEF Holding, InHand
<1>3. \A j \in Jobs :
        /\ jobs'[j].kind = jobs[j].kind
        /\ jobs'[j].st = IF jobs[j].st # "running" THEN jobs[j].st
                         ELSE IF jobs[j].kind = "update" THEN "failed" ELSE "queued"
  BY <1>1 DEF Restart, Reaped, JobRow
<1>4. Updates' = Updates
  BY <1>3, UpdatesKept
<1> QED
  BY <1>2, <1>3, <1>4 DEF Queue!Resume, StateOf, Updates

\* Every step of the worker, the clock, the scheduler and the panel is a step of
\* the queue or invisible in it.
LEMMA QueueStep == ASSUME IInv, [Next]_vars PROVE Queue!Next \/ UNCHANGED <<StateOf, Updates, InHand>>
<1>1. /\ jobs \in [Jobs -> JobRow] /\ worker \in Worker /\ lastJob \in 0..MaxJobs
  BY DEF IInv, TypeOK
<1>2. \A i \in Jobs, b \in BOOLEAN : /\ [jobs[i] EXCEPT !.due = b].st = jobs[i].st
                                     /\ [jobs[i] EXCEPT !.due = b].kind = jobs[i].kind
  BY <1>1 DEF JobRow
<1>3. CASE UNCHANGED jobs /\ worker'.job = worker.job
  BY <1>3, Unseen
<1>4. ASSUME NEW j \in Jobs, Claim(j) PROVE Queue!Next
  BY <1>4, ClaimTakes DEF Queue!Next
<1>5. ASSUME Postpone \/ \E j \in Jobs : BecomesDue(j)
      PROVE  UNCHANGED <<StateOf, Updates, InHand>>
  <2>1. \A i \in Jobs : jobs'[i].st = jobs[i].st /\ jobs'[i].kind = jobs[i].kind
    BY <1>1, <1>2, <1>5 DEF Postpone, BecomesDue
  <2>2. worker'.job = worker.job
    BY <1>5 DEF Postpone, BecomesDue
  <2> QED
    BY <2>1, <2>2, Unseen
<1>6. CASE ProvisionCommit
  <2>1. worker'.job = worker.job
    BY <1>1, <1>6 DEF ProvisionCommit, Worker
  <2>2. CASE UNCHANGED jobs
    BY <1>3, <2>1, <2>2
  <2>3. CASE ~UNCHANGED jobs
    <3>1. /\ lastJob + 1 \in Jobs
          /\ jobs' = [jobs EXCEPT ![lastJob + 1] = Queued("assess", jobs[worker.job].mb)]
      BY <1>1, <1>6, <2>3 DEF ProvisionCommit, Jobs
    <3> QED
      BY <2>1, <3>1, InsertedOne
  <2> QED
    BY <2>2, <2>3
<1>7. CASE ProvisionStart \/ ProvisionFail \/ SyncStart \/ SyncStartFails \/ SyncEndFails
  <2>1. UNCHANGED jobs
    BY <1>7 DEF ProvisionStart, ProvisionFail, SyncStart, SyncStartFails, SyncEndFails
  <2>2. worker'.job = worker.job
    BY <1>1, <1>7
    DEF ProvisionStart, ProvisionFail, SyncStart, SyncStartFails, SyncEndFails, Worker
  <2> QED
    BY <1>3, <2>1, <2>2
<1>8. ASSUME UpdateEnd \/ \E result \in {"success", "failed"} : SyncEnd(result)
      PROVE  UNCHANGED <<StateOf, Updates, InHand>>
  <2>1. UNCHANGED jobs
    BY <1>8 DEF UpdateEnd, UpdateHandled, SyncEnd
  <2>2. worker'.job = worker.job
    BY <1>1, <1>8 DEF UpdateEnd, UpdateHandled, SyncEnd, Worker
  <2> QED
    BY <2>1, <2>2, Unseen
<1>9. CASE Finish
  BY <1>9, FinishEnds
<1>10. CASE Crash
  <2>1. UNCHANGED <<StateOf, Updates>>
    BY <1>10 DEF Crash, StateOf, Updates
  <2>2. InHand' = {}
    BY <1>10 DEF Crash, Stopped, InHand
  <2> QED
    BY <2>1, <2>2 DEF Queue!Next, Queue!Drop
<1>11. CASE Restart
  BY <1>11, RestartResumes DEF Queue!Next
<1>12. CASE TickCommit
  <2>1. CASE UNCHANGED jobs
    BY <1>3, <1>12, <2>1 DEF TickCommit
  <2> QED
    BY <1>12, <2>1, TickSubmits
<1>13. ASSUME NEW p \in Requests, SyncNowCommit(p) PROVE Queue!Next
  <2>1. /\ lastJob + 1 \in Jobs
        /\ jobs' = [jobs EXCEPT ![lastJob + 1] = Queued("sync", asked[p])]
        /\ worker' = worker
    BY <1>1, <1>13, JobQueueAssumption DEF SyncNowCommit, Jobs
  <2> QED
    BY <2>1, InsertedOne
<1>14. ASSUME NEW m \in Mailboxes, UpsertMailbox(m) PROVE Queue!Next
  <2>1. /\ lastJob + 1 \in Jobs
        /\ jobs' = [jobs EXCEPT ![lastJob + 1] = Queued("provision", m)]
        /\ worker' = worker
    BY <1>1, <1>14, JobQueueAssumption DEF UpsertMailbox, Jobs
  <2> QED
    BY <2>1, InsertedOne
<1>15. CASE RequestUpdate
  <2>1. /\ lastJob + 1 \in Jobs
        /\ jobs' = [jobs EXCEPT ![lastJob + 1] = Queued("update", NoMailbox)]
        /\ worker' = worker
    BY <1>1, <1>15, JobQueueAssumption DEF RequestUpdate, Jobs
  <2> QED
    BY <2>1, InsertedOne
<1>16. ASSUME NEW d \in deletions, DeleteMailbox(d) PROVE Queue!Next
  BY <1>16, DeleteWithdraws
<1> QED
  BY <1>3, <1>4, <1>5, <1>6, <1>7, <1>8, <1>9, <1>10, <1>11, <1>12, <1>13, <1>14, <1>15, <1>16
  DEF Next, WorkerStep, ClaimNext, ProvisionEnd, SyncFinish, Clock, Panel, LeavesWindow,
      IntervalPasses, TickRead, SyncNowRead, SwitchSync, BeginDelete, DeleteRolledBack, vars

\* Whatever the mailboxes, requests and bounds, the table of jobs with everybody who
\* writes to it behaves as the work queue: job_queue under worker_main, scheduler_main,
\* provision_handler and the panel.
THEOREM TableIsAQueue == Spec => ImplementsQueue
<1>1. Init => Queue!Init
  <2> SUFFICES ASSUME Init PROVE Queue!Init
    OBVIOUS
  <2>1. StateOf = [j \in Jobs |-> "none"] /\ Updates = {}
    BY DEF Init, StateOf, Updates, NoJob
  <2>2. InHand = {}
    BY DEF Init, InHand, Stopped
  <2> QED
    BY <2>1, <2>2 DEF Queue!Init
<1>2. IInv /\ [Next]_vars => [Queue!Next]_<<StateOf, Updates, InHand>>
  BY QueueStep
<1> QED
  BY <1>1, <1>2, Invariance, PTL DEF Spec, ImplementsQueue, Queue!Spec
=============================================================================
