---------------------------- MODULE SystemUpdate ----------------------------
(***************************************************************************)
(* Updates of the machines from the panel: the panel inserts a run and its *)
(* job, portal-worker takes the run through its phases, a transient unit   *)
(* on the machine installs the packages, and the panel shows the run row   *)
(* and, after it, whether the machine has to be rebooted.                  *)
(*                                                                         *)
(* Everything can stop half-way: the worker crashes and its reaper closes  *)
(* what it finds, a transaction fails while dnf restarts PostgreSQL, the   *)
(* worker stops waiting for an installation that goes on, a machine is     *)
(* rebooted by an administrator.  One worker; JobQueue has the queue.      *)
(*                                                                         *)
(* Abstractions: outputs, logs and the phase shown are left out; the lock  *)
(* of dnf itself decides who installs first and is not modelled.           *)
(***************************************************************************)
EXTENDS Naturals, FiniteSets

CONSTANTS
    Hosts,       \* machines with updates; a subset of "vm1", "vm2", "webmail"
    Panels,      \* threads of the panel
    MaxRuns,     \* bound: system_update_runs.id values
    MaxFaults,   \* bound: failed transactions and calls given up
    MaxCrashes,  \* bound: crashes of portal-worker
    MaxReboots   \* bound: reboots asked for in the panel

ASSUME SystemUpdateAssumption ==
    /\ Hosts \subseteq {"vm1", "vm2", "webmail"}
    /\ MaxRuns \in Nat /\ MaxFaults \in Nat /\ MaxCrashes \in Nat /\ MaxReboots \in Nat

VARIABLES
    runs,        \* system_update_runs
    jobs,        \* status of the queue entry of each run
    worker,      \* portal-worker
    panel,       \* the host for which a panel thread saw no running run
    installing,  \* runs whose installation is going on, with or without worker
    result,      \* how the installation of a run ended
    starts,      \* history: installations started per run
    saved,       \* history: runs whose configuration was backed up
    audited,     \* runs whose end is in the audit log
    needs,       \* the machine has to be rebooted (needs-restarting -r)
    rebooting,   \* a reboot is scheduled on the machine
    faults, crashes, reboots

vars == <<runs, jobs, worker, panel, installing, result, starts, saved, audited,
          needs, rebooting, faults, crashes, reboots>>
machine == <<installing, result, starts, saved, needs, rebooting>>
bounds == <<faults, crashes, reboots>>

-----------------------------------------------------------------------------
RunIds == 1..MaxRuns
NoHost == "none"

RunRow == [host : Hosts \cup {NoHost}, st : {"none", "running", "success", "failed"},
           reboot : {"unknown", "no", "yes"}]
NoRun == [host |-> NoHost, st |-> "none", reboot |-> "unknown"]

\* pc: the next thing to do.  begin, write, finish, fail: a transaction on the
\* run; audit, failaudit: the second transaction of _finish; closed, error:
\* _finish_job.  ok, need: local variables of the handler.
Worker == [pc : {"idle", "begin", "backup", "dnf", "wait", "health", "check", "write",
                 "finish", "audit", "closed", "fail", "failaudit", "error", "dead"},
           run : 0..MaxRuns, ok : BOOLEAN, need : {"unknown", "no", "yes"}]
Polling == [pc |-> "idle", run |-> 0, ok |-> FALSE, need |-> "unknown"]
Dead == [Polling EXCEPT !.pc = "dead"]

Current == worker.run
Host == runs[Current].host
RunningRuns(h) == {r \in RunIds : runs[r].host = h /\ runs[r].st = "running"}
Need(h) == IF needs[h] THEN "yes" ELSE "no"

Init ==
    /\ runs = [r \in RunIds |-> NoRun]
    /\ jobs = [r \in RunIds |-> "none"]
    /\ worker = Polling
    /\ panel = [p \in Panels |-> NoHost]
    /\ installing = {}
    /\ result = [r \in RunIds |-> "none"]
    /\ starts = [r \in RunIds |-> 0]
    /\ saved = {}
    /\ audited = {}
    /\ needs = [h \in Hosts |-> FALSE]
    /\ rebooting = [h \in Hosts |-> FALSE]
    /\ faults = 0 /\ crashes = 0 /\ reboots = 0

-----------------------------------------------------------------------------
(* The panel *)

\* _start_run: an update of the host that is under way is shown instead.
StartRead(p, h) ==
    /\ panel[p] = NoHost
    /\ RunningRuns(h) = {}
    /\ panel' = [panel EXCEPT ![p] = h]
    /\ UNCHANGED <<runs, jobs, worker, audited, machine, bounds>>

\* Seeded fault: the job is not inserted.
StartCommitForgetsJob(p) ==
    /\ panel[p] # NoHost
    /\ \E r \in RunIds :
          /\ runs[r].st = "none" /\ \A s \in 1..(r - 1) : runs[s].st # "none"
          /\ runs' = [runs EXCEPT ![r] = [host |-> panel[p], st |-> "running",
                                          reboot |-> "unknown"]]
    /\ panel' = [panel EXCEPT ![p] = NoHost]
    /\ UNCHANGED <<jobs, worker, audited, machine, bounds>>

\* The run and its job, in one transaction.
StartCommit(p) ==
    /\ panel[p] # NoHost
    /\ \E r \in RunIds :
          /\ runs[r].st = "none" /\ \A s \in 1..(r - 1) : runs[s].st # "none"
          /\ runs' = [runs EXCEPT ![r] = [host |-> panel[p], st |-> "running",
                                          reboot |-> "unknown"]]
          /\ jobs' = [jobs EXCEPT ![r] = "queued"]
    /\ panel' = [panel EXCEPT ![p] = NoHost]
    /\ UNCHANGED <<worker, audited, machine, bounds>>

\* reboot_vm1 schedules the reboot and forgets the flags in one transaction,
\* reboot_vm2 asks VM2 first; both reboot a few seconds later.
AskReboot(h) ==
    /\ h # "webmail"
    /\ reboots < MaxReboots
    /\ reboots' = reboots + 1
    /\ rebooting' = [rebooting EXCEPT ![h] = TRUE]
    /\ runs' = [r \in RunIds |-> IF runs[r].host = h /\ runs[r].reboot = "yes"
                                 THEN [runs[r] EXCEPT !.reboot = "no"] ELSE runs[r]]
    /\ UNCHANGED <<jobs, worker, panel, installing, result, starts, saved, audited, needs,
                   faults, crashes>>

\* VM2 goes down before it answers: the request fails and keeps the flags.
RebootUnanswered ==
    /\ "vm2" \in Hosts
    /\ reboots < MaxReboots /\ faults < MaxFaults
    /\ reboots' = reboots + 1 /\ faults' = faults + 1
    /\ rebooting' = [rebooting EXCEPT !["vm2"] = TRUE]
    /\ UNCHANGED <<runs, jobs, worker, panel, installing, result, starts, saved, audited, needs,
                   crashes>>

-----------------------------------------------------------------------------
(* portal-worker *)

Goto(pc) == worker' = [worker EXCEPT !.pc = pc]

Claim(r) ==
    /\ worker.pc = "idle"
    /\ jobs[r] = "queued"
    /\ jobs' = [jobs EXCEPT ![r] = "running"]
    /\ worker' = [Polling EXCEPT !.pc = "begin", !.run = r]
    /\ UNCHANGED <<runs, panel, audited, machine, bounds>>

\* handle: the run is running, whatever it was.
Begin ==
    /\ worker.pc = "begin"
    /\ runs' = [runs EXCEPT ![Current].st = "running"]
    /\ Goto(IF Host = "vm1" THEN "backup" ELSE "dnf")
    /\ UNCHANGED <<jobs, panel, audited, machine, bounds>>

\* run_backup: whether it worked is reported and not looked at.
Backup ==
    /\ worker.pc = "backup"
    /\ saved' \in {saved, saved \cup {Current}}
    /\ Goto("dnf")
    /\ UNCHANGED <<runs, jobs, panel, installing, result, starts, audited, needs, rebooting,
                   bounds>>

\* run_dnf starts the transient unit; VM2 and Roundcube make their own backup
\* in the same call.
Install ==
    /\ worker.pc = "dnf"
    /\ installing' = installing \cup {Current}
    /\ starts' = [starts EXCEPT ![Current] = @ + 1]
    /\ saved' \in IF Host = "vm1" THEN {saved} ELSE {saved, saved \cup {Current}}
    /\ Goto("wait")
    /\ UNCHANGED <<runs, jobs, panel, result, audited, needs, rebooting, bounds>>

\* Seeded fault: only the health check decides.
InstalledUnchecked ==
    /\ worker.pc = "wait"
    /\ Current \notin installing
    /\ IF Host = "vm1"
       THEN worker' = [worker EXCEPT !.pc = "health", !.ok = TRUE]
       ELSE \E healthy \in BOOLEAN :
              worker' = [worker EXCEPT !.pc = "write", !.ok = healthy, !.need = Need(Host)]
    /\ UNCHANGED <<runs, jobs, panel, audited, machine, bounds>>

\* The installation ended.  VM1 goes on with its phases; VM2 answers with its
\* health and need of a reboot, or with an error.
Installed ==
    /\ worker.pc = "wait"
    /\ Current \notin installing
    /\ IF Host = "vm1"
       THEN worker' = [worker EXCEPT !.pc = "health", !.ok = result[Current] = "ok"]
       ELSE IF result[Current] = "ok"
       THEN \E healthy \in BOOLEAN :
              worker' = [worker EXCEPT !.pc = "write", !.ok = healthy,
                           !.need = IF Host = "vm2" THEN Need(Host) ELSE "unknown"]
       ELSE Goto("finish")
    /\ UNCHANGED <<runs, jobs, panel, audited, machine, bounds>>

Health ==
    /\ worker.pc = "health"
    /\ \E healthy \in BOOLEAN :
          worker' = [worker EXCEPT !.pc = "check", !.ok = @ /\ healthy]
    /\ UNCHANGED <<runs, jobs, panel, audited, machine, bounds>>

CheckReboot ==
    /\ worker.pc = "check"
    /\ worker' = [worker EXCEPT !.pc = "write", !.need = Need(Host)]
    /\ UNCHANGED <<runs, jobs, panel, audited, machine, bounds>>

Write ==
    /\ worker.pc = "write"
    /\ runs' = [runs EXCEPT ![Current].reboot = worker.need]
    /\ Goto("finish")
    /\ UNCHANGED <<jobs, panel, audited, machine, bounds>>

\* _finish, called at the end of a handler or for its exception: the status,
\* then the audit record in a transaction of its own.
Finish ==
    /\ worker.pc \in {"finish", "fail"}
    /\ runs' = [runs EXCEPT ![Current].st = IF worker.pc = "finish" /\ worker.ok
                                            THEN "success" ELSE "failed"]
    /\ Goto(IF worker.pc = "finish" THEN "audit" ELSE "failaudit")
    /\ UNCHANGED <<jobs, panel, audited, machine, bounds>>

FinishAudit ==
    /\ worker.pc \in {"audit", "failaudit"}
    /\ audited' = audited \cup {Current}
    /\ Goto(IF worker.pc = "audit" THEN "closed" ELSE "error")
    /\ UNCHANGED <<runs, jobs, panel, machine, bounds>>

\* _finish_job: max_attempts = 1, so a failed job is failed for good.
FinishJob ==
    /\ worker.pc \in {"closed", "error"}
    /\ jobs' = [jobs EXCEPT ![Current] = IF worker.pc = "closed" THEN "done" ELSE "failed"]
    /\ worker' = Polling
    /\ UNCHANGED <<runs, panel, audited, machine, bounds>>

WorkerStep ==
    \/ \E r \in RunIds : Claim(r)
    \/ Begin \/ Backup \/ Install \/ Installed \/ Health \/ CheckReboot \/ Write
    \/ Finish \/ FinishAudit \/ FinishJob

-----------------------------------------------------------------------------
(* Failures *)

\* A transaction of the worker fails.  In the handler this is an exception, for
\* which handle calls _finish; in handle's first statement or in that _finish it
\* is left to the worker loop, and in _finish_job it ends the process.
TransactionFails ==
    /\ faults < MaxFaults
    /\ faults' = faults + 1
    /\ \/ worker.pc \in {"write", "finish", "audit"} /\ Goto("fail")
       \/ worker.pc \in {"begin", "fail", "failaudit"} /\ Goto("error")
       \/ worker.pc \in {"closed", "error"} /\ worker' = Dead
    /\ UNCHANGED <<runs, jobs, panel, audited, machine, crashes, reboots>>

\* The worker waits no longer; the installation goes on.
GivesUp ==
    /\ worker.pc = "wait" /\ Current \in installing
    /\ faults < MaxFaults
    /\ faults' = faults + 1
    /\ Goto(IF Host = "vm2" THEN "finish" ELSE "fail")
    /\ UNCHANGED <<runs, jobs, panel, audited, machine, crashes, reboots>>

Crash ==
    /\ worker.pc # "dead"
    /\ crashes < MaxCrashes
    /\ crashes' = crashes + 1
    /\ worker' = Dead
    /\ UNCHANGED <<runs, jobs, panel, audited, machine, faults, reboots>>

\* Seeded fault: an interrupted update is queued again, like a synchronisation.
RestartRequeues ==
    /\ worker.pc = "dead"
    /\ worker' = Polling
    /\ jobs' = [r \in RunIds |-> IF jobs[r] = "running" THEN "queued" ELSE jobs[r]]
    /\ runs' = [r \in RunIds |-> IF runs[r].st = "running"
                                 THEN [runs[r] EXCEPT !.st = "failed"] ELSE runs[r]]
    /\ UNCHANGED <<panel, audited, machine, bounds>>

\* Seeded fault: the run is not closed with its job.
RestartForgetsRuns ==
    /\ worker.pc = "dead"
    /\ worker' = Polling
    /\ jobs' = [r \in RunIds |-> IF jobs[r] = "running" THEN "failed" ELSE jobs[r]]
    /\ UNCHANGED <<runs, panel, audited, machine, bounds>>

\* _reap_orphans: every running job and every running run is failed.
Restart ==
    /\ worker.pc = "dead"
    /\ worker' = Polling
    /\ jobs' = [r \in RunIds |-> IF jobs[r] = "running" THEN "failed" ELSE jobs[r]]
    /\ runs' = [r \in RunIds |-> IF runs[r].st = "running"
                                 THEN [runs[r] EXCEPT !.st = "failed"] ELSE runs[r]]
    /\ UNCHANGED <<panel, audited, machine, bounds>>

-----------------------------------------------------------------------------
(* The machines *)

\* The transient unit, with or without somebody waiting for it.
InstallEnds(r) ==
    /\ r \in installing
    /\ installing' = installing \ {r}
    /\ \/ /\ result' = [result EXCEPT ![r] = "ok"]
          /\ \/ UNCHANGED needs
             \/ runs[r].host # "webmail" /\ needs' = [needs EXCEPT ![runs[r].host] = TRUE]
       \/ result' = [result EXCEPT ![r] = "bad"] /\ UNCHANGED needs
    /\ UNCHANGED <<runs, jobs, worker, panel, starts, saved, audited, rebooting, bounds>>

Reboots(h) ==
    /\ rebooting[h]
    /\ rebooting' = [rebooting EXCEPT ![h] = FALSE]
    /\ needs' = [needs EXCEPT ![h] = FALSE]
    /\ LET killed == {r \in installing : runs[r].host = h} IN
       /\ installing' = installing \ killed
       /\ result' = [r \in RunIds |-> IF r \in killed THEN "bad" ELSE result[r]]
    /\ IF h = "vm1"
       THEN worker' = Dead /\ panel' = [p \in Panels |-> NoHost]
       ELSE UNCHANGED <<worker, panel>>
    /\ UNCHANGED <<runs, jobs, starts, saved, audited, bounds>>

-----------------------------------------------------------------------------
Next ==
    \/ \E p \in Panels : StartCommit(p) \/ \E h \in Hosts : StartRead(p, h)
    \/ \E h \in Hosts : AskReboot(h) \/ Reboots(h)
    \/ RebootUnanswered
    \/ WorkerStep
    \/ \E r \in RunIds : InstallEnds(r)
    \/ TransactionFails \/ GivesUp \/ Crash \/ Restart

Spec == Init /\ [][Next]_vars

\* The worker works and is restarted by systemd; a started installation ends.
Fairness ==
    /\ WF_vars(WorkerStep) /\ WF_vars(Restart)
    /\ \A r \in RunIds : WF_vars(InstallEnds(r))

FairSpec == Spec /\ Fairness

-----------------------------------------------------------------------------
(* Properties *)

\* Types; a run has a job and a host from its first moment on.
TypeOK ==
    /\ runs \in [RunIds -> RunRow]
    /\ jobs \in [RunIds -> {"none", "queued", "running", "done", "failed"}]
    /\ worker \in Worker
    /\ panel \in [Panels -> Hosts \cup {NoHost}]
    /\ installing \subseteq RunIds
    /\ result \in [RunIds -> {"none", "ok", "bad"}]
    /\ starts \in [RunIds -> Nat]
    /\ saved \subseteq RunIds /\ audited \subseteq RunIds
    /\ needs \in [Hosts -> BOOLEAN] /\ rebooting \in [Hosts -> BOOLEAN]
    /\ faults \in 0..MaxFaults /\ crashes \in 0..MaxCrashes /\ reboots \in 0..MaxReboots
    /\ \A r \in RunIds : runs[r].st = "none" <=> jobs[r] = "none"
    /\ worker.run # 0 <=> worker.pc \notin {"idle", "dead"}

\* An update is never repeated by itself: whatever crashes, fails or is rebooted,
\* the packages of a run are installed at most once.
InstalledOnce == \A r \in RunIds : starts[r] <= 1

\* A run shown as successful has installed its packages.
SuccessIsTruthful == \A r \in RunIds : runs[r].st = "success" => result[r] = "ok"

\* No stuck window: while transactions succeed, a run whose job has ended is
\* closed, so that the panel lets the next update of the machine start; the
\* exception is a run that a dead worker has not yet been restarted for.
NoStuckRun ==
    faults = 0 => \A r \in RunIds :
        jobs[r] \in {"done", "failed"} => runs[r].st # "running"

\* While transactions succeed every run ends, and with it the block on new
\* updates of its machine, across crashes of the worker and reboots.
RunEnds == \A r \in RunIds : runs[r].st = "running" ~> runs[r].st # "running" \/ faults > 0

\* And whatever fails.
RunAlwaysEnds == \A r \in RunIds : runs[r].st = "running" ~> runs[r].st # "running"

\* A run that was closed as failed is not executed afterwards.
NotResumed ==
    [][\A r \in RunIds : runs[r].st = "failed" => runs'[r].st = "failed"]_vars

\* The end of a successful run is in the audit log once the worker has left it.
SuccessIsAudited ==
    \A r \in RunIds : runs[r].st = "success" /\ worker.run # r => r \in audited

\* The panel does not ask for a reboot that has been done: with the worker at
\* rest and no reboot scheduled, the last run of a machine tells its need.
FlagMeansNeeded ==
    \A r \in RunIds :
        /\ runs[r].reboot = "yes"
        /\ worker.pc = "idle"
        /\ ~rebooting[runs[r].host]
        => needs[runs[r].host]

\* Before every installation the configuration has been backed up.
BackupFirst == \A r \in RunIds : starts[r] > 0 => r \in saved
=============================================================================
