---------------------------- MODULE UpdateProofs ----------------------------
(***************************************************************************)
(* Proofs about SystemUpdate, for every set of machines and threads of the *)
(* panel and every number of runs, failures, crashes and reboots, and, in  *)
(* the second half, about AppUpdate.                                       *)
(***************************************************************************)
EXTENDS SystemUpdate, AppUpdate, TLAPS

\* A run is installed by the worker that holds its job, once: before it took the
\* job, and up to the installation, nothing was started.
StartsInv ==
    /\ \A r \in RunIds : jobs[r] \in {"none", "queued"} => starts[r] = 0
    /\ worker.run # 0 => jobs[Current] = "running"
    /\ worker.pc \in {"begin", "backup", "dnf"} => starts[Current] = 0

\* What the worker remembers of the installation is how it ended.
OkInv ==
    /\ worker.pc \in {"begin", "backup", "dnf", "wait"} => ~worker.ok
    /\ worker.ok => worker.run # 0 /\ result[Current] = "ok" /\ Current \notin installing

\* A run that is shown as successful is no longer being installed, so nothing can
\* end its installation again.
SuccessInv ==
    /\ worker.pc \in {"backup", "dnf"} => runs[Current].st = "running"
    /\ \A r \in RunIds : runs[r].st = "success" => r \notin installing

\* The worker closes the run before it closes the job.
ClosedInv ==
    faults = 0 /\ worker.pc \in {"audit", "failaudit", "closed", "error"}
        => runs[Current].st # "running"

-----------------------------------------------------------------------------
Phases == {"idle", "begin", "backup", "dnf", "wait", "health", "check", "write",
           "finish", "audit", "closed", "fail", "failaudit", "error", "dead"}
Statuses == {"none", "queued", "running", "done", "failed"}
Flags == {"unknown", "no", "yes"}

\* The worker without a run.
LEMMA Values ==
    /\ Polling \in Worker /\ Polling.pc = "idle" /\ Polling.run = 0 /\ ~Polling.ok
    /\ Dead \in Worker /\ Dead.pc = "dead" /\ Dead.run = 0 /\ ~Dead.ok
<1>1. 0 \in 0..MaxRuns
  BY SystemUpdateAssumption
<1>2. Polling \in Worker /\ Polling.pc = "idle" /\ Polling.run = 0 /\ ~Polling.ok
  BY <1>1 DEF Polling, Worker
<1>3. Dead \in Worker /\ Dead.pc = "dead" /\ Dead.run = 0 /\ ~Dead.ok
  BY <1>2 DEF Dead, Worker
<1> QED BY <1>2, <1>3

\* Whoever is at a step of a run holds it.
LEMMA HoldsRun ==
    ASSUME TypeOK, worker.pc \notin {"idle", "dead"}
    PROVE  Current \in RunIds /\ worker.run = Current /\ Current # 0
BY SystemUpdateAssumption DEF TypeOK, Worker, Current, RunIds

\* A row whose state or reboot flag changes is a row all the same.
LEMMA RowFields ==
    ASSUME NEW row \in RunRow
    PROVE  /\ \A st \in {"none", "running", "success", "failed"} :
                 /\ [row EXCEPT !.st = st] \in RunRow
                 /\ [row EXCEPT !.st = st].st = st
           /\ \A need \in Flags :
                 /\ [row EXCEPT !.reboot = need] \in RunRow
                 /\ [row EXCEPT !.reboot = need].st = row.st
BY DEF RunRow, Flags

\* A worker that goes on to another phase keeps its run and what it knows.
LEMMA Goes ==
    ASSUME TypeOK, NEW at \in Phases, Goto(at)
    PROVE  /\ worker' \in Worker /\ worker'.pc = at /\ worker'.run = worker.run
           /\ worker'.ok = worker.ok /\ worker'.need = worker.need
BY DEF TypeOK, Worker, Goto, Phases

\* What it learns, it writes down for the same run.
LEMMA Learns ==
    ASSUME TypeOK, NEW at \in Phases, NEW ok \in BOOLEAN, NEW need \in Flags,
           \/ worker' = [worker EXCEPT !.pc = at, !.ok = ok, !.need = need]
           \/ worker' = [worker EXCEPT !.pc = at, !.ok = ok] /\ need = worker.need
           \/ worker' = [worker EXCEPT !.pc = at, !.need = need] /\ ok = worker.ok
    PROVE  /\ worker' \in Worker /\ worker'.pc = at /\ worker'.run = worker.run
           /\ worker'.ok = ok /\ worker'.need = need
<1> USE DEF TypeOK, Worker, Phases, Flags
<1>1. CASE worker' = [worker EXCEPT !.pc = at, !.ok = ok, !.need = need]
  BY <1>1
<1>2. CASE worker' = [worker EXCEPT !.pc = at, !.ok = ok] /\ need = worker.need
  BY <1>2
<1>3. CASE worker' = [worker EXCEPT !.pc = at, !.need = need] /\ ok = worker.ok
  BY <1>3
<1> QED BY <1>1, <1>2, <1>3

\* A worker that takes a job starts from its beginning.
LEMMA Takes ==
    ASSUME NEW r \in RunIds, worker' = [Polling EXCEPT !.pc = "begin", !.run = r]
    PROVE  /\ worker' \in Worker /\ worker'.pc = "begin" /\ worker'.run = r
           /\ r # 0 /\ ~worker'.ok
<1>1. r \in 0..MaxRuns /\ r # 0
  BY SystemUpdateAssumption DEF RunIds
<1> DEFINE w == [pc |-> "begin", run |-> r, ok |-> FALSE, need |-> "unknown"]
<1>2. worker' = w
  BY DEF Polling
<1>3. w \in Worker /\ w.pc = "begin" /\ w.run = r /\ ~w.ok
  BY <1>1 DEF Worker
<1> HIDE DEF w
<1> QED BY <1>1, <1>2, <1>3

\* Whether a machine needs a reboot is a flag.
LEMMA NeedFlag ==
    ASSUME NEW h
    PROVE  Need(h) \in Flags
BY DEF Need, Flags

-----------------------------------------------------------------------------
(* The transactions on the rows of the runs. *)

\* The panel inserts a run and its job for the first id that is free.
LEMMA StartCommitRow ==
    ASSUME TypeOK, NEW p \in Panels, StartCommit(p)
    PROVE  \E r \in RunIds :
              /\ runs[r].st = "none" /\ jobs[r] = "none"
              /\ runs' \in [RunIds -> RunRow] /\ jobs' \in [RunIds -> Statuses]
              /\ runs'[r].st = "running" /\ jobs'[r] = "queued"
              /\ \A s \in RunIds \ {r} : runs'[s] = runs[s] /\ jobs'[s] = jobs[s]
<1> PICK r \in RunIds :
        /\ runs[r].st = "none"
        /\ runs' = [runs EXCEPT ![r] = [host |-> panel[p], st |-> "running", reboot |-> "unknown"]]
        /\ jobs' = [jobs EXCEPT ![r] = "queued"]
  BY DEF StartCommit
<1> DEFINE row == [host |-> panel[p], st |-> "running", reboot |-> "unknown"]
<1>1. row \in RunRow /\ row.st = "running"
  BY DEF TypeOK, RunRow
<1> HIDE DEF row
<1>2. runs' = [runs EXCEPT ![r] = row]
  BY DEF row
<1>3. runs' \in [RunIds -> RunRow] /\ runs'[r] = row
      /\ \A s \in RunIds \ {r} : runs'[s] = runs[s]
  BY <1>1, <1>2 DEF TypeOK
<1>4. jobs' \in [RunIds -> Statuses] /\ jobs'[r] = "queued"
      /\ \A s \in RunIds \ {r} : jobs'[s] = jobs[s]
  BY DEF TypeOK, Statuses
<1>5. jobs[r] = "none"
  BY DEF TypeOK
<1> QED BY <1>1, <1>3, <1>4, <1>5

\* The worker changes the state of its own run only.
LEMMA WorkerRow ==
    ASSUME TypeOK, Current \in RunIds, Begin \/ Write \/ Finish
    PROVE  /\ runs' \in [RunIds -> RunRow]
           /\ \A s \in RunIds \ {Current} : runs'[s] = runs[s]
           /\ Begin => runs'[Current].st = "running"
           /\ Write => runs'[Current].st = runs[Current].st
           /\ Finish => runs'[Current].st = IF worker.pc = "finish" /\ worker.ok
                                            THEN "success" ELSE "failed"
<1>1. runs[Current] \in RunRow /\ worker.need \in Flags
  BY DEF TypeOK, Worker, Flags
<1>2. CASE Begin
  <2>1. worker.pc = "begin" /\ runs' = [runs EXCEPT ![Current] = [@ EXCEPT !.st = "running"]]
    BY <1>2 DEF Begin
  <2>2. [runs[Current] EXCEPT !.st = "running"] \in RunRow
        /\ [runs[Current] EXCEPT !.st = "running"].st = "running"
    BY <1>1, RowFields
  <2>3. ~Write /\ ~Finish
    BY <2>1 DEF Write, Finish
  <2> QED BY <2>1, <2>2, <2>3 DEF TypeOK
<1>3. CASE Write
  <2>1. worker.pc = "write"
        /\ runs' = [runs EXCEPT ![Current] = [@ EXCEPT !.reboot = worker.need]]
    BY <1>3 DEF Write
  <2>2. [runs[Current] EXCEPT !.reboot = worker.need] \in RunRow
        /\ [runs[Current] EXCEPT !.reboot = worker.need].st = runs[Current].st
    BY <1>1, RowFields
  <2>3. ~Begin /\ ~Finish
    BY <2>1 DEF Begin, Finish
  <2> QED BY <2>1, <2>2, <2>3 DEF TypeOK
<1>4. CASE Finish
  <2> DEFINE st == IF worker.pc = "finish" /\ worker.ok THEN "success" ELSE "failed"
  <2>1. worker.pc \in {"finish", "fail"}
        /\ runs' = [runs EXCEPT ![Current] = [@ EXCEPT !.st = st]]
    BY <1>4 DEF Finish
  <2>2. st \in {"none", "running", "success", "failed"}
    OBVIOUS
  <2> HIDE DEF st
  <2>3. [runs[Current] EXCEPT !.st = st] \in RunRow
        /\ [runs[Current] EXCEPT !.st = st].st = st
    BY <1>1, <2>2, RowFields
  <2>4. ~Begin /\ ~Write
    BY <2>1 DEF Begin, Write
  <2>5. runs' \in [RunIds -> RunRow] /\ runs'[Current].st = st
        /\ \A s \in RunIds \ {Current} : runs'[s] = runs[s]
    BY <2>1, <2>3 DEF TypeOK
  <2> QED BY <2>4, <2>5 DEF st
<1> QED BY <1>2, <1>3, <1>4

\* Asking for a reboot changes flags only.
LEMMA AskRebootRows ==
    ASSUME TypeOK, NEW h \in Hosts, AskReboot(h)
    PROVE  /\ runs' \in [RunIds -> RunRow]
           /\ \A r \in RunIds : runs'[r].st = runs[r].st
<1>1. ASSUME NEW r \in RunIds
      PROVE  runs'[r] \in RunRow /\ runs'[r].st = runs[r].st
  <2>1. runs[r] \in RunRow
    BY DEF TypeOK
  <2>2. runs'[r] = runs[r] \/ runs'[r] = [runs[r] EXCEPT !.reboot = "no"]
    BY DEF AskReboot
  <2>3. [runs[r] EXCEPT !.reboot = "no"] \in RunRow
        /\ [runs[r] EXCEPT !.reboot = "no"].st = runs[r].st
    BY <2>1, RowFields DEF Flags
  <2> QED BY <2>1, <2>2, <2>3
<1>2. runs' = [r \in RunIds |-> runs'[r]]
  BY DEF AskReboot
<1> QED BY <1>1, <1>2

\* The reaper fails every running job and every running run, and nothing else.
LEMMA RestartRows ==
    ASSUME TypeOK, Restart
    PROVE  /\ runs' \in [RunIds -> RunRow] /\ jobs' \in [RunIds -> Statuses]
           /\ \A r \in RunIds :
                 /\ runs'[r].st = IF runs[r].st = "running" THEN "failed" ELSE runs[r].st
                 /\ jobs'[r] = IF jobs[r] = "running" THEN "failed" ELSE jobs[r]
<1>1. ASSUME NEW r \in RunIds
      PROVE  /\ runs'[r] \in RunRow
             /\ runs'[r].st = IF runs[r].st = "running" THEN "failed" ELSE runs[r].st
  <2>1. runs[r] \in RunRow
    BY DEF TypeOK
  <2>2. runs'[r] = IF runs[r].st = "running" THEN [runs[r] EXCEPT !.st = "failed"] ELSE runs[r]
    BY DEF Restart
  <2>3. [runs[r] EXCEPT !.st = "failed"] \in RunRow
        /\ [runs[r] EXCEPT !.st = "failed"].st = "failed"
    BY <2>1, RowFields
  <2> QED BY <2>1, <2>2, <2>3
<1>2. runs' = [r \in RunIds |-> runs'[r]]
  BY DEF Restart
<1>3. jobs' \in [RunIds -> Statuses]
      /\ \A r \in RunIds : jobs'[r] = IF jobs[r] = "running" THEN "failed" ELSE jobs[r]
  BY DEF Restart, TypeOK, Statuses
<1> QED BY <1>1, <1>2, <1>3

-----------------------------------------------------------------------------
(* The worker's own steps. *)

\* A step of the worker on a run it holds: what it does to the worker itself.
WorkerMoves ==
    /\ worker' \in Worker /\ worker'.run = worker.run
    /\ worker'.pc \notin {"idle", "dead"}

LEMMA Moves ==
    ASSUME TypeOK,
           \/ Begin \/ Backup \/ Install \/ Installed \/ Health \/ CheckReboot \/ Write
           \/ Finish \/ FinishAudit \/ GivesUp
    PROVE  WorkerMoves /\ Current \in RunIds /\ worker.run # 0
<1>1. Current \in RunIds /\ worker.run # 0
  BY HoldsRun DEF Begin, Backup, Install, Installed, Health, CheckReboot, Write,
                  Finish, FinishAudit, GivesUp
<1>2. CASE Begin \/ Backup \/ Install \/ Write \/ Finish \/ FinishAudit \/ GivesUp
  <2>1. PICK at \in Phases \ {"idle", "dead"} : Goto(at)
    BY <1>2 DEF Begin, Backup, Install, Write, Finish, FinishAudit, GivesUp, Phases
  <2> QED BY <1>1, <2>1, Goes DEF WorkerMoves
<1>3. CASE Installed
  <2>1. CASE Host = "vm1"
    <3> DEFINE ok == result[Current] = "ok"
    <3>1. worker' = [worker EXCEPT !.pc = "health", !.ok = ok]
      BY <1>3, <2>1 DEF Installed
    <3>2. worker.need \in Flags /\ ok \in BOOLEAN
      BY DEF TypeOK, Worker, Flags
    <3> HIDE DEF ok
    <3> QED BY <1>1, <3>1, <3>2, Learns DEF WorkerMoves, Phases
  <2>2. CASE Host # "vm1" /\ result[Current] = "ok"
    <3>1. PICK healthy \in BOOLEAN :
            worker' = [worker EXCEPT !.pc = "write", !.ok = healthy,
                         !.need = IF Host = "vm2" THEN Need(Host) ELSE "unknown"]
      BY <1>3, <2>2 DEF Installed
    <3>2. (IF Host = "vm2" THEN Need(Host) ELSE "unknown") \in Flags
      BY NeedFlag DEF Flags
    <3> QED BY <1>1, <3>1, <3>2, Learns DEF WorkerMoves, Phases
  <2>3. CASE Host # "vm1" /\ result[Current] # "ok"
    <3>1. Goto("finish")
      BY <1>3, <2>3 DEF Installed
    <3> QED BY <1>1, <3>1, Goes DEF WorkerMoves, Phases
  <2> QED BY <2>1, <2>2, <2>3
<1>4. CASE Health
  <2>1. PICK healthy \in BOOLEAN :
          worker' = [worker EXCEPT !.pc = "check", !.ok = worker.ok /\ healthy]
    BY <1>4 DEF Health
  <2>2. worker.need \in Flags /\ (worker.ok /\ healthy) \in BOOLEAN
    BY DEF TypeOK, Worker, Flags
  <2> QED BY <1>1, <2>1, <2>2, Learns DEF WorkerMoves, Phases
<1>5. CASE CheckReboot
  <2>1. worker' = [worker EXCEPT !.pc = "write", !.need = Need(Host)]
    BY <1>5 DEF CheckReboot
  <2>2. worker.ok \in BOOLEAN
    BY DEF TypeOK, Worker
  <2> QED BY <1>1, <2>1, <2>2, NeedFlag, Learns DEF WorkerMoves, Phases
<1> QED BY <1>1, <1>2, <1>3, <1>4, <1>5

\* The worker loses its run: its process ends, or the machine it is on reboots.
LEMMA Loses ==
    ASSUME worker' \in {Polling, Dead}
    PROVE  /\ worker' \in Worker /\ worker'.run = 0 /\ ~worker'.ok
           /\ worker'.pc \in {"idle", "dead"}
BY Values

-----------------------------------------------------------------------------
\* Types; the panel and the worker keep a run and its job together.
LEMMA TypeStep ==
    ASSUME TypeOK, StartsInv, [Next]_vars
    PROVE  TypeOK'
<1> USE DEF Statuses
<1>1. ASSUME NEW p \in Panels, NEW h \in Hosts, StartRead(p, h) PROVE TypeOK'
  BY <1>1 DEF StartRead, TypeOK, machine, bounds
<1>2. ASSUME NEW p \in Panels, StartCommit(p) PROVE TypeOK'
  <2>1. /\ runs' \in [RunIds -> RunRow] /\ jobs' \in [RunIds -> Statuses]
        /\ \A s \in RunIds : runs'[s].st = "none" <=> jobs'[s] = "none"
    BY <1>2, StartCommitRow DEF TypeOK
  <2>2. panel' \in [Panels -> Hosts \cup {NoHost}]
    BY <1>2 DEF StartCommit, TypeOK
  <2> QED BY <1>2, <2>1, <2>2 DEF StartCommit, TypeOK, machine, bounds
<1>3. ASSUME NEW h \in Hosts, AskReboot(h) PROVE TypeOK'
  <2>1. rebooting' \in [Hosts -> BOOLEAN] /\ reboots' \in 0..MaxReboots
    BY <1>3, SystemUpdateAssumption DEF AskReboot, TypeOK
  <2> QED BY <1>3, <2>1, AskRebootRows DEF AskReboot, TypeOK
<1>4. ASSUME NEW h \in Hosts, Reboots(h) PROVE TypeOK'
  <2>1. installing' \subseteq RunIds /\ result' \in [RunIds -> {"none", "ok", "bad"}]
    BY <1>4 DEF Reboots, TypeOK
  <2>2. needs' \in [Hosts -> BOOLEAN] /\ rebooting' \in [Hosts -> BOOLEAN]
    BY <1>4 DEF Reboots, TypeOK
  <2>3. panel' \in [Panels -> Hosts \cup {NoHost}] /\ worker' \in Worker
        /\ (worker'.run # 0 <=> worker'.pc \notin {"idle", "dead"})
    BY <1>4, Values DEF Reboots, TypeOK
  <2> QED BY <1>4, <2>1, <2>2, <2>3 DEF Reboots, TypeOK, bounds
<1>5. ASSUME RebootUnanswered PROVE TypeOK'
  BY <1>5, SystemUpdateAssumption DEF RebootUnanswered, TypeOK
<1>6. ASSUME NEW r \in RunIds, Claim(r) PROVE TypeOK'
  <2>1. worker' \in Worker /\ worker'.run = r /\ worker'.pc = "begin" /\ r # 0
    BY <1>6, Takes DEF Claim
  <2>2. jobs' \in [RunIds -> Statuses]
        /\ \A s \in RunIds : jobs'[s] = "none" <=> jobs[s] = "none"
    BY <1>6 DEF Claim, TypeOK
  <2> QED BY <1>6, <2>1, <2>2 DEF Claim, TypeOK, machine, bounds
<1>7. ASSUME NEW r \in RunIds, InstallEnds(r) PROVE TypeOK'
  <2>1. installing' \subseteq RunIds /\ result' \in [RunIds -> {"none", "ok", "bad"}]
    BY <1>7 DEF InstallEnds, TypeOK
  <2>2. needs' \in [Hosts -> BOOLEAN]
    BY <1>7 DEF InstallEnds, TypeOK
  <2> QED BY <1>7, <2>1, <2>2 DEF InstallEnds, TypeOK, bounds
<1>8. ASSUME Begin \/ Write \/ Finish PROVE TypeOK'
  <2>1. WorkerMoves /\ Current \in RunIds /\ worker.run # 0
    BY <1>8, Moves
  <2>2. jobs[Current] = "running"
    BY <2>1 DEF StartsInv
  <2>3. \A s \in RunIds : runs'[s].st = "none" <=> jobs[s] = "none"
    <3>1. runs'[Current].st # "none"
      BY <1>8, <2>1, <2>2, WorkerRow DEF TypeOK
    <3> QED BY <1>8, <2>1, <2>2, <3>1, WorkerRow DEF TypeOK
  <2>4. runs' \in [RunIds -> RunRow]
    BY <1>8, <2>1, WorkerRow
  <2> QED BY <1>8, <2>1, <2>3, <2>4 DEF Begin, Write, Finish, TypeOK, WorkerMoves, machine, bounds
<1>9. ASSUME Installed \/ Health \/ CheckReboot PROVE TypeOK'
  BY <1>9, Moves DEF Installed, Health, CheckReboot, TypeOK, WorkerMoves, machine, bounds
<1>10. ASSUME Backup PROVE TypeOK'
  BY <1>10, Moves DEF Backup, TypeOK, WorkerMoves, bounds
<1>11. ASSUME Install PROVE TypeOK'
  <2>1. starts' \in [RunIds -> Nat] /\ installing' \subseteq RunIds /\ saved' \subseteq RunIds
    BY <1>11, Moves DEF Install, TypeOK
  <2> QED BY <1>11, <2>1, Moves DEF Install, TypeOK, WorkerMoves, bounds
<1>12. ASSUME FinishAudit PROVE TypeOK'
  BY <1>12, Moves DEF FinishAudit, TypeOK, WorkerMoves, machine, bounds
<1>13. ASSUME FinishJob PROVE TypeOK'
  <2>1. Current \in RunIds /\ worker.run # 0
    BY <1>13, HoldsRun DEF FinishJob
  <2>2. jobs[Current] = "running"
    BY <2>1 DEF StartsInv
  <2>3. jobs' \in [RunIds -> Statuses]
        /\ \A s \in RunIds : jobs'[s] = "none" <=> jobs[s] = "none"
    BY <1>13, <2>1, <2>2 DEF FinishJob, TypeOK
  <2> QED BY <1>13, <2>3, Values DEF FinishJob, TypeOK, machine, bounds
<1>14. ASSUME TransactionFails PROVE TypeOK'
  <2>1. faults' \in 0..MaxFaults
    BY <1>14, SystemUpdateAssumption DEF TransactionFails, TypeOK
  <2>2. worker' \in Worker /\ (worker'.run # 0 <=> worker'.pc \notin {"idle", "dead"})
    <3>1. CASE Goto("fail") \/ Goto("error")
      <4>1. worker.run # 0
        BY <1>14, <3>1, HoldsRun, Values, Goes DEF TransactionFails, Phases
      <4> QED BY <3>1, <4>1, Goes DEF Phases
    <3>2. CASE worker' = Dead
      BY <3>2, Values
    <3> QED BY <1>14, <3>1, <3>2 DEF TransactionFails
  <2> QED BY <1>14, <2>1, <2>2 DEF TransactionFails, TypeOK, machine
<1>15. ASSUME GivesUp PROVE TypeOK'
  <2>1. faults' \in 0..MaxFaults
    BY <1>15, SystemUpdateAssumption DEF GivesUp, TypeOK
  <2> QED BY <1>15, <2>1, Moves DEF GivesUp, TypeOK, WorkerMoves, machine
<1>16. ASSUME Crash PROVE TypeOK'
  <2>1. crashes' \in 0..MaxCrashes
    BY <1>16, SystemUpdateAssumption DEF Crash, TypeOK
  <2> QED BY <1>16, <2>1, Values DEF Crash, TypeOK, machine
<1>17. ASSUME Restart PROVE TypeOK'
  <2>1. \A s \in RunIds : runs'[s].st = "none" <=> jobs'[s] = "none"
    BY <1>17, RestartRows DEF TypeOK
  <2> QED BY <1>17, <2>1, RestartRows, Values DEF Restart, TypeOK, machine, bounds
<1>18. CASE UNCHANGED vars
  BY <1>18 DEF vars, machine, bounds, TypeOK
<1> QED BY <1>1, <1>2, <1>3, <1>4, <1>5, <1>6, <1>7, <1>8, <1>9, <1>10, <1>11, <1>12,
           <1>13, <1>14, <1>15, <1>16, <1>17, <1>18 DEF Next, WorkerStep

\* Where a step of the worker on its run leads.
LEMMA Leads ==
    ASSUME TypeOK
    PROVE  /\ Begin => Goto("backup") \/ Goto("dnf")
           /\ Backup => worker.pc = "backup" /\ worker'.pc = "dnf" /\ worker'.ok = worker.ok
           /\ Install => worker.pc = "dnf" /\ worker'.pc = "wait" /\ worker'.ok = worker.ok
           /\ Write => worker.pc = "write" /\ worker'.pc = "finish" /\ worker'.ok = worker.ok
           /\ Finish => worker'.pc \in {"audit", "failaudit"} /\ worker'.ok = worker.ok
           /\ FinishAudit => worker'.pc \in {"closed", "error"} /\ worker'.ok = worker.ok
                             /\ worker.pc \in {"audit", "failaudit"}
           /\ GivesUp => worker'.pc \in {"finish", "fail"} /\ worker'.ok = worker.ok
           /\ Installed => worker'.pc \in {"health", "write", "finish"}
           /\ Health => worker'.pc = "check"
           /\ CheckReboot => worker'.pc = "write" /\ worker'.ok = worker.ok
<1>1. Begin => Goto("backup") \/ Goto("dnf")
  BY DEF Begin
<1>2. \A at \in Phases : Goto(at) => worker'.pc = at /\ worker'.ok = worker.ok
  BY Goes
<1>3. /\ Backup => Goto("dnf") /\ worker.pc = "backup"
      /\ Install => Goto("wait") /\ worker.pc = "dnf"
      /\ Write => Goto("finish") /\ worker.pc = "write"
  BY DEF Backup, Install, Write
<1>4. /\ Finish => Goto("audit") \/ Goto("failaudit")
      /\ FinishAudit => (Goto("closed") \/ Goto("error")) /\ worker.pc \in {"audit", "failaudit"}
      /\ GivesUp => Goto("finish") \/ Goto("fail")
  BY DEF Finish, FinishAudit, GivesUp
<1>5. Installed => worker'.pc \in {"health", "write", "finish"}
  BY DEF Installed, Goto, TypeOK, Worker
<1>6. Health => worker'.pc = "check"
  BY DEF Health, TypeOK, Worker
<1>7. CheckReboot => worker'.pc = "write" /\ worker'.ok = worker.ok
  BY DEF CheckReboot, TypeOK, Worker
<1> QED BY <1>1, <1>2, <1>3, <1>4, <1>5, <1>6, <1>7 DEF Phases

\* What the worker remembers is what it found.
LEMMA Finds ==
    ASSUME TypeOK
    PROVE  /\ Installed /\ worker'.ok
                 => worker.ok \/ (result[Current] = "ok" /\ Current \notin installing)
           /\ Health /\ worker'.ok => worker.ok
<1>1. Health /\ worker'.ok => worker.ok
  BY DEF Health, TypeOK, Worker
<1>2. ASSUME Installed, worker'.ok
      PROVE  worker.ok \/ (result[Current] = "ok" /\ Current \notin installing)
  <2>1. CASE Host = "vm1"
    BY <1>2, <2>1 DEF Installed, TypeOK, Worker
  <2>2. CASE Host # "vm1"
    BY <1>2, <2>2 DEF Installed, Goto, TypeOK, Worker
  <2> QED BY <2>1, <2>2
<1> QED BY <1>1, <1>2

-----------------------------------------------------------------------------
\* One installation per run: it is started by the worker that took the queued job,
\* and no step makes the job of a run queued again.
LEMMA StartsStep ==
    ASSUME TypeOK, StartsInv, InstalledOnce, [Next]_vars
    PROVE  StartsInv' /\ InstalledOnce'
<1> DEFINE Goal == StartsInv' /\ InstalledOnce'
<1> USE DEF StartsInv, InstalledOnce, Current
<1>1. ASSUME UNCHANGED <<jobs, worker, starts>> PROVE Goal
  BY <1>1
<1>2. ASSUME NEW p \in Panels, StartCommit(p) PROVE Goal
  <2>1. UNCHANGED <<worker, starts>>
    BY <1>2 DEF StartCommit, machine
  <2>2. PICK r \in RunIds : /\ jobs[r] = "none" /\ jobs'[r] = "queued"
                            /\ \A s \in RunIds \ {r} : jobs'[s] = jobs[s]
    BY <1>2, StartCommitRow
  <2>3. worker.run # 0 => worker.run \in RunIds
    BY HoldsRun DEF TypeOK
  <2> QED BY <2>1, <2>2, <2>3
<1>3. ASSUME UNCHANGED <<jobs, starts>>, worker' \in {Polling, Dead} PROVE Goal
  BY <1>3, Loses
<1>4. ASSUME NEW r \in RunIds, Claim(r) PROVE Goal
  <2>1. worker'.run = r /\ worker'.pc = "begin" /\ starts' = starts
    BY <1>4, Takes DEF Claim, machine
  <2>2. jobs[r] = "queued" /\ jobs'[r] = "running"
        /\ \A s \in RunIds \ {r} : jobs'[s] = jobs[s]
    BY <1>4 DEF Claim, TypeOK
  <2> QED BY <2>1, <2>2
<1>5. ASSUME Begin PROVE Goal
  <2>1. UNCHANGED <<jobs, starts>> /\ worker'.run = worker.run /\ worker.pc = "begin"
    BY <1>5, Moves DEF Begin, WorkerMoves, machine
  <2> QED BY <2>1
<1>6. ASSUME Backup PROVE Goal
  <2>1. UNCHANGED <<jobs, starts>> /\ worker'.run = worker.run /\ worker.pc = "backup"
    BY <1>6, Moves DEF Backup, WorkerMoves
  <2> QED BY <2>1
<1>7. ASSUME Install PROVE Goal
  <2>1. UNCHANGED jobs /\ worker'.run = worker.run /\ worker.pc = "dnf" /\ worker'.pc = "wait"
        /\ worker.run \in RunIds /\ worker.run # 0
    BY <1>7, Moves, Leads DEF Install, WorkerMoves
  <2>2. starts' = [starts EXCEPT ![worker.run] = @ + 1]
    BY <1>7 DEF Install
  <2>3. starts'[worker.run] = 1 /\ \A s \in RunIds \ {worker.run} : starts'[s] = starts[s]
    BY <2>1, <2>2 DEF TypeOK
  <2> QED BY <2>1, <2>3
<1>8. ASSUME Installed \/ Health \/ CheckReboot \/ Write \/ Finish \/ FinishAudit \/ GivesUp
      PROVE  Goal
  <2>1. UNCHANGED <<jobs, starts>>
    BY <1>8 DEF Installed, Health, CheckReboot, Write, Finish, FinishAudit, GivesUp, machine
  <2>2. worker'.run = worker.run /\ worker'.pc \notin {"begin", "backup", "dnf"}
    BY <1>8, Moves, Leads DEF WorkerMoves
  <2> QED BY <2>1, <2>2
<1>9. ASSUME FinishJob PROVE Goal
  <2>1. worker' = Polling /\ starts' = starts /\ Current \in RunIds
    BY <1>9, HoldsRun DEF FinishJob, machine
  <2>2. jobs'[Current] \in {"done", "failed"}
        /\ \A s \in RunIds \ {Current} : jobs'[s] = jobs[s]
    BY <1>9, <2>1 DEF FinishJob, TypeOK
  <2> QED BY <2>1, <2>2, Loses
<1>10. ASSUME TransactionFails PROVE Goal
  <2>1. UNCHANGED <<jobs, starts>>
    BY <1>10 DEF TransactionFails, machine
  <2>2. CASE Goto("fail") \/ Goto("error")
    <3>1. worker'.run = worker.run /\ worker'.pc \notin {"begin", "backup", "dnf"}
      BY <2>2, Goes DEF Phases
    <3> QED BY <2>1, <3>1
  <2> QED BY <1>10, <1>3, <2>1, <2>2 DEF TransactionFails
<1>11. ASSUME Restart PROVE Goal
  <2>1. worker' = Polling /\ starts' = starts
    BY <1>11 DEF Restart, machine
  <2>2. \A r \in RunIds : jobs'[r] \in {"none", "queued"} => jobs'[r] = jobs[r]
    BY <1>11, RestartRows
  <2> QED BY <2>1, <2>2, Loses
<1>12. ASSUME NEW h \in Hosts, Reboots(h) PROVE Goal
  BY <1>12, <1>1, <1>3 DEF Reboots
<1>13. ASSUME Crash PROVE Goal
  BY <1>13, <1>3 DEF Crash, machine
<1>14. ASSUME \/ \E p \in Panels, h \in Hosts : StartRead(p, h)
              \/ \E h \in Hosts : AskReboot(h)
              \/ RebootUnanswered
              \/ \E r \in RunIds : InstallEnds(r)
              \/ UNCHANGED vars
       PROVE  Goal
  BY <1>14, <1>1 DEF StartRead, AskReboot, RebootUnanswered, InstallEnds, vars, machine
<1> QED BY <1>2, <1>4, <1>5, <1>6, <1>7, <1>8, <1>9, <1>10, <1>11, <1>12, <1>13, <1>14
        DEF Next, WorkerStep

-----------------------------------------------------------------------------
\* The worker's verdict: it holds for the installation of its own run, which is
\* over, so nothing changes how it ended any more.
LEMMA OkStep ==
    ASSUME TypeOK, OkInv, [Next]_vars
    PROVE  OkInv'
<1> USE DEF OkInv, Current
<1>1. ASSUME UNCHANGED <<worker, result, installing>> PROVE OkInv'
  BY <1>1
<1>2. ASSUME worker' \in {Polling, Dead} PROVE OkInv'
  BY <1>2, Loses
<1>3. ASSUME NEW h \in Hosts, Reboots(h) PROVE OkInv'
  <2>1. CASE worker' = worker
    <3>1. worker.ok => worker.run \in RunIds
      BY HoldsRun DEF TypeOK
    <3>2. \A r \in RunIds \ installing : r \notin installing' /\ result'[r] = result[r]
      BY <1>3 DEF Reboots, TypeOK
    <3> QED BY <2>1, <3>1, <3>2
  <2> QED BY <1>2, <1>3, <2>1 DEF Reboots
<1>4. ASSUME NEW r \in RunIds, InstallEnds(r) PROVE OkInv'
  <2>1. worker' = worker /\ r \in installing /\ installing' = installing \ {r}
    BY <1>4 DEF InstallEnds
  <2>2. worker.ok => worker.run \in RunIds
    BY HoldsRun DEF TypeOK
  <2>3. \A s \in RunIds \ {r} : result'[s] = result[s]
    BY <1>4 DEF InstallEnds, TypeOK
  <2> QED BY <2>1, <2>2, <2>3
<1>5. ASSUME NEW r \in RunIds, Claim(r) PROVE OkInv'
  BY <1>5, Takes DEF Claim
<1>6. ASSUME Begin PROVE OkInv'
  <2>1. worker'.run = worker.run /\ worker'.ok = worker.ok /\ worker.pc = "begin"
    BY <1>6, Leads, Goes DEF Begin, Phases
  <2> QED BY <1>6, <2>1 DEF Begin, machine
<1>7. ASSUME Backup PROVE OkInv'
  BY <1>7, Moves, Leads DEF Backup, WorkerMoves
<1>8. ASSUME Install PROVE OkInv'
  <2>1. ~worker'.ok
    BY <1>8, Leads
  <2> QED BY <2>1
<1>9. ASSUME Installed \/ Health PROVE OkInv'
  <2>1. UNCHANGED <<result, installing>>
    BY <1>9 DEF Installed, Health, machine
  <2>2. worker'.run = worker.run /\ worker.run # 0
        /\ worker'.pc \notin {"begin", "backup", "dnf", "wait"}
    BY <1>9, Moves, Leads DEF WorkerMoves
  <2> QED BY <1>9, <2>1, <2>2, Finds
<1>10. ASSUME CheckReboot \/ Write \/ Finish \/ FinishAudit \/ GivesUp PROVE OkInv'
  <2>1. UNCHANGED <<result, installing>>
    BY <1>10 DEF CheckReboot, Write, Finish, FinishAudit, GivesUp, machine
  <2>2. worker'.run = worker.run /\ worker.run # 0 /\ worker'.ok = worker.ok
        /\ worker'.pc \notin {"begin", "backup", "dnf", "wait"}
    BY <1>10, Moves, Leads DEF WorkerMoves
  <2> QED BY <2>1, <2>2
<1>11. ASSUME TransactionFails PROVE OkInv'
  <2>1. UNCHANGED <<result, installing>>
    BY <1>11 DEF TransactionFails, machine
  <2>2. CASE Goto("fail") \/ Goto("error")
    <3>1. worker'.run = worker.run /\ worker'.ok = worker.ok
          /\ worker'.pc \notin {"begin", "backup", "dnf", "wait"}
      BY <2>2, Goes DEF Phases
    <3> QED BY <2>1, <3>1
  <2> QED BY <1>11, <1>2, <2>2 DEF TransactionFails
<1>12. ASSUME FinishJob \/ Crash \/ Restart PROVE OkInv'
  BY <1>12, <1>2 DEF FinishJob, Crash, Restart
<1>13. ASSUME \/ \E p \in Panels, h \in Hosts : StartRead(p, h)
              \/ \E p \in Panels : StartCommit(p)
              \/ \E h \in Hosts : AskReboot(h)
              \/ RebootUnanswered
              \/ UNCHANGED vars
       PROVE  OkInv'
  BY <1>13, <1>1 DEF StartRead, StartCommit, AskReboot, RebootUnanswered, vars, machine
<1> QED BY <1>3, <1>4, <1>5, <1>6, <1>7, <1>8, <1>9, <1>10, <1>11, <1>12, <1>13
        DEF Next, WorkerStep

\* Success: it is written for an installation that is over and ended well, and a
\* successful run is not installed again.
LEMMA SuccessStep ==
    ASSUME TypeOK, StartsInv, OkInv, SuccessInv, SuccessIsTruthful, [Next]_vars
    PROVE  SuccessInv' /\ SuccessIsTruthful'
<1> DEFINE Goal == SuccessInv' /\ SuccessIsTruthful'
<1> USE DEF SuccessInv, SuccessIsTruthful, Current
<1>1. ASSUME UNCHANGED <<worker, result, installing>>,
             \A r \in RunIds : runs'[r].st = runs[r].st
      PROVE  Goal
  <2>1. worker.pc \in {"backup", "dnf"} => worker.run \in RunIds
    BY HoldsRun
  <2> QED BY <1>1, <2>1
<1>2. ASSUME UNCHANGED <<result, installing>>,
             worker'.pc \notin {"backup", "dnf"},
             \A r \in RunIds : runs'[r].st = "success" => runs[r].st = "success"
      PROVE  Goal
  BY <1>2
<1>3. ASSUME NEW h \in Hosts, Reboots(h) PROVE Goal
  <2>1. runs' = runs /\ (worker' = worker \/ worker'.pc \notin {"backup", "dnf"})
    BY <1>3, Values DEF Reboots
  <2>2. \A r \in RunIds \ installing : r \notin installing' /\ result'[r] = result[r]
    BY <1>3 DEF Reboots, TypeOK
  <2> QED BY <2>1, <2>2
<1>4. ASSUME NEW r \in RunIds, InstallEnds(r) PROVE Goal
  <2>1. UNCHANGED <<runs, worker>> /\ r \in installing /\ installing' = installing \ {r}
    BY <1>4 DEF InstallEnds
  <2>2. \A s \in RunIds \ {r} : result'[s] = result[s]
    BY <1>4 DEF InstallEnds, TypeOK
  <2> QED BY <2>1, <2>2
<1>5. ASSUME NEW p \in Panels, StartCommit(p) PROVE Goal
  <2>1. UNCHANGED <<worker, result, installing>>
    BY <1>5 DEF StartCommit, machine
  <2>2. \A r \in RunIds : runs'[r].st = "running" \/ runs'[r].st = runs[r].st
    BY <1>5, StartCommitRow
  <2>3. worker.pc \in {"backup", "dnf"} => worker.run \in RunIds
    BY HoldsRun
  <2> QED BY <2>1, <2>2, <2>3
<1>6. ASSUME Begin PROVE Goal
  <2>1. UNCHANGED <<result, installing>> /\ worker'.run = worker.run
    BY <1>6, Moves DEF Begin, WorkerMoves, machine
  <2>2. worker.run \in RunIds /\ runs'[worker.run].st = "running"
        /\ \A s \in RunIds \ {worker.run} : runs'[s] = runs[s]
    BY <1>6, Moves, WorkerRow
  <2> QED BY <2>1, <2>2
<1>7. ASSUME Backup PROVE Goal
  <2>1. UNCHANGED <<runs, result, installing>> /\ worker'.run = worker.run /\ worker.pc = "backup"
    BY <1>7, Moves, Leads DEF Backup, WorkerMoves
  <2> QED BY <2>1
<1>8. ASSUME Install PROVE Goal
  <2>1. UNCHANGED <<runs, result>> /\ installing' = installing \cup {worker.run}
        /\ worker.pc = "dnf" /\ worker'.pc = "wait"
    BY <1>8, Leads DEF Install
  <2> QED BY <2>1
<1>9. ASSUME Finish PROVE Goal
  <2>1. UNCHANGED <<result, installing>>
    BY <1>9 DEF Finish, machine
  <2>2. worker'.pc \notin {"backup", "dnf"}
    BY <1>9, Leads
  <2>3. worker.run \in RunIds /\ (runs'[worker.run].st = "success" => worker.ok)
        /\ \A s \in RunIds \ {worker.run} : runs'[s] = runs[s]
    BY <1>9, Moves, WorkerRow
  <2> QED BY <2>1, <2>2, <2>3 DEF OkInv
<1>10. ASSUME Write PROVE Goal
  <2>1. UNCHANGED <<result, installing>> /\ worker'.pc \notin {"backup", "dnf"}
    BY <1>10, Leads DEF Write, machine
  <2>2. \A r \in RunIds : runs'[r].st = runs[r].st
    BY <1>10, Moves, WorkerRow
  <2> QED BY <1>2, <2>1, <2>2
<1>11. ASSUME NEW r \in RunIds, Claim(r) PROVE Goal
  BY <1>11, <1>2, Takes DEF Claim, machine
<1>12. ASSUME Installed \/ Health \/ CheckReboot \/ FinishAudit \/ GivesUp PROVE Goal
  <2>1. UNCHANGED <<runs, result, installing>>
    BY <1>12 DEF Installed, Health, CheckReboot, FinishAudit, GivesUp, machine
  <2>2. worker'.pc \notin {"backup", "dnf"}
    BY <1>12, Leads
  <2> QED BY <1>2, <2>1, <2>2
<1>13. ASSUME TransactionFails PROVE Goal
  <2>1. UNCHANGED <<runs, result, installing>>
    BY <1>13 DEF TransactionFails, machine
  <2>2. worker'.pc \notin {"backup", "dnf"}
    BY <1>13, Goes, Values DEF TransactionFails, Phases
  <2> QED BY <1>2, <2>1, <2>2
<1>14. ASSUME FinishJob \/ Crash PROVE Goal
  <2>1. UNCHANGED <<runs, result, installing>> /\ worker' \in {Polling, Dead}
    BY <1>14 DEF FinishJob, Crash, machine
  <2> QED BY <1>2, <2>1, Loses
<1>15. ASSUME Restart PROVE Goal
  <2>1. UNCHANGED <<result, installing>> /\ worker' = Polling
    BY <1>15 DEF Restart, machine
  <2>2. \A r \in RunIds : runs'[r].st = "success" => runs[r].st = "success"
    BY <1>15, RestartRows
  <2> QED BY <1>2, <2>1, <2>2, Loses
<1>16. ASSUME NEW h \in Hosts, AskReboot(h) PROVE Goal
  <2>1. UNCHANGED <<worker, result, installing>>
    BY <1>16 DEF AskReboot
  <2> QED BY <1>1, <1>16, <2>1, AskRebootRows
<1>17. ASSUME \/ \E p \in Panels, h \in Hosts : StartRead(p, h)
              \/ RebootUnanswered
              \/ UNCHANGED vars
       PROVE  Goal
  BY <1>17, <1>1 DEF StartRead, RebootUnanswered, vars, machine
<1> QED BY <1>3, <1>4, <1>5, <1>6, <1>7, <1>8, <1>9, <1>10, <1>11, <1>12, <1>13, <1>14,
           <1>15, <1>16, <1>17
        DEF Next, WorkerStep

\* Closing: without a failed transaction the run is closed before its job is, and
\* whoever fails the job of a dead worker fails the run with it.
LEMMA ClosedStep ==
    ASSUME TypeOK, StartsInv, ClosedInv, NoStuckRun, [Next]_vars
    PROVE  ClosedInv' /\ NoStuckRun'
<1> DEFINE Goal == ClosedInv' /\ NoStuckRun'
           Closing == {"audit", "failaudit", "closed", "error"}
<1> USE DEF ClosedInv, NoStuckRun, Current
<1>0. /\ worker.run # 0 => worker.run \in RunIds /\ jobs[worker.run] = "running"
      /\ worker.pc \in Closing => worker.run \in RunIds
  BY HoldsRun DEF TypeOK, StartsInv
<1>1. ASSUME faults' # 0 PROVE Goal
  BY <1>1
<1>2. ASSUME UNCHANGED <<jobs, faults>>, worker' = worker \/ worker'.pc \notin Closing,
             \A r \in RunIds : runs'[r].st = runs[r].st
      PROVE  Goal
  BY <1>2, <1>0
<1>3. ASSUME NEW p \in Panels, StartCommit(p) PROVE Goal
  <2>1. UNCHANGED <<worker, faults>>
    BY <1>3 DEF StartCommit, bounds
  <2>2. PICK r \in RunIds : /\ jobs[r] = "none" /\ jobs'[r] = "queued"
                            /\ \A s \in RunIds \ {r} : runs'[s] = runs[s] /\ jobs'[s] = jobs[s]
    BY <1>3, StartCommitRow
  <2>3. worker.pc \in Closing => worker.run # r
    BY <1>0, <2>2, HoldsRun
  <2> QED BY <1>0, <2>1, <2>2, <2>3
<1>4. ASSUME NEW r \in RunIds, Claim(r) PROVE Goal
  <2>1. worker'.pc \notin Closing /\ UNCHANGED <<runs, faults>>
    BY <1>4, Takes DEF Claim, bounds
  <2>2. \A s \in RunIds : jobs'[s] \in {"done", "failed"} => jobs[s] \in {"done", "failed"}
    BY <1>4 DEF Claim, TypeOK
  <2> QED BY <2>1, <2>2
<1>5. ASSUME Begin \/ Write PROVE Goal
  <2>1. UNCHANGED <<jobs, faults>> /\ worker'.pc \notin Closing
    BY <1>5, Leads, Goes DEF Begin, Write, bounds, Phases
  <2>2. /\ worker.run \in RunIds /\ jobs[worker.run] = "running"
        /\ \A s \in RunIds \ {worker.run} : runs'[s] = runs[s]
    BY <1>5, <1>0, Moves, WorkerRow
  <2> QED BY <2>1, <2>2
<1>6. ASSUME Finish PROVE Goal
  <2>1. UNCHANGED <<jobs, faults>> /\ worker'.run = worker.run
    BY <1>6, Moves DEF Finish, WorkerMoves, bounds
  <2>2. /\ worker.run \in RunIds /\ runs'[worker.run].st # "running"
        /\ \A s \in RunIds \ {worker.run} : runs'[s] = runs[s]
    BY <1>6, Moves, WorkerRow
  <2> QED BY <2>1, <2>2
<1>7. ASSUME FinishAudit PROVE Goal
  <2>1. UNCHANGED <<runs, jobs, faults>> /\ worker'.run = worker.run /\ worker.pc \in Closing
    BY <1>7, Moves, Leads DEF FinishAudit, WorkerMoves, bounds
  <2> QED BY <2>1
<1>8. ASSUME FinishJob PROVE Goal
  <2>1. UNCHANGED <<runs, faults>> /\ worker' = Polling /\ worker.pc \in Closing
    BY <1>8 DEF FinishJob, bounds
  <2>2. \A s \in RunIds \ {worker.run} : jobs'[s] = jobs[s]
    BY <1>8 DEF FinishJob, TypeOK
  <2> QED BY <2>1, <2>2, Loses
<1>9. ASSUME Restart PROVE Goal
  <2>1. worker' = Polling /\ UNCHANGED faults
    BY <1>9 DEF Restart, bounds
  <2>2. \A r \in RunIds : runs'[r].st # "running"
    BY <1>9, RestartRows
  <2> QED BY <2>1, <2>2, Loses
<1>10. ASSUME Installed \/ Health \/ CheckReboot \/ Backup \/ Install PROVE Goal
  <2>1. UNCHANGED <<runs, jobs, faults>>
    BY <1>10 DEF Installed, Health, CheckReboot, Backup, Install, machine, bounds
  <2>2. worker'.pc \notin Closing
    BY <1>10, Leads
  <2> QED BY <1>2, <2>1, <2>2
<1>11. ASSUME RebootUnanswered \/ TransactionFails \/ GivesUp PROVE Goal
  BY <1>11, <1>1 DEF RebootUnanswered, TransactionFails, GivesUp, TypeOK
<1>12. ASSUME Crash PROVE Goal
  BY <1>12, <1>2, Loses DEF Crash, machine
<1>13. ASSUME NEW h \in Hosts, AskReboot(h) PROVE Goal
  <2>1. UNCHANGED <<worker, jobs, faults>>
    BY <1>13 DEF AskReboot
  <2> QED BY <1>2, <1>13, <2>1, AskRebootRows
<1>14. ASSUME \/ \E p \in Panels, h \in Hosts : StartRead(p, h)
              \/ \E h \in Hosts : Reboots(h)
              \/ \E r \in RunIds : InstallEnds(r)
              \/ UNCHANGED vars
       PROVE  Goal
  <2>1. UNCHANGED <<runs, jobs, faults>> /\ (worker' = worker \/ worker'.pc \notin Closing)
    BY <1>14, Values DEF StartRead, Reboots, InstallEnds, vars, bounds
  <2> QED BY <1>2, <2>1
<1> QED BY <1>3, <1>4, <1>5, <1>6, <1>7, <1>8, <1>9, <1>10, <1>11, <1>12, <1>13, <1>14
        DEF Next, WorkerStep

-----------------------------------------------------------------------------
(* The theorems. *)

IInv == /\ TypeOK /\ StartsInv /\ InstalledOnce /\ OkInv
        /\ SuccessInv /\ SuccessIsTruthful /\ ClosedInv /\ NoStuckRun

LEMMA InitIInv == Init => IInv
<1> SUFFICES ASSUME Init PROVE IInv
  OBVIOUS
<1>1. /\ NoRun.st = "none" /\ NoRun \in RunRow
  BY DEF NoRun, RunRow
<1>2. \A r \in RunIds : runs[r].st = "none" /\ jobs[r] = "none" /\ starts[r] = 0
  BY <1>1 DEF Init
<1>3. TypeOK
  <2>1. runs \in [RunIds -> RunRow] /\ worker \in Worker
    BY <1>1, Values DEF Init
  <2> QED BY <1>2, <2>1, Values, SystemUpdateAssumption DEF Init, TypeOK
<1>4. StartsInv /\ InstalledOnce
  BY <1>2, Values DEF Init, StartsInv, InstalledOnce, Current
<1>5. OkInv /\ SuccessInv /\ SuccessIsTruthful /\ ClosedInv /\ NoStuckRun
  BY <1>2, Values DEF Init, OkInv, SuccessInv, SuccessIsTruthful, ClosedInv, NoStuckRun, Current
<1> QED BY <1>3, <1>4, <1>5 DEF IInv

LEMMA NextIInv == IInv /\ [Next]_vars => IInv'
BY TypeStep, StartsStep, OkStep, SuccessStep, ClosedStep DEF IInv

LEMMA Invariant == Spec => []IInv
BY InitIInv, NextIInv, PTL DEF Spec

\* Every reachable state has its types, and a run has its job: nothing the panel,
\* the worker, its reaper or a machine does leaves one without the other.
THEOREM TypeCorrect == Spec => []TypeOK
<1>1. IInv => TypeOK
  BY DEF IInv
<1> QED BY <1>1, Invariant, PTL

\* However often the worker crashes, a transaction fails or a machine is rebooted,
\* the packages of a run are installed at most once.
THEOREM InstallsOnce == Spec => []InstalledOnce
<1>1. IInv => InstalledOnce
  BY DEF IInv
<1> QED BY <1>1, Invariant, PTL

\* The panel never shows a run as successful whose installation failed, was cut
\* off by a reboot or is still going on.
THEOREM SuccessMeansInstalled ==
    Spec => [](\A r \in RunIds : runs[r].st = "success" =>
                  result[r] = "ok" /\ r \notin installing)
<1>1. IInv => \A r \in RunIds : runs[r].st = "success" => result[r] = "ok" /\ r \notin installing
  BY DEF IInv, SuccessInv, SuccessIsTruthful
<1> QED BY <1>1, Invariant, PTL

\* The same as the runs check it: success is shown for installed packages only.
THEOREM SuccessIsTrue == Spec => []SuccessIsTruthful
<1>1. IInv => SuccessIsTruthful
  BY DEF IInv
<1> QED BY <1>1, Invariant, PTL

\* As long as no transaction fails and no call is given up, a job that has ended
\* has closed its run, so the next update of the machine can start.
THEOREM NoRunIsStuck == Spec => []NoStuckRun
<1>1. IInv => NoStuckRun
  BY DEF IInv
<1> QED BY <1>1, Invariant, PTL

-----------------------------------------------------------------------------
(***************************************************************************)
(* The update of the application: AppUpdate, for every number of versions, *)
(* runs, faults and reboots.                                               *)
(***************************************************************************)

\* The versions: nothing is older than what master was when the button was pressed.
VersionsInv ==
    /\ DOMAIN pc = Machines
    /\ base <= remote
    /\ \A m \in Machines : repo[m] <= remote

\* VM2 is at work only for the run that waits for it, and leaves its result.
Vm2Inv ==
    Undisturbed =>
        /\ Active("vm2") => pc["vm1"] = "poll"
        /\ ~Active("vm2") => file["vm2"] # "running"

\* What VM2 fetched and deployed for this run is not older than the run.
FreshVm2Inv ==
    Undisturbed =>
        /\ pc["vm2"] \in {"deploy", "verify"} => repo["vm2"] >= base
        /\ pc["vm2"] = "verify" => code["vm2"] >= base
        /\ pc["vm1"] = "poll" /\ ~Active("vm2") /\ file["vm2"] = "success"
              => code["vm2"] >= base
        /\ pc["vm1"] \in Updating => code["vm2"] >= base

\* VM1, which comes after it, fetches what this run is for whatever failed before.
FreshVm1Inv ==
    /\ pc["vm1"] \in {"deploy", "verify"} => repo["vm1"] >= base
    /\ pc["vm1"] = "verify" => code["vm1"] >= base
    /\ file["vm1"] = "success" => code["vm1"] >= base /\ (Undisturbed => code["vm2"] >= base)

\* Faults and reboots are counted.
CountInv == appFaults \in Nat /\ appReboots \in Nat

AppIInv == AppTypeOK /\ VersionsInv /\ CountInv /\ Vm2Inv /\ FreshVm2Inv /\ FreshVm1Inv

-----------------------------------------------------------------------------
\* A unit that goes on, or ends, changes the pc of its own machine and, at its end,
\* its state file.
LEMMA PcOf ==
    ASSUME AppTypeOK, DOMAIN pc = Machines, NEW m \in Machines, NEW next,
           pc' = [pc EXCEPT ![m] = next]
    PROVE  /\ DOMAIN pc' = Machines /\ pc'[m] = next
           /\ \A n \in Machines \ {m} : pc'[n] = pc[n]
OBVIOUS

LEMMA EndsOf ==
    ASSUME AppTypeOK, DOMAIN pc = Machines, NEW m \in Machines, NEW state \in FileStates,
           Ends(m, state)
    PROVE  /\ DOMAIN pc' = Machines /\ pc'[m] = "none"
           /\ file' \in [Machines -> FileStates] /\ file'[m] = state
           /\ \A n \in Machines \ {m} : pc'[n] = pc[n] /\ file'[n] = file[n]
BY DEF Ends, AppTypeOK

-----------------------------------------------------------------------------
\* Types, and versions that only grow: a deployment takes what was fetched, and
\* what is fetched is on master.
LEMMA AppTypeStep ==
    ASSUME AppTypeOK, VersionsInv, [AppNext]_appVars
    PROVE  AppTypeOK' /\ VersionsInv'
<1> DEFINE Goal == AppTypeOK' /\ VersionsInv'
<1> USE AppUpdateAssumption DEF VersionsInv
<1>1. ASSUME Push PROVE Goal
  BY <1>1 DEF Push, AppTypeOK, Versions, Active, appBounds
<1>2. ASSUME SystemUpdateStep PROVE Goal
  <2>1. job' \in {"none", "queued", "running"}
    BY <1>2 DEF SystemUpdateStep, AppTypeOK
  <2> QED BY <1>2, <2>1 DEF SystemUpdateStep, AppTypeOK, Active, appBounds
<1>3. ASSUME Start PROVE Goal
  <2>1. /\ DOMAIN pc' = Machines /\ pc'["vm1"] = "post" /\ pc'["vm2"] = pc["vm2"]
        /\ file' \in [Machines -> FileStates] /\ file'["vm1"] = "running"
        /\ file'["vm2"] = file["vm2"]
    BY <1>3 DEF Start, AppTypeOK, Machines, FileStates
  <2> QED BY <1>3, <2>1 DEF Start, AppTypeOK, Active, Machines, Pcs, Updating, Versions
<1>4. ASSUME Post PROVE Goal
  <2>1. /\ DOMAIN pc' = Machines /\ pc["vm1"] = "post" /\ pc'["vm1"] = "poll"
        /\ pc'["vm2"] = IF Active("vm2") THEN pc["vm2"] ELSE "local"
    BY <1>4 DEF Post, Machines
  <2> QED BY <1>4, <2>1 DEF Post, AppTypeOK, Active, Machines, Pcs, Updating, appBounds
<1>5. ASSUME PostFails PROVE Goal
  <2>1. /\ DOMAIN pc' = Machines /\ pc'["vm1"] = "none"
        /\ pc'["vm2"] \in {pc["vm2"], "local"}
        /\ file' \in [Machines -> FileStates] /\ file'["vm2"] = file["vm2"]
    BY <1>5 DEF PostFails, AppTypeOK, Machines, FileStates
  <2> QED BY <1>5, <2>1 DEF PostFails, AppTypeOK, Active, Machines, Pcs, Updating
<1>13. ASSUME PostSkips PROVE Goal
  <2>1. /\ DOMAIN pc' = Machines /\ pc["vm1"] = "post" /\ pc'["vm1"] = "preflight"
        /\ pc'["vm2"] = pc["vm2"]
    BY <1>13 DEF PostSkips, Machines
  <2> QED BY <1>13, <2>1 DEF PostSkips, AppTypeOK, Active, Machines, Pcs, Updating
<1>6. ASSUME Poll \/ GiveUp PROVE Goal
  <2>1. "vm1" \in Machines /\ pc["vm1"] = "poll" /\ file["vm1"] = "running"
    BY <1>6 DEF Poll, GiveUp, Expires, Machines, AppTypeOK, Active
  <2>2. CASE Ends("vm1", "failed")
    <3>1. /\ DOMAIN pc' = Machines /\ pc'["vm1"] = "none" /\ pc'["vm2"] = pc["vm2"]
          /\ file' \in [Machines -> FileStates] /\ file'["vm2"] = file["vm2"]
      BY <2>1, <2>2, EndsOf DEF Machines, FileStates
    <3> QED BY <1>6, <2>1, <3>1
            DEF Poll, GiveUp, AppTypeOK, Active, Machines, Pcs, Updating, appBounds
  <2>3. CASE pc' = [pc EXCEPT !["vm1"] = "preflight"] /\ UNCHANGED file
    <3>1. DOMAIN pc' = Machines /\ pc'["vm1"] = "preflight" /\ pc'["vm2"] = pc["vm2"]
      BY <2>3 DEF Machines
    <3> QED BY <1>6, <2>1, <2>3, <3>1
            DEF Poll, GiveUp, AppTypeOK, Active, Machines, Pcs, Updating, appBounds
  <2> QED BY <1>6, <2>2, <2>3 DEF Poll, GiveUp
<1>7. ASSUME RunLocal PROVE Goal
  <2>1. /\ DOMAIN pc' = Machines /\ pc'["vm2"] = "preflight" /\ pc'["vm1"] = pc["vm1"]
        /\ file' \in [Machines -> FileStates] /\ file'["vm2"] = "running"
        /\ file'["vm1"] = file["vm1"]
    BY <1>7 DEF RunLocal, AppTypeOK, Machines, FileStates
  <2> QED BY <1>7, <2>1 DEF RunLocal, AppTypeOK, Active, Machines, Pcs, Updating, appBounds
<1>8. ASSUME NEW m \in Machines, Preflight(m) \/ Fetch(m) \/ Deploy(m) PROVE Goal
  <2>1. PICK next \in Updating : pc' = [pc EXCEPT ![m] = next] /\ pc[m] \in Updating
    BY <1>8 DEF Preflight, Fetch, Deploy, Updating
  <2>2. /\ DOMAIN pc' = Machines /\ pc'[m] = next
        /\ \A n \in Machines \ {m} : pc'[n] = pc[n]
    BY <2>1, PcOf
  <2>3. file' = file /\ base' = base /\ remote' = remote /\ cut' \in BOOLEAN
        /\ job' \in {"none", "queued", "running"} /\ UNCHANGED appBounds
    BY <1>8 DEF Preflight, Fetch, Deploy, AppTypeOK, appBounds
  <2>4. /\ repo' \in [Machines -> Versions] /\ code' \in [Machines -> Versions]
        /\ \A n \in Machines : repo'[n] <= remote
    BY <1>8 DEF Preflight, Fetch, Deploy, AppTypeOK, Versions
  <2>5. /\ \A n \in Machines : pc'[n] \in Pcs[n]
        /\ pc'["vm1"] # "none" => file["vm1"] = "running"
        /\ pc'["vm2"] \in Updating => file["vm2"] = "running"
    BY <2>1, <2>2 DEF AppTypeOK, Active, Machines, Pcs, Updating
  <2> QED BY <2>2, <2>3, <2>4, <2>5 DEF AppTypeOK, Active, appBounds
<1>9. ASSUME NEW m \in Machines, NEW state \in {"success", "failed"}, Ends(m, state),
             UNCHANGED <<remote, repo, code, base, job, cut, appBounds>>
      PROVE  Goal
  <2>1. /\ DOMAIN pc' = Machines /\ pc'[m] = "none"
        /\ file' \in [Machines -> FileStates] /\ file'[m] = state
        /\ \A n \in Machines \ {m} : pc'[n] = pc[n] /\ file'[n] = file[n]
    BY <1>9, EndsOf DEF FileStates
  <2>2. /\ \A n \in Machines : pc'[n] \in Pcs[n]
        /\ pc'["vm1"] # "none" => file'["vm1"] = "running"
        /\ pc'["vm2"] \in Updating => file'["vm2"] = "running"
    BY <2>1 DEF AppTypeOK, Active, Machines, Pcs, Updating
  <2> QED BY <1>9, <2>1, <2>2 DEF AppTypeOK, Active, appBounds
<1>10. ASSUME NEW m \in Machines, Reboot(m) PROVE Goal
  <2>1. /\ DOMAIN pc' = Machines /\ pc'[m] = "none"
        /\ \A n \in Machines \ {m} : pc'[n] = pc[n]
    BY <1>10, PcOf DEF Reboot
  <2>2. /\ \A n \in Machines : pc'[n] \in Pcs[n]
        /\ pc'["vm1"] # "none" => file["vm1"] = "running"
        /\ pc'["vm2"] \in Updating => file["vm2"] = "running"
    BY <2>1 DEF AppTypeOK, Active, Machines, Pcs, Updating
  <2>3. job' \in {"none", "queued", "running"}
    BY <1>10 DEF Reboot, AppTypeOK
  <2> QED BY <1>10, <2>1, <2>2, <2>3 DEF Reboot, AppTypeOK, Active
<1>11. CASE UNCHANGED appVars
  BY <1>11 DEF appVars, AppTypeOK, Active, appBounds
<1>12. ASSUME NEW m \in Machines, Verified(m) \/ UpdateFails(m) PROVE Goal
  BY <1>9, <1>12 DEF Verified, UpdateFails
<1> QED BY <1>1, <1>2, <1>3, <1>4, <1>5, <1>6, <1>7, <1>8, <1>10, <1>11, <1>12, <1>13
        DEF AppNext, RunAll, Update

-----------------------------------------------------------------------------
\* Nothing is disturbed by a step that leaves no trace of it.
LEMMA Quiet ==
    ASSUME AppTypeOK, Vm2Inv, Undisturbed', [AppNext]_appVars,
           CountInv
    PROVE  /\ Undisturbed /\ ~PostFails /\ ~PostSkips /\ ~GiveUp
           /\ \A m \in Machines : ~Reboot(m)
<1>1. ~PostFails /\ ~PostSkips /\ \A m \in Machines : ~Reboot(m)
  BY DEF Undisturbed, CountInv, PostFails, PostSkips, Reboot
<1>2. Undisturbed
  <2>1. CASE GiveUp
    BY <2>1, <1>1 DEF GiveUp, Expires, Undisturbed, CountInv
  <2>2. CASE ~GiveUp
    BY <2>2, <1>1 DEF AppNext, RunAll, Update, Undisturbed, Push, SystemUpdateStep, Start, Post,
       Poll, RunLocal, Preflight, Fetch, Deploy, Verified, UpdateFails, appVars, appBounds
  <2> QED BY <2>1, <2>2
<1>3. ~GiveUp
  BY <1>2 DEF GiveUp, Expires, Undisturbed, Vm2Inv, Active
<1> QED BY <1>1, <1>2, <1>3

LEMMA CountStep == CountInv /\ [AppNext]_appVars => CountInv'
BY DEF CountInv, AppNext, RunAll, Update, Push, SystemUpdateStep, Start, Post, PostFails,
       PostSkips, Poll, GiveUp, Expires, RunLocal, Preflight, Fetch, Deploy, Verified, UpdateFails, Reboot,
       appVars, appBounds

-----------------------------------------------------------------------------
\* Undisturbed, VM2 works for the run that waits for it, so what VM1 reads in its
\* state file is the result of this run; VM1 deploys after that.
LEMMA FreshStep ==
    ASSUME AppTypeOK, VersionsInv, CountInv, Vm2Inv, FreshVm2Inv, FreshVm1Inv, [AppNext]_appVars
    PROVE  Vm2Inv' /\ FreshVm2Inv' /\ (Undisturbed' => FreshVm1Inv')
<1> DEFINE Goal == Vm2Inv' /\ FreshVm2Inv' /\ FreshVm1Inv'
<1> SUFFICES ASSUME Undisturbed' PROVE Goal
  BY DEF Vm2Inv, FreshVm2Inv
<1> /\ Undisturbed /\ ~PostFails /\ ~PostSkips /\ ~GiveUp
    /\ \A m \in Machines : ~Reboot(m)
  BY Quiet
<1> USE DEF Vm2Inv, FreshVm2Inv, FreshVm1Inv, VersionsInv, Active
<1> /\ remote \in Nat /\ base \in Nat
    /\ \A m \in Machines : repo[m] \in Nat /\ code[m] \in Nat
  BY AppUpdateAssumption DEF AppTypeOK, Versions
<1> "vm1" \in Machines /\ "vm2" \in Machines /\ Machines = {"vm1", "vm2"}
  BY DEF Machines
<1>1. ASSUME UNCHANGED <<pc, file, repo, code, base>> PROVE Goal
  BY <1>1
<1>2. ASSUME Start PROVE Goal
  <2>1. /\ pc["vm1"] = "none" /\ pc'["vm1"] = "post" /\ pc'["vm2"] = pc["vm2"]
        /\ file'["vm1"] = "running" /\ file'["vm2"] = file["vm2"]
        /\ UNCHANGED <<repo, code>>
    BY <1>2 DEF Start, AppTypeOK
  <2> QED BY <2>1 DEF Updating
<1>3. ASSUME Post PROVE Goal
  <2>1. /\ pc["vm1"] = "post" /\ pc'["vm1"] = "poll"
        /\ pc'["vm2"] = IF Active("vm2") THEN pc["vm2"] ELSE "local"
        /\ UNCHANGED <<repo, code, file, base>>
    BY <1>3 DEF Post
  <2> QED BY <2>1 DEF Updating
<1>4. ASSUME Poll PROVE Goal
  <2>1. /\ pc["vm1"] = "poll" /\ ~Active("vm2") /\ file["vm2"] # "running"
        /\ UNCHANGED <<repo, code, base>>
    BY <1>4 DEF Poll
  <2>2. CASE file["vm2"] = "success"
    <3>1. pc'["vm1"] = "preflight" /\ pc'["vm2"] = pc["vm2"] /\ UNCHANGED file
      BY <1>4, <2>2 DEF Poll
    <3> QED BY <2>1, <2>2, <3>1 DEF Updating
  <2>3. CASE file["vm2"] # "success"
    <3>1. Ends("vm1", "failed")
      BY <1>4, <2>3 DEF Poll
    <3>2. /\ pc'["vm1"] = "none" /\ pc'["vm2"] = pc["vm2"]
          /\ file'["vm1"] = "failed" /\ file'["vm2"] = file["vm2"]
      BY <3>1, EndsOf DEF FileStates
    <3> QED BY <2>1, <3>2 DEF Updating
  <2> QED BY <2>2, <2>3
<1>5. ASSUME RunLocal PROVE Goal
  <2>1. /\ pc["vm2"] = "local" /\ pc'["vm2"] = "preflight" /\ pc'["vm1"] = pc["vm1"]
        /\ file'["vm1"] = file["vm1"]
        /\ UNCHANGED <<repo, code, base>>
    BY <1>5 DEF RunLocal, AppTypeOK
  <2> QED BY <2>1 DEF Updating
<1>6. ASSUME NEW m \in Machines, Preflight(m) PROVE Goal
  <2>1. /\ pc[m] = "preflight" /\ pc'[m] = "fetch"
        /\ \A n \in Machines \ {m} : pc'[n] = pc[n]
        /\ UNCHANGED <<repo, code, file, base>>
    BY <1>6 DEF Preflight
  <2> QED BY <2>1 DEF Updating
<1>7. ASSUME NEW m \in Machines, Fetch(m) PROVE Goal
  <2>1. /\ pc[m] = "fetch" /\ pc'[m] = "deploy"
        /\ \A n \in Machines \ {m} : pc'[n] = pc[n]
        /\ repo'[m] = remote /\ \A n \in Machines \ {m} : repo'[n] = repo[n]
        /\ UNCHANGED <<code, file, base>>
    BY <1>7 DEF Fetch, AppTypeOK
  <2> QED BY <2>1 DEF Updating
<1>8. ASSUME NEW m \in Machines, Deploy(m) PROVE Goal
  <2>1. /\ pc[m] = "deploy" /\ pc'[m] = "verify"
        /\ \A n \in Machines \ {m} : pc'[n] = pc[n]
        /\ code'[m] = repo[m] /\ \A n \in Machines \ {m} : code'[n] = code[n]
        /\ UNCHANGED <<repo, file, base>>
    BY <1>8 DEF Deploy, AppTypeOK
  <2>2. file["vm1"] = "running"
    <3>1. pc["vm1"] # "none"
      BY <2>1
    <3> QED BY <3>1 DEF AppTypeOK
  <2> QED BY <2>1, <2>2 DEF Updating
<1>9. ASSUME NEW m \in Machines, Verified(m) \/ UpdateFails(m) PROVE Goal
  <2>1. pc[m] \in Updating /\ (Verified(m) => pc[m] = "verify") /\ UNCHANGED <<repo, code, base>>
    BY <1>9 DEF Verified, UpdateFails, Updating
  <2>2. PICK state \in {"success", "failed"} : Ends(m, state) /\ (state = "success" => Verified(m))
    BY <1>9 DEF Verified, UpdateFails
  <2>3. /\ pc'[m] = "none" /\ file'[m] = state
        /\ \A n \in Machines \ {m} : pc'[n] = pc[n] /\ file'[n] = file[n]
    BY <2>2, EndsOf DEF FileStates
  <2>4. CASE m = "vm1"
    BY <2>1, <2>2, <2>3, <2>4 DEF Updating
  <2>5. CASE m = "vm2"
    <3>1. file["vm1"] = "running"
      BY <2>1, <2>5 DEF AppTypeOK, Updating
    <3> QED BY <2>1, <2>2, <2>3, <2>5, <3>1 DEF Updating
  <2> QED BY <2>4, <2>5
<1>10. ASSUME Push \/ SystemUpdateStep \/ UNCHANGED appVars PROVE Goal
  BY <1>1, <1>10 DEF Push, SystemUpdateStep, appVars
<1> QED BY <1>2, <1>3, <1>4, <1>5, <1>6, <1>7, <1>8, <1>9, <1>10 DEF AppNext, RunAll, Update

\* Disturbed or not, a run of VM1 fetches after it was started and deploys what it
\* fetched.
LEMMA FreshVm1Step ==
    ASSUME AppTypeOK, VersionsInv, FreshVm1Inv, ~Undisturbed', [AppNext]_appVars
    PROVE  FreshVm1Inv'
<1> USE DEF FreshVm1Inv, VersionsInv
<1> /\ remote \in Nat /\ base \in Nat
    /\ \A m \in Machines : repo[m] \in Nat /\ code[m] \in Nat
  BY AppUpdateAssumption DEF AppTypeOK, Versions
<1> "vm1" \in Machines /\ "vm2" \in Machines /\ Machines = {"vm1", "vm2"}
  BY DEF Machines
<1> DEFINE Vm1 == <<pc["vm1"], file["vm1"], repo["vm1"], code["vm1"]>>
<1>1. ASSUME UNCHANGED <<Vm1, base>> PROVE FreshVm1Inv'
  BY <1>1
<1>2. ASSUME Push \/ SystemUpdateStep \/ UNCHANGED appVars PROVE FreshVm1Inv'
  BY <1>1, <1>2 DEF Push, SystemUpdateStep, appVars
<1>3. ASSUME UNCHANGED <<repo, code, base>>,
             \/ pc'["vm1"] \in {"poll", "preflight"} /\ file'["vm1"] = file["vm1"]
             \/ pc'["vm1"] = "none" /\ file'["vm1"] \in {"failed", file["vm1"]}
      PROVE  FreshVm1Inv'
  BY <1>3
<1>4. ASSUME Start PROVE FreshVm1Inv'
  <2>1. pc'["vm1"] = "post" /\ file'["vm1"] = "running"
    BY <1>4 DEF Start, AppTypeOK
  <2> QED BY <2>1
<1>5. ASSUME Post \/ PostSkips PROVE FreshVm1Inv'
  <2>1. pc'["vm1"] \in {"poll", "preflight"} /\ UNCHANGED <<file, repo, code, base>>
    BY <1>5 DEF Post, PostSkips
  <2> QED BY <1>3, <2>1
<1>6. ASSUME PostFails PROVE FreshVm1Inv'
  <2>1. /\ pc'["vm1"] = "none" /\ file'["vm1"] = "failed"
        /\ UNCHANGED <<repo, code, base>>
    BY <1>6 DEF PostFails, AppTypeOK
  <2> QED BY <1>3, <2>1
<1>7. ASSUME Poll \/ GiveUp PROVE FreshVm1Inv'
  <2>1. UNCHANGED <<repo, code, base>>
    BY <1>7 DEF Poll, GiveUp
  <2>2. CASE Ends("vm1", "failed")
    <3>1. pc'["vm1"] = "none" /\ file'["vm1"] = "failed"
      BY <2>2, EndsOf DEF FileStates
    <3> QED BY <1>3, <2>1, <3>1
  <2>3. CASE pc' = [pc EXCEPT !["vm1"] = "preflight"] /\ UNCHANGED file
    <3>1. pc'["vm1"] = "preflight"
      BY <2>3
    <3> QED BY <1>3, <2>1, <2>3, <3>1
  <2> QED BY <1>7, <2>2, <2>3 DEF Poll, GiveUp
<1>8. ASSUME RunLocal PROVE FreshVm1Inv'
  <2>1. UNCHANGED <<Vm1, base>>
    BY <1>8 DEF RunLocal, AppTypeOK
  <2> QED BY <1>1, <2>1
<1>9. ASSUME NEW m \in Machines, Update(m) \/ Reboot(m), m = "vm2" PROVE FreshVm1Inv'
  <2>1. UNCHANGED <<Vm1, base>>
    BY <1>9 DEF Update, Preflight, Fetch, Deploy, Verified, UpdateFails, Ends, Reboot, AppTypeOK
  <2> QED BY <1>1, <2>1
<1>10. ASSUME Preflight("vm1") PROVE FreshVm1Inv'
  <2>1. pc'["vm1"] = "fetch" /\ UNCHANGED <<file, repo, code, base>>
    BY <1>10 DEF Preflight
  <2> QED BY <2>1
<1>11. ASSUME Fetch("vm1") PROVE FreshVm1Inv'
  <2>1. pc'["vm1"] = "deploy" /\ repo'["vm1"] = remote /\ UNCHANGED <<file, code, base>>
    BY <1>11 DEF Fetch, AppTypeOK
  <2>2. file["vm1"] # "success"
    BY <1>11 DEF Fetch, AppTypeOK, Active
  <2> QED BY <2>1, <2>2
<1>12. ASSUME Deploy("vm1") PROVE FreshVm1Inv'
  <2>1. /\ pc["vm1"] = "deploy" /\ pc'["vm1"] = "verify" /\ code'["vm1"] = repo["vm1"]
        /\ UNCHANGED <<file, repo, base>>
    BY <1>12 DEF Deploy, AppTypeOK
  <2>2. file["vm1"] # "success"
    BY <2>1 DEF AppTypeOK, Active
  <2> QED BY <2>1, <2>2
<1>13. ASSUME Verified("vm1") \/ UpdateFails("vm1") \/ Reboot("vm1") PROVE FreshVm1Inv'
  <2>1. pc'["vm1"] = "none" /\ UNCHANGED <<repo, code, base>>
    BY <1>13 DEF Verified, UpdateFails, Ends, Reboot
  <2>2. \/ file'["vm1"] \in {"failed", file["vm1"]}
        \/ pc["vm1"] = "verify"
    BY <1>13 DEF Verified, UpdateFails, Ends, Reboot, AppTypeOK
  <2> QED BY <2>1, <2>2
<1> QED BY <1>2, <1>4, <1>5, <1>6, <1>7, <1>8, <1>9, <1>10, <1>11, <1>12, <1>13
        DEF AppNext, RunAll, Update

-----------------------------------------------------------------------------
(* The theorems. *)

LEMMA AppInitIInv == AppInit => AppIInv
<1> SUFFICES ASSUME AppInit PROVE AppIInv
  OBVIOUS
<1>1. /\ \A m \in Machines : repo[m] = 0 /\ code[m] = 0 /\ file[m] = "none" /\ pc[m] = "none"
      /\ base = 0 /\ remote = 0
  BY DEF AppInit
<1>2. "vm1" \in Machines /\ "vm2" \in Machines
  BY DEF Machines
<1>3. AppTypeOK
  <2>1. 0 \in Versions
    BY AppUpdateAssumption DEF Versions
  <2>2. \A m \in Machines : "none" \in Pcs[m]
    BY DEF Pcs, Machines
  <2>3. /\ repo \in [Machines -> Versions] /\ code \in [Machines -> Versions]
        /\ file \in [Machines -> FileStates]
    BY <2>1 DEF AppInit, FileStates
  <2> QED BY <1>1, <1>2, <2>1, <2>2, <2>3 DEF AppInit, AppTypeOK, Active, Updating
<1>4. VersionsInv /\ CountInv
  BY <1>1 DEF AppInit, VersionsInv, CountInv
<1>5. Vm2Inv /\ FreshVm2Inv /\ FreshVm1Inv
  BY <1>1, <1>2 DEF Vm2Inv, FreshVm2Inv, FreshVm1Inv, Active, Updating
<1> QED BY <1>3, <1>4, <1>5 DEF AppIInv

LEMMA AppNextIInv == AppIInv /\ [AppNext]_appVars => AppIInv'
BY AppTypeStep, CountStep, FreshStep, FreshVm1Step DEF AppIInv

LEMMA AppInvariant == AppSpec => []AppIInv
BY AppInitIInv, AppNextIInv, PTL DEF AppSpec

\* Every reachable state has its types, and a unit that is at work has said so in
\* the state file of its machine.
THEOREM AppTypeCorrect == AppSpec => []AppTypeOK
<1>1. AppIInv => AppTypeOK
  BY DEF AppIInv
<1> QED BY <1>1, AppInvariant, PTL

\* A run that ends with success has brought VM1, and undisturbed both machines, to
\* what was the newest code when the button was pressed (app-update-helper.sh
\* run-all); one that left VM2 out counts as disturbed.
THEOREM SuccessBringsNewCode == AppSpec => []SuccessIsNew
<1>1. AppIInv => SuccessIsNew
  BY DEF AppIInv, SuccessIsNew, Shown, FreshVm1Inv
<1> QED BY <1>1, AppInvariant, PTL

\* Undisturbed, VM1 gets new code only after VM2 was brought to what was the newest
\* when the button was pressed (app-update-helper.sh run-all); a run that left VM2
\* out counts as disturbed.
THEOREM Vm2ComesFirst == AppSpec => Vm2First
<1>1. ASSUME AppIInv, [AppNext]_appVars, Undisturbed, code'["vm1"] # code["vm1"]
      PROVE  code["vm2"] >= base
  <2>1. \E m \in Machines : Deploy(m)
    BY <1>1 DEF AppNext, RunAll, Update, Push, SystemUpdateStep, Start, Post, PostFails, PostSkips,
       Poll, GiveUp, RunLocal, Preflight, Fetch, Verified, UpdateFails, Reboot, appVars
  <2>2. Deploy("vm1")
    BY <1>1, <2>1 DEF Deploy, AppIInv, AppTypeOK, Machines
  <2> QED BY <1>1, <2>2 DEF Deploy, AppIInv, FreshVm2Inv, Updating
<1>2. AppIInv /\ [AppNext]_appVars
      => [Undisturbed /\ code'["vm1"] # code["vm1"] => code["vm2"] >= base]_appVars
  BY <1>1
<1> QED BY <1>2, AppInvariant, PTL DEF AppSpec, Vm2First
=============================================================================
