------------------------------ MODULE AppUpdate ------------------------------
(***************************************************************************)
(* The update of the application on both machines from one button          *)
(* (scripts/app-update-helper.sh, scripts/update.sh): a transient unit on  *)
(* VM1 asks VM2 to update itself, polls the state file and the activity of *)
(* VM2's own unit, and only then updates VM1.                              *)
(*                                                                         *)
(* Abstractions: a version of the code is a number; GitHub's master only   *)
(* grows.  The console mode of update.sh is left out.  A system update of  *)
(* VM1 (module SystemUpdate) is one job that may be waiting or running:    *)
(* the deployment restarts the worker that carries it out.  Names that     *)
(* SystemUpdate has too begin with App: UpdateProofs extends both modules. *)
(***************************************************************************)
EXTENDS Naturals

CONSTANTS
    MaxVersion,     \* bound: versions pushed to master
    MaxStarts,      \* bound: runs started in the panel
    MaxAppFaults,   \* bound: requests to VM2 that fail, runs that find no VM2 in the
                    \* database, updates of VM2 that take over 30 min
    MaxAppReboots   \* bound: reboots of either machine

ASSUME AppUpdateAssumption ==
    /\ MaxVersion \in Nat /\ MaxStarts \in Nat /\ MaxAppFaults \in Nat /\ MaxAppReboots \in Nat

VARIABLES
    remote,   \* master on GitHub
    repo,     \* code in the installation directory of each machine
    code,     \* code that is deployed
    file,     \* state files: app-run on VM1, last-run on VM2
    pc,       \* what the unit portal-app-update of each machine does next
    base,     \* history: master when the last run was started
    job,      \* the queued or running system_update job of VM1
    cut,      \* history: a deployment interrupted a running system update
    presses, appFaults, appReboots

appVars == <<remote, repo, code, file, pc, base, job, cut, presses, appFaults, appReboots>>
appBounds == <<presses, appFaults, appReboots>>

-----------------------------------------------------------------------------
Machines == {"vm1", "vm2"}
Versions == 0..MaxVersion
FileStates == {"none", "running", "success", "failed"}

\* update.sh: its steps, the same on both machines.
Updating == {"preflight", "fetch", "deploy", "verify"}
\* run-local writes its state and becomes update.sh; run-all asks VM2, polls it,
\* and runs update.sh.
Pcs == [vm1 |-> {"none", "post", "poll"} \cup Updating, vm2 |-> {"none", "local"} \cup Updating]

Active(m) == pc[m] # "none"

AppInit ==
    /\ remote = 0
    /\ repo = [m \in Machines |-> 0]
    /\ code = [m \in Machines |-> 0]
    /\ file = [m \in Machines |-> "none"]
    /\ pc = [m \in Machines |-> "none"]
    /\ base = 0
    /\ job = "none"
    /\ cut = FALSE
    /\ presses = 0 /\ appFaults = 0 /\ appReboots = 0

-----------------------------------------------------------------------------
(* Outside: GitHub, and the other updates of the panel *)

Push ==
    /\ remote < MaxVersion
    /\ remote' = remote + 1
    /\ UNCHANGED <<repo, code, file, pc, base, job, cut, appBounds>>

SystemUpdateStep ==
    /\ job' = CASE job = "none" -> "queued"
                [] job = "queued" -> "running"
                [] job = "running" -> "none"
    /\ UNCHANGED <<remote, repo, code, file, pc, base, cut, appBounds>>

-----------------------------------------------------------------------------
(* VM1: do_start and do_run_all *)

\* The start is one at a time (flock) and refused while the unit is active.
Start ==
    /\ ~Active("vm1")
    /\ presses < MaxStarts
    /\ presses' = presses + 1
    /\ base' = remote
    /\ file' = [file EXCEPT !["vm1"] = "running"]
    /\ pc' = [pc EXCEPT !["vm1"] = "post"]
    /\ UNCHANGED <<remote, repo, code, job, cut, appFaults, appReboots>>

\* The unit of m ends with a result in its state file.
Ends(m, state) ==
    /\ file' = [file EXCEPT ![m] = state]
    /\ pc' = [pc EXCEPT ![m] = "none"]

\* POST /system/app-update: 200 starts VM2's unit, 409 finds it active.
Post ==
    /\ pc["vm1"] = "post"
    /\ pc' = [pc EXCEPT !["vm1"] = "poll", !["vm2"] = IF Active("vm2") THEN @ ELSE "local"]
    /\ UNCHANGED <<remote, repo, code, file, base, job, cut, appBounds>>

\* The request or its answer is lost (30 s), or VM2 refuses it.
PostFails ==
    /\ pc["vm1"] = "post"
    /\ appFaults < MaxAppFaults
    /\ appFaults' = appFaults + 1
    /\ file' = [file EXCEPT !["vm1"] = "failed"]
    /\ \E started \in BOOLEAN :
          pc' = [pc EXCEPT !["vm1"] = "none",
                           !["vm2"] = IF started /\ ~Active("vm2") THEN "local" ELSE @]
    /\ UNCHANGED <<remote, repo, code, base, job, cut, presses, appReboots>>

\* psql names no VM2, because none is configured or because it fails: the run
\* leaves VM2 out and goes on as if it had been updated.
PostSkips ==
    /\ pc["vm1"] = "post"
    /\ appFaults < MaxAppFaults
    /\ appFaults' = appFaults + 1
    /\ pc' = [pc EXCEPT !["vm1"] = "preflight"]
    /\ UNCHANGED <<remote, repo, code, file, base, job, cut, presses, appReboots>>

\* Seeded fault: only the state file is looked at, not the activity of VM2's unit.
PollFileOnly ==
    /\ pc["vm1"] = "poll"
    /\ file["vm2"] \notin {"running"}
    /\ IF file["vm2"] = "success"
       THEN pc' = [pc EXCEPT !["vm1"] = "preflight"] /\ UNCHANGED file
       ELSE Ends("vm1", "failed")
    /\ UNCHANGED <<remote, repo, code, base, job, cut, appBounds>>

\* VM2 is done when its unit is not active and its file is not "running".
Poll ==
    /\ pc["vm1"] = "poll"
    /\ ~Active("vm2") /\ file["vm2"] # "running"
    /\ IF file["vm2"] = "success"
       THEN pc' = [pc EXCEPT !["vm1"] = "preflight"] /\ UNCHANGED file
       ELSE Ends("vm1", "failed")
    /\ UNCHANGED <<remote, repo, code, base, job, cut, appBounds>>

\* 30 minutes have passed without a result.  That a live update of VM2 takes so
\* long counts as a fault.
Expires ==
    /\ pc["vm1"] = "poll"
    /\ Active("vm2") \/ file["vm2"] = "running"
    /\ Active("vm2") => appFaults < MaxAppFaults
    /\ appFaults' = IF Active("vm2") THEN appFaults + 1 ELSE appFaults

\* Seeded fault: the deadline only counts while VM2 is at work.
GiveUpOnActive ==
    /\ Expires /\ Active("vm2")
    /\ Ends("vm1", "failed")
    /\ UNCHANGED <<remote, repo, code, base, job, cut, presses, appReboots>>

GiveUp ==
    /\ Expires
    /\ Ends("vm1", "failed")
    /\ UNCHANGED <<remote, repo, code, base, job, cut, presses, appReboots>>

-----------------------------------------------------------------------------
(* VM2: do_run_local *)

\* Seeded fault: the state file is left to update.sh.
RunLocalSilent ==
    /\ pc["vm2"] = "local"
    /\ pc' = [pc EXCEPT !["vm2"] = "preflight"]
    /\ UNCHANGED <<remote, repo, code, file, base, job, cut, appBounds>>

RunLocal ==
    /\ pc["vm2"] = "local"
    /\ file' = [file EXCEPT !["vm2"] = "running"]
    /\ pc' = [pc EXCEPT !["vm2"] = "preflight"]
    /\ UNCHANGED <<remote, repo, code, base, job, cut, appBounds>>

-----------------------------------------------------------------------------
(* update.sh on machine m *)

\* On VM1 a system update that is queued or running stops the deployment.
Preflight(m) ==
    /\ pc[m] = "preflight"
    /\ m = "vm1" => job = "none"
    /\ pc' = [pc EXCEPT ![m] = "fetch"]
    /\ UNCHANGED <<remote, repo, code, file, base, job, cut, appBounds>>

Fetch(m) ==
    /\ pc[m] = "fetch"
    /\ repo' = [repo EXCEPT ![m] = remote]
    /\ pc' = [pc EXCEPT ![m] = "deploy"]
    /\ UNCHANGED <<remote, code, file, base, job, cut, appBounds>>

\* The deployment restarts the services of the machine; on VM1 the reaper of
\* portal-worker fails the system update that was running.
Deploy(m) ==
    /\ pc[m] = "deploy"
    /\ code' = [code EXCEPT ![m] = repo[m]]
    /\ IF m = "vm1" /\ job = "running"
       THEN job' = "none" /\ cut' = TRUE
       ELSE UNCHANGED <<job, cut>>
    /\ pc' = [pc EXCEPT ![m] = "verify"]
    /\ UNCHANGED <<remote, repo, file, base, appBounds>>

Verified(m) ==
    /\ pc[m] = "verify"
    /\ Ends(m, "success")
    /\ UNCHANGED <<remote, repo, code, base, job, cut, appBounds>>

\* Any step may fail; on_exit leaves no state file on "running".
UpdateFails(m) ==
    /\ pc[m] \in Updating
    /\ Ends(m, "failed")
    /\ UNCHANGED <<remote, repo, code, base, job, cut, appBounds>>

Update(m) == Preflight(m) \/ Fetch(m) \/ Deploy(m) \/ Verified(m) \/ UpdateFails(m)

\* The unit is gone, the state file stays as it is.
Reboot(m) ==
    /\ Active(m)
    /\ appReboots < MaxAppReboots
    /\ appReboots' = appReboots + 1
    /\ pc' = [pc EXCEPT ![m] = "none"]
    /\ job' = IF m = "vm1" /\ job = "running" THEN "none" ELSE job
    /\ UNCHANGED <<remote, repo, code, file, base, cut, presses, appFaults>>

-----------------------------------------------------------------------------
RunAll == Post \/ Poll \/ GiveUp

AppNext ==
    \/ Push \/ SystemUpdateStep
    \/ Start \/ RunAll \/ PostFails \/ PostSkips
    \/ RunLocal
    \/ \E m \in Machines : Update(m) \/ Reboot(m)

AppSpec == AppInit /\ [][AppNext]_appVars

\* The units go on; nothing is assumed of the panel or of master.
AppFairness ==
    /\ WF_appVars(RunAll) /\ WF_appVars(RunLocal)
    /\ \A m \in Machines : WF_appVars(Update(m))

AppFairSpec == AppSpec /\ AppFairness

-----------------------------------------------------------------------------
(* Properties *)

\* app_update.status: a run without a process is shown as failed.
Shown == IF file["vm1"] = "running" /\ ~Active("vm1") THEN "failed" ELSE file["vm1"]

\* Types; a unit that is at work has said so in its state file.
AppTypeOK ==
    /\ remote \in Versions /\ base \in Versions
    /\ repo \in [Machines -> Versions] /\ code \in [Machines -> Versions]
    /\ file \in [Machines -> FileStates]
    /\ \A m \in Machines : pc[m] \in Pcs[m]
    /\ job \in {"none", "queued", "running"}
    /\ cut \in BOOLEAN
    /\ Active("vm1") => file["vm1"] = "running"
    /\ pc["vm2"] \in Updating => file["vm2"] = "running"

\* Nothing failed so far: no lost request, no run that left VM2 out, no slow VM2,
\* no reboot.
Undisturbed == appFaults = 0 /\ appReboots = 0

\* Success means that VM1, whatever failed, runs at least the code that was the
\* newest when the button was pressed, and undisturbed VM2 does too.
SuccessIsNew ==
    Shown = "success" => code["vm1"] >= base /\ (Undisturbed => code["vm2"] >= base)

\* VM2 first: undisturbed, VM1 gets new code only after VM2 was brought to what was
\* the newest when the button was pressed, although master moves on and VM2's state
\* file still holds the result of an earlier update.
Vm2First == [][Undisturbed /\ code'["vm1"] # code["vm1"] => code["vm2"] >= base]_appVars

\* The same, whatever was lost or left out before: what the runbook promises of the
\* button.
AlwaysVm2First == [][code'["vm1"] # code["vm1"] => code["vm2"] >= base]_appVars

\* The window of the panel never waits for ever, whatever machine reboots.
AppRunEnds == Shown = "running" ~> Shown # "running"

\* A deployment waits for the system updates of the panel.
UpdatesAreWaitedFor == ~cut
=============================================================================
