---------------------------- MODULE NginxConfig ----------------------------
(***************************************************************************)
(* What nginx of VM1 is configured with, and who changes it: the access    *)
(* zones (routers/settings_network.py, network_access.py,                  *)
(* bin/apply-network-access.sh), the certificate (routers/settings_tls.py, *)
(* tls_manager.py, bin/apply-tls.sh), Let's Encrypt (acmedns_service.py,   *)
(* bin/certbot-acmedns.sh) and the deploy hook that certbot's timer runs.  *)
(*                                                                         *)
(* Requests run in the threads of two processes and nothing serialises     *)
(* them or the root helpers they start: every file written, every nginx -t *)
(* with its reload and every transaction is a step.                        *)
(*                                                                         *)
(* Abstractions: an include file is one of Zones, a certificate or a key   *)
(* is named by the pair it belongs to.  apply-tls.sh reads the previous    *)
(* links in the step that replaces the first of them.                      *)
(***************************************************************************)
EXTENDS Naturals, FiniteSets

CONSTANTS
    Requests,    \* requests of administrators under way at the same time
    Timer,       \* certbot-renew.timer
    Zones,       \* contents of an include file
    NoZones,     \* the include file of a new installation
    Uploads,     \* pairs an administrator can paste
    Refused,     \* those that validate_and_stage accepts and nginx -t does not
    MaxChanges,  \* bound: requests and renewals ever started
    MaxFaults    \* bound: timeouts, killed processes and failed transactions

ASSUME NginxAssumption ==
    /\ Timer \notin Requests
    /\ NoZones \in Zones
    /\ Refused \subseteq Uploads
    /\ Uploads \cap {"none", "self", "le1", "le2"} = {}
    /\ MaxChanges \in Nat /\ MaxFaults \in Nat

VARIABLES
    disk,      \* /etc/portal/nginx and /etc/portal/tls
    stage,     \* /var/lib/portal-app: network-stage and tls-stage
    running,   \* what nginx was last reloaded with
    row,       \* network_access_config and tls_config
    act,       \* the requests and the timer
    torn,      \* what can no longer be relied on, see Properties
    changes,   \* requests and renewals started
    faults     \* timeouts, killed processes and failed transactions

vars == <<disk, stage, running, row, act, torn, changes, faults>>

-----------------------------------------------------------------------------
Modes == {"selfsigned", "manual", "certbot"}
Issued == {"le1", "le2"}
Pairs == Uploads \cup Issued \cup {"none", "self"}
Includes == [admin : Zones, webmail : Zones]
Files == [cert : Pairs, key : Pairs]
Links == [cert : Modes, key : Modes]

Actors == Requests \cup {Timer}
Kinds == {"zones", "manual", "selfsigned", "issue"}

\* Writing the staging, the helper and certbot's hook, step by step.
HelperPcs == {"backup", "instAdmin", "instWebmail", "instCert", "instKey", "shred",
              "hookCert", "hookKey", "linkCert", "linkKey", "test", "undo"}
Pcs == {"idle", "stageFirst", "stageSecond", "certbot", "answer"} \cup HelperPcs

Act == [pc : Pcs, kind : Kinds, zones : Includes, pair : Pairs,
        oldZones : Includes, oldLinks : Links, ok : BOOLEAN, late : BOOLEAN]

Pair(p) == [cert |-> p, key |-> p]
Both(mode) == [cert |-> mode, key |-> mode]
Unrestricted == [admin |-> NoZones, webmail |-> NoZones]

Idle == [pc |-> "idle", kind |-> "zones", zones |-> Unrestricted, pair |-> "none",
         oldZones |-> Unrestricted, oldLinks |-> Both("selfsigned"), ok |-> FALSE, late |-> FALSE]

Init ==
    /\ disk = [zones |-> Unrestricted, manual |-> Pair("none"), certbot |-> Pair("none"),
               link |-> Both("selfsigned")]
    /\ stage = [zones |-> Unrestricted, tls |-> Pair("none")]
    /\ running = [zones |-> Unrestricted, pair |-> "self"]
    /\ row = [zones |-> Unrestricted, mode |-> "selfsigned"]
    /\ act = [x \in Actors |-> Idle]
    /\ torn = {}
    /\ changes = 0
    /\ faults = 0

-----------------------------------------------------------------------------
(* nginx *)

FilesOf(d, mode) ==
    CASE mode = "manual" -> d.manual
      [] mode = "certbot" -> d.certbot
      [] OTHER -> Pair("self")

\* nginx -t: the include files always parse; the key must fit the certificate
\* and the whole chain must be readable.
Loads(d) ==
    LET cert == FilesOf(d, d.link.cert).cert
        key == FilesOf(d, d.link.key).key
    IN cert = key /\ cert # "none" /\ cert \notin Refused

Loaded(d) == [zones |-> d.zones, pair |-> FilesOf(d, d.link.cert).cert]

\* nginx -t && systemctl reload nginx
Reloaded(d) == IF Loads(d) THEN Loaded(d) ELSE running

-----------------------------------------------------------------------------
(* Starting *)

Class(kind) == IF kind = "zones" THEN "zones" ELSE "tls"

Busy(class) == {x \in Actors : act[x].pc # "idle" /\ Class(act[x].kind) = class}

Start(x, kind, pc, zones, pair) ==
    /\ act[x].pc = "idle"
    /\ changes < MaxChanges
    /\ changes' = changes + 1
    /\ act' = [act EXCEPT ![x] =
                  [Idle EXCEPT !.kind = kind, !.pc = pc, !.zones = zones, !.pair = pair]]
    /\ UNCHANGED <<disk, stage, running, row, faults>>

\* Two changes of one kind under way make a tear.
Overlaps(class) == IF Busy(class) = {} THEN {} ELSE {class}

SaveNetwork(r) ==
    /\ \E zones \in Includes : Start(r, "zones", "stageFirst", zones, "none")
    /\ torn' = torn \cup Overlaps("zones")

ApplyManual(r) ==
    /\ \E p \in Uploads : Start(r, "manual", "stageFirst", Unrestricted, p)
    /\ torn' = torn \cup Overlaps("tls")

RevertSelfsigned(r) ==
    /\ Start(r, "selfsigned", "linkCert", Unrestricted, "self")
    /\ torn' = torn \cup Overlaps("tls")

AcmeDnsIssue(r) ==
    /\ Start(r, "issue", "certbot", Unrestricted, "none")
    /\ torn' = torn \cup Overlaps("tls")

\* certbot locks its configuration: one instance at a time.
CertbotFree ==
    \A x \in Actors : act[x].kind = "issue" => act[x].pc \in {"idle", "certbot", "answer"}

\* A renewal does not ask which mode the administrator has chosen.
Renew ==
    /\ disk.certbot.cert # "none"
    /\ CertbotFree
    /\ \E p \in Issued \ {disk.certbot.cert} : Start(Timer, "issue", "hookCert", Unrestricted, p)
    /\ torn' = torn \cup Overlaps("tls") \cup (IF row.mode = "certbot" THEN {} ELSE {"mode"})

-----------------------------------------------------------------------------
(* Staging: two files, one after the other *)

StageFirst(r) ==
    /\ act[r].pc = "stageFirst"
    /\ stage' = IF act[r].kind = "zones" THEN [stage EXCEPT !.zones.admin = act[r].zones.admin]
                ELSE [stage EXCEPT !.tls.cert = act[r].pair]
    /\ act' = [act EXCEPT ![r].pc = "stageSecond"]
    /\ UNCHANGED <<disk, running, row, torn, changes, faults>>

\* The second file; sudo starts the helper.  apply-tls.sh refuses to go on
\* without both files (another upload may have shredded one).
StageSecond(r) ==
    /\ act[r].pc = "stageSecond"
    /\ IF act[r].kind = "zones"
       THEN /\ stage' = [stage EXCEPT !.zones.webmail = act[r].zones.webmail]
            /\ act' = [act EXCEPT ![r].pc = "backup"]
       ELSE /\ stage' = [stage EXCEPT !.tls.key = act[r].pair]
            /\ act' = [act EXCEPT ![r].pc = IF stage.tls.cert = "none" THEN "answer" ELSE "instCert"]
    /\ UNCHANGED <<disk, running, row, torn, changes, faults>>

-----------------------------------------------------------------------------
(* apply-network-access.sh *)

Backup(r) ==
    /\ act[r].pc = "backup"
    /\ act' = [act EXCEPT ![r].oldZones = disk.zones, ![r].pc = "instAdmin"]
    /\ UNCHANGED <<disk, stage, running, row, torn, changes, faults>>

InstallAdmin(r) ==
    /\ act[r].pc = "instAdmin"
    /\ disk' = [disk EXCEPT !.zones.admin = stage.zones.admin]
    /\ act' = [act EXCEPT ![r].pc = "instWebmail"]
    /\ UNCHANGED <<stage, running, row, torn, changes, faults>>

InstallWebmail(r) ==
    /\ act[r].pc = "instWebmail"
    /\ disk' = [disk EXCEPT !.zones.webmail = stage.zones.webmail]
    /\ act' = [act EXCEPT ![r].pc = "test"]
    /\ UNCHANGED <<stage, running, row, torn, changes, faults>>

-----------------------------------------------------------------------------
(* apply-tls.sh and the deploy hook *)

\* install fails, and the helper with it, when the staged file is gone.
InstallCert(r) ==
    /\ act[r].pc = "instCert"
    /\ IF stage.tls.cert = "none"
       THEN act' = [act EXCEPT ![r].pc = "answer"] /\ UNCHANGED disk
       ELSE /\ disk' = [disk EXCEPT !.manual.cert = stage.tls.cert]
            /\ act' = [act EXCEPT ![r].pc = "instKey"]
    /\ UNCHANGED <<stage, running, row, torn, changes, faults>>

InstallKey(r) ==
    /\ act[r].pc = "instKey"
    /\ IF stage.tls.key = "none"
       THEN act' = [act EXCEPT ![r].pc = "answer"] /\ UNCHANGED disk
       ELSE /\ disk' = [disk EXCEPT !.manual.key = stage.tls.key]
            /\ act' = [act EXCEPT ![r].pc = "shred"]
    /\ UNCHANGED <<stage, running, row, torn, changes, faults>>

Shred(r) ==
    /\ act[r].pc = "shred"
    /\ stage' = [stage EXCEPT !.tls = Pair("none")]
    /\ act' = [act EXCEPT ![r].pc =
                  IF "none" \in {stage.tls.cert, stage.tls.key} THEN "answer" ELSE "linkCert"]
    /\ UNCHANGED <<disk, running, row, torn, changes, faults>>

\* Does certbot get a certificate?  One that is not due is kept, with exit code
\* 0 and without the deploy hook; otherwise it may fail, as it does while
\* another instance runs.
Certbot(r) ==
    /\ act[r].pc = "certbot"
    /\ \/ /\ CertbotFree
          /\ \E p \in Issued \ {disk.certbot.cert} :
                act' = [act EXCEPT ![r].pc = "hookCert", ![r].pair = p]
          /\ UNCHANGED torn
       \/ /\ CertbotFree
          /\ disk.certbot.cert # "none"
          /\ act' = [act EXCEPT ![r].pc = "answer", ![r].ok = TRUE]
          /\ torn' = IF disk.link = Both("certbot") THEN torn ELSE torn \cup {"mode"}
       \/ /\ act' = [act EXCEPT ![r].pc = "answer"]
          /\ UNCHANGED torn
    /\ UNCHANGED <<disk, stage, running, row, changes, faults>>

HookCert(x) ==
    /\ act[x].pc = "hookCert"
    /\ disk' = [disk EXCEPT !.certbot.cert = act[x].pair]
    /\ act' = [act EXCEPT ![x].pc = "hookKey"]
    /\ UNCHANGED <<stage, running, row, torn, changes, faults>>

HookKey(x) ==
    /\ act[x].pc = "hookKey"
    /\ disk' = [disk EXCEPT !.certbot.key = act[x].pair]
    /\ act' = [act EXCEPT ![x].pc = "linkCert"]
    /\ UNCHANGED <<stage, running, row, torn, changes, faults>>

Target(kind) == IF kind = "issue" THEN "certbot" ELSE kind

LinkCert(x) ==
    /\ act[x].pc = "linkCert"
    /\ disk' = [disk EXCEPT !.link.cert = Target(act[x].kind)]
    /\ act' = [act EXCEPT ![x].oldLinks = disk.link, ![x].pc = "linkKey"]
    /\ UNCHANGED <<stage, running, row, torn, changes, faults>>

LinkKey(x) ==
    /\ act[x].pc = "linkKey"
    /\ disk' = [disk EXCEPT !.link.key = Target(act[x].kind)]
    /\ act' = [act EXCEPT ![x].pc = "test"]
    /\ UNCHANGED <<stage, running, row, torn, changes, faults>>

-----------------------------------------------------------------------------
(* Test and reload, or undo *)

\* A refused pair that replaced the one in use cannot be undone.
Replaced(x) == act[x].kind = "manual" /\ act[x].oldLinks = Both("manual")

\* certbot ends with 0 even if its hook failed, and the hook undoes nothing.
Test(x) ==
    /\ act[x].pc = "test"
    /\ running' = Reloaded(disk)
    /\ IF Loads(disk) \/ act[x].kind = "issue"
       THEN act' = [act EXCEPT ![x].pc = "answer", ![x].ok = TRUE] /\ UNCHANGED torn
       ELSE /\ act' = [act EXCEPT ![x].pc = "undo"]
            /\ torn' = IF Replaced(x) THEN torn \cup {"tls"} ELSE torn
    /\ UNCHANGED <<disk, stage, row, changes, faults>>

\* Seeded fault: the files stay, the links and the zones are forgotten.
UndoReloadsOnly(r) ==
    /\ act[r].pc = "undo"
    /\ running' = Reloaded(disk)
    /\ act' = [act EXCEPT ![r].pc = "answer"]
    /\ UNCHANGED <<disk, stage, row, torn, changes, faults>>

Undo(r) ==
    /\ act[r].pc = "undo"
    /\ disk' = IF act[r].kind = "zones" THEN [disk EXCEPT !.zones = act[r].oldZones]
               ELSE [disk EXCEPT !.link = act[r].oldLinks]
    /\ running' = Reloaded(disk')
    /\ act' = [act EXCEPT ![r].pc = "answer"]
    /\ UNCHANGED <<stage, row, torn, changes, faults>>

-----------------------------------------------------------------------------
(* The end of a request *)

\* Seeded fault: the kind of the request is taken for the mode.
SavedAsAsked(x) ==
    IF act[x].kind = "zones" THEN [row EXCEPT !.zones = act[x].zones]
    ELSE [row EXCEPT !.mode = act[x].kind]

Saved(x) ==
    IF act[x].kind = "zones" THEN [row EXCEPT !.zones = act[x].zones]
    ELSE [row EXCEPT !.mode = Target(act[x].kind)]

\* A change of mode that went through is shown again.
Settled(x) ==
    IF act[x].kind # "zones" /\ act[x].pair # "none" THEN torn \ {"mode"} ELSE torn

\* Seeded fault: the row is written whatever the helper said.
AnswerUnchecked(x) ==
    /\ act[x].pc = "answer"
    /\ IF x # Timer /\ ~ act[x].late
       THEN row' = Saved(x) /\ torn' = Settled(x)
       ELSE UNCHANGED <<row, torn>>
    /\ act' = [act EXCEPT ![x] = Idle]
    /\ UNCHANGED <<disk, stage, running, changes, faults>>

Answer(x) ==
    /\ act[x].pc = "answer"
    /\ IF x # Timer /\ act[x].ok /\ ~ act[x].late
       THEN row' = Saved(x) /\ torn' = Settled(x)
       ELSE UNCHANGED <<row, torn>>
    /\ act' = [act EXCEPT ![x] = Idle]
    /\ UNCHANGED <<disk, stage, running, changes, faults>>

Fault(r) ==
    /\ faults < MaxFaults
    /\ faults' = faults + 1
    /\ torn' = torn \cup {Class(act[r].kind)}
    /\ UNCHANGED <<disk, stage, running, changes>>

\* The client of the helper gives up (30, 15 or 180 s); the helper goes on.
Timeout(r) ==
    /\ act[r].pc \in HelperPcs \cup {"certbot"}
    /\ ~ act[r].late
    /\ act' = [act EXCEPT ![r].late = TRUE]
    /\ Fault(r)
    /\ UNCHANGED row

\* The service is restarted: the helper dies with the request (certbot runs in
\* a unit of its own).
Killed(r) ==
    /\ act[r].pc \notin {"idle", "answer"}
    /\ act[r].kind # "issue"
    /\ act' = [act EXCEPT ![r] = Idle]
    /\ Fault(r)
    /\ UNCHANGED row

\* The transaction fails after nginx has been reloaded.
CommitFails(r) ==
    /\ act[r].pc = "answer" /\ act[r].ok /\ ~ act[r].late
    /\ act' = [act EXCEPT ![r] = Idle]
    /\ Fault(r)
    /\ UNCHANGED row

-----------------------------------------------------------------------------
Hook(x) == HookCert(x) \/ HookKey(x) \/ LinkCert(x) \/ LinkKey(x) \/ Test(x) \/ Answer(x)

Request(r) ==
    \/ SaveNetwork(r) \/ ApplyManual(r) \/ RevertSelfsigned(r) \/ AcmeDnsIssue(r)
    \/ StageFirst(r) \/ StageSecond(r)
    \/ Backup(r) \/ InstallAdmin(r) \/ InstallWebmail(r)
    \/ InstallCert(r) \/ InstallKey(r) \/ Shred(r) \/ Certbot(r)
    \/ Hook(r) \/ Undo(r)
    \/ Timeout(r) \/ Killed(r) \/ CommitFails(r)

Next == Renew \/ Hook(Timer) \/ \E r \in Requests : Request(r)

Spec == Init /\ [][Next]_vars

-----------------------------------------------------------------------------
(* Properties *)

\* Every variable has its type.
TypeOK ==
    /\ disk \in [zones : Includes, manual : Files, certbot : Files, link : Links]
    /\ stage \in [zones : Includes, tls : Files]
    /\ running \in [zones : Includes, pair : Pairs]
    /\ row \in [zones : Includes, mode : Modes]
    /\ act \in [Actors -> Act]
    /\ torn \subseteq {"zones", "tls", "mode"}
    /\ changes \in 0..MaxChanges
    /\ faults \in 0..MaxFaults

Quiet(classes) == \A class \in classes : Busy(class) = {}

\* While no change of the certificate is under way nginx could be started with
\* what is on the disk: whatever was uploaded, refused, renewed and undone one
\* after the other, as long as the pair in use was not replaced by a refused one.
StartsAgain == Quiet({"tls"}) /\ "tls" \notin torn => Loads(disk)

\* And in any case: "nginx nigdy nie zostaje z niepoprawnym TLS".
NeverLeftBroken == Quiet({"tls"}) /\ faults = 0 => Loads(disk)

\* The zones in the database are those on the disk and those nginx enforces,
\* although a change of the certificate that overlaps with them reloads nginx
\* half-way or makes its test fail.
ZonesAgree ==
    Quiet({"zones", "tls"}) /\ torn \cap {"zones", "tls"} = {} =>
        row.zones = disk.zones /\ row.zones = running.zones

\* The mode the panel shows is the one nginx uses, after any sequence of
\* uploads, reverts and certificates issued or renewed in mode certbot.
ModeAgrees ==
    Quiet({"tls"}) /\ torn \cap {"tls", "mode"} = {} =>
        /\ disk.link = Both(row.mode)
        /\ running.pair = FilesOf(disk, row.mode).cert

\* Both: what the panel shows is what nginx enforces.
PanelAgrees == ZonesAgree /\ ModeAgrees

\* Even if certbot had nothing to issue: "certyfikat wystawiony i aktywowany".
IssuedIsActive == Quiet({"tls"}) /\ faults = 0 /\ row.mode = "certbot" => disk.link.cert = "certbot"
=============================================================================
