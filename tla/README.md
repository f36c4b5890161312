# Verification of the mail-sync portal

TLA+ modules, TLC configurations and TLAPS proofs for the mail-sync portal.  VM1
runs a FastAPI panel, a job worker and timers over PostgreSQL.  VM2 is a mail
server (Postfix, Dovecot, scanners) administered through a small provisioning
API.  The portal provisions mailboxes on VM2, synchronises them with imapsync,
updates both machines and configures nginx.

    tlc -workers 2 -config JobQueue_rows.cfg MCJobQueue     one run
    tlapm JobQueueProofs.tla                                one proof

`PROJECT.json` lists components, runs, mutants (seeded faults, one per checked
property), the source lines of every definition, findings, hazards and theorems.

## 1. Inventory

### Processes and shared state

| Process | Runs as | Writes |
|---|---|---|
| panel | gunicorn, 2 processes; most handlers run in a thread pool, a few (`upload_import`, `commit_import`, `bulk_sync_config`, `create_channel`) inside the event loop | every table of VM1; VM2 through its API; files of nginx through sudo helpers |
| portal-worker | one process, `Restart=on-failure` | `job_queue`, `job_runs`, `mailboxes`, `credentials`, `system_update_runs`, `audit_log`; VM2 |
| portal-scheduler | timer, every minute | `job_queue`, `sync_jobs.last_enqueued_at` |
| environment check, audit verification | timers | alerts, cursor of findings, SSO tokens; nothing |
| certbot-renew | timer | certificates, active links, nginx |
| portal-app-update | transient unit, one per machine | code, state file, services |
| provisioning API (VM2) | uvicorn, mTLS | `mail_db`, maildirs, scanners, dnf in transient units |

All tables of VM1 are accessed at READ COMMITTED.  A request of the panel and a
step of the worker is one transaction (`db.get_session`: commit at the end,
rollback on any exception), so two actors can interleave at the boundaries of
transactions, between two statements of one of them, and at calls to VM2, sudo
helpers and subprocesses.  There is no transaction across the machines.

### Components

| Component | State | Operations | Talks to | Hard because | Correct when |
|---|---|---|---|---|---|
| Job queue, worker, scheduler | `job_queue`, `job_runs`, `sync_jobs` | claim, postpone, handlers, finish, reap, tick, sync now, delete | all others by jobs | races on "already pending", crash between claim and finish, throttling by counting | no row is started twice, a run in state running is real, limits hold, queued jobs are served |
| Provisioning | `mailboxes`, `credentials`; `virtual_mailboxes`, maildir | import, provision, reset, mirror, delete | queue; VM2 API; audit lock | two machines, late and lost answers, crash between call and commit | both machines agree, manual passwords survive, pending becomes active |
| System update | `system_update_runs`, dnf units, reboot flag | start, phases, finish, reap, reboot | queue, VM2 API, audit | dnf restarts PostgreSQL, crash or reboot in the middle | installed once, success is true, no run blocks for ever |
| Application update | state files, units, installation directories | run-all, poll, run-local, deploy | VM2 API, system updates | stale state file, joins, reboots, restart of the worker | VM2 first, success means new code, the window closes |
| Audit log | `audit_log`, advisory lock | record, verify | everyone who changes something | overlapping transactions, rollback gaps, deadlock of locks, rows and the event loop, time zone | verification is silent unless somebody tampered |
| Access zones, TLS | rows, staging, include files, links, running nginx | save, upload, revert, issue, renew | sudo helpers, certbot | nothing serialises the helpers, test after install | nginx can start, row = disk = running |
| Domains, imports | `domains`, aliases, `import_batches` | pair, rename, alias, quota, upload, confirm, add by hand | VM2 API, provisioning | double confirmation, remote first and commit later, look-up and insert without a lock | both machines agree, one batch is applied once |
| Accounts, wizard | `admin_users`, `totp_credentials`, `instance_state`; a signed cookie per browser | steps of the wizard, enrol, login, deactivate, delete, reset, console rescue | cookies, console scripts | count-then-delete, read-modify-write, one row for every browser | one active administrator is left, a code works once, the wizard ends once and with somebody who can log in |
| Webmail SSO | `webmail_sso_tokens` | issue, consume, prune | Roundcube plugin | two clicks, expiry, pruning | one login per token |
| Environment check, scanning | findings file, cursor, markers | scan, emit, read, alert | VM2 API, mail | cursor jumps, marker touched late, swallowed delivery | every finding is announced |
| imapsync runner, flags | `sync_jobs`, `imapsync_config`, the process, the totals of a run | validate, build arguments, run, report | queue, both mail servers | settings read an hour before they stop being used, values that look like options, a dry run first | nothing is deleted that nobody confirmed, everything that stays is copied |
| Dashboard, reports, documentation, branding, fail2ban, console scripts, installation, schema | – | views and one-off scripts | – | – | – |

`PROJECT.json` names the sources of each, with its status and the reason where it
is not modelled, and lists the hazards at their lines with the properties that
would catch them.

## 2. Plan

Order: the worker and its queue first, because every change of VM2 and every
synchronisation passes through them; then what the jobs do; then what the panel
does beside the queue.

1. `JobQueue` implementing the abstract `WorkQueue`, with `JobQueueProofs` – done.
2. `Provisioning` with `ProvisioningProofs` – done.  It has the handler of one kind of job in full, and
   abstracts the queue to a number of waiting jobs per mailbox.
3. `SystemUpdate` – done.  The handler of the other kind of long job.
4. `AppUpdate` – done.  Meets `SystemUpdate` in one flag, because a deployment restarts
   the worker.  `UpdateProofs` has the proofs of both modules.
5. `AuditChain` implementing the abstract `AuditLog`, with `AuditChainProofs` – done.
6. `NginxConfig` – access zones, TLS and certbot, composed in one module because
   they test and reload one nginx, with `NginxConfigProofs` – done.
7. `Directory` with `DirectoryProofs` – domains, aliases, quotas and import batches
   on both machines – done.
8. `Accounts` with `AccountsProofs` – administrators, second factor, setup wizard – done.
9. `SyncRun` with `SyncRunProofs` – the options, the command line, the transfer and the
   totals of one mailbox – done.
10. `ScanFindings` – markers, findings file, reader, cursor and alert: next.
11. `WebmailSso` – tokens between the panel, Roundcube and the pruning.

Abstract specifications: the append-only log that `AuditChain` implements and the work
queue that `JobQueue` implements, both checked by TLC and proved.  Worth stating next: a
mailbox that exists on one machine only, which `Provisioning` implements while nothing is
torn.

Theorems still worth proving: that refinement, once it is stated, and what the
recursive and recounted parts of later modules compute, with the induction of
`SyncRunProofs` (section 5).  The modules are written for that: constants with named
assumptions, one action per operation, no RECURSIVE operator.

## 3. Modules and code

Every transaction of the code is an action.  Where the code reads in one
statement and writes at its commit, and somebody can come in between, the read
and the commit are two actions.  Time is the flag that the code derives from it
("due", "recent", "elapsed") with an action that flips it.  Values are model
values.  Operators whose comment begins with "Seeded fault" or "mistake" are not part
of a specification; the mutants put them in place of the operator they stand beside.
Variables called a history (`torn`, `doubt`, `moved`, `twice`, `made`, `used`) record
what has happened for the properties; no guard reads them.

**JobQueue** (`worker_main.py`, `scheduler_main.py`, `throttle_service.py`, the
handlers, the writes of the panel).  `jobs` and `runs` are the tables, by id;
ids are never reused.  `worker` is the program counter of the only worker:
`Claim`, `Postpone` (claim transaction with the throttle), `ProvisionStart`,
`ProvisionCommit`, `ProvisionFail`, `SyncStart`, `SyncEnd`, `SyncEndFails`,
`UpdateHandled` (handlers), `Finish` (`_finish_job`), `Crash`, `Restart`
(`_reap_orphans`).  `tick` and `asked` hold what the scheduler and `sync_now` have
read and not yet inserted.  `DeleteMailbox` removes runs, sync job and queue rows
as the handler does; from its `DELETE` to its end a deletion keeps the rows locked
(`deletions`), the claim passes over them (`skip_locked=True`, `worker_main.py:31`),
`Finish` and the reaper wait for them, and the deletion may be rolled back
(`DeleteRolledBack`), so that a later job of the same priority has gone first.

**WorkQueue** is what the table promises, without ticks, throttle, due times, runs or
mailboxes: jobs are submitted (`Submit`), a worker with empty hands takes one of them
when nothing is left running (`Take`), ends it (`End`) or dies with it (`Drop`), the next
worker returns it to the queue (`Resume`), and jobs are withdrawn in any state
(`Withdraw`).  A job submitted as `once` is neither tried again nor resumed.  The
refinement mapping takes `state` from the column `status`, `once` from the rows of
system updates and `held` from the row the worker is at; scheduler, panel and provision
handler submit, the deletion of a mailbox withdraws, the reaper resumes, and everything
else is invisible.

**Provisioning** (`provision_handler.py`, `routers/mailboxes.py`,
`import_service.upsert_mailbox`; on VM2 `routers/mailboxes.py`,
`postfix_dovecot_admin.py`).  One address.  `box` is the row and credential of
VM1, `row` and `files` those of VM2, `agent` the call of each caller: sent, being
carried out, answered.  `TimesOut` makes a call that VM2 still carries out belong
to nobody (`Abandoned`).  Every transaction of VM1 can be rolled back up to its commit
(`RolledBack`): what VM2 has done stays, and a provision job that ends so is never claimed
again.  The client waits for 15 s, the helper that deletes a
maildir may take 60 s.

**SystemUpdate** (`settings_updates.py`, `system_update_handler.py`, the helpers of
both machines).  The worker's program counter walks the phases; each write of a
phase is a transaction that can fail (`TransactionFails`).  `installing` holds
installations that go on without a worker, `starts` counts them.

**AppUpdate** (`update.sh`, `app-update-helper.sh`, `app_update.py`).  `pc` is the
unit of each machine, `file` its state file.  A run that finds no VM2 in the database
leaves it out and reports success all the same (`PostSkips`,
`app-update-helper.sh:119-125`).  Pushes to master, a second click, a
lost answer, the 30-minute limit and reboots come at any time.

**AuditChain** implements **AuditLog** (`audit_service.py`, `db.py`, VM2's
`audit.py`).  A transaction flushes a row of the application, records entries
(lock, read of the last row, insert) in either order, commits or fails.  `rows` has
the gaps a rollback leaves.  Requests of the panel (`Panel`) begin and commit through
the event loop of their process; a handler that is `async def` (`OnLoop`) calls the
database inside it, and while it waits (`LoopBlocked`) nothing else of the process
moves until gunicorn kills it (`Watchdog`).  The refinement maps the log to the last hash of the
committed rows: the hash is the sequence of the texts it covers, so it *is* the
history.

**NginxConfig** (`settings_network.py`, `settings_tls.py`, their services, helpers
and the deploy hook).  `disk`, `stage`, `running` and `row` are what the four places
hold; `act` is the program counter of each request and of the renewal timer.
Files are written one by one.  `torn` records that two changes of one kind
overlapped, that one broke, or that certbot and the administrator disagree about the
mode; the properties say what holds while it is empty, and the refuted
claims below show that each exception is needed.

**Directory** (`routers/domains.py`, the quota and mailbox handlers of
`routers/mailboxes.py`, `routers/imports.py`, `import_service.py`; on VM2
`routers/domains.py`).  `dom`, `alias`, `mail`, `batch` are tables of VM1, `vm2` those
of VM2.  `req` is what each open request has read and where it is: it calls VM2
(`CallServed`, `CallRefused`, `CallFails`, the last before or after VM2 did it),
mailbox by mailbox where the code does, and commits, or is rolled back at any point
before (`RolledBack`), when VM1 forgets what VM2 was told.  An import looks up and inserts
row by row (`LookUp`, `Insert`) and stops at what the schema declares unique.  `doubt`
are the names and mailboxes a lost answer, a roll-back or an overlap left open, `moved` the aliases
of a renamed domain, `twice` the logins two requests looked up at once, `made` the
mailboxes VM2 was made to have.  Nothing in the schema of the panel keeps two domains
from having one destination (`models/domain.py`), and VM2 answers the creation of a
mailbox it has with that mailbox; two rows of the panel can then stand for one mailbox
of VM2, whose quota is what was asked for last.  `Sole` says that a row has its mailbox
to itself, and `SidesAgree` speaks of those.

**Accounts** (`settings_users.py`, `auth.py`, `setup_wizard.py`, `totp_service.py`,
`deps.py`, the console scripts).  `acc` has the accounts with their credential and its
recovery codes, `inst` the rows of `instance_state` (normally one), `cookie` the
session of each browser, which the server signs and does not store.  A handler that
decides on what it has read has a read and a commit (`Deactivate`, `DeactivateCommit`;
`Recovery`, `RecoveryCommit`; the steps of the wizard).  `torn` records that two such
requests overlapped or that the console came in between the steps of the wizard.  The handlers of
the wizard check its step only (`AtStep`), not whether it has ended, and neither does the
model: a step that commits late can set a finished wizard back, and the steps after it are
open to anybody.

**SyncRun** (`imapsync_flags.py`, `imapsync_runner.py`, `sync_job_handler.py`,
`settings_imapsync.py`, the settings in `routers/mailboxes.py`, `scheduler_main.py`).
`src` and `dst` are the two mailboxes, `run` the job the worker holds, with the
settings it read at its start, `last` the totals of the last success.  A typed text is
a sequence of tokens; `Parsed` is `validate_custom_flags` as a recursive function,
`Read` how imapsync pairs options and values again.  imapsync is external and handles
a message at a time (`Copy`, `Purge`, `Exit`, `Fail`).  Either transaction around it can
fail (`Raise`); its job is then `retrying` in `queue` (`Finish`), where nothing claims it and
the scheduler takes it for pending.

The modules meet in these places: the queue hands a mailbox to Provisioning and to
SyncRun and a run to SystemUpdate (a job there is a counter, a kind that waits, or a
status); Provision in Directory is the handler of Provisioning with what it does to
quotas, and the deletion of a mailbox is in Provisioning only; a deployment restarts
the worker (`Crash` and `Restart` in all of them); Provisioning takes the lock of
AuditChain around its calls; a failed transaction is `ProvisionFail`, `SyncStartFails`,
`SyncEndFails` and `DeleteRolledBack` in JobQueue, `RolledBack` in Provisioning and
Directory, `TransactionFails` in SystemUpdate, `Fails` and `DeadlockVictim` in AuditChain,
`Raise` in SyncRun.

## 4. Runs

| Run | Question | Instance | States |
|---|---|---|---|
| `queue_rows` | Does the table implement the work queue (an update is started once)? Is a running row held, the concurrency limit kept, deletion final, nobody overtaken, every queued job served, every run closed and every due mailbox enqueued? | 1 mailbox, 1 request, 3 jobs, 4 runs, 1 crash, 1 failed closing transaction, deletions committed or rolled back; fair | 330,763 |
| `queue_retry` | Is a failed job tried again? **No.** | 2 jobs; fair | – |
| `provision` | Do the machines agree after any sequence that nothing tore? Does a password set by hand survive, does pending end? | 2 lives of the address, 2 ids of VM2, 1 request against the worker, 1 failed call or transaction, 1 crash; fair | 577,037 |
| `update_rows` | Installed once, success true, does every run end unless a transaction failed? | 2 machines, 1 panel, 2 runs, 1 fault, 1 crash, 1 reboot; fair | 1,688,357 |
| `app_order` | VM2 first, success new, window closes? | 2 pushes, 3 presses, 1 fault or run without VM2, 2 reboots; fair | 105,660 |
| `audit_chain` | Is verification silent, does the log only grow, does every transaction end? | 2 sessions of one panel process, one in its event loop, 4 entries, UTC; fair | 64,117 |
| `nginx_config` | Can nginx start again, do row, disk and nginx agree? | 2 requests and the timer, 2 zones, 2 good uploads and a refused one, 3 changes, 1 fault | 970,041 |
| `nginx_refused` | Does nginx never keep a broken pair? **No.** | 1 request, 2 uploads | – |
| `accounts` | Is an active account left, does a used code stay used, does the wizard end once and with somebody who can log in? | 2 users, 2 browsers, 2 codes, 2 credentials, 1 row of the wizard; symmetry | 2,961,560 |
| `accounts_delete` | Does deleting an account remove it? **No.** | as above | – |
| `directory` | Do aliases and quotas agree on both machines, does one import make one mailbox for each login? | 2 domains, 3 names, 1 login, 2 quotas, a file of 1 row, 2 requests at once and 4 in all, 1 failed call or transaction, 1 rename; symmetry | 1,781,673 |
| `sync` | Is nothing deleted that nobody confirmed, does everything that stays arrive? | 2 messages, one old and one excluded, 12 texts of options, 1 failed run or transaction, 1 crash, 2 edits, 2 attempts; fair | 969,212 |

Larger instances of single questions are kept beside these and hold as well:
`JobQueue_throttle` (2 mailboxes, limits 1 and 2: `RateWithinPolicy`, `FinishedIsFinal`;
1,820,425 states), `Provisioning_safe` (3 lives; 1,471,472), `Provisioning_live` (2
requests; 186,638), `SystemUpdate_panels` (2 panel threads; 3,951,689),
`SystemUpdate_webmail` (VM1 and Roundcube; 727,897), `Directory_aliases` (1 domain, 2
logins, a file of 2 rows, one without a password, 5 requests; 5,051,142).

`CHECK_DEADLOCK FALSE` is set because every module has bounds after which nothing
is left to do, and the system itself is quiet when nobody asks for anything.

*Bounds.*  They are named (`Max…`) and sit in the guards.  Each is large enough for
the case its properties are about: three jobs of two kinds on one mailbox are the
smallest queue in which one is running, one is postponed and one is enqueued by a
racing reader; four runs let a window of the rate limit fill and empty twice; one
crash and one failed transaction is every hazard of the list taken alone and every
pair of one of each; two lives of an address reuse it with a new id; two updates of one machine meet in `_start_run`; three presses of the button put a finished, a joined
and a new update of VM2 behind one state file; two sessions are enough for every
overlap and deadlock of two locks; three changes of nginx are one in force, one that
tears or is refused and one after it; two browsers can go through the wizard together,
switch each other off and use two codes of one list at the same time; four requests
of which two are open at once let two meet on an alias or a mailbox, a third settle it
and a fourth change it again; two domains can have one destination and take an alias
from each other; two messages are one that an option leaves out and one that is too old,
and two edits switch a setting on and off within one run.  That each property fails under its seeded
fault shows that the run reaches the case.  Symmetry is used in runs without
liveness only, over mailboxes, requests or passwords that no definition tells apart.

*Fairness.*  The worker and the units run on (`Restart=on-failure`, systemd), a timer
fires, time passes, VM2 answers or the client's timeout does, an installation ends,
PostgreSQL grants locks in the order of their requests (hence strong fairness of the
steps that wait for one, which others can take in between; the worker's too, since a
deletion may hold a row at one of its polls, though not at every one) and looks for deadlocks,
gunicorn kills a process whose loop hangs, imapsync ends or is killed after an hour.
No administrator ever has to do anything, and nothing has to fail.

### Claims that the code refutes

The three violation runs are listed in `PROJECT.json` with their findings:

- `queue_retry`: `_finish_job` sets `retrying`, the claim looks for `queued` only.
- `nginx_refused`: in mode manual a refused upload has already overwritten the pair
  in use.
- `accounts_delete`: `AdminUser.totp` (`models/admin.py:21`) has neither `cascade` nor
  `passive_deletes`, so deleting an account with a second factor sets a column to NULL
  that must not be NULL, and the request fails.

Further configurations are kept beside the modules.  Each checks one claim of a
document or comment, and TLC finds a behaviour of the code that breaks it.  A file
`*_refuted.cfg` lists several claims about one instance: the first is checked, the
others are comments, to be exchanged with it one at a time.

| Configuration | Claim | What happens |
|---|---|---|
| `JobQueue_stalerun` `RunEnds` | `worker_main.py:73-74`: a run used to stay running "NA ZAWSZE" before the reaper | the closing transaction of a synchronisation (`sync_job_handler.py:122-187`) is rolled back; the run stays until the worker restarts |
| `JobQueue_inventory` `FirstRunIsInventory` | `docs/user/monitoring-sync.md`: an inventory follows the addition of a mailbox | the scheduler enqueues a transfer before provisioning enqueues the inventory (`scheduler_main.py:26-45`) |
| `Provisioning_refuted` `NoOrphan` | `docs/user/faq.md:25` | deletion during provisioning skips VM2 (`mailboxes.py:595`), the create still comes |
| `Provisioning_refuted` `Mirrored` | `docs/user/importing-mailboxes.md:43` | a provisioning of an active mailbox returns at once (`provision_handler.py:15`) |
| `Provisioning_refuted` `DeletedMailIsGone` | `vm2_api/bin/delete-maildir.sh:3-5` | Dovecot delivers between the removal of the maildir and of the row |
| `Provisioning_refuted` `NoDivergence` | `mailboxes.py:592-594`: "żeby stan po obu stronach się nie rozjechał" | VM2 deletes, and the transaction of the panel is rolled back afterwards or the client has given up |
| `Provisioning_refuted` `StoredPasswordWorks` | `worker_main.py:91`: "bezpiecznie wznowić (idempotentne)" | the source password changes between the create and the resumed create, which returns the mailbox as it was (`postfix_dovecot_admin.py:110-111`) |
| `Directory_refuted` `DeletedAliasStops` | `docs/user/login-aliases.md:26-27`: a deleted alias stops working | after a rename VM2 is asked for the alias of the new destination (`domains.py:173`) and has none; the row goes all the same |
| `Directory_refuted` `KeptAliasAccepted` | `domains.py:127-129`: no alias is kept that VM2 has not accepted | VM2 deletes an alias and its answer is lost |
| `Directory_refuted` `LivesAtDestination` | `docs/user/login-aliases.md:10` | a new `destination_domain` moves no mailbox, and the next transfer logs in there (`sync_job_handler.py:41`) |
| `Accounts_refuted` `CodeWorksOnce` | `docs/user/first-run-wizard.md:11`: "każdy działa tylko raz" | two logins with different codes at once: each writes back the list it read (`auth.py:140`) |
| `Accounts_refuted` `LastActiveKept` | `docs/user/admin-accounts.md:22` | the count and the deletion have no lock in common (`settings_users.py:167`), and deactivation counts nothing |
| `Accounts_refuted` `WizardGoesOn` | `docs/user/first-run-wizard.md:3`: the wizard blocks the panel until it is completed, so that it can be completed | the id of the new account is only in the cookie (`setup_wizard.py:76`); a lost cookie leaves the wizard at a step nobody can take |
| `Accounts_refuted` `FinalInEveryRow` | `docs/user/first-run-wizard.md:3`: the wizard runs after the installation, until it is completed | two first visits at once make two rows and the query takes either (`deps.py:15`); with one row it holds (`WizardEndsOnce`) |
| `Accounts_refuted` `WizardStaysClosed` | `docs/user/first-run-wizard.md:3`, as above | a step that another browser commits late sets the finished wizard back, and the handlers (`setup_wizard.py:46` and the others) ask for the step only |
| `SyncRun_refuted` `KeptStaysCounted` | `docs/user/faq.md:16`, `docs/user/monitoring-sync.md:5` | the drift is the difference to the last success only: the next success counts the kept messages no more |
| `SyncRun_refuted` `SuccessIsComplete` | `docs/user/faq.md`: while nothing is missing, everything is synchronised | imapsync counts what `days_back` and `--exclude` leave |
| `SyncRun_refuted` `AcceptedStarts` | `imapsync_flags.py:3-9`: bad flags are refused with a readable error, the scan in `build_argv` is the last resort | `--exclude --delete1` is accepted when it is saved; the scan in `build_argv` fails every run |
| `AuditChain_zone` `ChainIntact` | `audit_verify_main.py:25-26`: what is reported was tampered with | what is hashed is written in UTC, what is verified in the time zone of the session (`audit_service.py:67`) |
| `AuditChain_hang` `NoHang` | no document; nobody intends a panel that stands still | `imports.py:73`, `:129`, `mailboxes.py:359`, `settings_alerts.py:26` wait for the advisory lock inside the event loop; a request that holds it (`mailboxes.py:437-460`) needs the loop to commit, and both wait until gunicorn kills the process after 120 s |
| `SystemUpdate_refuted` `RunAlwaysEnds` | `worker_main.py:96-98` | two failed transactions leave the run running (`system_update_handler.py:173`) |
| `SystemUpdate_refuted` `SuccessIsAudited` | `audit_service.py:25-26` | crash between the two transactions of `_finish` |
| `SystemUpdate_refuted` `FlagMeansNeeded` | `settings_updates.py:29-31` | `reboot_needed` is written after the reboot that made it false |
| `SystemUpdate_refuted` `BackupFirst` | `docs/user/system-updates.md:46` | a failed backup does not stop the update (`system_update_handler.py:91`) |
| `SystemUpdate_refuted` `NotResumed` | `worker_main.py:89`: "aktualizacji systemu NIE wznawiamy automatycznie" | the reaper fails a run whose job is still queued; the job is executed later |
| `AppUpdate_refuted` `AlwaysVm2First` | `docs/technical/runbooks/full-update.md:48` | a joined update of VM2 has an older result (`app-update-helper.sh:130`); `psql` fails and VM2 is left out (`:119-125`) |
| `AppUpdate_refuted` `UpdatesAreWaitedFor` | `update.sh:184` | a system update is queued after the only look at the queue |
| `NginxConfig_issued` `IssuedIsActive` | `certbot-acmedns.sh:54`: "wystawiony i aktywowany" | a certificate that is not due is kept with exit code 0 and no deploy hook; the row says certbot, the links do not |

A renewal switches the active links whatever mode the administrator has chosen; the
module records it (`torn`, "mode") and `PanelAgrees` excludes it, since `tls.html:8` only
shows what the database says and no document promises otherwise.  `sync_now` during the
inventory of a new mailbox adds no job, although `docs/user/monitoring-sync.md` says it
forces a synchronisation at once: the inventory counts as the job that waits.

## 5. Proofs

All are checked to the last leaf, from the named assumptions on the constants alone,
which TLC evaluates in every run of these modules.

| Module | Obligations | Theorems that state what a run checks | Others |
|---|---|---|---|
| `JobQueueProofs` | 1,835 | `TypeOK`, `RunningIsHeld`, `ImplementsQueue`, `NoStaleRun`, `ConcurrencyWithinPolicy`, `DeletedStaysDeleted`, `NoOvertaking` | `UpdatesStartOnce`, `FinishedRowsAreFinal`, `RateRespected` |
| `ProvisioningProofs` | 1,897 | `TypeOK`, `MachinesAgree`, `OverrideKept` | `AgreesUnlessTorn` |
| `UpdateProofs` | 1,272 | of SystemUpdate: `TypeOK`, `InstalledOnce`, `SuccessIsTruthful`; of AppUpdate: `AppTypeOK`, `SuccessIsNew`, `Vm2First` | `SuccessMeansInstalled`, `NoRunIsStuck` |
| `AuditChainProofs` | 985 | `TypeOK`, `ChainIntact`, `Implements` | `LastHashCoversAll`, `VerifiedMeansUnchanged` |
| `NginxConfigProofs` | 2,432 | `TypeOK`, `StartsAgain`, `PanelAgrees` | |
| `DirectoryProofs` | 4,421 | `TypeOK`, `SidesAgree`, `OneMailbox` | |
| `AccountsProofs` | 1,677 | `TypeOK`, `ActiveAdminLeft`, `CodesUsedUp`, `SetupLeavesAdmin`, `SetupIsFinal` | |
| `SyncRunProofs` | 682 | `TypeOK`, `SyncsAreSafe` | `AcceptedOptionsAreAllowed` |

Two theorems have a hypothesis beyond the assumptions of their module: one
administrator at a time (`MachinesAlwaysAgree`) and `Zone = "UTC"` (`ChainVerifies`).  Each is named below, with the refuted claim that
shows it is needed.  Every inductive invariant was checked by TLC on instances of its
module before it was proved.

**JobQueue.**  `TypeCorrect`, `RunningRowsAreHeld`, `UpdatesStartOnce`, `RunsAreTruthful`,
`ConcurrencyRespected`, `RateRespected`, `DeletionIsFinal`, `FinishedRowsAreFinal`,
`NobodyOvertaken` and `TableIsAQueue` hold for every number of mailboxes, requests, rows, crashes and
failures, every batch of the claim and every policy (`FinishedIsFinal` and
`RateWithinPolicy` are checked by `JobQueue_throttle` only).  None of the
invariants is inductive: that a running row is the worker's says nothing of what the
worker may do to it next.  `IInv` adds

- `WorkerInv`: past the claim the worker's row, and during imapsync its run, is
  running unless a deletion removed it; before the claim it has none;
- `UpdateInv`: an update that is queued has never been claimed (otherwise a second
  claim would be its second start), and one that runs has, so that its one attempt is
  used up when it ends;
- `UnusedInv`: an id that was not handed out has no mailbox, so that deleting a
  mailbox cannot delete a row that does not exist, and is no update;
- `NoStaleRun` beside `RunningIsHeld`, because the reaper establishes both.

Each conjunct has a lemma with one step per action; the steps of the other processes
are shown once to keep what the worker relies on (`OthersKeep`, `OthersControl`).
`ConcurrencyRespected` needs `RoomInv`: between the claim of a synchronisation and the
insertion of its run there is room for one more run, because only the worker inserts
runs (`OnlyStartAdds`) and nothing else increases their number (`RunsShrink`).
`RateRespected` is the same argument for the runs of the window (`OnlyStartCounts`); it
speaks of the runs the table has, and one deleted with its mailbox is counted no more, so
more may have started.  The
cardinalities come from `FiniteSetTheorems`, and so does the step of `NobodyOvertaken`
that the batch does not make obvious: what is due, not locked and comes before a row
the claim has read has fewer rows before it and was read too (`CandidatesFirst`).

`TableIsAQueue` is the refinement of `WorkQueue`, step by step (`QueueStep`): insertions
submit (`Inserted`), the claim takes, `Finish` ends (`FinishEnds`), the deletion withdraws
(`DeleteWithdraws`), the reaper resumes (`RestartResumes`), and a step that changes neither
the state nor the kind of a row nor the row in hand is invisible (`Unseen`).  It needs
what `IInv` knows: the table has nothing that says "the worker is idle" or "a second
attempt is forbidden"; that a claim finds empty hands and no running row is
`RunningIsHeld` with `WorkerInv`, and that an update never becomes `retrying` is the count
of its attempts in `UpdateInv`.

**Provisioning.**  `TypeCorrect`; `AgreesUnlessTorn`: whatever the number of requests,
passwords, mailboxes, faults and crashes, the machines agree whenever nobody is at work,
as long as no two operations overlapped and none was interrupted; `MachinesAlwaysAgree`:
with one request at a time (`OneAtATime`) an active mailbox is on VM2, whatever
overlaps with the worker and however often it crashes, unless a call failed or was late
or a transaction of VM1 was rolled back after VM2 had answered (then `NoDivergence` is
refuted; with two deletions at a time it is false even without: one that read no id
commits, the address is imported again, VM2 answers with the row it still has, and the
other deletion removes that row);
`OverrideStays`: a destination password set by hand is changed by nobody but a later
request of the panel.  `IInv` adds

- `NumbersInv`, `BoxInv`, `AgentInv`: ids are handed out once and a caller at work has
  read a mailbox that was there;
- `KnownInv`: only the worker makes a mailbox known to VM1, and only one that was not,
  so that nobody's id of a mailbox goes stale while the mailbox lives;
- `UntornInv`: the phase of the one operation under way: until VM2 has carried it out the
  machines agree, and then the row of VM1 has what the commit needs to make them agree
  again;
- `LateInv`: with one request, calls that a crash left behind can only be creations, which
  find the mailbox they would make.

`ProvisioningAssumption` says that "none", which stands for NULL in a row, is not a
password.  The actions fall into seven kinds of step (`StepKinds`), and each conjunct has
a lemma for each kind.

**SystemUpdate.**  `TypeCorrect`; `InstallsOnce`: dnf is started at most once for a run,
however often the worker dies, the machines reboot and transactions fail; `SuccessIsTrue`:
the installation of a run shown as successful went well;
`SuccessMeansInstalled`: and it was over by then; `NoRunIsStuck`: without a failed
transaction a job is not closed before its run.  `IInv` adds `StartsInv` (whoever is
before the installation holds a job that started nothing, because the queue hands out a
job once and the reaper fails what runs), `OkInv` (what the worker remembers is how the
installation ended), `SuccessInv` and `ClosedInv`.  The installation goes on without the
worker and ends at any time, so `OkInv` cannot be left to the step that sets it: it must
be known that nothing ends the same installation twice.

**AppUpdate.**  `AppTypeCorrect`; `SuccessBringsNewCode` and `Vm2ComesFirst`, an action
property, for every number of pushes, presses of the button, faults
and reboots.  What the first says of VM1 holds whatever failed; what both say of VM2
speaks of runs that nothing disturbed, and leaving VM2 out is a disturbance.  `Vm2Inv` says that VM2 is then at work only for the run that
waits for it, so that its state file is the result of this run; `FreshVm2Inv` and
`FreshVm1Inv` carry the version from the fetch to the deployment and from one machine to
the other.

**AuditChain.**  `TypeCorrect`; `ChainVerifies`: with `Zone = "UTC"` the verification never
reports a row, for every set of sessions and number of entries; `CommittedLogOnlyGrows`:
in any zone the module implements `AuditLog`.  `IInv` says that the holder of the lock
is the only one with uncommitted rows (`LockInv`), that what it has read is still the
last row when it inserts (`ReadInv`), that uncommitted rows come behind all committed
ones (`OpenLast`), and that each row continues the row before it (`Linked`) and
therefore all of them (`Grows`).  `ReadInv` is where the order of the code matters: the
lock is taken by one statement and the last row read by the next, whose snapshot
therefore contains what the previous holder committed.  The refinement maps `Init` to
the empty log; a commit of the holder extends the log (`CommitExtends`), every other
step leaves it (`LogUnchanged`).

The mapping takes the log from the last hash alone.  `LastHashCoversAll` says that this
is the table: in every reachable state the last hash names each committed entry once, in
the order of the ids, and nothing that was rolled back.  `VerifiedMeansUnchanged` is about
`verify_chain` and has no `Spec` in it: whatever was done to the rows, a table that it
accepts is determined, entry by entry and in number, by its last hash (so removing the
last entries is noticed only by who has noted that hash).  Both follow from `HashCovers`:
there is no smallest id whose hash does not name the rows up to it, with cardinalities
from `FiniteSetTheorems` for the place of an entry (`Places`).

**SyncRun.**  `TypeCorrect`; `AcceptedOptionsAreAllowed`: whatever somebody types, for
every sequence of tokens of any length, if `validate_custom_flags` accepts it, then every
option that imapsync reads from the resulting command line is on the list of allowed
options; `NothingIsLost` (`SyncsAreSafe`): no run changes the source, and a message
disappears from the destination only in a transfer whose settings had the deletion
confirmed when it read them.  The first is about two recursions
that go through the text in different ways: `Parsed` joins an option to its value as the
panel does, `Read` pairs them again as imapsync does, and a value could be taken for an
option if the two ever got out of step.  Its argument:

- *induction* (`LeastElement`, `SetInduction`, `DownwardInduction`): the predicate is
  given as a set of numbers, whose smallest element comes from `WFMin`; the induction
  theorems of the library take an operator, which the provers cannot instantiate.
  `Recursion` shows that a recursion that goes up in steps defines a function, so that
  the two definitions satisfy their own equations (`ReadEquation`, `ParsedEquation`);
- *framing* (`Framed`): from the first token on, each option of the list stands where
  imapsync looks for one and is followed by its value if it takes one; what
  `validate_custom_flags` returns is framed (`ParsedFramed`), putting framed lists one behind
  the other keeps it (`FramedConcat`), and imapsync reads a framed list as the options it
  was made of (`FramedRead`).

`NothingIsLost` then needs `FlagsInv` (a running imapsync was told to delete at the
destination only if the settings of its run say so, never at the source, and to change
nothing in an inventory; `ExtraRead` gives that no typed option adds to this) and `ConfirmInv` (settings
that delete were confirmed, in the row and in what the worker has read of it).

**Accounts.**  `TypeCorrect`; `AnActiveAdminIsLeft`; `RecoveryCodesAreUsedUp`;
`WizardLeavesAdmin`; `WizardEndsOnce`, which speaks of states with one row of the wizard.
They hold for every set of users, recovery codes and (finitely many) browsers.  `IInv` adds

- `RequestInv`: what a request has read belongs to a row or an account there was;
- `VisitInv`: rows of the wizard and first visits under way are together at most
  `MaxRows`, with cardinalities from `FiniteSetTheorems`;
- `AdminInv`: while nothing is torn, an active account is left beside the one that a
  request under way switches off or deletes.  The proof does not use the number that
  `delete_user` counts: the one who deletes is active and may not delete himself;
- `CodesInv`: a list of codes about to be written back has none that was used;
- `DoneInv`: once the wizard has ended, and while nothing is torn, its one row is at the last
  step and no step of it is under way: the handlers' check of the step then refuses every other;
- `SetupInv`: before the wizard ends nobody can take an account or a second factor
  away, so a step that comes after the second factor finds somebody who has one.

The lemmas follow what a step can do rather than which step it is: what becomes of
the requests (`RequestsGo`), of the rows of the wizard (`WizardRows`) and of an account
(`AccountGoes`), each once for all actions; the conjuncts of `IInv` rest on these.

**NginxConfig.**  `TypeCorrect`; `StartsSafely`; `PanelIsTrue`, for every set of requests,
zones and uploads and every number of changes.  `StartsSafely` leaves out what `nginx_refused`
shows: a refused upload that has replaced the pair in use (`torn`).  `IInv` adds

- `KindInv`: the course each kind of change goes, with the pair of its kind;
- `AloneInv`: while nothing of a class (zones, certificate) is torn, one change of it is
  under way;
- `TlsInv`: where the links, the files and the staged pair stand in each phase of that
  change (`TlsPhase`), and that between changes nginx uses a pair that goes together
  (`Served`);
- `ModeInv` and `ZonesInv`: the row of VM1 says what the disk has, or what the change under
  way will put back, or what it is about to write;
- `EnforcedInv`: nginx runs with the zones on the disk.  A change of the zones and one of
  the certificate are not kept apart by anything, and each reloads nginx with whatever the
  other has installed so far: the conjunct holds only while neither has a reload ahead of
  it, which is why it names the phases of both.

**Directory.**  `TypeCorrect`; `SidesStayAgreed`; `OneMailboxEach`, for every set of
domains, names, logins and quotas, every file and every number of requests.  The proof
classifies a step of a request by what it does to the tables (`StepKinds`); each conjunct
of `IInv` is then shown for the kinds.  A refused call and a rolled-back transaction are one
kind (`Drops`): the request ends, and what VM2 was told of it (`Told`) is in doubt.  `IInv` adds

- `FormInv`, `TablesInv`: what each kind of request has read and where it is; aliases and
  mailboxes belong to domains that exist, and an active mailbox is one VM2 was made to have;
- `TornInv`: two requests that meet on an alias or a mailbox both know;
- `AliasInv`: where VM2 stands with an alias that nobody, or one request, is at;
- `MailboxInv`, `QuotaInv`, `WorkerInv`: the same for a mailbox, a change of quotas, mailbox
  by mailbox, and the provisioning that meets it;
- `OpensInv`, `LoginInv`, `RowsInv`: a new domain is opened by one import; a login that a
  request is about to add is not there, unless two looked it up at once; a row of the file
  that was chosen has its mailbox, now or when the import commits.

`DirectoryAssumption` says that names are not numbers, because `Things` puts the names of
aliases and the ids of mailboxes into one set.

The proof changed the model.  With one domain, `SidesAgree` had been true of every state
TLC could reach, but not for the reasons in the code; two domains break it in three ways:

- two rows of the panel share a mailbox of VM2 (above); the property now names it (`Sole`),
  and the run has the two domains that can do it;
- a deletion of an alias that VM2 holds for another domain was taken to settle what a lost
  answer had left open; it asks VM2 for the alias of its own destination, finds none and
  settles nothing;
- a change of nothing but the quotas of a domain was taken to move its aliases; it does not,
  and the exception is gone.

*Only model-checked:* liveness (fairness and ENABLED are out of reach of the provers
used): `QueuedIsServed`, `RunEndsUnlessLeaked`, `DueIsEnqueued`, `PendingIsProvisioned`,
`RunEnds`, `AppRunEnds`, `TransactionEnds` and `GetsCopied`.  Every invariant and every action property of a passing run is stated by a theorem.
`NoHang` of AuditChain and the other claims of section 4 are refuted.  No module uses a
RECURSIVE operator, which would take the SMT backend away: `Parsed` and `Read` of SyncRun
are recursive functions.

## 6. Not modelled

Components without a module are listed in `PROJECT.json` with the reason; the plan
above names those that come next (scanning and findings, the single sign-on).  Views
and documentation change no state; branding has the shape of the access zones without
the test; fail2ban, certbot and git are external; installation scripts run once, and
what they leave is the initial state.  Inside the modelled parts, the following is
abstracted: logs of a run, package lists, wording; the contents of a zone or
certificate except whether nginx accepts it; encryption (a bijection) and hashing
(injective); hosts, ports and `is_active` of a domain; reading archives and
spreadsheets; whether a person knows the password or the TOTP code asked for; what the
steps of the wizard for VM2 and branding store; folders, flags and sizes of messages.
Two workers are not modelled: `portal-worker.service` runs one.  The modules are
checked one by one: their composition is the list of meeting places in section 3, and
no run joins two of them but NginxConfig, where three components share one nginx.
