---------------------------- MODULE Provisioning ----------------------------
(***************************************************************************)
(* One mail address kept on two machines without a common transaction: the *)
(* mailboxes/credentials rows of VM1, and the virtual_mailboxes row and    *)
(* maildir of VM2 behind the provisioning API.                             *)
(*                                                                         *)
(* The provision handler of the worker and the panel requests that delete  *)
(* the mailbox or change its passwords all read the VM1 row, call VM2, and *)
(* commit what they learned.  The call and its answer can be delayed past  *)
(* the client's timeout (15 s, services/vm2_client.py), so VM2 may carry   *)
(* out, or have carried out, what the caller was told had failed.          *)
(*                                                                         *)
(* Abstractions: passwords are values of a set, whether encrypted (VM1) or *)
(* hashed (VM2); one address; quota, audit rows and domains are left out.  *)
(***************************************************************************)
EXTENDS Naturals

CONSTANTS
    Passwords,    \* mailbox passwords
    Requests,     \* panel threads
    Worker,       \* the provision handler inside portal-worker
    Abandoned,    \* calls VM2 may still serve although their caller gave up
    MaxGen,       \* bound: mailboxes.id values ever used for the address
    MaxId,        \* bound: virtual_mailboxes.id values ever used
    MaxJobs,      \* bound: provision jobs waiting per mailbox
    MaxFaults,    \* bound: failed, delayed or unanswered calls, and transactions of
                  \* VM1 rolled back
    MaxCrashes    \* bound: crashes of portal-worker

ASSUME ProvisioningAssumption ==
    /\ Worker \notin Requests /\ Abandoned \notin Requests /\ Worker # Abandoned
    /\ "none" \notin Passwords
    /\ MaxGen \in Nat /\ MaxId \in Nat /\ MaxJobs \in Nat
    /\ MaxFaults \in Nat /\ MaxCrashes \in Nat

VARIABLES
    box,      \* the mailbox and its credential on VM1
    row,      \* the virtual_mailboxes row on VM2
    files,    \* the maildir exists on VM2
    lastGen,  \* last mailboxes.id handed out
    lastId,   \* last virtual_mailboxes.id handed out
    jobs,     \* queued provision jobs of each mailboxes.id
    agent,    \* what each caller of VM2 is doing
    faults,
    crashes,
    torn      \* history: two callers overlapped, or a call, a transaction or the
              \* worker broke

vars == <<box, row, files, lastGen, lastId, jobs, agent, faults, crashes, torn>>

-----------------------------------------------------------------------------
Callers == {Worker, Abandoned} \cup Requests
NoPassword == "none"
AnyPassword == Passwords \cup {NoPassword}

\* gen: mailboxes.id (0: no row); vm2: vm2_mailbox_id (0: NULL);
\* src, dst: source_password_encrypted, destination_password_encrypted.
Box == [gen : 0..MaxGen, st : {"pending", "active"}, vm2 : 0..MaxId,
        src : AnyPassword, dst : AnyPassword, override : BOOLEAN]
NoBox == [gen |-> 0, st |-> "pending", vm2 |-> 0, src |-> NoPassword,
          dst |-> NoPassword, override |-> FALSE]
Row == [id : 0..MaxId, pw : AnyPassword]
NoRow == [id |-> 0, pw |-> NoPassword]

\* A caller: the operation, the mailbox it read (gen, id, override) and the
\* password it sends.  pc: "lock" it waits for the audit lock; "call" the request
\* is on its way; "files" VM2 has removed the maildir and not yet the row;
\* "answer" and "error" as told.
Agent == [pc : {"idle", "lock", "call", "files", "answer", "error"},
          op : {"create", "delete", "reset", "mirror"},
          gen : 0..MaxGen, id : 0..MaxId, pw : AnyPassword, override : BOOLEAN]
Idle == [pc |-> "idle", op |-> "create", gen |-> 0, id |-> 0, pw |-> NoPassword,
         override |-> FALSE]

Busy(a) == agent[a].pc # "idle"
Overlap(a) == \E b \in Callers \ {a} : Busy(b)

\* audit_service.record takes an advisory lock until the end of the transaction.
\* A mirrored change records its source half first and calls VM2 with the lock
\* held; the other transactions record just before they commit.
AuditLocked == \E p \in Requests : agent[p].op = "mirror" /\ agent[p].pc \notin {"idle", "lock"}

Init ==
    /\ box = NoBox
    /\ row = NoRow
    /\ files = FALSE
    /\ lastGen = 0
    /\ lastId = 0
    /\ jobs = [g \in 1..MaxGen |-> 0]
    /\ agent = [a \in Callers |-> Idle]
    /\ faults = 0
    /\ crashes = 0
    /\ torn = FALSE

-----------------------------------------------------------------------------
(* VM1: one-transaction requests *)

\* upsert_mailbox: a new mailbox, or a new source password for the known one;
\* in both cases a provision job.
Upsert(pw) ==
    /\ ~AuditLocked
    /\ \/ /\ box.gen = 0
          /\ lastGen < MaxGen
          /\ lastGen' = lastGen + 1
          /\ box' = [NoBox EXCEPT !.gen = lastGen + 1, !.src = pw]
       \/ /\ box.gen # 0
          /\ box' = [box EXCEPT !.src = pw]
          /\ UNCHANGED lastGen
    /\ jobs[box'.gen] < MaxJobs
    /\ jobs' = [jobs EXCEPT ![box'.gen] = @ + 1]
    /\ UNCHANGED <<row, files, lastId, agent, faults, crashes, torn>>

\* update_source_password without also_destination.
ChangeSource(pw) ==
    /\ ~AuditLocked
    /\ box.gen # 0
    /\ box' = [box EXCEPT !.src = pw]
    /\ UNCHANGED <<row, files, lastGen, lastId, jobs, agent, faults, crashes, torn>>

-----------------------------------------------------------------------------
(* VM1: the read and the call *)

FirstStep(op, id) ==
    IF op = "mirror" THEN "lock" ELSE IF op = "delete" /\ id = 0 THEN "answer" ELSE "call"

Start(a, op, pw) ==
    /\ agent' = [agent EXCEPT ![a] =
                   [pc |-> FirstStep(op, box.vm2), op |-> op, gen |-> box.gen, id |-> box.vm2, pw |-> pw,
                    override |-> box.override]]
    /\ torn' = (torn \/ Overlap(a))

\* A panel request reads the mailbox.  A mailbox without vm2_mailbox_id is
\* deleted, or gets its source password, without a call; reset refuses it.
RequestStart(p, op, pw) ==
    /\ ~Busy(p)
    /\ box.gen # 0
    /\ op = "reset" => box.vm2 # 0
    /\ Start(p, op, pw)
    /\ UNCHANGED <<box, row, files, lastGen, lastId, jobs, faults, crashes>>

\* A mirrored change records its source half: it holds the audit lock from here.
TakeAuditLock(p) ==
    /\ agent[p].pc = "lock"
    /\ ~AuditLocked
    /\ agent' = [agent EXCEPT ![p].pc = IF agent[p].id = 0 THEN "answer" ELSE "call"]
    /\ UNCHANGED <<box, row, files, lastGen, lastId, jobs, faults, crashes, torn>>

\* Seeded fault: a mailbox that is active already is provisioned again.
ProvisionAgain(g) ==
    /\ ~Busy(Worker)
    /\ jobs[g] > 0
    /\ jobs' = [jobs EXCEPT ![g] = @ - 1]
    /\ IF box.gen = g THEN Start(Worker, "create", box.src) ELSE UNCHANGED <<agent, torn>>
    /\ UNCHANGED <<box, row, files, lastGen, lastId, faults, crashes>>

\* provision_handler.handle up to the call: nothing to do for a mailbox that
\* was deleted or is active.
ProvisionStart(g) ==
    /\ ~Busy(Worker)
    /\ jobs[g] > 0
    /\ jobs' = [jobs EXCEPT ![g] = @ - 1]
    /\ IF box.gen = g /\ ~(box.st = "active" /\ box.vm2 # 0)
       THEN Start(Worker, "create", box.src)
       ELSE UNCHANGED <<agent, torn>>
    /\ UNCHANGED <<box, row, files, lastGen, lastId, faults, crashes>>

-----------------------------------------------------------------------------
(* VM2: one transaction per call, the delete after a root helper *)

\* create_mailbox: an existing mailbox is answered as it is, with its password.
\* (Two creates that both see no row end as one create and one Vm2Fails: the
\* address is a unique key.)
Vm2Create(a) ==
    /\ agent[a].pc = "call" /\ agent[a].op = "create"
    /\ IF row.id = 0
       THEN /\ lastId < MaxId
            /\ lastId' = lastId + 1
            /\ row' = [id |-> lastId + 1, pw |-> agent[a].pw]
            /\ agent' = [agent EXCEPT ![a].pc = "answer", ![a].id = lastId + 1]
       ELSE /\ agent' = [agent EXCEPT ![a].pc = "answer", ![a].id = row.id]
            /\ UNCHANGED <<row, lastId>>
    /\ UNCHANGED <<box, files, lastGen, jobs, faults, crashes, torn>>

\* reset_password: 404 if the id is gone.
Vm2Reset(a) ==
    /\ agent[a].pc = "call" /\ agent[a].op \in {"reset", "mirror"}
    /\ IF row.id = agent[a].id
       THEN /\ row' = [row EXCEPT !.pw = agent[a].pw]
            /\ agent' = [agent EXCEPT ![a].pc = "answer"]
       ELSE /\ agent' = [agent EXCEPT ![a].pc = "error"]
            /\ UNCHANGED row
    /\ UNCHANGED <<box, files, lastGen, lastId, jobs, faults, crashes, torn>>

\* delete_mailbox, the helper: 404 if the id is gone, else the maildir goes.
Vm2DeleteFiles(a) ==
    /\ agent[a].pc = "call" /\ agent[a].op = "delete"
    /\ IF row.id = agent[a].id
       THEN files' = FALSE /\ agent' = [agent EXCEPT ![a].pc = "files"]
       ELSE UNCHANGED files /\ agent' = [agent EXCEPT ![a].pc = "error"]
    /\ UNCHANGED <<box, row, lastGen, lastId, jobs, faults, crashes, torn>>

\* delete_mailbox, the row and the commit.
Vm2DeleteRow(a) ==
    /\ agent[a].pc = "files"
    /\ row' = IF row.id = agent[a].id THEN NoRow ELSE row
    /\ agent' = [agent EXCEPT ![a].pc = "answer"]
    /\ UNCHANGED <<box, files, lastGen, lastId, jobs, faults, crashes, torn>>

\* Dovecot creates the maildir when the user, imapsync or LMTP gets in, which
\* takes a row.
Deliver ==
    /\ row.id # 0
    /\ files' = TRUE
    /\ UNCHANGED <<box, row, lastGen, lastId, jobs, agent, faults, crashes, torn>>

-----------------------------------------------------------------------------
(* Failures *)

\* VM2 refuses, cannot be reached, or its transaction is rolled back.
Vm2Fails(a) ==
    /\ agent[a].pc \in {"call", "files"}
    /\ faults < MaxFaults
    /\ faults' = faults + 1
    /\ agent' = [agent EXCEPT ![a].pc = "error"]
    /\ torn' = TRUE
    /\ UNCHANGED <<box, row, files, lastGen, lastId, jobs, crashes>>

\* The caller stops waiting; VM2 goes on with what it has of the call.
TimesOut(a) ==
    /\ a # Abandoned
    /\ agent[a].pc \in {"call", "files", "answer"}
    /\ agent[a].pc = "answer" => agent[a].id # 0
    /\ faults < MaxFaults
    /\ faults' = faults + 1
    /\ IF agent[a].pc = "answer"
       THEN agent' = [agent EXCEPT ![a].pc = "error"]
       ELSE /\ ~Busy(Abandoned)
            /\ agent' = [agent EXCEPT ![a].pc = "error", ![Abandoned] = agent[a]]
    /\ torn' = TRUE
    /\ UNCHANGED <<box, row, files, lastGen, lastId, jobs, crashes>>

\* The transaction of the caller ends without a commit: PostgreSQL resolves a
\* deadlock, the connection is lost, the watchdog of gunicorn stops the process, the
\* handler raises.  What VM2 has done stays done, and it may still serve a call; a
\* provision job ends in state retrying.
RolledBack(a) ==
    /\ a # Abandoned /\ Busy(a)
    /\ faults < MaxFaults
    /\ faults' = faults + 1
    /\ \/ /\ agent[a].pc # "files"
          /\ agent' = [agent EXCEPT ![a] = Idle]
       \/ /\ agent[a].pc \in {"call", "files"}
          /\ ~Busy(Abandoned)
          /\ agent' = [agent EXCEPT ![a] = Idle, ![Abandoned] = agent[a]]
    /\ torn' = TRUE
    /\ UNCHANGED <<box, row, files, lastGen, lastId, jobs, crashes>>

\* Nobody reads the answer of an abandoned call.
Forget ==
    /\ agent[Abandoned].pc \in {"answer", "error"}
    /\ agent' = [agent EXCEPT ![Abandoned] = Idle]
    /\ UNCHANGED <<box, row, files, lastGen, lastId, jobs, faults, crashes, torn>>

\* Seeded fault: a restarted worker does not resume provisioning.
CrashLosesJob ==
    /\ Busy(Worker)
    /\ crashes < MaxCrashes
    /\ crashes' = crashes + 1
    /\ agent' = [agent EXCEPT ![Worker] = Idle]
    /\ torn' = TRUE
    /\ UNCHANGED <<box, row, files, lastGen, lastId, jobs, faults>>

\* The worker dies with a job in hand; _reap_orphans queues the job again.  VM2
\* may still serve the call, or never see it.
Crash ==
    /\ Busy(Worker)
    /\ crashes < MaxCrashes
    /\ crashes' = crashes + 1
    /\ jobs' = [jobs EXCEPT ![agent[Worker].gen] = @ + 1]
    /\ \/ agent' = [agent EXCEPT ![Worker] = Idle]
       \/ /\ agent[Worker].pc = "call"
          /\ ~Busy(Abandoned)
          /\ agent' = [agent EXCEPT ![Worker] = Idle, ![Abandoned] = agent[Worker]]
    /\ torn' = TRUE
    /\ UNCHANGED <<box, row, files, lastGen, lastId, faults>>

-----------------------------------------------------------------------------
(* VM1: the commit *)

\* Seeded fault: the id VM2 answered is not stored.
ProvisionCommitNoId ==
    /\ agent[Worker].pc = "answer"
    /\ ~AuditLocked
    /\ box' = IF box.gen = agent[Worker].gen
              THEN [box EXCEPT !.st = "active", !.dst = agent[Worker].pw]
              ELSE box
    /\ agent' = [agent EXCEPT ![Worker] = Idle]
    /\ UNCHANGED <<row, files, lastGen, lastId, jobs, faults, crashes, torn>>

\* provision_handler.handle from the answer on.  If the mailbox was deleted
\* meanwhile the UPDATE matches no row and the transaction is rolled back.
ProvisionCommit ==
    /\ agent[Worker].pc = "answer"
    /\ ~AuditLocked
    /\ box' = IF box.gen = agent[Worker].gen
              THEN [box EXCEPT !.st = "active", !.vm2 = agent[Worker].id,
                               !.dst = IF agent[Worker].override THEN @ ELSE agent[Worker].pw]
              ELSE box
    /\ agent' = [agent EXCEPT ![Worker] = Idle]
    /\ UNCHANGED <<row, files, lastGen, lastId, jobs, faults, crashes, torn>>

\* The job ends in state retrying, which the worker never claims again.
ProvisionGivesUp ==
    /\ agent[Worker].pc = "error"
    /\ agent' = [agent EXCEPT ![Worker] = Idle]
    /\ UNCHANGED <<box, row, files, lastGen, lastId, jobs, faults, crashes, torn>>

\* Seeded faults: the new password is not stored; the mirror keeps the override.
WrittenForgetsReset(c) ==
    IF c.op = "delete" THEN NoBox
    ELSE IF c.op = "reset" THEN [box EXCEPT !.override = TRUE]
    ELSE [box EXCEPT !.src = c.pw]

\* What a successful request writes.  SQLAlchemy leaves a column out of the
\* UPDATE when the value it read is assigned again.
Written(c) ==
    IF c.op = "delete" THEN NoBox
    ELSE IF c.op = "reset"
         THEN [box EXCEPT !.dst = c.pw, !.override = IF c.override THEN @ ELSE TRUE]
    ELSE IF c.id = 0
         THEN [box EXCEPT !.src = c.pw]
         ELSE [box EXCEPT !.src = c.pw, !.dst = c.pw,
                          !.override = IF c.override THEN FALSE ELSE @]

\* Seeded fault: a foreign key of job_queue keeps a mailbox with a provision job.
RequestCommitKeyed(p) ==
    /\ agent[p].pc = "answer"
    /\ AuditLocked => agent[p].op = "mirror"
    /\ box' = IF /\ box.gen = agent[p].gen /\ box.gen # 0
                 /\ agent[p].op = "delete" => jobs[box.gen] = 0
              THEN Written(agent[p]) ELSE box
    /\ agent' = [agent EXCEPT ![p] = Idle]
    /\ UNCHANGED <<row, files, lastGen, lastId, jobs, faults, crashes, torn>>

\* If the mailbox was deleted meanwhile the UPDATE or DELETE matches no row and
\* the transaction is rolled back.
RequestCommit(p) ==
    /\ agent[p].pc = "answer"
    /\ AuditLocked => agent[p].op = "mirror"
    /\ box' = IF box.gen = agent[p].gen THEN Written(agent[p]) ELSE box
    /\ agent' = [agent EXCEPT ![p] = Idle]
    /\ UNCHANGED <<row, files, lastGen, lastId, jobs, faults, crashes, torn>>

\* VM2 failed: nothing is written, but a mirrored change keeps its source half.
RequestFails(p) ==
    /\ agent[p].pc = "error"
    /\ box' = IF agent[p].op = "mirror" /\ box.gen = agent[p].gen
              THEN [box EXCEPT !.src = agent[p].pw] ELSE box
    /\ agent' = [agent EXCEPT ![p] = Idle]
    /\ UNCHANGED <<row, files, lastGen, lastId, jobs, faults, crashes, torn>>

-----------------------------------------------------------------------------
Vm2(a) == Vm2Create(a) \/ Vm2Reset(a) \/ Vm2DeleteFiles(a) \/ Vm2DeleteRow(a)

Provision ==
    \/ \E g \in 1..MaxGen : ProvisionStart(g)
    \/ ProvisionCommit
    \/ ProvisionGivesUp

Request(p) ==
    \/ RequestStart(p, "delete", NoPassword)
    \/ \E op \in {"reset", "mirror"}, pw \in Passwords : RequestStart(p, op, pw)
    \/ TakeAuditLock(p)
    \/ RequestCommit(p)
    \/ RequestFails(p)

Next ==
    \/ \E pw \in Passwords : Upsert(pw) \/ ChangeSource(pw)
    \/ Provision
    \/ \E p \in Requests : Request(p)
    \/ \E a \in Callers : Vm2(a) \/ Vm2Fails(a) \/ TimesOut(a) \/ RolledBack(a)
    \/ Deliver
    \/ Forget
    \/ Crash

Spec == Init /\ [][Next]_vars

\* The worker goes on with the queue and VM2 answers; nobody has to start a
\* request, and what is started is finished by its thread.  PostgreSQL grants an
\* advisory lock in the order of the requests, so a commit is not passed for ever.
Fairness ==
    /\ WF_vars(Provision) /\ SF_vars(ProvisionCommit)
    /\ \A a \in Callers : WF_vars(Vm2(a))
    /\ \A p \in Requests : WF_vars(TakeAuditLock(p) \/ RequestCommit(p) \/ RequestFails(p))

FairSpec == Spec /\ Fairness

-----------------------------------------------------------------------------
(* Properties *)

\* Types; a mailbox is active exactly when VM1 knows its VM2 id and password.
TypeOK ==
    /\ box \in Box
    /\ row \in Row
    /\ files \in BOOLEAN
    /\ lastGen \in 0..MaxGen
    /\ lastId \in 0..MaxId
    /\ jobs \in [1..MaxGen -> 0..(MaxJobs + MaxCrashes)]
    /\ agent \in [Callers -> Agent]
    /\ faults \in 0..MaxFaults
    /\ crashes \in 0..MaxCrashes
    /\ torn \in BOOLEAN
    /\ box.gen = 0 => box = NoBox
    /\ box.st = "active" <=> box.vm2 # 0
    /\ row.id = 0 <=> row.pw = NoPassword

Quiet == \A a \in Callers : ~Busy(a)

\* The two machines agree: same mailbox, and VM1 has the password VM2 accepts,
\* which the synchronisation logs in with.
Agreed ==
    /\ box.vm2 # 0 => row.id = box.vm2 /\ row.pw = box.dst
    /\ box.vm2 = 0 => row.id = 0

\* As long as no two operations overlapped and none was interrupted, the two
\* machines agree after each, whatever the sequence of imports, provisionings,
\* password changes and deletions.
AgreeUnlessTorn == Quiet /\ ~torn => Agreed

\* A password set by hand on VM2 is not replaced by the mirror of the source
\* password: only a panel request changes the stored destination password of
\* an overridden mailbox, however late a provisioning commits.
OverrideKept ==
    [][box.override /\ box'.gen = box.gen /\ box'.dst # box.dst
         => \E p \in Requests : agent[p].pc = "answer" /\ agent'[p].pc = "idle"
                                /\ box'.dst = agent[p].pw]_vars

\* As long as no call fails or is late and no transaction is rolled back a pending
\* mailbox is provisioned or deleted, also when the worker crashes in the middle.
PendingIsProvisioned ==
    box.gen # 0 /\ box.st = "pending" ~> box.gen = 0 \/ box.st = "active" \/ faults > 0

\* The password VM1 stores is the one VM2 accepts, when nobody is at work.
StoredPasswordWorks ==
    Quiet /\ box.vm2 # 0 /\ row.id = box.vm2 => row.pw = box.dst

\* A mailbox VM1 shows as active exists on VM2, when nobody is at work.  A deletion
\* that VM2 carries out breaks it when the answer is late or the commit on VM1 fails,
\* and so does a second request at the same time.
NoDivergence == Quiet /\ box.st = "active" => row.id = box.vm2

\* With one panel request at a time, a VM2 that answers and transactions that are not
\* rolled back, it survives crashes of the worker, the calls they abandon, and every
\* interleaving with it.
NoDivergenceWithoutFaults == faults = 0 => NoDivergence

\* Both: whatever overlaps, an active mailbox exists on VM2 unless a call failed or
\* was late or a transaction of VM1 was rolled back, and where nothing overlaps the
\* passwords agree as well.
MachinesAgree == AgreeUnlessTorn /\ NoDivergenceWithoutFaults

\* After a deletion nothing is left of the address on VM2.
NoOrphan == Quiet /\ box.gen = 0 => row.id = 0

\* Import mirrors: once the worker is done with the job of an import, the
\* destination password is the source password unless it was reset by hand.
Mirrored ==
    [][\A g \in 1..MaxGen :
          jobs'[g] < jobs[g] /\ box.gen = g /\ box.st = "active" /\ ~box.override
            => agent'[Worker].pc = "call" \/ box.dst = box.src]_vars

\* A deleted mailbox takes its mail with it.
DeletedMailIsGone == row.id = 0 => ~files
=============================================================================
