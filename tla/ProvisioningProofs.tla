------------------------- MODULE ProvisioningProofs -------------------------
(***************************************************************************)
(* Proofs about Provisioning, for every set of passwords and of panel      *)
(* threads and every number of mailboxes, jobs, faults and crashes.        *)
(***************************************************************************)
EXTENDS Provisioning, TLAPS

\* Ids are handed out once, and no caller knows one that is still to come; a crash
\* adds at most one job to those the requests may queue.
NumbersInv ==
    /\ box.gen <= lastGen
    /\ \A a \in Callers : agent[a].gen <= lastGen
    /\ \A g \in 1..MaxGen : jobs[g] <= MaxJobs + crashes

\* A mailbox has a source password, and one that VM2 does not know is not
\* overridden.
BoxInv ==
    /\ box.gen # 0 => box.src \in Passwords
    /\ box.override => box.vm2 # 0

\* A caller at work has read a mailbox.  It sends a password, unless it deletes,
\* and the id that it read, unless it creates.
Works(c) ==
    /\ c.gen # 0
    /\ c.op # "delete" => c.pw \in Passwords
    /\ c.op # "create" /\ c.pc \in {"call", "files"} => c.id # 0
    /\ c.op = "reset" => c.id # 0
    /\ c.op = "create" /\ c.pc = "answer" => c.id # 0
    /\ c.pc = "files" => c.op = "delete"
    /\ c.pc = "lock" => c.op = "mirror"

AgentInv ==
    /\ \A a \in Callers : Busy(a) => Works(agent[a])
    /\ Busy(Worker) => agent[Worker].op = "create" /\ agent[Worker].pc # "lock"
    /\ \A p \in Requests : Busy(p) => agent[p].op # "create"

\* Only the worker makes a mailbox known to VM1's row, and only one that was not.
\* A request that has read the id of a mailbox knows it as long as the mailbox lives.
KnownInv ==
    /\ Busy(Worker) => box.vm2 = 0 /\ ~agent[Worker].override
    /\ \A p \in Requests : Busy(p) /\ agent[p].gen = box.gen /\ agent[p].id # 0
                              => agent[p].id = box.vm2

\* One operation that nothing overlaps with and nothing interrupts: until VM2 has
\* carried it out the machines agree, and then VM1 has what it needs to follow.
Phase(c) ==
    /\ c.gen = box.gen /\ c.pc # "error"
    /\ c.pc \in {"lock", "call", "files"} => Agreed /\ c.id = box.vm2
    /\ c.pc = "answer" /\ c.op = "create" => row.id = c.id /\ row.pw = c.pw
    /\ c.pc = "answer" /\ c.op = "delete" => row.id = 0
    /\ c.pc = "answer" /\ c.op \in {"reset", "mirror"} =>
          c.id = box.vm2 /\ row.id = c.id /\ (c.id # 0 => row.pw = c.pw)

UntornInv ==
    ~torn => /\ \A a, b \in Callers : Busy(a) /\ Busy(b) => a = b
             /\ ~Busy(Abandoned)
             /\ Quiet => Agreed
             /\ \A a \in Callers : Busy(a) => Phase(agent[a])

\* One panel request at a time.
OneAtATime == \A p, q \in Requests : p = q

\* Then a deletion knows the mailbox it deletes, nothing else removes a row from
\* VM2, and nothing removes the one the worker has been told of.
Deletes(p) == agent[p].op = "delete" /\ agent[p].pc = "answer" /\ agent[p].id # 0

LateInv ==
    OneAtATime /\ faults = 0 =>
        /\ \A p \in Requests : Busy(p) => agent[p].gen = box.gen
        /\ Busy(Abandoned) => agent[Abandoned].op = "create"
        /\ agent[Worker].pc = "answer" => agent[Worker].id = row.id
        /\ box.vm2 # 0 => row.id = box.vm2 \/ \E p \in Requests : Deletes(p)

IInv == TypeOK /\ NumbersInv /\ BoxInv /\ AgentInv /\ KnownInv /\ UntornInv /\ LateInv

-----------------------------------------------------------------------------
(* Records. *)

Pcs == {"idle", "lock", "call", "files", "answer", "error"}

\* A caller at rest.
LEMMA IdleFields == Idle \in Agent /\ Idle.pc = "idle" /\ Idle.gen = 0
<1>1. 0 \in 0..MaxGen /\ 0 \in 0..MaxId
  BY ProvisioningAssumption
<1> QED BY <1>1 DEF Idle, Agent, AnyPassword, NoPassword

\* The step of one caller leaves the others alone.
Others(a) == agent' \in [Callers -> Agent] /\ \A b \in Callers \ {a} : agent'[b] = agent[b]

Same(c, e) == e.op = c.op /\ e.gen = c.gen /\ e.pw = c.pw /\ e.override = c.override

LEMMA AgentSet ==
    ASSUME TypeOK, NEW a \in Callers, NEW c \in Agent, agent' = [agent EXCEPT ![a] = c]
    PROVE  Others(a) /\ agent'[a] = c
BY DEF TypeOK, Others

LEMMA AgentGoes ==
    ASSUME TypeOK, NEW a \in Callers, NEW pc \in Pcs, agent' = [agent EXCEPT ![a].pc = pc]
    PROVE  /\ Others(a) /\ agent'[a].pc = pc /\ agent'[a].id = agent[a].id
           /\ Same(agent[a], agent'[a]) /\ agent'[a] = [agent[a] EXCEPT !.pc = pc]
<1> DEFINE c == [agent[a] EXCEPT !.pc = pc]
<1>1. agent[a] \in Agent
  BY DEF TypeOK
<1>2. c \in Agent /\ c.pc = pc /\ c.id = agent[a].id /\ Same(agent[a], c)
  BY <1>1 DEF Agent, Pcs, Same
<1>3. c = [agent[a] EXCEPT !.pc = pc]
  OBVIOUS
<1> HIDE DEF c
<1>4. agent' = [agent EXCEPT ![a] = c]
  BY DEF c
<1> QED BY <1>2, <1>3, <1>4, AgentSet

LEMMA AgentAnswered ==
    ASSUME TypeOK, NEW a \in Callers, NEW id \in 0..MaxId,
           agent' = [agent EXCEPT ![a].pc = "answer", ![a].id = id]
    PROVE  /\ Others(a) /\ agent'[a].pc = "answer" /\ agent'[a].id = id
           /\ Same(agent[a], agent'[a])
<1> DEFINE c == [agent[a] EXCEPT !.pc = "answer", !.id = id]
<1>1. agent[a] \in Agent
  BY DEF TypeOK
<1>2. c \in Agent /\ c.pc = "answer" /\ c.id = id /\ Same(agent[a], c)
  BY <1>1 DEF Agent, Same
<1> HIDE DEF c
<1>3. agent' = [agent EXCEPT ![a] = c]
  BY DEF TypeOK, c
<1> QED BY <1>2, <1>3, AgentSet

LEMMA AgentEnds ==
    ASSUME TypeOK, NEW a \in Callers, agent' = [agent EXCEPT ![a] = Idle]
    PROVE  Others(a) /\ agent'[a] = Idle
BY IdleFields, AgentSet

\* No mailbox on VM1.
LEMMA NoBoxFields ==
    NoBox \in Box /\ NoBox.gen = 0 /\ NoBox.vm2 = 0 /\ NoBox.st = "pending" /\ ~NoBox.override
<1>1. 0 \in 0..MaxGen /\ 0 \in 0..MaxId
  BY ProvisioningAssumption
<1> QED BY <1>1 DEF NoBox, Box, AnyPassword, NoPassword

\* What a request that went through writes.
Fills(b, c, e) ==
    /\ c.op = "delete" => e = NoBox
    /\ c.op # "delete" => e.gen = b.gen /\ e.st = b.st /\ e.vm2 = b.vm2
    /\ c.op = "reset" => e.src = b.src /\ e.dst = c.pw
    /\ c.op = "mirror" => e.src = c.pw /\ (e.override => b.override)
    /\ c.op = "mirror" /\ c.id = 0 => e.dst = b.dst
    /\ c.op = "mirror" /\ c.id # 0 => e.dst = c.pw

LEMMA WrittenIs ==
    ASSUME TypeOK, NEW c \in Agent, c.op # "create"
    PROVE  Written(c) \in Box /\ Fills(box, c, Written(c))
<1>1. box \in Box /\ c.pw \in AnyPassword /\ c.op \in {"delete", "reset", "mirror"}
      /\ box.override \in BOOLEAN /\ c.override \in BOOLEAN
  BY DEF TypeOK, Agent, Box
<1>2. CASE c.op = "delete"
  BY <1>2, NoBoxFields DEF Written, Fills
<1>3. CASE c.op = "reset"
  <2> DEFINE o == IF c.override THEN box.override ELSE TRUE
             b == [box EXCEPT !.dst = c.pw, !.override = o]
  <2>1. Written(c) = b
    BY <1>1, <1>3 DEF Written, Box
  <2>2. o \in BOOLEAN
    BY <1>1
  <2> HIDE DEF o
  <2>3. b \in Box /\ b.src = box.src /\ b.gen = box.gen /\ b.st = box.st /\ b.vm2 = box.vm2
        /\ b.dst = c.pw
    BY <1>1, <2>2 DEF Box
  <2> QED BY <1>3, <2>1, <2>3 DEF Fills
<1>4. CASE c.op = "mirror" /\ c.id = 0
  <2> DEFINE b == [box EXCEPT !.src = c.pw]
  <2>1. Written(c) = b
    BY <1>4 DEF Written
  <2>2. b \in Box /\ b.src = c.pw /\ b.gen = box.gen /\ b.st = box.st /\ b.vm2 = box.vm2
        /\ b.dst = box.dst /\ b.override = box.override
    BY <1>1 DEF Box
  <2> QED BY <1>4, <2>1, <2>2 DEF Fills
<1>5. CASE c.op = "mirror" /\ c.id # 0
  <2> DEFINE o == IF c.override THEN FALSE ELSE box.override
             b == [box EXCEPT !.src = c.pw, !.dst = c.pw, !.override = o]
  <2>1. Written(c) = b
    BY <1>1, <1>5 DEF Written, Box
  <2>2. o \in BOOLEAN /\ (o => box.override)
    BY <1>1
  <2> HIDE DEF o
  <2>3. b \in Box /\ b.src = c.pw /\ b.gen = box.gen /\ b.st = box.st /\ b.vm2 = box.vm2
        /\ b.dst = c.pw /\ b.override = o
    BY <1>1, <2>2 DEF Box
  <2> QED BY <1>5, <2>1, <2>2, <2>3 DEF Fills
<1> QED BY <1>1, <1>2, <1>3, <1>4, <1>5

-----------------------------------------------------------------------------
(* The kinds of steps. *)

Jobs == [1..MaxGen -> 0..(MaxJobs + MaxCrashes)]
JobsStay == jobs' \in Jobs /\ \A g \in 1..MaxGen : jobs'[g] <= MaxJobs + crashes'

\* The panel writes the mailbox's row in one transaction.
Rewrites ==
    /\ box' \in Box /\ box'.gen # 0 /\ box'.src \in Passwords
    /\ lastGen' \in 0..MaxGen
    /\ \/ /\ box.gen = 0 /\ lastGen' = lastGen + 1 /\ box'.gen = lastGen'
          /\ box'.vm2 = 0 /\ box'.st = "pending" /\ ~box'.override
       \/ /\ lastGen' = lastGen /\ box'.gen = box.gen
          /\ box'.vm2 = box.vm2 /\ box'.st = box.st /\ box'.dst = box.dst
          /\ box'.override = box.override
    /\ JobsStay
    /\ UNCHANGED <<row, files, lastId, agent, faults, crashes, torn>>

\* A caller reads the mailbox and sets to work.
Begins(a) ==
    /\ ~Busy(a) /\ box.gen # 0 /\ a # Abandoned
    /\ Others(a)
    /\ agent'[a].gen = box.gen /\ agent'[a].id = box.vm2 /\ agent'[a].override = box.override
    /\ agent'[a].pc = FirstStep(agent'[a].op, box.vm2)
    /\ agent'[a].op # "delete" => agent'[a].pw \in Passwords
    /\ agent'[a].op = "reset" => box.vm2 # 0
    /\ a = Worker => agent'[a].op = "create" /\ box.vm2 = 0
    /\ a \in Requests => agent'[a].op # "create"
    /\ torn' = (torn \/ Overlap(a))
    /\ JobsStay
    /\ UNCHANGED <<box, row, files, lastGen, lastId, faults, crashes>>

\* A job with nothing to do, a mail delivered, or nothing at all.
Idles ==
    /\ files' \in BOOLEAN /\ JobsStay
    /\ UNCHANGED <<box, row, lastGen, lastId, agent, faults, crashes, torn>>

\* A call goes on, at the audit lock or on VM2.
Locks(a) ==
    /\ agent[a].pc = "lock" /\ agent'[a].id = agent[a].id /\ row' = row
    /\ agent'[a].pc = IF agent[a].id = 0 THEN "answer" ELSE "call"

Creates(a) ==
    /\ agent[a].pc = "call" /\ agent[a].op = "create" /\ agent'[a].pc = "answer"
    /\ agent'[a].id = row'.id /\ row'.id # 0
    /\ row.id # 0 => row' = row
    /\ row.id = 0 => row'.pw = agent[a].pw

Resets(a) ==
    /\ agent[a].pc = "call" /\ agent[a].op \in {"reset", "mirror"} /\ agent'[a].pc = "answer"
    /\ agent'[a].id = agent[a].id /\ row.id = agent[a].id
    /\ row'.id = row.id /\ row'.pw = agent[a].pw

Misses(a) ==
    /\ agent[a].pc = "call" /\ agent[a].op # "create" /\ agent'[a].pc = "error"
    /\ agent'[a].id = agent[a].id /\ row.id # agent[a].id /\ row' = row

Empties(a) ==
    /\ agent[a].pc = "call" /\ agent[a].op = "delete" /\ agent'[a].pc = "files"
    /\ agent'[a].id = agent[a].id /\ row' = row

Removes(a) ==
    /\ agent[a].pc = "files" /\ agent'[a].pc = "answer" /\ agent'[a].id = agent[a].id
    /\ row' = IF row.id = agent[a].id THEN NoRow ELSE row

Serves(a) ==
    /\ Others(a) /\ Same(agent[a], agent'[a])
    /\ Locks(a) \/ Creates(a) \/ Resets(a) \/ Misses(a) \/ Empties(a) \/ Removes(a)
    /\ row' \in Row /\ (row'.id = 0 <=> row'.pw = NoPassword)
    /\ files' \in BOOLEAN /\ lastId' \in 0..MaxId
    /\ UNCHANGED <<box, lastGen, jobs, faults, crashes, torn>>

\* A call fails or is late, a transaction is rolled back, or the worker dies: a call in
\* hand fails, is dropped by its caller, or becomes one that nobody waits for.
Fails(c, e) == Same(c, e) /\ e.id = c.id /\ e.pc = "error" /\ c.pc # "idle"

Breaks ==
    /\ agent' \in [Callers -> Agent]
    /\ \A b \in Callers \ {Abandoned} :
          \/ agent'[b] = agent[b]
          \/ Fails(agent[b], agent'[b])
          \/ ((b = Worker \/ faults' # 0) /\ agent'[b] = Idle)
    /\ \/ agent'[Abandoned] = agent[Abandoned] \/ Fails(agent[Abandoned], agent'[Abandoned])
       \/ \E b \in Callers : Busy(b) /\ agent'[Abandoned] = agent[b]
    /\ faults' = 0 => /\ faults = 0 /\ agent'[Worker] = Idle
                      /\ \A p \in Requests : agent'[p] = agent[p]
                      /\ \/ agent'[Abandoned] = agent[Abandoned]
                         \/ (Busy(Worker) /\ agent'[Abandoned] = agent[Worker])
    /\ faults' \in 0..MaxFaults /\ crashes' \in 0..MaxCrashes
    /\ torn' = TRUE /\ JobsStay
    /\ UNCHANGED <<box, row, files, lastGen, lastId>>

\* A caller is done and VM1 has what it writes.
Provisioned(c) ==
    /\ box.gen = c.gen /\ box'.gen = box.gen
    /\ box'.st = "active" /\ box'.vm2 = c.id /\ box'.src = box.src
    /\ box'.dst = IF c.override THEN box.dst ELSE c.pw
    /\ box'.override = box.override

Ends(a) ==
    /\ Busy(a) /\ a # Abandoned
    /\ Others(a) /\ agent'[a] = Idle
    /\ box' \in Box
    /\ \/ /\ box' = box
          /\ agent[a].gen = box.gen => agent[a].pc = "error"
       \/ /\ a = Worker /\ agent[a].pc = "answer" /\ Provisioned(agent[a])
       \/ /\ a \in Requests /\ agent[a].pc = "answer" /\ box.gen = agent[a].gen
          /\ Fills(box, agent[a], box')
       \/ /\ a \in Requests /\ agent[a].pc = "error" /\ agent[a].op = "mirror"
          /\ box.gen = agent[a].gen /\ box' = [box EXCEPT !.src = agent[a].pw]
    /\ UNCHANGED <<row, files, lastGen, lastId, jobs, faults, crashes, torn>>

Forgets ==
    /\ agent[Abandoned].pc \in {"answer", "error"}
    /\ Others(Abandoned) /\ agent'[Abandoned] = Idle
    /\ UNCHANGED <<box, row, files, lastGen, lastId, jobs, faults, crashes, torn>>

LEMMA JobsSame ==
    ASSUME TypeOK, NumbersInv, jobs' = jobs, crashes' = crashes
    PROVE  JobsStay
BY DEF TypeOK, NumbersInv, JobsStay, Jobs

\* A job is queued, up to the bound, or taken.
LEMMA JobsSet ==
    ASSUME TypeOK, NumbersInv, NEW g \in 1..MaxGen, NEW n \in Nat, crashes' = crashes,
           n <= MaxJobs + crashes, jobs' = [jobs EXCEPT ![g] = n]
    PROVE  JobsStay
<1>1. n \in 0..(MaxJobs + MaxCrashes)
  BY ProvisioningAssumption DEF TypeOK
<1>2. jobs' \in Jobs
  BY <1>1 DEF TypeOK, Jobs
<1>3. ASSUME NEW h \in 1..MaxGen PROVE jobs'[h] <= MaxJobs + crashes'
  BY DEF TypeOK, NumbersInv
<1> QED BY <1>2, <1>3 DEF JobsStay

LEMMA UpsertRewrites == ASSUME TypeOK, NumbersInv, NEW pw \in Passwords, Upsert(pw) PROVE Rewrites
<1>1. box \in Box /\ lastGen \in 0..MaxGen /\ pw \in AnyPassword
      /\ jobs \in [1..MaxGen -> 0..(MaxJobs + MaxCrashes)]
  BY DEF TypeOK, AnyPassword
<1>2. /\ box' \in Box /\ box'.gen # 0 /\ box'.src \in Passwords
      /\ lastGen' \in 0..MaxGen
      /\ \/ /\ box.gen = 0 /\ lastGen' = lastGen + 1 /\ box'.gen = lastGen'
            /\ box'.vm2 = 0 /\ box'.st = "pending" /\ ~box'.override
         \/ /\ lastGen' = lastGen /\ box'.gen = box.gen
            /\ box'.vm2 = box.vm2 /\ box'.st = box.st /\ box'.dst = box.dst
            /\ box'.override = box.override
  <2>1. CASE box.gen = 0 /\ lastGen < MaxGen /\ lastGen' = lastGen + 1
             /\ box' = [NoBox EXCEPT !.gen = lastGen + 1, !.src = pw]
    <3>1. lastGen + 1 \in 0..MaxGen /\ lastGen + 1 # 0
      BY <1>1, <2>1, ProvisioningAssumption
    <3>2. box' \in Box /\ box'.gen = lastGen + 1 /\ box'.src = pw /\ box'.vm2 = 0
          /\ box'.st = "pending" /\ ~box'.override
      BY <1>1, <2>1, <3>1, NoBoxFields DEF NoBox, Box
    <3> QED BY <2>1, <3>1, <3>2
  <2>2. CASE box.gen # 0 /\ box' = [box EXCEPT !.src = pw] /\ lastGen' = lastGen
    BY <1>1, <2>2 DEF Box
  <2> QED BY <2>1, <2>2 DEF Upsert
<1>3. box'.gen \in 1..MaxGen
  BY <1>2, ProvisioningAssumption DEF Box
<1> DEFINE g == box'.gen
           n == jobs[g] + 1
<1>4. jobs' = [jobs EXCEPT ![g] = n] /\ jobs[g] < MaxJobs
  BY DEF Upsert
<1>5. UNCHANGED <<row, files, lastId, agent, faults, crashes, torn>>
  BY DEF Upsert
<1>6. n \in Nat /\ n <= MaxJobs + crashes
  BY <1>1, <1>3, <1>4, ProvisioningAssumption DEF TypeOK
<1>7. g \in 1..MaxGen
  BY <1>3
<1>8. crashes' = crashes
  BY <1>5
<1> HIDE DEF g, n
<1>9. JobsStay
  BY <1>4, <1>6, <1>7, <1>8, JobsSet
<1> QED BY <1>2, <1>5, <1>9 DEF Rewrites

LEMMA ChangeRewrites ==
    ASSUME TypeOK, NumbersInv, NEW pw \in Passwords, ChangeSource(pw) PROVE Rewrites
<1>1. box \in Box /\ lastGen \in 0..MaxGen /\ pw \in AnyPassword
  BY DEF TypeOK, AnyPassword
<1>2. box' = [box EXCEPT !.src = pw] /\ box.gen # 0 /\ lastGen' = lastGen
  BY DEF ChangeSource
<1>3. /\ box' \in Box /\ box'.gen # 0 /\ box'.src \in Passwords
      /\ box'.gen = box.gen /\ box'.vm2 = box.vm2 /\ box'.st = box.st /\ box'.dst = box.dst
      /\ box'.override = box.override
  BY <1>1, <1>2 DEF Box
<1>4. JobsStay
  BY JobsSame DEF ChangeSource
<1>5. UNCHANGED <<row, files, lastId, agent, faults, crashes, torn>>
  BY DEF ChangeSource
<1> QED BY <1>1, <1>2, <1>3, <1>4, <1>5 DEF Rewrites

\* The record of a caller that starts.
LEMMA Starts ==
    ASSUME TypeOK, NEW a \in Callers, NEW op \in {"create", "delete", "reset", "mirror"},
           NEW pw \in AnyPassword, Start(a, op, pw)
    PROVE  /\ Others(a)
           /\ agent'[a].gen = box.gen /\ agent'[a].id = box.vm2
           /\ agent'[a].override = box.override /\ agent'[a].op = op /\ agent'[a].pw = pw
           /\ agent'[a].pc = FirstStep(op, box.vm2)
           /\ torn' = (torn \/ Overlap(a))
<1> DEFINE c == [pc |-> FirstStep(op, box.vm2), op |-> op, gen |-> box.gen, id |-> box.vm2,
                 pw |-> pw, override |-> box.override]
<1>1. box \in Box
  BY DEF TypeOK
<1>2. FirstStep(op, box.vm2) \in {"lock", "answer", "call"}
  BY DEF FirstStep
<1>3. c \in Agent
  BY <1>1, <1>2 DEF Agent, Box
<1>4. c.gen = box.gen /\ c.id = box.vm2 /\ c.override = box.override /\ c.op = op /\ c.pw = pw
      /\ c.pc = FirstStep(op, box.vm2)
  OBVIOUS
<1>5. agent' = [agent EXCEPT ![a] = c] /\ torn' = (torn \/ Overlap(a))
  BY DEF Start
<1> HIDE DEF c
<1>6. Others(a) /\ agent'[a] = c
  BY <1>3, <1>5, AgentSet
<1> QED BY <1>4, <1>5, <1>6

LEMMA RequestBegins ==
    ASSUME TypeOK, NumbersInv, NEW p \in Requests,
           NEW op \in {"delete", "reset", "mirror"}, NEW pw \in AnyPassword,
           op # "delete" => pw \in Passwords, RequestStart(p, op, pw)
    PROVE  Begins(p)
<1>1. p \in Callers /\ p # Worker /\ p # Abandoned
  BY ProvisioningAssumption DEF Callers
<1>2. ~Busy(p) /\ box.gen # 0 /\ (op = "reset" => box.vm2 # 0) /\ Start(p, op, pw)
      /\ UNCHANGED <<box, row, files, lastGen, lastId, jobs, faults, crashes>>
  BY DEF RequestStart
<1>3. JobsStay
  BY <1>2, JobsSame
<1>4. op \in {"create", "delete", "reset", "mirror"}
  OBVIOUS
<1> QED BY <1>1, <1>2, <1>3, <1>4, Starts DEF Begins

LEMMA ProvisionBegins ==
    ASSUME TypeOK, NumbersInv, BoxInv, NEW g \in 1..MaxGen, ProvisionStart(g)
    PROVE  Begins(Worker) \/ Idles
<1>1. ~Busy(Worker) /\ jobs[g] > 0
      /\ UNCHANGED <<box, row, files, lastGen, lastId, faults, crashes>>
  BY DEF ProvisionStart
<1> DEFINE n == jobs[g] - 1
<1>2. jobs' = [jobs EXCEPT ![g] = n]
  BY DEF ProvisionStart
<1>3. n \in Nat /\ n <= MaxJobs + crashes
  BY <1>1, ProvisioningAssumption DEF TypeOK, NumbersInv
<1> HIDE DEF n
<1>4. JobsStay
  BY <1>1, <1>2, <1>3, JobsSet
<1>5. CASE box.gen = g /\ ~(box.st = "active" /\ box.vm2 # 0)
  <2>1. Start(Worker, "create", box.src)
    BY <1>5 DEF ProvisionStart
  <2>2. box.gen # 0 /\ box.vm2 = 0 /\ box.src \in Passwords
    BY <1>5 DEF TypeOK, BoxInv
  <2>3. Worker \in Callers /\ Worker \notin Requests /\ Worker # Abandoned
        /\ box.src \in AnyPassword
    BY <2>2, ProvisioningAssumption DEF Callers, AnyPassword
  <2> QED BY <1>1, <1>4, <2>1, <2>2, <2>3, Starts DEF Begins
<1>6. CASE ~(box.gen = g /\ ~(box.st = "active" /\ box.vm2 # 0))
  <2>1. UNCHANGED <<agent, torn>>
    BY <1>6 DEF ProvisionStart
  <2> QED BY <1>1, <1>4, <2>1 DEF Idles, TypeOK
<1> QED BY <1>5, <1>6

LEMMA DeliverIdles == ASSUME TypeOK, NumbersInv, Deliver PROVE Idles
BY JobsSame DEF Deliver, Idles

LEMMA StutterIdles == ASSUME TypeOK, NumbersInv, UNCHANGED vars PROVE Idles
BY JobsSame DEF TypeOK, vars, Idles

LEMMA RequestCallers == Requests \subseteq Callers /\ Worker \in Callers /\ Abandoned \in Callers
BY DEF Callers

LEMMA LockServes == ASSUME TypeOK, NEW p \in Requests, TakeAuditLock(p) PROVE Serves(p)
<1>1. p \in Callers
  BY RequestCallers
<1> DEFINE pc == IF agent[p].id = 0 THEN "answer" ELSE "call"
<1>2. agent' = [agent EXCEPT ![p].pc = pc] /\ pc \in Pcs /\ agent[p].pc = "lock"
      /\ UNCHANGED <<box, row, files, lastGen, lastId, jobs, faults, crashes, torn>>
  BY DEF TakeAuditLock, Pcs
<1>3. Locks(p) <=> agent[p].pc = "lock" /\ agent'[p].id = agent[p].id /\ row' = row
                   /\ agent'[p].pc = pc
  BY DEF Locks
<1> HIDE DEF pc
<1>4. Others(p) /\ Same(agent[p], agent'[p]) /\ agent'[p].pc = pc /\ agent'[p].id = agent[p].id
  BY <1>1, <1>2, AgentGoes
<1> QED BY <1>2, <1>3, <1>4 DEF Serves, TypeOK

LEMMA CreateServes ==
    ASSUME TypeOK, AgentInv, NEW a \in Callers, Vm2Create(a) PROVE Serves(a)
<1>1. agent[a].pc = "call" /\ agent[a].op = "create" /\ agent[a] \in Agent /\ row \in Row
      /\ lastId \in 0..MaxId /\ files \in BOOLEAN
      /\ UNCHANGED <<box, files, lastGen, jobs, faults, crashes, torn>>
  BY DEF Vm2Create, TypeOK
<1>2. agent[a].pw \in Passwords
  BY <1>1 DEF AgentInv, Works, Busy
<1>3. CASE row.id = 0
  <2>1. lastId < MaxId /\ lastId' = lastId + 1
        /\ row' = [id |-> lastId + 1, pw |-> agent[a].pw]
        /\ agent' = [agent EXCEPT ![a].pc = "answer", ![a].id = lastId + 1]
    BY <1>3 DEF Vm2Create
  <2>2. lastId + 1 \in 0..MaxId /\ lastId + 1 # 0
    BY <1>1, <2>1, ProvisioningAssumption
  <2>3. Others(a) /\ Same(agent[a], agent'[a]) /\ agent'[a].pc = "answer"
        /\ agent'[a].id = lastId + 1
    BY <2>1, <2>2, AgentAnswered
  <2>4. row' \in Row /\ row'.id = lastId + 1 /\ row'.pw = agent[a].pw
    BY <1>1, <2>1, <2>2 DEF Row, Agent
  <2>5. row'.pw # NoPassword
    BY <1>2, <2>4, ProvisioningAssumption DEF NoPassword
  <2>6. Creates(a)
    BY <1>1, <1>3, <2>2, <2>3, <2>4 DEF Creates
  <2> QED BY <1>1, <2>1, <2>2, <2>3, <2>4, <2>5, <2>6 DEF Serves
<1>4. CASE row.id # 0
  <2>1. agent' = [agent EXCEPT ![a].pc = "answer", ![a].id = row.id]
        /\ row' = row /\ lastId' = lastId
    BY <1>4 DEF Vm2Create
  <2>2. row.id \in 0..MaxId
    BY <1>1 DEF Row
  <2>3. Others(a) /\ Same(agent[a], agent'[a]) /\ agent'[a].pc = "answer" /\ agent'[a].id = row.id
    BY <2>1, <2>2, AgentAnswered
  <2>4. Creates(a)
    BY <1>1, <1>4, <2>1, <2>3 DEF Creates
  <2> QED BY <1>1, <2>1, <2>3, <2>4 DEF Serves, TypeOK
<1> QED BY <1>3, <1>4

LEMMA ResetServes ==
    ASSUME TypeOK, AgentInv, NEW a \in Callers, Vm2Reset(a) PROVE Serves(a)
<1>1. agent[a].pc = "call" /\ agent[a].op \in {"reset", "mirror"} /\ agent[a] \in Agent
      /\ row \in Row /\ lastId \in 0..MaxId /\ files \in BOOLEAN
      /\ UNCHANGED <<box, files, lastGen, lastId, jobs, faults, crashes, torn>>
  BY DEF Vm2Reset, TypeOK
<1>2. agent[a].pw \in Passwords /\ agent[a].id # 0
  BY <1>1 DEF AgentInv, Works, Busy
<1>3. CASE row.id = agent[a].id
  <2>1. row' = [row EXCEPT !.pw = agent[a].pw] /\ agent' = [agent EXCEPT ![a].pc = "answer"]
    BY <1>3 DEF Vm2Reset
  <2>2. "answer" \in Pcs
    BY DEF Pcs
  <2>3. Others(a) /\ Same(agent[a], agent'[a]) /\ agent'[a].pc = "answer"
        /\ agent'[a].id = agent[a].id
    BY <2>1, <2>2, AgentGoes
  <2>4. row' \in Row /\ row'.id = row.id /\ row'.pw = agent[a].pw
    BY <1>1, <2>1 DEF Row, Agent
  <2>5. row'.pw # NoPassword /\ row'.id # 0
    BY <1>2, <1>3, <2>4, ProvisioningAssumption DEF NoPassword
  <2>6. Resets(a)
    BY <1>1, <1>3, <2>3, <2>4 DEF Resets
  <2> QED BY <1>1, <2>3, <2>4, <2>5, <2>6 DEF Serves
<1>4. CASE row.id # agent[a].id
  <2>1. row' = row /\ agent' = [agent EXCEPT ![a].pc = "error"]
    BY <1>4 DEF Vm2Reset
  <2>2. "error" \in Pcs
    BY DEF Pcs
  <2>3. Others(a) /\ Same(agent[a], agent'[a]) /\ agent'[a].pc = "error"
        /\ agent'[a].id = agent[a].id
    BY <2>1, <2>2, AgentGoes
  <2>4. Misses(a)
    BY <1>1, <1>4, <2>1, <2>3 DEF Misses
  <2> QED BY <1>1, <2>1, <2>3, <2>4 DEF Serves, TypeOK
<1> QED BY <1>3, <1>4

LEMMA DeleteFilesServes ==
    ASSUME TypeOK, NEW a \in Callers, Vm2DeleteFiles(a) PROVE Serves(a)
<1>1. agent[a].pc = "call" /\ agent[a].op = "delete" /\ files \in BOOLEAN
      /\ UNCHANGED <<box, row, lastGen, lastId, jobs, faults, crashes, torn>>
  BY DEF Vm2DeleteFiles, TypeOK
<1>2. "files" \in Pcs /\ "error" \in Pcs
  BY DEF Pcs
<1>3. CASE row.id = agent[a].id
  <2>1. files' = FALSE /\ agent' = [agent EXCEPT ![a].pc = "files"]
    BY <1>3 DEF Vm2DeleteFiles
  <2>2. Others(a) /\ Same(agent[a], agent'[a]) /\ agent'[a].pc = "files"
        /\ agent'[a].id = agent[a].id
    BY <1>2, <2>1, AgentGoes
  <2>3. Empties(a)
    BY <1>1, <2>2 DEF Empties
  <2> QED BY <1>1, <2>1, <2>2, <2>3 DEF Serves, TypeOK
<1>4. CASE row.id # agent[a].id
  <2>1. files' = files /\ agent' = [agent EXCEPT ![a].pc = "error"]
    BY <1>4 DEF Vm2DeleteFiles
  <2>2. Others(a) /\ Same(agent[a], agent'[a]) /\ agent'[a].pc = "error"
        /\ agent'[a].id = agent[a].id
    BY <1>2, <2>1, AgentGoes
  <2>3. Misses(a)
    BY <1>1, <1>4, <2>2 DEF Misses
  <2> QED BY <1>1, <2>1, <2>2, <2>3 DEF Serves, TypeOK
<1> QED BY <1>3, <1>4

LEMMA DeleteRowServes ==
    ASSUME TypeOK, NEW a \in Callers, Vm2DeleteRow(a) PROVE Serves(a)
<1>1. agent[a].pc = "files" /\ agent' = [agent EXCEPT ![a].pc = "answer"]
      /\ row' = (IF row.id = agent[a].id THEN NoRow ELSE row)
      /\ UNCHANGED <<box, files, lastGen, lastId, jobs, faults, crashes, torn>>
  BY DEF Vm2DeleteRow
<1>2. "answer" \in Pcs
  BY DEF Pcs
<1>3. Others(a) /\ Same(agent[a], agent'[a]) /\ agent'[a].pc = "answer"
      /\ agent'[a].id = agent[a].id
  BY <1>1, <1>2, AgentGoes
<1>4. NoRow \in Row /\ NoRow.id = 0 /\ NoRow.pw = NoPassword
  BY ProvisioningAssumption DEF NoRow, Row, AnyPassword
<1>5. row' \in Row /\ (row'.id = 0 <=> row'.pw = NoPassword)
  BY <1>1, <1>4 DEF TypeOK
<1>6. Removes(a)
  BY <1>1, <1>3 DEF Removes
<1> QED BY <1>1, <1>3, <1>5, <1>6 DEF Serves, TypeOK

LEMMA Vm2FailsBreaks ==
    ASSUME TypeOK, NumbersInv, NEW a \in Callers, Vm2Fails(a) PROVE Breaks
<1>1. agent[a].pc \in {"call", "files"} /\ faults < MaxFaults /\ faults' = faults + 1
      /\ agent' = [agent EXCEPT ![a].pc = "error"] /\ torn' = TRUE
      /\ UNCHANGED <<box, row, files, lastGen, lastId, jobs, crashes>>
  BY DEF Vm2Fails
<1>2. "error" \in Pcs
  BY DEF Pcs
<1>3. Others(a) /\ Same(agent[a], agent'[a]) /\ agent'[a].pc = "error"
      /\ agent'[a].id = agent[a].id
  BY <1>1, <1>2, AgentGoes
<1>4. faults' \in 0..MaxFaults /\ faults' # 0 /\ crashes' \in 0..MaxCrashes
  BY <1>1, ProvisioningAssumption DEF TypeOK
<1>5. JobsStay
  BY <1>1, JobsSame
<1>6. Fails(agent[a], agent'[a])
  BY <1>1, <1>3 DEF Fails
<1>7. \A b \in Callers : agent'[b] = agent[b] \/ Fails(agent[b], agent'[b])
  BY <1>3, <1>6 DEF Others
<1> QED BY <1>1, <1>3, <1>4, <1>5, <1>7, RequestCallers DEF Breaks, Others

LEMMA TimesOutBreaks ==
    ASSUME TypeOK, NumbersInv, NEW a \in Callers, TimesOut(a) PROVE Breaks
<1>1. agent[a].pc \in {"call", "files", "answer"} /\ faults < MaxFaults /\ faults' = faults + 1
      /\ torn' = TRUE /\ a # Abandoned
      /\ UNCHANGED <<box, row, files, lastGen, lastId, jobs, crashes>>
  BY DEF TimesOut
<1>2. "error" \in Pcs /\ agent[a] \in Agent
  BY DEF Pcs, TypeOK
<1>3. faults' \in 0..MaxFaults /\ faults' # 0 /\ crashes' \in 0..MaxCrashes
  BY <1>1, ProvisioningAssumption DEF TypeOK
<1>4. JobsStay
  BY <1>1, JobsSame
<1>5. CASE agent' = [agent EXCEPT ![a].pc = "error"]
  <2>1. Others(a) /\ Same(agent[a], agent'[a]) /\ agent'[a].pc = "error"
        /\ agent'[a].id = agent[a].id
    BY <1>2, <1>5, AgentGoes
  <2>2. Fails(agent[a], agent'[a])
    BY <1>1, <2>1 DEF Fails
  <2>3. \A b \in Callers : agent'[b] = agent[b] \/ Fails(agent[b], agent'[b])
    BY <2>1, <2>2 DEF Others
  <2> QED BY <1>1, <1>3, <1>4, <2>1, <2>3, RequestCallers DEF Breaks, Others
<1>6. CASE agent' = [agent EXCEPT ![a].pc = "error", ![Abandoned] = agent[a]]
  <2> DEFINE c == [agent[a] EXCEPT !.pc = "error"]
  <2>1. c \in Agent /\ c.pc = "error" /\ c.id = agent[a].id /\ Same(agent[a], c)
    BY <1>2 DEF Agent, Same
  <2>2. Fails(agent[a], c)
    BY <1>1, <2>1 DEF Fails
  <2> HIDE DEF c
  <2>3. agent' = [agent EXCEPT ![a] = c, ![Abandoned] = agent[a]]
    BY <1>1, <1>6 DEF c
  <2>4. agent' \in [Callers -> Agent] /\ agent'[a] = c /\ agent'[Abandoned] = agent[a]
        /\ \A b \in Callers : b # a /\ b # Abandoned => agent'[b] = agent[b]
    BY <1>1, <1>2, <2>1, <2>3, RequestCallers DEF TypeOK
  <2>5. Busy(a)
    BY <1>1 DEF Busy
  <2>6. \A b \in Callers \ {Abandoned} : agent'[b] = agent[b] \/ Fails(agent[b], agent'[b])
    BY <2>2, <2>4
  <2> QED BY <1>1, <1>3, <1>4, <2>4, <2>5, <2>6 DEF Breaks
<1>7. (agent' = [agent EXCEPT ![a].pc = "error"])
      \/ (agent' = [agent EXCEPT ![a].pc = "error", ![Abandoned] = agent[a]])
  BY DEF TimesOut
<1> QED BY <1>5, <1>6, <1>7

LEMMA RolledBackBreaks ==
    ASSUME TypeOK, NumbersInv, NEW a \in Callers, RolledBack(a) PROVE Breaks
<1>1. Busy(a) /\ a # Abandoned /\ faults < MaxFaults /\ faults' = faults + 1
      /\ torn' = TRUE /\ UNCHANGED <<box, row, files, lastGen, lastId, jobs, crashes>>
  BY DEF RolledBack
<1>2. faults' \in 0..MaxFaults /\ faults' # 0 /\ crashes' \in 0..MaxCrashes
  BY <1>1, ProvisioningAssumption DEF TypeOK
<1>3. JobsStay
  BY <1>1, JobsSame
<1>4. CASE agent' = [agent EXCEPT ![a] = Idle]
  <2>1. Others(a) /\ agent'[a] = Idle
    BY <1>4, AgentEnds
  <2> QED BY <1>1, <1>2, <1>3, <2>1, RequestCallers DEF Breaks, Others
<1>5. CASE agent' = [agent EXCEPT ![a] = Idle, ![Abandoned] = agent[a]]
  <2>1. agent' \in [Callers -> Agent] /\ agent'[a] = Idle /\ agent'[Abandoned] = agent[a]
        /\ \A b \in Callers : b # a /\ b # Abandoned => agent'[b] = agent[b]
    BY <1>1, <1>5, RequestCallers, IdleFields DEF TypeOK
  <2>2. \A b \in Callers \ {Abandoned} : agent'[b] = agent[b] \/ agent'[b] = Idle
    BY <2>1
  <2> QED BY <1>1, <1>2, <1>3, <2>1, <2>2 DEF Breaks
<1> QED BY <1>4, <1>5 DEF RolledBack

LEMMA CrashBreaks ==
    ASSUME TypeOK, NumbersInv, AgentInv, Crash PROVE Breaks
<1>1. Busy(Worker) /\ crashes < MaxCrashes /\ crashes' = crashes + 1
      /\ torn' = TRUE /\ UNCHANGED <<box, row, files, lastGen, lastId, faults>>
  BY DEF Crash
<1> DEFINE g == agent[Worker].gen
           n == jobs[g] + 1
<1>2. g \in 1..MaxGen
  <2>1. agent[Worker] \in Agent
    BY RequestCallers DEF TypeOK
  <2>2. agent[Worker].gen # 0
    BY <1>1, RequestCallers DEF AgentInv, Works
  <2> QED BY <2>1, <2>2, ProvisioningAssumption DEF Agent
<1>3. jobs' = [jobs EXCEPT ![g] = n]
  BY DEF Crash
<1>4. crashes \in 0..MaxCrashes /\ crashes' \in 0..MaxCrashes /\ faults' \in 0..MaxFaults
  BY <1>1, ProvisioningAssumption DEF TypeOK
<1>5. jobs \in Jobs /\ \A h \in 1..MaxGen : jobs[h] \in Nat /\ jobs[h] <= MaxJobs + crashes
  BY ProvisioningAssumption DEF TypeOK, NumbersInv, Jobs
<1>6. n \in 0..(MaxJobs + MaxCrashes) /\ n <= MaxJobs + crashes'
  BY <1>1, <1>2, <1>4, <1>5, ProvisioningAssumption
<1>7. \A h \in 1..MaxGen : jobs[h] <= MaxJobs + crashes'
  BY <1>1, <1>4, <1>5, ProvisioningAssumption
<1> HIDE DEF g, n
<1>8. jobs' \in Jobs
  BY <1>2, <1>3, <1>5, <1>6 DEF Jobs
<1>9. ASSUME NEW h \in 1..MaxGen PROVE jobs'[h] <= MaxJobs + crashes'
  BY <1>2, <1>3, <1>5, <1>6, <1>7 DEF Jobs
<1>10. JobsStay
  BY <1>8, <1>9 DEF JobsStay
<1>11. Worker # Abandoned /\ Worker \notin Requests /\ Abandoned \notin Requests
  BY ProvisioningAssumption
<1>12. CASE agent' = [agent EXCEPT ![Worker] = Idle]
  <2>1. Others(Worker) /\ agent'[Worker] = Idle
    BY <1>12, AgentEnds, RequestCallers
  <2> QED BY <1>1, <1>4, <1>10, <1>11, <2>1, RequestCallers DEF Breaks, Others
<1>13. CASE agent' = [agent EXCEPT ![Worker] = Idle, ![Abandoned] = agent[Worker]]
  <2>1. agent' \in [Callers -> Agent] /\ agent'[Worker] = Idle
        /\ agent'[Abandoned] = agent[Worker]
        /\ \A b \in Callers : b # Worker /\ b # Abandoned => agent'[b] = agent[b]
    BY <1>11, <1>13, RequestCallers, IdleFields DEF TypeOK
  <2>2. \A p \in Requests : agent'[p] = agent[p]
    BY <1>11, <2>1, RequestCallers
  <2> QED BY <1>1, <1>4, <1>10, <1>11, <2>1, <2>2, RequestCallers DEF Breaks
<1> QED BY <1>12, <1>13 DEF Crash

LEMMA ForgetForgets == ASSUME TypeOK, Forget PROVE Forgets
<1>1. agent' = [agent EXCEPT ![Abandoned] = Idle]
  BY DEF Forget
<1> QED BY <1>1, RequestCallers, AgentEnds DEF Forget, Forgets

LEMMA ProvisionCommitEnds == ASSUME TypeOK, AgentInv, ProvisionCommit PROVE Ends(Worker)
<1>1. agent[Worker].pc = "answer" /\ agent' = [agent EXCEPT ![Worker] = Idle]
      /\ UNCHANGED <<row, files, lastGen, lastId, jobs, faults, crashes, torn>>
  BY DEF ProvisionCommit
<1>2. Others(Worker) /\ agent'[Worker] = Idle
  BY <1>1, RequestCallers, AgentEnds
<1>3. Busy(Worker) /\ Worker # Abandoned
  BY <1>1, ProvisioningAssumption DEF Busy
<1>4. box \in Box /\ agent[Worker] \in Agent
  BY RequestCallers DEF TypeOK
<1>5. CASE box.gen # agent[Worker].gen
  <2>1. box' = box
    BY <1>5 DEF ProvisionCommit
  <2> QED BY <1>1, <1>2, <1>3, <1>4, <1>5, <2>1 DEF Ends
<1>6. CASE box.gen = agent[Worker].gen
  <2> DEFINE d == IF agent[Worker].override THEN box.dst ELSE agent[Worker].pw
             b == [box EXCEPT !.st = "active", !.vm2 = agent[Worker].id, !.dst = d]
  <2>1. box' = b
    BY <1>4, <1>6 DEF ProvisionCommit, Box
  <2>2. d \in AnyPassword /\ agent[Worker].id \in 0..MaxId
    BY <1>4 DEF Box, Agent
  <2>3. d = IF agent[Worker].override THEN box.dst ELSE agent[Worker].pw
    OBVIOUS
  <2> HIDE DEF d
  <2>4. b \in Box /\ b.gen = box.gen /\ b.st = "active" /\ b.vm2 = agent[Worker].id
        /\ b.src = box.src /\ b.dst = d /\ b.override = box.override
    BY <1>4, <2>2 DEF Box
  <2>5. Provisioned(agent[Worker])
    BY <1>6, <2>1, <2>3, <2>4 DEF Provisioned
  <2> QED BY <1>1, <1>2, <1>3, <2>1, <2>4, <2>5 DEF Ends
<1> QED BY <1>5, <1>6

LEMMA GivesUpEnds == ASSUME TypeOK, ProvisionGivesUp PROVE Ends(Worker)
<1>1. agent[Worker].pc = "error" /\ agent' = [agent EXCEPT ![Worker] = Idle]
      /\ UNCHANGED <<box, row, files, lastGen, lastId, jobs, faults, crashes, torn>>
  BY DEF ProvisionGivesUp
<1>2. Others(Worker) /\ agent'[Worker] = Idle
  BY <1>1, RequestCallers, AgentEnds
<1>3. Busy(Worker) /\ Worker # Abandoned
  BY <1>1, ProvisioningAssumption DEF Busy
<1> QED BY <1>1, <1>2, <1>3 DEF Ends, TypeOK

LEMMA RequestCommitEnds ==
    ASSUME TypeOK, AgentInv, NEW p \in Requests, RequestCommit(p) PROVE Ends(p)
<1>1. agent[p].pc = "answer" /\ agent' = [agent EXCEPT ![p] = Idle]
      /\ box' = (IF box.gen = agent[p].gen THEN Written(agent[p]) ELSE box)
      /\ UNCHANGED <<row, files, lastGen, lastId, jobs, faults, crashes, torn>>
  BY DEF RequestCommit
<1>2. p \in Callers /\ p # Abandoned
  BY RequestCallers, ProvisioningAssumption
<1>3. Others(p) /\ agent'[p] = Idle
  BY <1>1, <1>2, AgentEnds
<1>4. Busy(p) /\ agent[p] \in Agent /\ box \in Box
  BY <1>1, <1>2 DEF Busy, TypeOK
<1>5. agent[p].op # "create"
  BY <1>4 DEF AgentInv
<1> DEFINE w == Written(agent[p])
<1>6. w \in Box /\ Fills(box, agent[p], w)
  BY <1>4, <1>5, WrittenIs
<1>7. box' = IF box.gen = agent[p].gen THEN w ELSE box
  BY <1>1
<1> HIDE DEF w
<1> QED BY <1>1, <1>2, <1>3, <1>4, <1>6, <1>7 DEF Ends

LEMMA RequestFailsEnds ==
    ASSUME TypeOK, NEW p \in Requests, RequestFails(p) PROVE Ends(p)
<1>1. agent[p].pc = "error" /\ agent' = [agent EXCEPT ![p] = Idle]
      /\ box' = (IF agent[p].op = "mirror" /\ box.gen = agent[p].gen
                 THEN [box EXCEPT !.src = agent[p].pw] ELSE box)
      /\ UNCHANGED <<row, files, lastGen, lastId, jobs, faults, crashes, torn>>
  BY DEF RequestFails
<1>2. p \in Callers /\ p # Abandoned
  BY RequestCallers, ProvisioningAssumption
<1>3. Others(p) /\ agent'[p] = Idle
  BY <1>1, <1>2, AgentEnds
<1>4. Busy(p) /\ agent[p] \in Agent /\ box \in Box
  BY <1>1, <1>2 DEF Busy, TypeOK
<1>5. [box EXCEPT !.src = agent[p].pw] \in Box
  BY <1>4 DEF Box, Agent
<1> QED BY <1>1, <1>2, <1>3, <1>4, <1>5 DEF Ends

LEMMA StepKinds ==
    ASSUME IInv, [Next]_vars
    PROVE  \/ Rewrites \/ Idles \/ Breaks \/ Forgets
           \/ \E a \in Callers : Begins(a) \/ Serves(a) \/ Ends(a)
<1> USE DEF IInv
<1>1. ASSUME NEW pw \in Passwords, Upsert(pw) \/ ChangeSource(pw) PROVE Rewrites
  BY <1>1, UpsertRewrites, ChangeRewrites
<1>2. ASSUME Provision PROVE Begins(Worker) \/ Idles \/ Ends(Worker)
  BY <1>2, ProvisionBegins, ProvisionCommitEnds, GivesUpEnds DEF Provision
<1>3. ASSUME NEW p \in Requests, Request(p) PROVE Begins(p) \/ Serves(p) \/ Ends(p)
  <2>1. CASE RequestStart(p, "delete", NoPassword)
    BY <2>1, RequestBegins DEF AnyPassword
  <2>2. ASSUME NEW op \in {"reset", "mirror"}, NEW pw \in Passwords, RequestStart(p, op, pw)
        PROVE  Begins(p)
    BY <2>2, RequestBegins DEF AnyPassword
  <2> QED BY <1>3, <2>1, <2>2, LockServes, RequestCommitEnds, RequestFailsEnds DEF Request
<1>4. ASSUME NEW a \in Callers, Vm2(a) \/ Vm2Fails(a) \/ TimesOut(a) \/ RolledBack(a)
      PROVE  Serves(a) \/ Breaks
  BY <1>4, CreateServes, ResetServes, DeleteFilesServes, DeleteRowServes, Vm2FailsBreaks,
     TimesOutBreaks, RolledBackBreaks DEF Vm2
<1> HIDE DEF IInv
<1>5. TypeOK /\ NumbersInv /\ AgentInv
  BY DEF IInv
<1>6. CASE Deliver \/ Forget \/ Crash \/ UNCHANGED vars
  BY <1>5, <1>6, DeliverIdles, ForgetForgets, CrashBreaks, StutterIdles
<1> QED BY <1>1, <1>2, <1>3, <1>4, <1>6, RequestCallers DEF Next

-----------------------------------------------------------------------------
(* The inductive invariant, part by part. *)

LEMMA InitIInv == Init => IInv
<1> SUFFICES ASSUME Init PROVE IInv
  OBVIOUS
<1>1. box = NoBox /\ row = NoRow /\ files = FALSE /\ lastGen = 0 /\ lastId = 0
      /\ jobs = [g \in 1..MaxGen |-> 0] /\ agent = [a \in Callers |-> Idle]
      /\ faults = 0 /\ crashes = 0 /\ torn = FALSE
  BY DEF Init
<1>2. NoRow \in Row /\ NoRow.id = 0 /\ NoRow.pw = NoPassword
  BY ProvisioningAssumption DEF NoRow, Row, AnyPassword
<1>3. 0 \in 0..MaxGen /\ 0 \in 0..MaxId /\ 0 \in 0..MaxFaults /\ 0 \in 0..MaxCrashes
      /\ 0 \in 0..(MaxJobs + MaxCrashes) /\ 0 <= MaxJobs + 0
  BY ProvisioningAssumption
<1>4. jobs \in [1..MaxGen -> 0..(MaxJobs + MaxCrashes)] /\ \A g \in 1..MaxGen : jobs[g] = 0
  BY <1>1, <1>3
<1>5. agent \in [Callers -> Agent] /\ \A a \in Callers : agent[a] = Idle
  BY <1>1, IdleFields
<1>6. \A a \in Callers : ~Busy(a) /\ agent[a].gen = 0
  BY <1>5, IdleFields DEF Busy
<1>7. TypeOK
  BY <1>1, <1>2, <1>3, <1>4, <1>5, NoBoxFields DEF TypeOK
<1>8. NumbersInv
  BY <1>1, <1>3, <1>4, <1>6, NoBoxFields DEF NumbersInv
<1>9. BoxInv /\ AgentInv /\ KnownInv
  BY <1>1, <1>6, NoBoxFields, RequestCallers DEF BoxInv, AgentInv, KnownInv
<1>10. UntornInv
  BY <1>1, <1>2, <1>6, NoBoxFields, RequestCallers DEF UntornInv, Agreed
<1>11. LateInv
  BY <1>1, <1>5, <1>6, NoBoxFields, IdleFields, RequestCallers DEF LateInv
<1> QED BY <1>7, <1>8, <1>9, <1>10, <1>11 DEF IInv

LEMMA TypeStep == ASSUME IInv, [Next]_vars PROVE TypeOK'
<1>1. TypeOK /\ NumbersInv /\ AgentInv
  BY DEF IInv
<1>2. CASE Rewrites
  BY <1>1, <1>2 DEF Rewrites, TypeOK, JobsStay, Jobs
<1>3. CASE Idles
  BY <1>1, <1>3 DEF Idles, TypeOK, JobsStay, Jobs
<1>4. CASE Breaks
  BY <1>1, <1>4 DEF Breaks, TypeOK, JobsStay, Jobs
<1>5. CASE Forgets
  BY <1>1, <1>5 DEF Forgets, TypeOK, Others
<1>6. ASSUME NEW a \in Callers, Begins(a) PROVE TypeOK'
  BY <1>1, <1>6 DEF Begins, TypeOK, JobsStay, Jobs, Others, Overlap
<1>7. ASSUME NEW a \in Callers, Serves(a) PROVE TypeOK'
  BY <1>1, <1>7 DEF Serves, TypeOK, Others
<1>8. ASSUME NEW a \in Callers, Ends(a) PROVE TypeOK'
  <2>1. Works(agent[a]) /\ agent[a] \in Agent
    BY <1>1, <1>8 DEF Ends, AgentInv, TypeOK
  <2>2. box' \in Box /\ (box'.gen = 0 => box' = NoBox) /\ (box'.st = "active" <=> box'.vm2 # 0)
    <3>1. CASE box' = box
      BY <1>1, <3>1 DEF TypeOK
    <3>2. CASE a = Worker /\ agent[a].pc = "answer" /\ Provisioned(agent[a])
      <4>1. agent[a].op = "create"
        BY <1>1, <1>8, <3>2 DEF Ends, AgentInv
      <4> QED BY <1>8, <2>1, <3>2, <4>1 DEF Provisioned, Works, Ends
    <3>3. CASE a \in Requests /\ Fills(box, agent[a], box') /\ box.gen = agent[a].gen
      BY <1>1, <1>8, <2>1, <3>3, NoBoxFields DEF Fills, Works, Ends, TypeOK
    <3>4. CASE box' = [box EXCEPT !.src = agent[a].pw] /\ box.gen = agent[a].gen
      <4>1. box'.gen = box.gen /\ box'.st = box.st /\ box'.vm2 = box.vm2
        BY <1>1, <3>4 DEF TypeOK, Box
      <4> QED BY <1>1, <1>8, <2>1, <3>4, <4>1 DEF Works, Ends, TypeOK
    <3> QED BY <1>8, <3>1, <3>2, <3>3, <3>4 DEF Ends
  <2> QED BY <1>1, <1>8, <2>2 DEF Ends, TypeOK, Others
<1> QED BY <1>2, <1>3, <1>4, <1>5, <1>6, <1>7, <1>8, StepKinds

\* What the mailbox's row is after a caller is done.
LEMMA EndsGen ==
    ASSUME TypeOK, AgentInv, NEW a \in Callers, Ends(a)
    PROVE  box' = NoBox \/ box'.gen = box.gen
<1>1. a \in Requests => agent[a] \in Agent /\ agent[a].op # "create"
  BY DEF TypeOK, AgentInv, Ends
<1>2. CASE box' = [box EXCEPT !.src = agent[a].pw]
  BY <1>2 DEF TypeOK, Box
<1>3. CASE a \in Requests /\ Fills(box, agent[a], box')
  BY <1>3 DEF Fills
<1> QED BY <1>2, <1>3 DEF Ends, Provisioned

LEMMA NumbersStep == ASSUME IInv, [Next]_vars PROVE NumbersInv'
<1>1. TypeOK /\ NumbersInv /\ AgentInv
  BY DEF IInv
<1>2. box.gen \in Nat /\ lastGen \in Nat /\ \A a \in Callers : agent[a].gen \in Nat
  BY <1>1, ProvisioningAssumption DEF TypeOK, Box, Agent
<1>3. box.gen <= lastGen /\ \A a \in Callers : agent[a].gen <= lastGen
  BY <1>1 DEF NumbersInv
<1>4. CASE Rewrites
  BY <1>2, <1>3, <1>4 DEF Rewrites, JobsStay, NumbersInv
<1>5. CASE Idles
  BY <1>3, <1>5 DEF Idles, JobsStay, NumbersInv
<1>6. CASE Breaks
  <2>1. ASSUME NEW b \in Callers PROVE agent'[b].gen <= lastGen
    <3>1. CASE b = Abandoned
      BY <1>3, <1>6, <3>1 DEF Breaks, Fails, Same
    <3>2. CASE b # Abandoned
      BY <1>2, <1>3, <1>6, <3>2, IdleFields DEF Breaks, Fails, Same
    <3> QED BY <3>1, <3>2
  <2> QED BY <1>3, <1>6, <2>1 DEF Breaks, JobsStay, NumbersInv
<1>7. CASE Forgets
  <2>1. JobsStay
    BY <1>1, <1>7, JobsSame DEF Forgets
  <2> QED BY <1>2, <1>3, <1>7, <2>1, IdleFields DEF Forgets, Others, JobsStay, NumbersInv
<1>8. ASSUME NEW a \in Callers, Begins(a) PROVE NumbersInv'
  BY <1>2, <1>3, <1>8 DEF Begins, Others, JobsStay, NumbersInv
<1>9. ASSUME NEW a \in Callers, Serves(a) PROVE NumbersInv'
  <2>1. JobsStay
    BY <1>1, <1>9, JobsSame DEF Serves
  <2>2. \A b \in Callers : agent'[b].gen = agent[b].gen
    BY <1>9 DEF Serves, Others, Same
  <2> QED BY <1>3, <1>9, <2>1, <2>2 DEF Serves, JobsStay, NumbersInv
<1>10. ASSUME NEW a \in Callers, Ends(a) PROVE NumbersInv'
  <2>1. JobsStay
    BY <1>1, <1>10, JobsSame DEF Ends
  <2>2. \A b \in Callers : agent'[b].gen <= lastGen
    BY <1>2, <1>3, <1>10, IdleFields DEF Ends, Others
  <2>3. box'.gen <= lastGen
    BY <1>1, <1>2, <1>3, <1>10, EndsGen, NoBoxFields
  <2> QED BY <1>10, <2>1, <2>2, <2>3 DEF Ends, JobsStay, NumbersInv
<1> QED BY <1>4, <1>5, <1>6, <1>7, <1>8, <1>9, <1>10, StepKinds

LEMMA BoxStep == ASSUME IInv, [Next]_vars PROVE BoxInv'
<1>1. TypeOK /\ BoxInv /\ AgentInv /\ KnownInv
  BY DEF IInv
<1>2. CASE Rewrites
  BY <1>1, <1>2 DEF Rewrites, BoxInv
<1>3. CASE box' = box
  BY <1>1, <1>3 DEF BoxInv
<1>4. ASSUME NEW a \in Callers, Ends(a) PROVE BoxInv'
  <2>1. Works(agent[a]) /\ agent[a] \in Agent
    BY <1>1, <1>4 DEF Ends, AgentInv, TypeOK
  <2>2. CASE a = Worker /\ agent[a].pc = "answer" /\ Provisioned(agent[a])
    <3>1. agent[a].op = "create"
      BY <1>1, <1>4, <2>2 DEF Ends, AgentInv
    <3> QED BY <1>1, <2>1, <2>2, <3>1 DEF Provisioned, Works, BoxInv
  <2>3. CASE /\ a \in Requests /\ agent[a].pc = "answer" /\ box.gen = agent[a].gen
             /\ Fills(box, agent[a], box')
    <3>1. Busy(a) /\ agent[a].op \in {"delete", "reset", "mirror"}
      BY <1>1, <1>4, <2>1, <2>3 DEF Ends, AgentInv, Agent
    <3>2. CASE agent[a].op = "delete"
      BY <2>3, <3>2, NoBoxFields DEF Fills, BoxInv
    <3>3. CASE agent[a].op = "reset"
      <4>1. agent[a].id # 0
        BY <2>1, <3>3 DEF Works
      <4>2. box.vm2 # 0
        BY <1>1, <2>3, <3>1, <4>1 DEF KnownInv
      <4> QED BY <1>1, <2>3, <3>3, <4>2 DEF Fills, BoxInv
    <3>4. CASE agent[a].op = "mirror"
      BY <1>1, <2>1, <2>3, <3>4 DEF Fills, BoxInv, Works
    <3> QED BY <3>1, <3>2, <3>3, <3>4
  <2>4. CASE box' = [box EXCEPT !.src = agent[a].pw] /\ agent[a].op = "mirror"
    <3>1. box'.gen = box.gen /\ box'.src = agent[a].pw /\ box'.vm2 = box.vm2
          /\ box'.override = box.override
      BY <1>1, <2>4 DEF TypeOK, Box
    <3> QED BY <1>1, <2>1, <2>4, <3>1 DEF BoxInv, Works
  <2> QED BY <1>3, <1>4, <2>2, <2>3, <2>4 DEF Ends
<1> QED BY <1>2, <1>3, <1>4, StepKinds DEF Idles, Breaks, Forgets, Begins, Serves

\* AgentInv for one caller.
Fits(a, c) ==
    c.pc # "idle" => /\ Works(c)
                     /\ a = Worker => c.op = "create" /\ c.pc # "lock"
                     /\ a \in Requests => c.op # "create"

LEMMA FitsNow == ASSUME AgentInv, NEW a \in Callers PROVE Fits(a, agent[a])
BY DEF AgentInv, Busy, Fits

LEMMA FitsNext == ASSUME \A a \in Callers : Fits(a, agent'[a]) PROVE AgentInv'
<1>1. \A a \in Callers : agent'[a].pc # "idle" => Works(agent'[a])
  BY DEF Fits
<1>2. agent'[Worker].pc # "idle" => agent'[Worker].op = "create" /\ agent'[Worker].pc # "lock"
  BY RequestCallers DEF Fits
<1>3. \A p \in Requests : agent'[p].pc # "idle" => agent'[p].op # "create"
  BY RequestCallers DEF Fits
<1> QED BY <1>1, <1>2, <1>3 DEF AgentInv, Busy, Works

LEMMA FitsIdle == \A a : Fits(a, Idle)
BY IdleFields DEF Fits

LEMMA AgentStep == ASSUME IInv, [Next]_vars PROVE AgentInv'
<1>1. TypeOK /\ AgentInv
  BY DEF IInv
<1>2. \A a \in Callers : Fits(a, agent[a])
  BY <1>1, FitsNow
<1>3. Abandoned # Worker /\ Abandoned \notin Requests /\ Worker \notin Requests
  BY ProvisioningAssumption
<1>4. CASE agent' = agent
  BY <1>2, <1>4, FitsNext
<1>5. CASE Breaks
  <2>1. ASSUME NEW a \in Callers, Fails(agent[a], agent'[a]) PROVE Fits(a, agent'[a])
    BY <1>2, <2>1 DEF Fails, Same, Fits, Works
  <2>2. ASSUME NEW a \in Callers, Busy(a) PROVE Fits(Abandoned, agent[a])
    BY <1>2, <1>3, <2>2 DEF Busy, Fits
  <2>3. Fits(Abandoned, agent'[Abandoned])
    BY <1>2, <1>5, <2>1, <2>2, RequestCallers DEF Breaks
  <2>4. ASSUME NEW b \in Callers \ {Abandoned} PROVE Fits(b, agent'[b])
    BY <1>2, <1>5, <2>1, FitsIdle DEF Breaks
  <2> QED BY <2>3, <2>4, FitsNext
<1>6. CASE Forgets
  BY <1>2, <1>6, FitsIdle, FitsNext DEF Forgets, Others
<1>7. ASSUME NEW a \in Callers, Begins(a) PROVE AgentInv'
  <2>1. agent'[a] \in Agent
    BY <1>7 DEF Begins, Others
  <2>2. Works(agent'[a]) /\ agent'[a].pc # "idle"
    BY <1>7, <2>1 DEF Begins, Works, FirstStep, Agent
  <2>3. Fits(a, agent'[a])
    BY <1>3, <1>7, <2>2 DEF Begins, Fits, FirstStep
  <2> QED BY <1>2, <1>7, <2>3, FitsNext DEF Begins, Others
<1>8. ASSUME NEW a \in Callers, Serves(a) PROVE AgentInv'
  <2>1. Same(agent[a], agent'[a]) /\ agent[a] \in Agent
    BY <1>1, <1>8 DEF Serves, TypeOK
  <2>2. Fits(a, agent[a])
    BY <1>2
  <2>3. ASSUME Locks(a) PROVE Fits(a, agent'[a])
    BY <2>1, <2>2, <2>3 DEF Locks, Fits, Works, Same
  <2>4. ASSUME Creates(a) PROVE Fits(a, agent'[a])
    BY <2>1, <2>2, <2>4 DEF Creates, Fits, Works, Same
  <2>5. ASSUME Resets(a) PROVE Fits(a, agent'[a])
    BY <2>1, <2>2, <2>5 DEF Resets, Fits, Works, Same
  <2>6. ASSUME Misses(a) PROVE Fits(a, agent'[a])
    BY <2>1, <2>2, <2>6 DEF Misses, Fits, Works, Same
  <2>7. ASSUME Empties(a) PROVE Fits(a, agent'[a])
    BY <2>1, <2>2, <2>7 DEF Empties, Fits, Works, Same
  <2>8. ASSUME Removes(a) PROVE Fits(a, agent'[a])
    BY <2>1, <2>2, <2>8 DEF Removes, Fits, Works, Same
  <2>9. Fits(a, agent'[a])
    BY <1>8, <2>3, <2>4, <2>5, <2>6, <2>7, <2>8 DEF Serves, Fits
  <2> QED BY <1>2, <1>8, <2>9, FitsNext DEF Serves, Others
<1>9. ASSUME NEW a \in Callers, Ends(a) PROVE AgentInv'
  BY <1>2, <1>9, FitsIdle, FitsNext DEF Ends, Others
<1> QED BY <1>4, <1>5, <1>6, <1>7, <1>8, <1>9, StepKinds DEF Rewrites, Idles

LEMMA KnownStep == ASSUME IInv, [Next]_vars PROVE KnownInv'
<1>1. TypeOK /\ NumbersInv /\ BoxInv /\ AgentInv /\ KnownInv
  BY DEF IInv
<1>2. Worker \in Callers /\ Worker \notin Requests /\ Worker # Abandoned
      /\ Requests \subseteq Callers /\ Abandoned \notin Requests
  BY RequestCallers, ProvisioningAssumption
<1>3. \A a \in Callers : agent[a] \in Agent /\ Fits(a, agent[a])
  BY <1>1, FitsNow DEF TypeOK
<1>4. agent[Worker].pc # "idle" => box.vm2 = 0 /\ ~agent[Worker].override
  BY <1>1 DEF KnownInv, Busy
<1>5. ASSUME NEW p \in Requests, agent[p].pc # "idle", agent[p].gen = box.gen, agent[p].id # 0
      PROVE  agent[p].id = box.vm2
  BY <1>1, <1>5 DEF KnownInv, Busy
<1> SUFFICES
      /\ agent'[Worker].pc # "idle" => box'.vm2 = 0 /\ ~agent'[Worker].override
      /\ \A p \in Requests : agent'[p].pc # "idle" /\ agent'[p].gen = box'.gen /\ agent'[p].id # 0
                               => agent'[p].id = box'.vm2
  BY DEF KnownInv, Busy
<1>6. CASE Rewrites
  <2>1. CASE box.gen = 0 /\ lastGen' = lastGen + 1 /\ box'.gen = lastGen' /\ box'.vm2 = 0
    <3>1. \A p \in Requests : agent[p].gen # box'.gen
      BY <1>1, <1>2, <1>3, <2>1, ProvisioningAssumption DEF NumbersInv, Agent, TypeOK
    <3> QED BY <1>4, <1>6, <2>1, <3>1 DEF Rewrites
  <2>2. CASE box'.gen = box.gen /\ box'.vm2 = box.vm2
    BY <1>4, <1>5, <1>6, <2>2 DEF Rewrites
  <2> QED BY <1>6, <2>1, <2>2 DEF Rewrites
<1>7. CASE Idles
  BY <1>4, <1>5, <1>7 DEF Idles
<1>8. CASE Breaks
  <2>1. box' = box
    BY <1>8 DEF Breaks
  <2>2. agent'[Worker].pc # "idle" =>
          agent[Worker].pc # "idle" /\ agent'[Worker].override = agent[Worker].override
    BY <1>2, <1>8, IdleFields DEF Breaks, Fails, Same
  <2>3. \A p \in Requests : agent'[p].pc # "idle" =>
          agent[p].pc # "idle" /\ agent'[p].gen = agent[p].gen /\ agent'[p].id = agent[p].id
    BY <1>2, <1>8, IdleFields DEF Breaks, Fails, Same
  <2> QED BY <1>4, <1>5, <2>1, <2>2, <2>3
<1>9. CASE Forgets
  <2>1. \A a \in Callers \ {Abandoned} : agent'[a] = agent[a]
    BY <1>9 DEF Forgets, Others
  <2> QED BY <1>2, <1>4, <1>5, <1>9, <2>1 DEF Forgets
<1>10. ASSUME NEW a \in Callers, Begins(a) PROVE KnownInv'
  <2>1. box' = box /\ \A b \in Callers \ {a} : agent'[b] = agent[b]
    BY <1>10 DEF Begins, Others
  <2>2. a = Worker => box.vm2 = 0 /\ ~box.override
    BY <1>1, <1>10 DEF Begins, BoxInv
  <2>3. agent'[a].gen = box.gen /\ agent'[a].id = box.vm2 /\ agent'[a].override = box.override
    BY <1>10 DEF Begins
  <2> QED BY <1>2, <1>4, <1>5, <2>1, <2>2, <2>3 DEF KnownInv, Busy
<1>11. ASSUME NEW a \in Callers, Serves(a) PROVE KnownInv'
  <2>1. box' = box /\ \A b \in Callers \ {a} : agent'[b] = agent[b]
    BY <1>11 DEF Serves, Others
  <2>2. Same(agent[a], agent'[a]) /\ agent[a].pc # "idle"
    BY <1>11 DEF Serves, Locks, Creates, Resets, Misses, Empties, Removes
  <2>3. a \in Requests => agent[a].op # "create"
    BY <1>3, <2>2 DEF Fits
  <2>4. a \in Requests => agent'[a].id = agent[a].id
    BY <1>11, <2>3 DEF Serves, Locks, Creates, Resets, Misses, Empties, Removes
  <2> QED BY <1>2, <1>4, <1>5, <2>1, <2>2, <2>4 DEF KnownInv, Busy, Same
<1>12. ASSUME NEW a \in Callers, Ends(a) PROVE KnownInv'
  <2>1. agent'[a] = Idle /\ agent[a].pc # "idle" /\ Works(agent[a])
        /\ \A b \in Callers \ {a} : agent'[b] = agent[b]
    BY <1>3, <1>12 DEF Ends, Others, Busy, Fits
  <2>2. CASE a = Worker /\ Provisioned(agent[a])
    <3>1. ASSUME NEW p \in Requests, agent'[p].pc # "idle", agent'[p].gen = box'.gen,
                 agent'[p].id # 0
          PROVE  FALSE
      <4>1. agent'[p] = agent[p] /\ box'.gen = box.gen
        BY <1>2, <2>1, <2>2 DEF Provisioned
      <4>2. agent[p].id = box.vm2
        BY <1>5, <3>1, <4>1
      <4> QED BY <1>4, <2>1, <2>2, <3>1, <4>1, <4>2
    <3> QED BY <2>1, <2>2, <3>1, IdleFields DEF KnownInv, Busy
  <2>3. CASE box' = NoBox
    <3>1. box'.gen = 0 /\ box'.vm2 = 0
      BY <2>3, NoBoxFields
    <3>2. \A p \in Requests : agent'[p].pc # "idle" => agent'[p].gen # 0
      BY <1>2, <1>3, <2>1, IdleFields DEF Fits, Works
    <3>3. agent'[Worker].pc # "idle" => ~agent'[Worker].override
      BY <1>2, <1>4, <2>1, IdleFields
    <3> QED BY <3>1, <3>2, <3>3 DEF KnownInv, Busy
  <2>4. CASE box'.gen = box.gen /\ box'.vm2 = box.vm2
    BY <1>2, <1>4, <1>5, <2>1, <2>4, IdleFields DEF KnownInv, Busy
  <2>5. a \in Requests /\ Fills(box, agent[a], box') =>
          box' = NoBox \/ (box'.gen = box.gen /\ box'.vm2 = box.vm2)
    BY DEF Fills
  <2>6. box' = [box EXCEPT !.src = agent[a].pw] => box'.gen = box.gen /\ box'.vm2 = box.vm2
    BY <1>1 DEF TypeOK, Box
  <2> QED BY <1>12, <2>2, <2>3, <2>4, <2>5, <2>6 DEF Ends
<1> QED BY <1>6, <1>7, <1>8, <1>9, <1>10, <1>11, <1>12, StepKinds DEF KnownInv, Busy

\* UntornInv in terms of the callers and the two rows.
AgreedAt(b, r) == (b.vm2 # 0 => r.id = b.vm2 /\ r.pw = b.dst) /\ (b.vm2 = 0 => r.id = 0)

PhaseAt(c, b, r) ==
    /\ c.gen = b.gen /\ c.pc # "error"
    /\ c.pc \in {"lock", "call", "files"} => AgreedAt(b, r) /\ c.id = b.vm2
    /\ c.pc = "answer" /\ c.op = "create" => r.id = c.id /\ r.pw = c.pw
    /\ c.pc = "answer" /\ c.op = "delete" => r.id = 0
    /\ c.pc = "answer" /\ c.op \in {"reset", "mirror"} =>
          c.id = b.vm2 /\ r.id = c.id /\ (c.id # 0 => r.pw = c.pw)

UntornAt(ag, b, r) ==
    /\ \A c, d \in Callers : ag[c].pc # "idle" /\ ag[d].pc # "idle" => c = d
    /\ ag[Abandoned].pc = "idle"
    /\ (\A c \in Callers : ag[c].pc = "idle") => AgreedAt(b, r)
    /\ \A c \in Callers : ag[c].pc # "idle" => PhaseAt(ag[c], b, r)

LEMMA UntornNow == ASSUME UntornInv, ~torn PROVE UntornAt(agent, box, row)
BY DEF UntornInv, UntornAt, Busy, Quiet, Phase, PhaseAt, Agreed, AgreedAt

LEMMA UntornNext == ASSUME torn' \/ UntornAt(agent', box', row') PROVE UntornInv'
BY DEF UntornInv, UntornAt, Busy, Quiet, Phase, PhaseAt, Agreed, AgreedAt

LEMMA UntornStep == ASSUME IInv, [Next]_vars PROVE UntornInv'
<1>1. TypeOK /\ NumbersInv /\ BoxInv /\ AgentInv /\ KnownInv /\ UntornInv
  BY DEF IInv
<1>2. Worker \in Callers /\ Worker \notin Requests /\ Worker # Abandoned
      /\ Callers = {Worker, Abandoned} \cup Requests /\ Abandoned \notin Requests
      /\ Abandoned \in Callers
  BY RequestCallers, ProvisioningAssumption DEF Callers
<1>3. \A a \in Callers : agent[a] \in Agent /\ Fits(a, agent[a])
  BY <1>1, FitsNow DEF TypeOK
<1> SUFFICES ASSUME ~torn' PROVE UntornAt(agent', box', row')
  BY UntornNext
<1>4. CASE torn
  BY <1>4, StepKinds DEF Rewrites, Idles, Breaks, Forgets, Begins, Serves, Ends
<1>5. CASE ~torn
  <2>1. UntornAt(agent, box, row)
    BY <1>1, <1>5, UntornNow
  <2>2. agent[Abandoned].pc = "idle"
    BY <2>1 DEF UntornAt
  <2>3. ASSUME NEW a \in Callers, agent[a].pc # "idle"
        PROVE  PhaseAt(agent[a], box, row) /\ \A b \in Callers \ {a} : agent[b].pc = "idle"
    BY <2>1, <2>3 DEF UntornAt
  <2>4. (\A a \in Callers : agent[a].pc = "idle") => AgreedAt(box, row)
    BY <2>1 DEF UntornAt
  <2>5. CASE Rewrites
    <3>1. agent' = agent /\ row' = row
      BY <2>5 DEF Rewrites
    <3>2. CASE box.gen = 0 /\ box'.vm2 = 0
      <4>1. ASSUME NEW a \in Callers, agent[a].pc # "idle" PROVE FALSE
        BY <1>3, <2>3, <3>2, <4>1 DEF PhaseAt, Fits, Works
      <4>2. AgreedAt(box, row)
        BY <2>4, <4>1
      <4>3. box.vm2 = 0
        BY <1>1, <3>2, NoBoxFields DEF TypeOK
      <4> QED BY <3>1, <3>2, <4>1, <4>2, <4>3, <1>2 DEF UntornAt, AgreedAt
    <3>3. CASE box'.gen = box.gen /\ box'.vm2 = box.vm2 /\ box'.dst = box.dst
      BY <2>1, <3>1, <3>3 DEF UntornAt, PhaseAt, AgreedAt
    <3> QED BY <2>5, <3>2, <3>3 DEF Rewrites
  <2>6. CASE Idles
    BY <2>1, <2>6 DEF Idles
  <2>7. CASE Forgets
    BY <2>2, <2>7 DEF Forgets
  <2>8. ASSUME NEW a \in Callers, Begins(a) PROVE UntornAt(agent', box', row')
    <3>1. ~Busy(a) /\ ~Overlap(a) /\ box' = box /\ row' = row /\ a # Abandoned
          /\ \A b \in Callers \ {a} : agent'[b] = agent[b]
      BY <2>8 DEF Begins, Others
    <3>2. \A b \in Callers : agent[b].pc = "idle"
      BY <3>1 DEF Busy, Overlap
    <3>3. AgreedAt(box, row)
      BY <2>4, <3>2
    <3>4. agent'[a].gen = box.gen /\ agent'[a].id = box.vm2
          /\ agent'[a].pc = FirstStep(agent'[a].op, box.vm2)
      BY <2>8 DEF Begins
    <3>5. PhaseAt(agent'[a], box, row)
      BY <3>3, <3>4 DEF PhaseAt, AgreedAt, FirstStep
    <3>6. agent'[a].pc # "idle"
      BY <3>4 DEF FirstStep
    <3> QED BY <1>2, <3>1, <3>2, <3>5, <3>6 DEF UntornAt
  <2>9. ASSUME NEW a \in Callers, Serves(a) PROVE UntornAt(agent', box', row')
    <3>1. box' = box /\ Same(agent[a], agent'[a])
          /\ \A b \in Callers \ {a} : agent'[b] = agent[b]
      BY <2>9 DEF Serves, Others
    <3>2. agent[a].pc # "idle" /\ agent'[a].pc # "idle"
      BY <2>9 DEF Serves, Locks, Creates, Resets, Misses, Empties, Removes
    <3>3. PhaseAt(agent[a], box, row) /\ (\A b \in Callers \ {a} : agent[b].pc = "idle")
          /\ Works(agent[a])
      BY <1>3, <2>3, <3>2 DEF Fits
    <3>4. a # Abandoned
      BY <2>2, <3>2
    <3>5. ASSUME Locks(a) PROVE PhaseAt(agent'[a], box, row')
      BY <3>1, <3>3, <3>5 DEF Locks, PhaseAt, AgreedAt, Same, Works
    <3>6. ASSUME Creates(a) PROVE PhaseAt(agent'[a], box, row')
      <4>1. a = Worker
        BY <1>2, <1>3, <3>4, <3>6 DEF Creates, Fits
      <4>2. box.vm2 = 0
        BY <1>1, <3>2, <4>1 DEF KnownInv, Busy
      <4> QED BY <3>1, <3>3, <3>6, <4>2 DEF Creates, PhaseAt, AgreedAt, Same
    <3>7. ASSUME Resets(a) PROVE PhaseAt(agent'[a], box, row')
      BY <3>1, <3>3, <3>7 DEF Resets, PhaseAt, AgreedAt, Same
    <3>8. ASSUME Misses(a) PROVE FALSE
      BY <3>3, <3>8 DEF Misses, PhaseAt, AgreedAt, Works
    <3>9. ASSUME Empties(a) PROVE PhaseAt(agent'[a], box, row')
      BY <3>1, <3>3, <3>9 DEF Empties, PhaseAt, AgreedAt, Same
    <3>10. ASSUME Removes(a) PROVE PhaseAt(agent'[a], box, row')
      <4>1. agent[a].op = "delete" /\ row.id = agent[a].id
        BY <3>3, <3>10 DEF Removes, PhaseAt, AgreedAt, Works
      <4>2. row'.id = 0
        BY <3>10, <4>1 DEF Removes, NoRow
      <4> QED BY <3>1, <3>3, <3>10, <4>1, <4>2 DEF Removes, PhaseAt, Same
    <3>11. PhaseAt(agent'[a], box, row')
      BY <2>9, <3>5, <3>6, <3>7, <3>8, <3>9, <3>10 DEF Serves
    <3> QED BY <1>2, <3>1, <3>2, <3>3, <3>4, <3>11 DEF UntornAt
  <2>10. ASSUME NEW a \in Callers, Ends(a) PROVE UntornAt(agent', box', row')
    <3>1. agent'[a] = Idle /\ agent[a].pc # "idle" /\ Works(agent[a]) /\ row' = row
          /\ \A b \in Callers \ {a} : agent'[b] = agent[b]
      BY <1>3, <2>10 DEF Ends, Others, Busy, Fits
    <3>2. PhaseAt(agent[a], box, row) /\ (\A b \in Callers \ {a} : agent[b].pc = "idle")
      BY <2>3, <3>1
    <3>3. \A b \in Callers : agent'[b].pc = "idle"
      BY <3>1, <3>2, IdleFields
    <3>4. agent[a].gen = box.gen /\ agent[a].pc # "error"
      BY <3>2 DEF PhaseAt
    <3>5. CASE a = Worker /\ agent[a].pc = "answer" /\ Provisioned(agent[a])
      <4>1. agent[a].op = "create" /\ ~agent[a].override
        BY <1>1, <1>3, <3>1, <3>5 DEF Fits, KnownInv, Busy
      <4>2. AgreedAt(box', row)
        BY <3>1, <3>2, <3>5, <4>1 DEF Provisioned, PhaseAt, AgreedAt, Works
      <4> QED BY <1>2, <3>1, <3>3, <4>2 DEF UntornAt
    <3>6. CASE a \in Requests /\ agent[a].pc = "answer" /\ Fills(box, agent[a], box')
      <4>1. agent[a].op \in {"delete", "reset", "mirror"}
        BY <1>3, <3>1, <3>6 DEF Fits, Agent
      <4>2. AgreedAt(box', row)
        BY <3>1, <3>2, <3>6, <4>1, NoBoxFields DEF Fills, PhaseAt, AgreedAt, Works
      <4> QED BY <1>2, <3>1, <3>3, <4>2 DEF UntornAt
    <3> QED BY <2>10, <3>4, <3>5, <3>6 DEF Ends
  <2> QED BY <2>5, <2>6, <2>7, <2>8, <2>9, <2>10, StepKinds DEF Breaks
<1> QED BY <1>4, <1>5

\* LateInv in terms of the callers and the two rows.
DeletesAs(c) == c.op = "delete" /\ c.pc = "answer" /\ c.id # 0

LateAt(ag, b, r) ==
    /\ \A p \in Requests : ag[p].pc # "idle" => ag[p].gen = b.gen
    /\ ag[Abandoned].pc # "idle" => ag[Abandoned].op = "create"
    /\ ag[Worker].pc = "answer" => ag[Worker].id = r.id
    /\ b.vm2 # 0 => r.id = b.vm2 \/ \E p \in Requests : DeletesAs(ag[p])

LEMMA LateNow == ASSUME LateInv, OneAtATime, faults = 0 PROVE LateAt(agent, box, row)
BY DEF LateInv, LateAt, Busy, Deletes, DeletesAs

LEMMA LateNext ==
    ASSUME OneAtATime /\ faults' = 0 => LateAt(agent', box', row') PROVE LateInv'
BY DEF LateInv, LateAt, Busy, Deletes, DeletesAs, OneAtATime

LEMMA LateStep == ASSUME IInv, [Next]_vars PROVE LateInv'
<1>1. TypeOK /\ NumbersInv /\ BoxInv /\ AgentInv /\ KnownInv /\ LateInv
  BY DEF IInv
<1>2. Worker \in Callers /\ Worker \notin Requests /\ Worker # Abandoned
      /\ Callers = {Worker, Abandoned} \cup Requests /\ Abandoned \notin Requests
      /\ Abandoned \in Callers
  BY RequestCallers, ProvisioningAssumption DEF Callers
<1>3. \A a \in Callers : agent[a] \in Agent /\ Fits(a, agent[a])
  BY <1>1, FitsNow DEF TypeOK
<1> SUFFICES ASSUME OneAtATime, faults' = 0 PROVE LateAt(agent', box', row')
  BY LateNext
<1>4. faults = 0
  BY StepKinds DEF Rewrites, Idles, Breaks, Forgets, Begins, Serves, Ends
<1>5. LateAt(agent, box, row)
  BY <1>1, <1>4, LateNow
<1>6. \A p \in Requests : agent[p].pc # "idle" => agent[p].gen = box.gen
  BY <1>5 DEF LateAt
<1>7. agent[Abandoned].pc # "idle" => agent[Abandoned].op = "create"
  BY <1>5 DEF LateAt
<1>8. agent[Worker].pc = "answer" => agent[Worker].id = row.id
  BY <1>5 DEF LateAt
<1>9. box.vm2 # 0 => row.id = box.vm2 \/ \E p \in Requests : DeletesAs(agent[p])
  BY <1>5 DEF LateAt
<1>10. CASE Rewrites
  <2>1. agent' = agent /\ row' = row
    BY <1>10 DEF Rewrites
  <2>2. CASE box.gen = 0 /\ box'.vm2 = 0
    <3>1. \A p \in Requests : agent[p].pc = "idle"
      BY <1>2, <1>3, <1>6, <2>2 DEF Fits, Works
    <3> QED BY <1>7, <1>8, <2>1, <2>2, <3>1 DEF LateAt
  <2>3. CASE box'.gen = box.gen /\ box'.vm2 = box.vm2
    BY <1>5, <2>1, <2>3 DEF LateAt
  <2> QED BY <1>10, <2>2, <2>3 DEF Rewrites
<1>11. CASE Idles
  BY <1>5, <1>11 DEF Idles
<1>12. CASE Breaks
  <2>1. agent'[Worker] = Idle /\ (\A p \in Requests : agent'[p] = agent[p])
        /\ box' = box /\ row' = row
        /\ (agent'[Abandoned] = agent[Abandoned]
            \/ (agent[Worker].pc # "idle" /\ agent'[Abandoned] = agent[Worker]))
    BY <1>12 DEF Breaks, Busy
  <2>2. agent'[Abandoned].pc # "idle" => agent'[Abandoned].op = "create"
    BY <1>2, <1>3, <1>7, <2>1 DEF Fits
  <2> QED BY <1>6, <1>9, <2>1, <2>2, IdleFields DEF LateAt
<1>13. CASE Forgets
  <2>1. agent'[Abandoned] = Idle /\ (\A a \in Callers \ {Abandoned} : agent'[a] = agent[a])
        /\ box' = box /\ row' = row
    BY <1>13 DEF Forgets, Others
  <2>2. agent'[Worker] = agent[Worker] /\ \A p \in Requests : agent'[p] = agent[p]
    BY <1>2, <2>1
  <2> QED BY <1>6, <1>8, <1>9, <2>1, <2>2, IdleFields DEF LateAt
<1>14. ASSUME NEW a \in Callers, Begins(a) PROVE LateAt(agent', box', row')
  <2>1. (\A b \in Callers \ {a} : agent'[b] = agent[b]) /\ box' = box /\ row' = row
        /\ a # Abandoned /\ agent[a].pc = "idle" /\ agent'[a].gen = box.gen
    BY <1>14 DEF Begins, Others, Busy
  <2>2. a = Worker => agent'[a].pc # "answer"
    BY <1>14 DEF Begins, FirstStep
  <2>3. ASSUME NEW p \in Requests, DeletesAs(agent[p]) PROVE DeletesAs(agent'[p])
    BY <1>2, <2>1, <2>3 DEF DeletesAs
  <2> QED BY <1>2, <1>6, <1>7, <1>8, <1>9, <2>1, <2>2, <2>3 DEF LateAt
<1>15. ASSUME NEW a \in Callers, Serves(a) PROVE LateAt(agent', box', row')
  <2>1. box' = box /\ Same(agent[a], agent'[a])
        /\ \A b \in Callers \ {a} : agent'[b] = agent[b]
    BY <1>15 DEF Serves, Others
  <2>2. agent[a].pc \notin {"idle", "answer"}
    BY <1>15 DEF Serves, Locks, Creates, Resets, Misses, Empties, Removes
  <2>3. Works(agent[a])
    BY <1>3, <2>2 DEF Fits
  <2>4. ASSUME NEW p \in Requests, DeletesAs(agent[p]) PROVE DeletesAs(agent'[p])
    BY <1>2, <2>1, <2>2, <2>4 DEF DeletesAs
  <2>5. \A p \in Requests : agent'[p].pc # "idle" => agent'[p].gen = box'.gen
    BY <1>2, <1>6, <2>1, <2>2 DEF Same
  <2>6. agent'[Abandoned].pc # "idle" => agent'[Abandoned].op = "create"
    BY <1>2, <1>7, <2>1, <2>2 DEF Same
  <2>7. agent[Worker].pc = "answer" => agent[Worker].id # 0 /\ a # Worker /\ box.vm2 = 0
    BY <1>1, <1>2, <1>3, <2>2 DEF Fits, Works, KnownInv, Busy
  <2>8. ASSUME Locks(a) \/ Misses(a) \/ Empties(a) PROVE LateAt(agent', box', row')
    <3>1. row' = row
      BY <2>8 DEF Locks, Misses, Empties
    <3>2. a = Worker => agent'[a].pc # "answer"
      BY <1>3, <2>2, <2>8 DEF Locks, Misses, Empties, Fits
    <3>3. agent'[Worker].pc = "answer" => agent'[Worker].id = row'.id
      BY <1>2, <1>8, <2>1, <3>1, <3>2
    <3> QED BY <1>9, <2>1, <2>4, <2>5, <2>6, <3>1, <3>3 DEF LateAt
  <2>9. ASSUME Creates(a) PROVE LateAt(agent', box', row')
    <3>1. (row.id # 0 => row' = row) /\ agent'[a].id = row'.id
      BY <2>9 DEF Creates
    <3>2. agent'[Worker].pc = "answer" => agent'[Worker].id = row'.id
      BY <1>2, <1>8, <2>1, <2>7, <3>1
    <3> QED BY <1>9, <2>1, <2>4, <2>5, <2>6, <3>1, <3>2 DEF LateAt
  <2>10. ASSUME Resets(a) PROVE LateAt(agent', box', row')
    <3>1. row'.id = row.id /\ a # Worker
      BY <1>3, <2>2, <2>10 DEF Resets, Fits
    <3>2. agent'[Worker].pc = "answer" => agent'[Worker].id = row'.id
      BY <1>2, <1>8, <2>1, <3>1
    <3> QED BY <1>9, <2>1, <2>4, <2>5, <2>6, <3>1, <3>2 DEF LateAt
  <2>11. ASSUME Removes(a) PROVE LateAt(agent', box', row')
    <3>1. agent[a].pc = "files" /\ agent[a].op = "delete" /\ agent[a].id # 0
          /\ agent'[a].pc = "answer" /\ agent'[a].id = agent[a].id
      BY <2>3, <2>11 DEF Removes, Works
    <3>2. a \in Requests
      BY <1>2, <1>3, <1>7, <2>2, <3>1 DEF Fits
    <3>3. DeletesAs(agent'[a])
      BY <2>1, <3>1 DEF DeletesAs, Same
    <3>4. agent[a].id = box.vm2
      BY <1>1, <1>6, <2>2, <3>1, <3>2 DEF KnownInv, Busy
    <3>5. agent[Worker].pc # "answer"
      BY <2>7, <3>1, <3>4
    <3>6. agent'[Worker].pc # "answer"
      BY <1>2, <2>1, <3>2, <3>5
    <3> QED BY <2>5, <2>6, <3>2, <3>3, <3>6 DEF LateAt
  <2> QED BY <1>15, <2>8, <2>9, <2>10, <2>11 DEF Serves
<1>16. ASSUME NEW a \in Callers, Ends(a) PROVE LateAt(agent', box', row')
  <2>1. agent'[a] = Idle /\ agent[a].pc # "idle" /\ row' = row /\ a # Abandoned
        /\ \A b \in Callers \ {a} : agent'[b] = agent[b]
    BY <1>16 DEF Ends, Others, Busy
  <2>2. agent'[Abandoned].pc # "idle" => agent'[Abandoned].op = "create"
    BY <1>2, <1>7, <2>1
  <2>3. agent'[Worker].pc = "answer" => agent'[Worker].id = row'.id
    BY <1>2, <1>8, <2>1, IdleFields
  <2>4. CASE a = Worker
    <3>1. \A p \in Requests : agent'[p] = agent[p]
      BY <1>2, <2>1, <2>4
    <3>2. CASE box' = box
      BY <1>6, <1>9, <2>1, <2>2, <2>3, <3>1, <3>2 DEF LateAt
    <3>3. CASE agent[a].pc = "answer" /\ Provisioned(agent[a])
      <4>1. box'.vm2 = row'.id /\ box'.gen = box.gen
        BY <1>8, <2>1, <2>4, <3>3 DEF Provisioned
      <4> QED BY <1>6, <2>2, <2>3, <3>1, <4>1 DEF LateAt
    <3> QED BY <1>2, <1>16, <2>4, <3>2, <3>3 DEF Ends
  <2>5. CASE a \in Requests
    <3>1. \A p \in Requests : p = a
      BY <2>5 DEF OneAtATime
    <3>2. \A p \in Requests : agent'[p].pc = "idle"
      BY <2>1, <3>1, IdleFields
    <3>3. agent[a].gen = box.gen
      BY <1>6, <2>1, <2>5
    <3>4. CASE agent[a].pc = "error" /\ box'.vm2 = box.vm2
      <4>1. \A p \in Requests : ~DeletesAs(agent[p])
        BY <3>1, <3>4 DEF DeletesAs
      <4> QED BY <1>9, <2>1, <2>2, <2>3, <3>2, <3>4, <4>1 DEF LateAt
    <3>5. CASE agent[a].pc = "answer" /\ Fills(box, agent[a], box')
      <4>1. CASE agent[a].op = "delete"
        <5>1. box'.vm2 = 0
          BY <3>5, <4>1, NoBoxFields DEF Fills
        <5> QED BY <2>2, <2>3, <3>2, <5>1 DEF LateAt
      <4>2. CASE agent[a].op # "delete"
        <5>1. box'.vm2 = box.vm2
          BY <3>5, <4>2 DEF Fills
        <5>2. \A p \in Requests : ~DeletesAs(agent[p])
          BY <3>1, <4>2 DEF DeletesAs
        <5> QED BY <1>9, <2>1, <2>2, <2>3, <3>2, <5>1, <5>2 DEF LateAt
      <4> QED BY <4>1, <4>2
    <3>6. box' = [box EXCEPT !.src = agent[a].pw] => box'.vm2 = box.vm2
      BY <1>1 DEF TypeOK, Box
    <3> QED BY <1>2, <1>16, <2>5, <3>3, <3>4, <3>5, <3>6 DEF Ends
  <2> QED BY <1>2, <2>1, <2>4, <2>5
<1> QED BY <1>10, <1>11, <1>12, <1>13, <1>14, <1>15, <1>16, StepKinds

LEMMA NextIInv == IInv /\ [Next]_vars => IInv'
<1> SUFFICES ASSUME IInv, [Next]_vars PROVE IInv'
  OBVIOUS
<1> QED BY TypeStep, NumbersStep, BoxStep, AgentStep, KnownStep, UntornStep, LateStep DEF IInv

LEMMA Invariant == Spec => []IInv
BY InitIInv, NextIInv, PTL DEF Spec

-----------------------------------------------------------------------------
(* Theorems. *)

\* Every variable keeps its type, and VM1 shows a mailbox as active exactly when it
\* knows its id on VM2.
THEOREM TypeCorrect == Spec => []TypeOK
<1>1. IInv => TypeOK
  BY DEF IInv
<1> QED BY <1>1, Invariant, PTL

\* As long as no two operations overlapped and none was interrupted, the two machines
\* agree after each, whatever the sequence of imports, provisionings, password changes
\* and deletions and however many threads the panel has.
THEOREM AgreesUnlessTorn == Spec => []AgreeUnlessTorn
<1>1. IInv => AgreeUnlessTorn
  BY DEF IInv, UntornInv, AgreeUnlessTorn
<1> QED BY <1>1, Invariant, PTL

\* With one panel request at a time, an active mailbox exists on VM2 whenever nobody is
\* at work, unless a call failed or was late or a transaction of VM1 was rolled back:
\* whatever overlaps with the worker, and however often it crashes and leaves calls
\* behind.  With two deletions at a time it is false: one that read no id commits, the
\* address is imported again and VM2 answers with the row it has, which the other
\* deletion then removes.
THEOREM MachinesAlwaysAgree == OneAtATime => (Spec => []MachinesAgree)
<1> SUFFICES ASSUME OneAtATime PROVE Spec => []MachinesAgree
  OBVIOUS
<1>1. IInv => MachinesAgree
  <2> SUFFICES ASSUME IInv PROVE MachinesAgree
    OBVIOUS
  <2>1. TypeOK /\ UntornInv /\ LateInv
    BY DEF IInv
  <2>2. AgreeUnlessTorn
    BY <2>1 DEF UntornInv, AgreeUnlessTorn
  <2>3. ASSUME faults = 0, Quiet, box.st = "active" PROVE row.id = box.vm2
    <3>1. LateAt(agent, box, row)
      BY <2>1, <2>3, LateNow
    <3>2. \A p \in Requests : ~DeletesAs(agent[p])
      BY <2>3, RequestCallers DEF Quiet, Busy, DeletesAs
    <3> QED BY <2>1, <2>3, <3>1, <3>2 DEF LateAt, TypeOK
  <2> QED BY <2>2, <2>3 DEF MachinesAgree, NoDivergenceWithoutFaults, NoDivergence
<1> QED BY <1>1, Invariant, PTL

\* Only a panel request that went through changes the stored destination password of a
\* mailbox whose password was set by hand, and stores the one it sent; no provisioning
\* does, however late it commits.
THEOREM OverrideStays == Spec => OverrideKept
<1> DEFINE A == box.override /\ box'.gen = box.gen /\ box'.dst # box.dst
                  => \E p \in Requests : agent[p].pc = "answer" /\ agent'[p].pc = "idle"
                                         /\ box'.dst = agent[p].pw
<1>1. ASSUME IInv, [Next]_vars, box.override, box'.gen = box.gen, box'.dst # box.dst
      PROVE  \E p \in Requests : agent[p].pc = "answer" /\ agent'[p].pc = "idle"
                                 /\ box'.dst = agent[p].pw
  <2>1. TypeOK /\ BoxInv /\ KnownInv /\ AgentInv
    BY <1>1 DEF IInv
  <2>2. box.vm2 # 0 /\ box.gen # 0
    BY <1>1, <2>1, NoBoxFields DEF BoxInv, TypeOK
  <2>3. PICK a \in Callers : Ends(a)
    <3>1. ~Rewrites
      BY <1>1, <2>2 DEF Rewrites
    <3> QED BY <1>1, <3>1, StepKinds DEF Idles, Breaks, Forgets, Begins, Serves
  <2>4. a # Worker
    BY <2>1, <2>2, <2>3 DEF KnownInv, Ends
  <2>5. box' # [box EXCEPT !.src = agent[a].pw]
    BY <1>1, <2>1 DEF TypeOK, Box
  <2>6. a \in Requests /\ agent[a].pc = "answer" /\ Fills(box, agent[a], box')
        /\ agent'[a] = Idle
    BY <1>1, <2>3, <2>4, <2>5 DEF Ends
  <2>7. agent[a].op \in {"reset", "mirror"}
    <3>1. agent[a].op # "delete"
      BY <1>1, <2>2, <2>6, NoBoxFields DEF Fills
    <3>2. agent[a] \in Agent /\ agent[a].op # "create"
      BY <2>1, <2>3, <2>6 DEF TypeOK, AgentInv, Ends
    <3> QED BY <3>1, <3>2 DEF Agent
  <2>8. box'.dst = agent[a].pw
    BY <1>1, <2>6, <2>7 DEF Fills
  <2> QED BY <2>6, <2>8, IdleFields
<1>2. IInv /\ [Next]_vars => [A]_vars
  BY <1>1
<1> QED BY <1>2, Invariant, PTL DEF Spec, OverrideKept

=============================================================================
