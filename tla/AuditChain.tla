----------------------------- MODULE AuditChain -----------------------------
(***************************************************************************)
(* The hash chain of audit_log (services/audit_service.py, the same code   *)
(* on VM2 in vm2_api/audit.py): transactions of several sessions append    *)
(* rows that each name the hash of the row before, and a nightly job       *)
(* recomputes the chain.                                                   *)
(*                                                                         *)
(* A transaction is READ COMMITTED: every statement sees what is committed *)
(* when it starts, and the rows of its own transaction.  Besides the       *)
(* advisory lock of the chain one row of the application (a mailbox, say)  *)
(* is modelled, because the two locks are taken in either order.           *)
(*                                                                         *)
(* A request of the panel is begun and committed through the event loop of *)
(* its process, whichever thread its handler runs in.  A handler that is   *)
(* async def calls the database from the loop, and while it waits nothing  *)
(* else in the process is begun, answered or committed.                    *)
(*                                                                         *)
(* Abstractions: a hash is the sequence of the texts it covers (SHA-256 is *)
(* taken to be free of collisions); the text of an entry is who wrote it   *)
(* and the time zone its timestamp is written in.                          *)
(***************************************************************************)
EXTENDS Naturals, Sequences

CONSTANTS
    Sessions,   \* database sessions: requests, workers
    Panel,      \* those of the requests of one process of the panel
    OnLoop,     \* those whose handler is async: it runs in the event loop itself
    None,       \* no session
    Zone,       \* TimeZone of the sessions, in which psycopg returns timestamps
    MaxId       \* bound: ids ever handed out by the sequence of audit_log

ASSUME AuditAssumption ==
    /\ None \notin Sessions
    /\ OnLoop \subseteq Panel /\ Panel \subseteq Sessions
    /\ MaxId \in Nat

VARIABLES
    rows,     \* audit_log, by id
    lastId,   \* last id handed out; a rollback gives none back
    lock,     \* holder of the advisory lock of the chain
    held,     \* holder of the lock on the row of the application
    tx        \* the transaction of each session

vars == <<rows, lastId, lock, held, tx>>

-----------------------------------------------------------------------------
Ids == 1..MaxId
Zones == {"UTC", Zone}
Texts == [by : Sessions, zone : Zones]
Genesis == <<>>
Hashes == Seq(Texts)

\* isoformat() writes the offset of the zone, and the hash covers the text.
Text(s, zone) == [by |-> s, zone |-> zone]
HashOf(prev, text) == Append(prev, text)

\* open: inserted by a transaction that is under way; gone: rolled back.
Row == [st : {"none", "open", "kept", "gone"}, by : Sessions \cup {None},
        prev : Hashes, hash : Hashes]
NoRow == [st |-> "none", by |-> None, prev |-> Genesis, hash |-> Genesis]

\* dirty: a change of the application row that was not flushed yet.
Tx == [pc : {"idle", "work", "lock", "read", "insert"}, dirty : BOOLEAN, prev : Hashes]
NoTx == [pc |-> "idle", dirty |-> FALSE, prev |-> Genesis]

Kept == {i \in Ids : rows[i].st = "kept"}
Visible(s) == Kept \cup {i \in Ids : rows[i].st = "open" /\ rows[i].by = s}

Init ==
    /\ rows = [i \in Ids |-> NoRow]
    /\ lastId = 0
    /\ lock = None
    /\ held = None
    /\ tx = [s \in Sessions |-> NoTx]

-----------------------------------------------------------------------------
(* A transaction *)

\* A flush, or the autoflush of a query, writes the application row.
CanWrite(s) == tx[s].dirty => held \in {None, s}
Written(s) == IF tx[s].dirty THEN s ELSE held

WaitsForRow(s) == tx[s].pc \in {"work", "read"} /\ ~CanWrite(s)
WaitsForLock(s) == tx[s].pc = "lock" /\ lock \notin {None, s}

LoopBlocked == \E t \in OnLoop : WaitsForLock(t) \/ (tx[t].pc = "read" /\ WaitsForRow(t))
LoopRuns(s) == s \in Panel => ~LoopBlocked

Begin(s) ==
    /\ tx[s].pc = "idle" /\ LoopRuns(s)
    /\ \E dirty \in BOOLEAN :
          tx' = [tx EXCEPT ![s] = [pc |-> "work", dirty |-> dirty, prev |-> Genesis]]
    /\ UNCHANGED <<rows, lastId, lock, held>>

Flush(s) ==
    /\ tx[s].pc = "work" /\ tx[s].dirty
    /\ CanWrite(s)
    /\ held' = s
    /\ tx' = [tx EXCEPT ![s].dirty = FALSE]
    /\ UNCHANGED <<rows, lastId, lock>>

Record(s) ==
    /\ tx[s].pc = "work"
    /\ tx' = [tx EXCEPT ![s].pc = "lock"]
    /\ UNCHANGED <<rows, lastId, lock, held>>

\* Seeded fault: the lock is not waited for.
TakeLockAtOnce(s) ==
    /\ tx[s].pc = "lock"
    /\ lock' = s
    /\ tx' = [tx EXCEPT ![s].pc = "read"]
    /\ UNCHANGED <<rows, lastId, held>>

\* pg_advisory_xact_lock: waits, and may be taken again by its holder.
TakeLock(s) ==
    /\ tx[s].pc = "lock"
    /\ lock \in {None, s}
    /\ lock' = s
    /\ tx' = [tx EXCEPT ![s].pc = "read"]
    /\ UNCHANGED <<rows, lastId, held>>

\* ORDER BY id DESC, the first row, as a statement of its own; the query
\* flushes what is dirty first.
ReadLast(s, prev) ==
    \/ Visible(s) = {} /\ prev = Genesis
    \/ \E i \in Visible(s) : (\A j \in Visible(s) : j <= i) /\ prev = rows[i].hash

Read(s) ==
    /\ tx[s].pc = "read"
    /\ CanWrite(s)
    /\ held' = Written(s)
    /\ \E prev \in {Genesis} \cup {rows[i].hash : i \in Visible(s)} :
          /\ ReadLast(s, prev)
          /\ tx' = [tx EXCEPT ![s] = [pc |-> "insert", dirty |-> FALSE, prev |-> prev]]
    /\ UNCHANGED <<rows, lastId, lock>>

NewRow(s) ==
    [st |-> "open", by |-> s, prev |-> tx[s].prev,
     hash |-> HashOf(tx[s].prev, Text(s, "UTC"))]

\* Seeded fault: an id is handed out twice.
InsertKeepsId(s) ==
    /\ tx[s].pc = "insert"
    /\ lastId < MaxId
    /\ rows' = [rows EXCEPT ![lastId + 1] = NewRow(s)]
    /\ tx' = [tx EXCEPT ![s].pc = "work"]
    /\ UNCHANGED <<lastId, lock, held>>

\* Seeded fault: the lock is released with the statement, not the transaction.
InsertUnlocks(s) ==
    /\ tx[s].pc = "insert"
    /\ lastId < MaxId
    /\ lastId' = lastId + 1
    /\ rows' = [rows EXCEPT ![lastId + 1] = NewRow(s)]
    /\ lock' = None
    /\ tx' = [tx EXCEPT ![s].pc = "work"]
    /\ UNCHANGED held

Insert(s) ==
    /\ tx[s].pc = "insert"
    /\ lastId < MaxId
    /\ lastId' = lastId + 1
    /\ rows' = [rows EXCEPT ![lastId + 1] = NewRow(s)]
    /\ tx' = [tx EXCEPT ![s].pc = "work"]
    /\ UNCHANGED <<lock, held>>

-----------------------------------------------------------------------------
(* Its end *)

Released(holder, s) == IF holder = s THEN None ELSE holder
Settled(s, st) ==
    [i \in Ids |-> IF rows[i].st = "open" /\ rows[i].by = s THEN [rows[i] EXCEPT !.st = st] ELSE rows[i]]

\* The change of the application row and the entries, in one go: get_session
\* is left when the handler has returned to the loop.
Commit(s) ==
    /\ tx[s].pc = "work" /\ LoopRuns(s)
    /\ CanWrite(s)
    /\ rows' = Settled(s, "kept")
    /\ lock' = Released(lock, s)
    /\ held' = Released(held, s)
    /\ tx' = [tx EXCEPT ![s] = NoTx]
    /\ UNCHANGED lastId

\* Seeded fault: a lock of the session, which a pooled connection keeps.
RollbackKeepsLock(s) ==
    /\ rows' = Settled(s, "gone")
    /\ held' = Released(held, s)
    /\ tx' = [tx EXCEPT ![s] = NoTx]
    /\ UNCHANGED <<lastId, lock>>

Rollback(s) ==
    /\ rows' = Settled(s, "gone")
    /\ lock' = Released(lock, s)
    /\ held' = Released(held, s)
    /\ tx' = [tx EXCEPT ![s] = NoTx]
    /\ UNCHANGED lastId

\* An exception in the request, a broken connection, a crash of the process.
Fails(s) == tx[s].pc # "idle" /\ Rollback(s)

\* PostgreSQL aborts one of two transactions that wait for each other.
Deadlocked(s, t) == WaitsForRow(s) /\ held = t /\ WaitsForLock(t) /\ lock = s

DeadlockVictim(s) ==
    /\ \E t \in Sessions : Deadlocked(s, t) \/ Deadlocked(t, s)
    /\ Rollback(s)

\* gunicorn kills a process whose loop has not come round for 120 seconds; each
\* of its connections breaks (that time has passed is not modelled).
Watchdog(s) ==
    /\ s \in Panel /\ tx[s].pc # "idle" /\ LoopBlocked
    /\ Rollback(s)

-----------------------------------------------------------------------------
Step(s) ==
    \/ Begin(s) \/ Flush(s) \/ Record(s) \/ TakeLock(s) \/ Read(s) \/ Insert(s)
    \/ Commit(s) \/ Fails(s)

Next == \E s \in Sessions : Step(s) \/ DeadlockVictim(s) \/ Watchdog(s)

Spec == Init /\ [][Next]_vars

\* A session goes on, PostgreSQL grants a lock in the order of the requests and
\* looks for deadlocks, gunicorn for workers that hang; no transaction has to start, to record or to fail.
Fairness ==
    \A s \in Sessions :
        /\ SF_vars(TakeLock(s)) /\ SF_vars(Read(s)) /\ SF_vars(Commit(s))
        /\ WF_vars(Insert(s)) /\ WF_vars(DeadlockVictim(s)) /\ WF_vars(Watchdog(s))

FairSpec == Spec /\ Fairness

-----------------------------------------------------------------------------
(* verify_chain *)

\* The row as it is read back matches the hash of the row before.
Matches(i, prev) ==
    /\ rows[i].prev = prev
    /\ rows[i].hash = HashOf(prev, Text(rows[i].by, Zone))

Before(i) == {j \in Kept : j < i}

Verified(i) ==
    \/ Before(i) = {} /\ Matches(i, Genesis)
    \/ \E j \in Before(i) : (\A k \in Before(i) : k <= j) /\ Matches(i, rows[j].hash)

-----------------------------------------------------------------------------
(* Properties *)

\* Every variable has its type; ids are used in order.
TypeOK ==
    /\ rows \in [Ids -> Row]
    /\ lastId \in 0..MaxId
    /\ lock \in Sessions \cup {None}
    /\ held \in Sessions \cup {None}
    /\ tx \in [Sessions -> Tx]
    /\ \A i \in Ids : rows[i].st = "none" <=> i > lastId

\* verify_chain finds nothing to report: whatever sessions append, fail and
\* overlap, each committed row follows the committed row before it.
ChainIntact == \A i \in Kept : Verified(i)

\* The committed log, as its last hash tells it.
Log ==
    IF Kept = {} THEN Genesis
    ELSE rows[CHOOSE i \in Kept : \A j \in Kept : j <= i].hash

AppendOnlyLog == INSTANCE AuditLog WITH log <- Log, Entries <- Texts

\* The chain implements the append-only log: a commit puts its entries behind
\* all that were committed before, although ids are handed out earlier.
Implements == AppendOnlyLog!Spec

\* A transaction ends, although the two locks are taken in either order and the
\* event loop may wait for a transaction that waits for the loop (or the model
\* has no id left).
TransactionEnds ==
    \A s \in Sessions : tx[s].pc # "idle" ~> tx[s].pc = "idle" \/ lastId = MaxId

\* Without being killed, too: the loop of a process never waits for the lock of
\* a request that it has to commit first.
NoHang == LoopBlocked => lock \notin Panel
=============================================================================
