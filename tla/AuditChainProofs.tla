-------------------------- MODULE AuditChainProofs --------------------------
(***************************************************************************)
(* Proofs about AuditChain, for every set of sessions and every number of  *)
(* entries: the chain verifies where the database runs in UTC, and the     *)
(* committed log is the append-only log of AuditLog in any time zone.      *)
(***************************************************************************)
EXTENDS AuditChain, FiniteSetTheorems, SequenceTheorems, WellFoundedInduction, TLAPS

\* Rows of transactions that are under way stand among the committed ones.
Live == {i \in Ids : rows[i].st \in {"open", "kept"}}

\* h is the hash an entry behind the rows S continues.
LastHash(S, h) ==
    \/ S = {} /\ h = Genesis
    \/ \E i \in S : (\A j \in S : j <= i) /\ h = rows[i].hash

\* Whoever read the last row, or inserted one, holds the lock of the chain.
LockInv ==
    /\ \A i \in Ids : rows[i].st = "open" => rows[i].by = lock /\ lock \in Sessions
    /\ \A s \in Sessions : tx[s].pc \in {"read", "insert"} => lock = s

\* So what was read is still the last row when the next one is inserted,
ReadInv == \A s \in Sessions : tx[s].pc = "insert" => LastHash(Live, tx[s].prev)

\* and what is not committed comes behind everything that is.
OpenLast == \A i, j \in Ids : rows[i].st = "open" /\ rows[j].st = "kept" => j < i

\* Each row continues the row before it,
Linked ==
    \A i \in Live :
        /\ LastHash({j \in Live : j < i}, rows[i].prev)
        /\ rows[i].hash = HashOf(rows[i].prev, Text(rows[i].by, "UTC"))

\* and covers all of them.
Continues(b, a) == Len(a) < Len(b) /\ \A k \in 1..Len(a) : b[k] = a[k]

Grows == \A i, j \in Live : i < j => Continues(rows[j].hash, rows[i].hash)

IInv == TypeOK /\ LockInv /\ ReadInv /\ OpenLast /\ Linked /\ Grows

-----------------------------------------------------------------------------
\* Types of the parts.
LEMMA PartTypes ==
    /\ NoRow \in Row /\ NoRow.st = "none"
    /\ NoTx \in Tx /\ NoTx.pc = "idle"
    /\ Genesis \in Hashes
    /\ \A s \in Sessions : Text(s, "UTC") \in Texts
BY DEF NoRow, Row, NoTx, Tx, Genesis, Hashes, Text, Texts, Zones

\* An entry appended to a hash continues it, and what it continued.
LEMMA AppendContinues ==
    ASSUME NEW a \in Hashes, NEW t \in Texts
    PROVE  /\ HashOf(a, t) \in Hashes
           /\ Continues(HashOf(a, t), a)
           /\ \A b \in Hashes : Continues(a, b) => Continues(HashOf(a, t), b)
<1>1. /\ Append(a, t) \in Seq(Texts)
      /\ Len(Append(a, t)) = Len(a) + 1
      /\ \A k \in 1..Len(a) : Append(a, t)[k] = a[k]
  BY AppendProperties DEF Hashes
<1>2. Len(a) \in Nat /\ \A b \in Hashes : Len(b) \in Nat
  BY LenProperties DEF Hashes
<1> QED
  BY <1>1, <1>2 DEF HashOf, Continues, Hashes

\* A non-empty set of ids has a largest element.
LEMMA LargestId ==
    ASSUME NEW T \in SUBSET Ids, T # {}
    PROVE  \E i \in T : \A j \in T : j <= i
<1> DEFINE U == {MaxId - i : i \in T}
<1>1. U \subseteq Nat /\ U # {}
  <2>1. \A i \in T : MaxId - i \in Nat
    BY AuditAssumption DEF Ids
  <2> QED
    BY <2>1
<1>2. \E x \in U : \A y \in U : ~ (<<y, x>> \in OpToRel(<, Nat))
  <2>1. IsWellFoundedOn(OpToRel(<, Nat), Nat)
    BY NatLessThanWellFounded
  <2> HIDE DEF U
  <2> QED
    BY <1>1, <2>1, WFMin
<1>3. PICK x \in U : \A y \in U : ~ (y < x)
  BY <1>1, <1>2 DEF OpToRel
<1>4. PICK i \in T : x = MaxId - i
  BY <1>3
<1>5. \A j \in T : ~ (MaxId - j < MaxId - i)
  BY <1>3, <1>4
<1>6. \A j \in T : j <= i
  BY <1>4, <1>5, AuditAssumption DEF Ids
<1> QED
  BY <1>6

\* What LastHash names is unique.
LEMMA LastHashUnique ==
    ASSUME NEW S \in SUBSET Ids, NEW g, NEW h, LastHash(S, g), LastHash(S, h)
    PROVE  g = h
<1>1. CASE S = {}
  BY <1>1 DEF LastHash
<1>2. CASE S # {}
  <2>1. PICK i \in S : (\A j \in S : j <= i) /\ g = rows[i].hash
    BY <1>2 DEF LastHash
  <2>2. PICK k \in S : (\A j \in S : j <= k) /\ h = rows[k].hash
    BY <1>2 DEF LastHash
  <2>3. i = k
    BY <2>1, <2>2, AuditAssumption DEF Ids
  <2> QED
    BY <2>1, <2>2, <2>3
<1> QED
  BY <1>1, <1>2

-----------------------------------------------------------------------------
\* Steps that leave the rows alone keep what is said about the rows.
LEMMA RowsUnchanged ==
    ASSUME IInv, UNCHANGED rows
    PROVE  Live' = Live /\ OpenLast' /\ Linked' /\ Grows'
BY DEF IInv, OpenLast, Linked, Grows, Live, LastHash

\* The end of a transaction.  Whoever does not hold the lock has no open row;
\* whoever does keeps all of them, or gives all of them up.
Ends(s, st) ==
    /\ rows' = Settled(s, st)
    /\ lock' = Released(lock, s)
    /\ held' = Released(held, s)
    /\ tx' = [tx EXCEPT ![s] = NoTx]
    /\ UNCHANGED lastId

LEMMA SettledRows ==
    ASSUME IInv, NEW s \in Sessions, NEW st \in {"kept", "gone"}, Ends(s, st)
    PROVE  /\ rows' \in [Ids -> Row]
           /\ \A i \in Ids :
                /\ rows'[i].by = rows[i].by
                /\ rows'[i].prev = rows[i].prev
                /\ rows'[i].hash = rows[i].hash
                /\ rows[i].st # "open" => rows'[i].st = rows[i].st
                /\ rows[i].st = "open" => rows'[i].st = IF lock = s THEN st ELSE "open"
<1>1. rows \in [Ids -> Row]
  BY DEF IInv, TypeOK
<1>2. \A i \in Ids : rows[i].st = "open" => (rows[i].by = s <=> lock = s)
  BY DEF IInv, LockInv
<1>3. ASSUME NEW i \in Ids
      PROVE  /\ rows'[i] \in Row
             /\ rows'[i].by = rows[i].by
             /\ rows'[i].prev = rows[i].prev
             /\ rows'[i].hash = rows[i].hash
             /\ rows[i].st # "open" => rows'[i].st = rows[i].st
             /\ rows[i].st = "open" => rows'[i].st = IF lock = s THEN st ELSE "open"
  <2>1. CASE rows[i].st = "open" /\ rows[i].by = s
    <3>1. rows'[i] = [rows[i] EXCEPT !.st = st]
      BY <2>1 DEF Ends, Settled
    <3>2. rows[i] \in Row
      BY <1>1
    <3>3. /\ rows'[i] \in Row
          /\ rows'[i].st = st
          /\ rows'[i].by = rows[i].by
          /\ rows'[i].prev = rows[i].prev
          /\ rows'[i].hash = rows[i].hash
      <4>1. /\ [rows[i] EXCEPT !.st = st] \in Row
            /\ [rows[i] EXCEPT !.st = st].st = st
            /\ [rows[i] EXCEPT !.st = st].by = rows[i].by
            /\ [rows[i] EXCEPT !.st = st].prev = rows[i].prev
            /\ [rows[i] EXCEPT !.st = st].hash = rows[i].hash
        BY <3>2 DEF Row
      <4> QED
        BY <3>1, <4>1
    <3>4. lock = s
      BY <1>2, <2>1
    <3> QED
      BY <2>1, <3>3, <3>4
  <2>2. CASE ~(rows[i].st = "open" /\ rows[i].by = s)
    <3>1. rows'[i] = rows[i]
      BY <2>2 DEF Ends, Settled
    <3>2. rows[i] \in Row
      BY <1>1
    <3>3. rows[i].st = "open" => lock # s
      BY <1>2, <2>2
    <3> QED
      BY <3>1, <3>2, <3>3
  <2> QED
    BY <2>1, <2>2
<1>4. rows' = [i \in Ids |-> rows'[i]]
  BY DEF Ends, Settled
<1> QED
  BY <1>3, <1>4

LEMMA EndKeepsIInv ==
    ASSUME IInv, NEW s \in Sessions, NEW st \in {"kept", "gone"}, Ends(s, st)
    PROVE  IInv'
<1>1. /\ rows' \in [Ids -> Row]
      /\ \A i \in Ids :
           /\ rows'[i].by = rows[i].by
           /\ rows'[i].prev = rows[i].prev
           /\ rows'[i].hash = rows[i].hash
           /\ rows[i].st # "open" => rows'[i].st = rows[i].st
           /\ rows[i].st = "open" => rows'[i].st = IF lock = s THEN st ELSE "open"
  BY SettledRows
<1>2. /\ tx' \in [Sessions -> Tx]
      /\ \A t \in Sessions : t # s => tx'[t] = tx[t]
      /\ tx'[s].pc = "idle"
  BY PartTypes DEF IInv, TypeOK, Ends
<1>3. lock' = IF lock = s THEN None ELSE lock
  BY DEF Ends, Released
<1>4. s # None
  BY AuditAssumption
<1>5. TypeOK'
  <2>1. lock' \in Sessions \cup {None} /\ held' \in Sessions \cup {None} /\ lastId' = lastId
    BY DEF IInv, TypeOK, Ends, Released
  <2>2. \A i \in Ids : rows'[i].st = "none" <=> rows[i].st = "none"
    BY <1>1
  <2> QED
    BY <1>1, <1>2, <2>1, <2>2 DEF IInv, TypeOK
<1>6. LockInv'
  BY <1>1, <1>2, <1>3, <1>4 DEF IInv, LockInv
<1>7. OpenLast'
  BY <1>1 DEF IInv, OpenLast
<1>8. /\ Live' \subseteq Live
      /\ \A i \in Live', j \in Live : j < i => j \in Live'
      /\ lock # s \/ st = "kept" => Live' = Live
  <2>1. CASE lock # s
    <3>1. \A i \in Ids : rows'[i].st = rows[i].st
      BY <1>1, <2>1
    <3> QED
      BY <3>1 DEF Live
  <2>2. CASE lock = s /\ st = "kept"
    <3>1. \A i \in Ids : rows'[i].st \in {"open", "kept"} <=> rows[i].st \in {"open", "kept"}
      BY <1>1, <2>2
    <3> QED
      BY <3>1 DEF Live
  <2>3. CASE lock = s /\ st = "gone"
    <3>1. \A i \in Ids : rows'[i].st \in {"open", "kept"} <=> rows[i].st = "kept"
      BY <1>1, <2>3
    <3>2. \A i, j \in Ids : rows[i].st = "open" /\ rows[j].st = "kept" => j < i
      BY DEF IInv, OpenLast
    <3>3. \A i, j \in Ids : ~ (i < j /\ j < i)
      BY AuditAssumption DEF Ids
    <3> QED
      BY <2>3, <3>1, <3>2, <3>3 DEF Live
  <2> QED
    BY <2>1, <2>2, <2>3
<1>9. Live \subseteq Ids
  BY DEF Live
<1>10. Linked'
  <2> SUFFICES ASSUME NEW i \in Live'
               PROVE  /\ LastHash({j \in Live : j < i}, rows[i].prev)'
                      /\ rows'[i].hash = HashOf(rows'[i].prev, Text(rows'[i].by, "UTC"))
    BY DEF Linked
  <2>1. i \in Live /\ i \in Ids
    BY <1>8, <1>9
  <2>2. {j \in Live' : j < i} = {j \in Live : j < i}
    BY <1>8
  <2>3. LastHash({j \in Live : j < i}, rows[i].prev)
    BY <2>1 DEF IInv, Linked
  <2>4. rows[i].hash = HashOf(rows[i].prev, Text(rows[i].by, "UTC"))
    BY <2>1 DEF IInv, Linked
  <2>5. LastHash({j \in Live : j < i}, rows[i].prev)'
    BY <1>1, <1>9, <2>1, <2>2, <2>3 DEF LastHash
  <2> QED
    BY <1>1, <2>1, <2>4, <2>5
<1>11. Grows'
  BY <1>1, <1>8, <1>9 DEF IInv, Grows
<1>12. ReadInv'
  <2> SUFFICES ASSUME NEW t \in Sessions, tx'[t].pc = "insert"
               PROVE  LastHash(Live, tx[t].prev)'
    BY DEF ReadInv
  <2>1. t # s /\ tx'[t] = tx[t]
    BY <1>2
  <2>2. lock = t /\ LastHash(Live, tx[t].prev)
    BY <2>1 DEF IInv, LockInv, ReadInv
  <2>3. Live' = Live
    BY <1>8, <2>1, <2>2
  <2> QED
    BY <1>1, <1>9, <2>1, <2>2, <2>3 DEF LastHash
<1> QED
  BY <1>5, <1>6, <1>7, <1>10, <1>11, <1>12 DEF IInv

LEMMA InsertKeepsIInv ==
    ASSUME IInv, NEW s \in Sessions, Insert(s)
    PROVE  IInv'
<1> DEFINE new == lastId + 1
<1>1. /\ new \in Ids /\ lastId \in Nat
      /\ rows \in [Ids -> Row]
      /\ \A i \in Ids : rows[i].st = "none" <=> i > lastId
      /\ Ids \subseteq Nat
  BY AuditAssumption DEF IInv, TypeOK, Insert, Ids
<1>2. /\ tx[s].pc = "insert"
      /\ rows' = [rows EXCEPT ![new] = NewRow(s)]
      /\ tx' = [tx EXCEPT ![s].pc = "work"]
      /\ lastId' = new
      /\ UNCHANGED <<lock, held>>
  BY DEF Insert
<1>3. lock = s /\ LastHash(Live, tx[s].prev)
  BY <1>2 DEF IInv, LockInv, ReadInv
<1>4. tx[s] \in Tx /\ tx[s].prev \in Hashes
  BY DEF IInv, TypeOK, Tx
<1>5. /\ NewRow(s) \in Row
      /\ NewRow(s).st = "open"
      /\ NewRow(s).by = s
      /\ NewRow(s).prev = tx[s].prev
      /\ NewRow(s).hash = HashOf(tx[s].prev, Text(s, "UTC"))
  <2>1. HashOf(tx[s].prev, Text(s, "UTC")) \in Hashes
    BY <1>4, PartTypes, AppendContinues
  <2> QED
    BY <1>4, <2>1 DEF NewRow, Row
<1>6. /\ rows'[new] = NewRow(s)
      /\ \A i \in Ids : i # new => rows'[i] = rows[i]
      /\ rows' \in [Ids -> Row]
  BY <1>1, <1>2, <1>5
<1>7. /\ tx' \in [Sessions -> Tx]
      /\ \A t \in Sessions : t # s => tx'[t] = tx[t]
      /\ tx'[s].pc = "work"
  <2>1. [tx[s] EXCEPT !.pc = "work"] \in Tx /\ [tx[s] EXCEPT !.pc = "work"].pc = "work"
    BY <1>4 DEF Tx
  <2>2. tx \in [Sessions -> Tx] /\ tx' = [tx EXCEPT ![s] = [tx[s] EXCEPT !.pc = "work"]]
    BY <1>2 DEF IInv, TypeOK
  <2> HIDE DEF Tx
  <2> QED
    BY <2>1, <2>2
<1>8. /\ Live' = Live \cup {new}
      /\ \A i \in Live : i < new
      /\ Live \subseteq Ids
  <2>1. rows[new].st = "none"
    BY <1>1
  <2>2. \A i \in Ids : rows'[i].st \in {"open", "kept"} <=> rows[i].st \in {"open", "kept"} \/ i = new
    BY <1>1, <1>5, <1>6
  <2>3. Live' = Live \cup {new}
    BY <1>1, <2>2 DEF Live
  <2>4. \A i \in Ids : rows[i].st \in {"open", "kept"} => i < new
    BY <1>1
  <2> QED
    BY <2>3, <2>4 DEF Live
<1>9. TypeOK'
  <2>1. \A i \in Ids : rows'[i].st = "none" <=> i > new
    BY <1>1, <1>5, <1>6
  <2>2. lastId' \in 0..MaxId
    BY <1>1, <1>2, AuditAssumption DEF Ids
  <2> QED
    BY <1>2, <1>6, <1>7, <2>1, <2>2 DEF IInv, TypeOK
<1>10. LockInv'
  BY <1>1, <1>2, <1>3, <1>5, <1>6, <1>7 DEF IInv, LockInv
<1>11. OpenLast'
  BY <1>1, <1>5, <1>6, <1>8 DEF IInv, OpenLast, Live
<1>13. Linked'
  <2> SUFFICES ASSUME NEW i \in Live'
               PROVE  /\ LastHash({j \in Live : j < i}, rows[i].prev)'
                      /\ rows'[i].hash = HashOf(rows'[i].prev, Text(rows'[i].by, "UTC"))
    BY DEF Linked
  <2>1. CASE i = new
    <3>1. {j \in Live' : j < i} = Live
      <4>1. ~ (new < new)
        BY <1>1
      <4> HIDE DEF new
      <4> QED
        BY <1>8, <2>1, <4>1
    <3>2. \A j \in Live : rows'[j] = rows[j]
      <4>1. \A j \in Live : j # new
        BY <1>1, <1>8
      <4> QED
        BY <1>6, <1>8, <4>1
    <3>3. rows'[i].prev = tx[s].prev
      BY <1>5, <1>6, <2>1
    <3>4. LastHash({j \in Live : j < i}, rows[i].prev)'
      BY <1>3, <3>1, <3>2, <3>3 DEF LastHash
    <3> QED
      BY <1>5, <1>6, <2>1, <3>3, <3>4
  <2>2. CASE i # new
    <3>1. i \in Live /\ i \in Ids /\ rows'[i] = rows[i]
      BY <1>6, <1>8, <2>2
    <3>2. {j \in Live' : j < i} = {j \in Live : j < i}
      <4>1. ~ (new < i)
        BY <1>1, <1>8, <3>1
      <4> HIDE DEF new
      <4> QED
        BY <1>8, <4>1
    <3>3. /\ LastHash({j \in Live : j < i}, rows[i].prev)
          /\ rows[i].hash = HashOf(rows[i].prev, Text(rows[i].by, "UTC"))
      BY <3>1 DEF IInv, Linked
    <3>4. \A j \in {j \in Live : j < i} : rows'[j] = rows[j]
      BY <1>1, <1>6, <1>8
    <3>5. LastHash({j \in Live : j < i}, rows[i].prev)'
      BY <3>1, <3>2, <3>3, <3>4 DEF LastHash
    <3> QED
      BY <3>1, <3>3, <3>5
  <2> QED
    BY <2>1, <2>2
<1>14. Grows'
  <2> SUFFICES ASSUME NEW i \in Live', NEW j \in Live', i < j
               PROVE  Continues(rows'[j].hash, rows'[i].hash)
    BY DEF Grows
  <2>1. i \in Live /\ i \in Ids /\ rows'[i] = rows[i] /\ rows[i].hash \in Hashes
    BY <1>1, <1>6, <1>8 DEF Row
  <2>2. CASE j = new
    <3>1. PICK k \in Live : (\A l \in Live : l <= k) /\ tx[s].prev = rows[k].hash
      BY <1>3, <2>1 DEF LastHash
    <3>2. tx[s].prev = rows[i].hash \/ Continues(tx[s].prev, rows[i].hash)
      <4>1. i <= k /\ i \in Nat /\ k \in Nat
        BY <1>1, <1>8, <2>1, <3>1
      <4>2. i = k \/ i < k
        BY <4>1
      <4> QED
        BY <2>1, <3>1, <4>2 DEF IInv, Grows
    <3>3. Continues(HashOf(tx[s].prev, Text(s, "UTC")), rows[i].hash)
      BY <1>4, <2>1, <3>2, PartTypes, AppendContinues
    <3> QED
      BY <1>5, <1>6, <2>1, <2>2, <3>3
  <2>3. CASE j # new
    <3>1. j \in Live /\ rows'[j] = rows[j]
      BY <1>6, <1>8, <2>3
    <3> QED
      BY <2>1, <3>1 DEF IInv, Grows
  <2> QED
    BY <2>2, <2>3
<1>15. ReadInv'
  <2> SUFFICES ASSUME NEW t \in Sessions, tx'[t].pc = "insert" PROVE FALSE
    BY DEF ReadInv
  <2>1. t # s /\ tx[t].pc = "insert"
    BY <1>7
  <2> QED
    BY <1>3, <2>1 DEF IInv, LockInv
<1> QED
  BY <1>9, <1>10, <1>11, <1>13, <1>14, <1>15 DEF IInv

-----------------------------------------------------------------------------
\* The inductive invariant: it holds at the start and every step keeps it.
LEMMA Invariance == Spec => []IInv
<1>1. Init => IInv
  <2> SUFFICES ASSUME Init PROVE IInv
    OBVIOUS
  <2>1. /\ \A i \in Ids : rows[i] = NoRow
        /\ \A s \in Sessions : tx[s] = NoTx
    BY DEF Init
  <2>2. Live = {}
    BY <2>1, PartTypes DEF Live
  <2>3. TypeOK
    BY PartTypes, AuditAssumption DEF Init, TypeOK, Ids
  <2>4. LockInv /\ ReadInv /\ OpenLast
    BY <2>1, PartTypes DEF LockInv, ReadInv, OpenLast
  <2> QED
    BY <2>2, <2>3, <2>4 DEF IInv, Linked, Grows
<1>2. IInv /\ [Next]_vars => IInv'
  <2> SUFFICES ASSUME IInv, [Next]_vars PROVE IInv'
    OBVIOUS
  <2>1. ASSUME NEW s \in Sessions, NEW pc \in {"work", "lock"},
               rows' = rows, lastId' = lastId, lock' = lock,
               held' \in Sessions \cup {None},
               tx' \in [Sessions -> Tx], tx'[s].pc = pc,
               \A t \in Sessions \ {s} : tx'[t] = tx[t]
        PROVE  IInv'
    <3>1. Live' = Live /\ OpenLast' /\ Linked' /\ Grows'
      BY <2>1, RowsUnchanged
    <3>2. TypeOK' /\ LockInv'
      BY <2>1 DEF IInv, TypeOK, LockInv
    <3>3. ReadInv'
      BY <2>1, <3>1 DEF IInv, ReadInv, LastHash
    <3> QED
      BY <3>1, <3>2, <3>3 DEF IInv
  <2>2. tx \in [Sessions -> Tx]
    BY DEF IInv, TypeOK
  <2>3. ASSUME NEW s \in Sessions, Begin(s) PROVE IInv'
    <3>1. PICK dirty \in BOOLEAN :
            tx' = [tx EXCEPT ![s] = [pc |-> "work", dirty |-> dirty, prev |-> Genesis]]
      BY <2>3 DEF Begin
    <3>2. [pc |-> "work", dirty |-> dirty, prev |-> Genesis] \in Tx
      BY PartTypes DEF Tx
    <3>3. tx' \in [Sessions -> Tx] /\ tx'[s].pc = "work" /\ \A t \in Sessions \ {s} : tx'[t] = tx[t]
      BY <2>2, <3>1, <3>2
    <3> QED
      BY <2>1, <2>3, <3>3 DEF Begin, IInv, TypeOK
  <2>4. ASSUME NEW s \in Sessions, Flush(s) PROVE IInv'
    <3>1. /\ [tx[s] EXCEPT !.dirty = FALSE] \in Tx
          /\ [tx[s] EXCEPT !.dirty = FALSE].pc = "work"
      BY <2>2, <2>4 DEF Flush, Tx
    <3>2. tx' = [tx EXCEPT ![s] = [tx[s] EXCEPT !.dirty = FALSE]]
      BY <2>4 DEF Flush
    <3>3. tx' \in [Sessions -> Tx] /\ tx'[s].pc = "work" /\ \A t \in Sessions \ {s} : tx'[t] = tx[t]
      BY <2>2, <3>1, <3>2
    <3> QED
      BY <2>1, <2>4, <3>3 DEF Flush
  <2>5. ASSUME NEW s \in Sessions, Record(s) PROVE IInv'
    <3>1. /\ [tx[s] EXCEPT !.pc = "lock"] \in Tx
          /\ [tx[s] EXCEPT !.pc = "lock"].pc = "lock"
      BY <2>2 DEF Tx
    <3>2. tx' = [tx EXCEPT ![s] = [tx[s] EXCEPT !.pc = "lock"]]
      BY <2>5 DEF Record
    <3>3. tx' \in [Sessions -> Tx] /\ tx'[s].pc = "lock" /\ \A t \in Sessions \ {s} : tx'[t] = tx[t]
      BY <2>2, <3>1, <3>2
    <3> QED
      BY <2>1, <2>5, <3>3 DEF Record, IInv, TypeOK
  <2>6. ASSUME NEW s \in Sessions, TakeLock(s) PROVE IInv'
    <3>1. /\ [tx[s] EXCEPT !.pc = "read"] \in Tx
          /\ [tx[s] EXCEPT !.pc = "read"].pc = "read"
      BY <2>2 DEF Tx
    <3>2. tx' = [tx EXCEPT ![s] = [tx[s] EXCEPT !.pc = "read"]]
      BY <2>6 DEF TakeLock
    <3>3. tx' \in [Sessions -> Tx] /\ tx'[s].pc = "read" /\ \A t \in Sessions \ {s} : tx'[t] = tx[t]
      BY <2>2, <3>1, <3>2
    <3>4. rows' = rows /\ lastId' = lastId /\ held' = held /\ lock' = s /\ lock \in {None, s}
      BY <2>6 DEF TakeLock
    <3>5. Live' = Live /\ OpenLast' /\ Linked' /\ Grows'
      BY <3>4, RowsUnchanged
    <3>6. TypeOK' /\ LockInv'
      BY <3>3, <3>4, AuditAssumption DEF IInv, TypeOK, LockInv
    <3>7. ReadInv'
      BY <3>3, <3>4, <3>5 DEF IInv, ReadInv, LastHash
    <3> QED
      BY <3>5, <3>6, <3>7 DEF IInv
  <2>7. ASSUME NEW s \in Sessions, Read(s) PROVE IInv'
    <3>1. rows' = rows /\ lastId' = lastId /\ lock' = lock /\ tx[s].pc = "read" /\ held' = Written(s)
      BY <2>7 DEF Read
    <3>2. PICK prev \in {Genesis} \cup {rows[i].hash : i \in Visible(s)} :
            /\ ReadLast(s, prev)
            /\ tx' = [tx EXCEPT ![s] = [pc |-> "insert", dirty |-> FALSE, prev |-> prev]]
      BY <2>7 DEF Read
    <3>3. prev \in Hashes
      <4>1. \A i \in Visible(s) : rows[i].hash \in Hashes
        BY DEF IInv, TypeOK, Row, Visible, Kept
      <4> QED
        BY <3>2, <4>1, PartTypes
    <3>4. /\ tx' \in [Sessions -> Tx] /\ tx'[s].pc = "insert" /\ tx'[s].prev = prev
          /\ \A t \in Sessions \ {s} : tx'[t] = tx[t]
      <4>1. [pc |-> "insert", dirty |-> FALSE, prev |-> prev] \in Tx
        BY <3>3 DEF Tx
      <4> QED
        BY <2>2, <3>2, <4>1
    <3>5. lock = s
      BY <3>1 DEF IInv, LockInv
    <3>6. Visible(s) = Live
      <4>1. \A i \in Ids : rows[i].st = "open" => rows[i].by = s
        BY <3>5 DEF IInv, LockInv
      <4> QED
        BY <4>1 DEF Visible, Kept, Live
    <3>7. Live' = Live /\ OpenLast' /\ Linked' /\ Grows'
      BY <3>1, RowsUnchanged
    <3>8. TypeOK' /\ LockInv'
      BY <3>1, <3>4, <3>5 DEF IInv, TypeOK, LockInv, Written
    <3>9. ReadInv'
      <4>1. LastHash(Live, prev)
        BY <3>2, <3>6 DEF ReadLast, LastHash
      <4>2. LastHash(Live, tx[s].prev)'
        BY <3>1, <3>4, <3>7, <4>1 DEF LastHash
      <4>3. \A t \in Sessions : t # s => tx'[t].pc # "insert"
        BY <3>4, <3>5 DEF IInv, LockInv
      <4> QED
        BY <4>2, <4>3 DEF ReadInv
    <3> QED
      BY <3>7, <3>8, <3>9 DEF IInv
  <2>8. ASSUME NEW s \in Sessions, Insert(s) PROVE IInv'
    BY <2>8, InsertKeepsIInv
  <2>9. ASSUME NEW s \in Sessions, Commit(s) PROVE IInv'
    BY <2>9, EndKeepsIInv DEF Commit, Ends
  <2>10. ASSUME NEW s \in Sessions, Rollback(s) PROVE IInv'
    BY <2>10, EndKeepsIInv DEF Rollback, Ends
  <2>11. CASE UNCHANGED vars
    <3>1. Live' = Live /\ OpenLast' /\ Linked' /\ Grows'
      BY <2>11, RowsUnchanged DEF vars
    <3>2. TypeOK' /\ LockInv' /\ ReadInv'
      BY <2>11, <3>1 DEF IInv, TypeOK, LockInv, ReadInv, LastHash, vars
    <3> QED
      BY <3>1, <3>2 DEF IInv
  <2> QED
    BY <2>3, <2>4, <2>5, <2>6, <2>7, <2>8, <2>9, <2>10, <2>11
    DEF Next, Step, Fails, DeadlockVictim, Watchdog
<1> QED
  BY <1>1, <1>2, PTL DEF Spec

\* Every variable has its type and the ids are used in order.
THEOREM TypeCorrect == Spec => []TypeOK
<1>1. IInv => TypeOK
  BY DEF IInv
<1> QED
  BY <1>1, Invariance, PTL

\* Nothing that is under way stands before a committed row.
LEMMA CommittedFirst ==
    ASSUME IInv, NEW i \in Kept PROVE Before(i) = {j \in Live : j < i}
<1>1. i \in Ids
  BY DEF Kept
<1>2. \A j \in Ids : rows[j].st = "open" => i < j
  BY DEF IInv, OpenLast, Kept
<1>3. \A j \in Ids : ~ (i < j /\ j < i)
  BY AuditAssumption, <1>1 DEF Ids
<1> QED
  BY <1>2, <1>3 DEF Before, Kept, Live

\* On a database in UTC the nightly verification never finds a broken chain:
\* the lock of the chain is enough, whichever transactions overlap or fail.
THEOREM ChainVerifies ==
    ASSUME Zone = "UTC" PROVE Spec => []ChainIntact
<1>1. IInv => ChainIntact
  <2> SUFFICES ASSUME IInv, NEW i \in Kept PROVE Verified(i)
    BY DEF ChainIntact
  <2>1. i \in Live /\ i \in Ids
    BY DEF Kept, Live
  <2>2. Before(i) = {j \in Live : j < i}
    BY CommittedFirst
  <2>3. /\ LastHash(Before(i), rows[i].prev)
        /\ rows[i].hash = HashOf(rows[i].prev, Text(rows[i].by, Zone))
    BY <2>1, <2>2 DEF IInv, Linked
  <2> QED
    BY <2>3 DEF LastHash, Verified, Matches
<1> QED
  BY <1>1, Invariance, PTL

-----------------------------------------------------------------------------
\* The last hash of the committed rows is the log.
LEMMA LogIsLast == TypeOK => LastHash(Kept, Log)
<1>1. CASE Kept = {}
  BY <1>1 DEF Log, LastHash
<1>2. CASE Kept # {}
  <2>1. Kept \in SUBSET Ids
    BY DEF Kept
  <2>2. \E i \in Kept : \A j \in Kept : j <= i
    BY <1>2, <2>1, LargestId
  <2> DEFINE last == CHOOSE i \in Kept : \A j \in Kept : j <= i
  <2>3. last \in Kept /\ \A j \in Kept : j <= last
    BY <2>2
  <2>4. Log = rows[last].hash
    BY <1>2 DEF Log
  <2> QED
    BY <2>3, <2>4 DEF LastHash
<1> QED
  BY <1>1, <1>2

\* Steps that commit nothing leave the log as it is.
LEMMA LogUnchanged ==
    ASSUME LastHash(Kept, Log), LastHash(Kept, Log)', Kept' = Kept,
           \A i \in Kept : rows'[i].hash = rows[i].hash
    PROVE  Log' = Log
<1>1. LastHash(Kept, Log')
  BY DEF LastHash
<1>2. Kept \in SUBSET Ids
  BY DEF Kept
<1> QED
  BY <1>1, <1>2, LastHashUnique

\* A log that continues another extends it.
LEMMA ContinuesExtends ==
    ASSUME NEW a \in Hashes, NEW b \in Hashes, Continues(b, a)
    PROVE  Len(b) > Len(a) /\ SubSeq(b, 1, Len(a)) = a
<1>1. /\ Len(a) \in Nat /\ Len(b) \in Nat /\ Len(a) < Len(b)
      /\ \A k \in 1..Len(a) : b[k] = a[k]
      /\ \A k \in 1..Len(b) : b[k] \in Texts
  BY LenProperties, ElementOfSeq DEF Continues, Hashes
<1>2. \A k \in 1..Len(a) : b[k] \in Texts
  BY <1>1
<1>3. /\ SubSeq(b, 1, Len(a)) \in Seq(Texts)
      /\ Len(SubSeq(b, 1, Len(a))) = IF 1 <= Len(a) THEN Len(a) - 1 + 1 ELSE 0
      /\ \A k \in 1..(Len(a) - 1 + 1) : SubSeq(b, 1, Len(a))[k] = b[1 + k - 1]
  BY <1>1, <1>2, SubSeqProperties
<1>4. Len(SubSeq(b, 1, Len(a))) = Len(a)
  BY <1>1, <1>3
<1>5. \A k \in 1..Len(a) : SubSeq(b, 1, Len(a))[k] = a[k]
  BY <1>1, <1>3
<1>6. SubSeq(b, 1, Len(a)) = a
  BY <1>3, <1>4, <1>5, SeqEqual DEF Hashes
<1> QED
  BY <1>1, <1>6

\* A commit of the holder of the lock puts its entries behind the others.
LEMMA CommitExtends ==
    ASSUME IInv, NEW s \in Sessions, Commit(s), LastHash(Kept, Log), LastHash(Kept, Log)'
    PROVE  Log' = Log \/ AppendOnlyLog!Extend
<1>1. /\ rows' \in [Ids -> Row]
      /\ \A i \in Ids :
           /\ rows'[i].hash = rows[i].hash
           /\ rows[i].st # "open" => rows'[i].st = rows[i].st
           /\ rows[i].st = "open" => rows'[i].st = IF lock = s THEN "kept" ELSE "open"
  BY SettledRows DEF Commit, Ends
<1>2. CASE lock # s \/ \A i \in Ids : rows[i].st # "open"
  <2>1. \A i \in Ids : rows'[i].st = "kept" <=> rows[i].st = "kept"
    BY <1>1, <1>2
  <2>2. Kept' = Kept
    BY <2>1 DEF Kept
  <2>3. \A i \in Kept : rows'[i].hash = rows[i].hash
    BY <1>1 DEF Kept
  <2> QED
    BY <2>2, <2>3, LogUnchanged
<1>3. ASSUME lock = s, NEW o \in Ids, rows[o].st = "open"
      PROVE  AppendOnlyLog!Extend
  <2>1. /\ o \in Kept'
        /\ Kept' = Live
        /\ Kept \subseteq Live
        /\ Live \subseteq Ids
    <3>1. \A i \in Ids : rows'[i].st = "kept" <=> rows[i].st \in {"open", "kept"}
      BY <1>1, <1>3
    <3> QED
      BY <1>3, <3>1 DEF Kept, Live
  <2>2. PICK k \in Live : (\A j \in Live : j <= k) /\ Log' = rows[k].hash
    <3>1. PICK k \in Kept' : (\A j \in Kept' : j <= k) /\ Log' = rows'[k].hash
      BY <2>1 DEF LastHash
    <3> QED
      BY <1>1, <2>1, <3>1
  <2>3. /\ \A i \in Live : rows[i].by \in Sessions \cup {None}
        /\ \A i \in Live : rows[i].hash \in Hashes /\ rows[i].prev \in Hashes
    BY <2>1 DEF IInv, TypeOK, Row
  <2>4. Log' \in Hashes /\ k \in Nat /\ o \in Nat /\ o <= k
    BY <2>1, <2>2, <2>3, AuditAssumption DEF Ids
  <2>5. Continues(Log', Log) /\ Log \in Hashes
    <3>1. CASE Kept = {}
      <4>1. Log = Genesis
        BY <3>1 DEF LastHash
      <4>2. \E a \in Hashes : \E x : Log' = Append(a, x)
        BY <2>2, <2>3 DEF IInv, Linked, HashOf
      <4>3. Log' # <<>>
        BY <2>4, <4>2 DEF Hashes
      <4>4. Len(Log') \in Nat /\ Len(Log') # 0
        BY <2>4, <4>3, LenProperties, EmptySeq DEF Hashes
      <4> QED
        BY <4>1, <4>4, PartTypes DEF Continues, Genesis
    <3>2. CASE Kept # {}
      <4>1. PICK i \in Kept : Log = rows[i].hash
        BY <3>2 DEF LastHash
      <4>2. i \in Live /\ i < o /\ i \in Nat
        BY <1>3, <2>1, AuditAssumption DEF IInv, OpenLast, Kept, Ids
      <4>3. i < k
        BY <2>4, <4>2
      <4> QED
        BY <2>2, <2>3, <4>1, <4>2, <4>3 DEF IInv, Grows
    <3> QED
      BY <3>1, <3>2
  <2>6. Len(Log') > Len(Log) /\ SubSeq(Log', 1, Len(Log)) = Log
    BY <2>4, <2>5, ContinuesExtends
  <2> QED
    BY <2>4, <2>6 DEF AppendOnlyLog!Extend, Hashes
<1> QED
  BY <1>2, <1>3

\* The chain implements the append-only log, in any time zone: what is
\* committed is never changed, reordered or taken back, and what a commit adds
\* comes behind all of it.
THEOREM CommittedLogOnlyGrows == Spec => Implements
<1>1. Init => Log = <<>>
  <2> SUFFICES ASSUME Init PROVE Log = <<>>
    OBVIOUS
  <2>1. \A i \in Ids : rows[i] = NoRow
    BY DEF Init
  <2>2. Kept = {}
    BY <2>1, PartTypes DEF Kept
  <2> QED
    BY <2>2 DEF Log, Genesis
<1>2. ASSUME IInv, IInv', LastHash(Kept, Log), LastHash(Kept, Log)', [Next]_vars
      PROVE  Log' = Log \/ AppendOnlyLog!Extend
  <2>1. CASE UNCHANGED rows
    <3>1. Kept' = Kept
      BY <2>1 DEF Kept
    <3> QED
      BY <1>2, <2>1, <3>1, LogUnchanged
  <2>2. ASSUME NEW s \in Sessions, Insert(s) PROVE Log' = Log
    <3>1. /\ lastId + 1 \in Ids
          /\ rows' = [rows EXCEPT ![lastId + 1] = NewRow(s)]
          /\ rows[lastId + 1].st = "none"
          /\ NewRow(s).st = "open"
      BY <1>2, <2>2, AuditAssumption DEF IInv, TypeOK, Insert, Ids, NewRow
    <3>2. \A i \in Ids : i # lastId + 1 => rows'[i] = rows[i]
      BY <1>2, <3>1 DEF IInv, TypeOK
    <3>3. rows'[lastId + 1].st = "open"
      BY <1>2, <3>1 DEF IInv, TypeOK
    <3>4. \A i \in Ids : rows'[i].st = "kept" <=> rows[i].st = "kept"
      BY <3>1, <3>2, <3>3
    <3>5. Kept' = Kept
      BY <3>4 DEF Kept
    <3>6. \A i \in Kept : rows'[i].hash = rows[i].hash
      BY <3>1, <3>2 DEF Kept
    <3> QED
      BY <1>2, <3>5, <3>6, LogUnchanged
  <2>3. ASSUME NEW s \in Sessions, Commit(s) PROVE Log' = Log \/ AppendOnlyLog!Extend
    BY <1>2, <2>3, CommitExtends
  <2>4. ASSUME NEW s \in Sessions, Rollback(s) PROVE Log' = Log
    <3>1. \A i \in Ids :
            /\ rows'[i].hash = rows[i].hash
            /\ rows[i].st # "open" => rows'[i].st = rows[i].st
            /\ rows[i].st = "open" => rows'[i].st = IF lock = s THEN "gone" ELSE "open"
      BY <1>2, <2>4, SettledRows DEF Rollback, Ends
    <3>2. \A i \in Ids : rows'[i].st = "kept" <=> rows[i].st = "kept"
      BY <3>1
    <3>3. Kept' = Kept
      BY <3>2 DEF Kept
    <3>4. \A i \in Kept : rows'[i].hash = rows[i].hash
      BY <3>1 DEF Kept
    <3> QED
      BY <1>2, <3>3, <3>4, LogUnchanged
  <2> QED
    BY <1>2, <2>1, <2>2, <2>3, <2>4
    DEF Next, Step, Fails, DeadlockVictim, Watchdog, Begin, Flush, Record, TakeLock, Read, vars
<1>3. IInv => LastHash(Kept, Log)
  BY LogIsLast DEF IInv
<1>4. IInv /\ IInv' /\ LastHash(Kept, Log) /\ LastHash(Kept, Log)' /\ [Next]_vars
      => [AppendOnlyLog!Extend]_Log
  BY <1>2
<1>5. Log = <<>> => AppendOnlyLog!Init
  BY DEF AppendOnlyLog!Init
<1> QED
  BY <1>1, <1>3, <1>4, <1>5, Invariance, PTL DEF Spec, Implements, AppendOnlyLog!Spec
-----------------------------------------------------------------------------
(* What the last hash says about the rows. *)

Place(i) == Cardinality({j \in Kept : j <= i})

\* The last hash names every committed row, in the order of the ids, and no other.
Covers(zone) ==
    /\ Len(Log) = Cardinality(Kept)
    /\ \A i \in Kept : Log[Place(i)] = Text(rows[i].by, zone)

\* Each committed row continues the committed row before it.
ChainedIn(zone) ==
    \A i \in Kept :
        /\ LastHash(Before(i), rows[i].prev)
        /\ rows[i].hash = HashOf(rows[i].prev, Text(rows[i].by, zone))

\* The hash of row i names the rows up to i.
CoversTo(i, zone) ==
    /\ Len(rows[i].hash) = Place(i)
    /\ \A k \in Kept : k <= i => rows[i].hash[Place(k)] = Text(rows[k].by, zone)

\* A non-empty set of ids has a smallest element.
LEMMA SmallestId ==
    ASSUME NEW T \in SUBSET Ids, T # {}
    PROVE  \E i \in T : \A j \in T : i <= j
<1> DEFINE R == OpToRel(<, Nat)
<1>1. IsWellFoundedOn(R, Nat)
  BY NatLessThanWellFounded
<1>2. \A x, y \in Nat : y < x => <<y, x>> \in R
  BY DEF OpToRel
<1>3. T \subseteq Nat
  BY AuditAssumption DEF Ids
<1> HIDE DEF R
<1>4. PICK i \in T : \A j \in T : ~ (<<j, i>> \in R)
  BY <1>1, <1>3, WFMin
<1>5. \A j \in T : ~ (j < i)
  BY <1>2, <1>3, <1>4
<1> QED
  BY <1>3, <1>5

\* Places count the committed rows one by one.
LEMMA Places ==
    /\ IsFiniteSet(Kept)
    /\ \A i \in Kept : Place(i) \in Nat
    /\ \A i \in Kept : Before(i) = {} => Place(i) = 1
    /\ \A i, j \in Kept : (j \in Before(i) /\ \A k \in Before(i) : k <= j) => Place(i) = Place(j) + 1
    /\ \A i, k \in Kept : k <= i => Place(k) \in 1..Place(i)
    /\ \A i \in Kept : (\A k \in Kept : k <= i) => Place(i) = Cardinality(Kept)
<1> DEFINE UpTo(i) == {j \in Kept : j <= i}
<1>1. Kept \in SUBSET Ids /\ \A j \in Kept : j \in Nat
  BY AuditAssumption DEF Kept, Ids
<1>2. IsFiniteSet(Ids)
  BY FS_Interval, AuditAssumption DEF Ids
<1>3. IsFiniteSet(Kept)
  BY <1>1, <1>2, FS_Subset
<1>4. \A i \in Kept : IsFiniteSet(UpTo(i)) /\ Cardinality(UpTo(i)) \in Nat
  <2> TAKE i \in Kept
  <2>1. UpTo(i) \in SUBSET Kept
    OBVIOUS
  <2> QED BY <1>3, <2>1, FS_Subset, FS_CardinalityType
<1>5. \A i \in Kept : Place(i) = Cardinality(UpTo(i))
  BY DEF Place
<1>6. ASSUME NEW i \in Kept, Before(i) = {} PROVE Place(i) = 1
  <2>1. UpTo(i) = {i}
    BY <1>1, <1>6 DEF Before
  <2>2. Cardinality({i}) = 1
    BY FS_Singleton
  <2> HIDE DEF UpTo
  <2> QED BY <1>5, <2>1, <2>2
<1>7. ASSUME NEW i \in Kept, NEW j \in Kept, j \in Before(i), \A k \in Before(i) : k <= j
      PROVE  Place(i) = Place(j) + 1
  <2>1. UpTo(i) = UpTo(j) \cup {i}
    BY <1>1, <1>7 DEF Before
  <2>2. i \notin UpTo(j)
    BY <1>1, <1>7 DEF Before
  <2> HIDE DEF UpTo
  <2>3. Cardinality(UpTo(j) \cup {i}) = Cardinality(UpTo(j)) + 1
    BY <1>4, <2>2, FS_AddElement
  <2> QED BY <1>5, <2>1, <2>3
<1>8. ASSUME NEW i \in Kept, NEW k \in Kept, k <= i PROVE Place(k) \in 1..Place(i)
  <2>1. UpTo(k) \in SUBSET UpTo(i) /\ k \in UpTo(k)
    BY <1>1, <1>8
  <2> HIDE DEF UpTo
  <2>2. Cardinality(UpTo(k)) <= Cardinality(UpTo(i))
    BY <1>4, <2>1, FS_Subset
  <2>3. Cardinality(UpTo(k)) # 0
    BY <1>4, <2>1, FS_EmptySet
  <2> QED BY <1>4, <1>5, <2>2, <2>3
<1>9. ASSUME NEW i \in Kept, \A k \in Kept : k <= i PROVE Place(i) = Cardinality(Kept)
  <2>1. UpTo(i) = Kept
    BY <1>9
  <2> HIDE DEF UpTo
  <2> QED BY <1>5, <2>1
<1> HIDE DEF UpTo
<1> QED
  BY <1>3, <1>4, <1>5, <1>6, <1>7, <1>8, <1>9

\* Appending to a hash keeps what it names and adds one text at the end.
LEMMA Appended ==
    ASSUME NEW a \in Hashes, NEW t \in Texts
    PROVE  /\ Len(HashOf(a, t)) = Len(a) + 1
           /\ HashOf(a, t)[Len(a) + 1] = t
           /\ \A k \in 1..Len(a) : HashOf(a, t)[k] = a[k]
BY AppendProperties DEF Hashes, HashOf

\* Where the chain holds, each hash names all rows up to its own: there is no first
\* row for which it does not.
LEMMA HashCovers ==
    ASSUME TypeOK, NEW zone \in Zones, ChainedIn(zone)
    PROVE  \A i \in Kept : CoversTo(i, zone)
<1> DEFINE Bad == {i \in Kept : ~ CoversTo(i, zone)}
<1> SUFFICES ASSUME Bad # {} PROVE FALSE
  OBVIOUS
<1>1. Kept \in SUBSET Ids /\ Ids \subseteq Nat
  BY AuditAssumption DEF Kept, Ids
<1>2. PICK i \in Bad : \A j \in Bad : i <= j
  <2>1. Bad \in SUBSET Ids
    BY <1>1
  <2> HIDE DEF Bad
  <2> QED BY <2>1, SmallestId
<1>3. i \in Kept /\ ~ CoversTo(i, zone)
  BY <1>2
<1>4. \A j \in Before(i) : j \in Kept /\ j < i /\ CoversTo(j, zone)
  BY <1>1, <1>2, <1>3 DEF Before
<1> HIDE DEF Bad
<1> DEFINE t == Text(rows[i].by, zone)
<1>5. rows[i].prev \in Hashes /\ rows[i].hash \in Hashes
  BY <1>1, <1>3 DEF TypeOK, Row
<1>6. t \in Texts
  <2>1. /\ rows[i].hash \in Seq(Texts)
        /\ rows[i].hash = Append(rows[i].prev, t)
        /\ rows[i].prev \in Seq(Texts)
    BY <1>3, <1>5 DEF ChainedIn, HashOf, Hashes
  <2> DEFINE n == Len(rows[i].prev)
             h == rows[i].hash
  <2>2. n \in Nat
    BY <2>1, LenProperties
  <2>3. Len(h) = n + 1 /\ h[n + 1] = t
    BY <2>1, <2>2
  <2>4. \A k \in 1..Len(h) : h[k] \in Texts
    BY <2>1, ElementOfSeq
  <2> HIDE DEF n, h, t
  <2> QED BY <2>2, <2>3, <2>4
<1>7. rows[i].hash = HashOf(rows[i].prev, t) /\ LastHash(Before(i), rows[i].prev)
  BY <1>3 DEF ChainedIn
<1> HIDE DEF t
<1>8. /\ Len(rows[i].hash) = Len(rows[i].prev) + 1
      /\ rows[i].hash[Len(rows[i].prev) + 1] = t
      /\ \A k \in 1..Len(rows[i].prev) : rows[i].hash[k] = rows[i].prev[k]
  BY <1>5, <1>6, <1>7, Appended
<1>9. CASE Before(i) = {}
  <2>1. Len(rows[i].prev) = 0
    BY <1>7, <1>9 DEF LastHash, Genesis
  <2>2. Place(i) = 1
    BY <1>3, <1>9, Places
  <2>3. \A k \in Kept : k <= i => k = i
    BY <1>1, <1>3, <1>9 DEF Before
  <2> QED BY <1>3, <1>8, <2>1, <2>2, <2>3 DEF CoversTo, t
<1>10. CASE Before(i) # {}
  <2>1. PICK j \in Before(i) : (\A k \in Before(i) : k <= j) /\ rows[i].prev = rows[j].hash
    BY <1>7, <1>10 DEF LastHash
  <2>2. j \in Kept /\ CoversTo(j, zone)
    BY <1>4, <2>1
  <2>3. Place(i) = Place(j) + 1
    BY <1>3, <2>1, <2>2, Places
  <2>4. Len(rows[i].prev) = Place(j)
    BY <2>1, <2>2 DEF CoversTo
  <2>5. ASSUME NEW k \in Kept, k <= i PROVE rows[i].hash[Place(k)] = Text(rows[k].by, zone)
    <3>1. CASE k = i
      BY <1>8, <2>3, <2>4, <3>1 DEF t
    <3>2. CASE k # i
      <4>1. k \in Before(i)
        BY <1>1, <1>3, <2>5, <3>2 DEF Before
      <4>2. k <= j
        BY <2>1, <4>1
      <4>3. Place(k) \in 1..Len(rows[i].prev)
        BY <2>2, <2>4, <4>2, Places
      <4>4. rows[j].hash[Place(k)] = Text(rows[k].by, zone)
        BY <2>2, <4>2 DEF CoversTo
      <4> QED BY <1>8, <2>1, <4>3, <4>4
    <3> QED BY <3>1, <3>2
  <2> QED BY <1>3, <1>8, <2>3, <2>4, <2>5 DEF CoversTo
<1> QED
  BY <1>9, <1>10

LEMMA LogCovers == ASSUME TypeOK, NEW zone \in Zones, ChainedIn(zone) PROVE Covers(zone)
<1>1. LastHash(Kept, Log)
  BY LogIsLast
<1>2. CASE Kept = {}
  BY <1>1, <1>2, FS_EmptySet DEF Covers, LastHash, Genesis
<1>3. CASE Kept # {}
  <2>1. PICK i \in Kept : (\A k \in Kept : k <= i) /\ Log = rows[i].hash
    BY <1>1, <1>3 DEF LastHash
  <2>2. CoversTo(i, zone) /\ Place(i) = Cardinality(Kept)
    BY <2>1, HashCovers, Places
  <2> QED BY <2>1, <2>2 DEF Covers, CoversTo
<1> QED
  BY <1>2, <1>3

\* The last hash vouches for the whole table: in every reachable state it names each
\* committed entry once, in the order of the ids, and nothing that was rolled back
\* (audit_service.record under its lock).
THEOREM LastHashCoversAll == Spec => []Covers("UTC")
<1>1. IInv => Covers("UTC")
  <2> SUFFICES ASSUME IInv PROVE Covers("UTC")
    OBVIOUS
  <2>1. ChainedIn("UTC")
    <3> SUFFICES ASSUME NEW i \in Kept
                 PROVE  /\ LastHash(Before(i), rows[i].prev)
                        /\ rows[i].hash = HashOf(rows[i].prev, Text(rows[i].by, "UTC"))
      BY DEF ChainedIn
    <3>1. i \in Live
      BY DEF Kept, Live
    <3>2. Before(i) = {j \in Live : j < i}
      BY CommittedFirst
    <3> QED BY <3>1, <3>2 DEF IInv, Linked
  <2> QED BY <2>1, LogCovers DEF IInv, Zones
<1> QED
  BY <1>1, Invariance, PTL

\* And verification is enough: whatever was done to the rows (no step of the program is
\* assumed), if verify_chain accepts them and the last hash is the one that was noted,
\* then they are, one by one, the entries that were noted with it.
THEOREM VerifiedMeansUnchanged ==
    ASSUME TypeOK, ChainIntact PROVE Covers(Zone)
<1>1. ChainedIn(Zone)
  BY DEF ChainIntact, ChainedIn, Verified, Matches, LastHash
<1> QED
  BY <1>1, LogCovers DEF Zones
=============================================================================
