------------------------------ MODULE DynamoDB ------------------------------
(***************************************************************************)
(* One table of the DynamoDB engine (internal/ddb/store): its rows, one    *)
(* secondary index, its change log and the tokens of its transactions.     *)
(* Every operation is one bbolt transaction, so one step, except the TTL   *)
(* sweep, which lists the expired rows in one transaction and deletes them *)
(* in others.                                                              *)
(*                                                                         *)
(* A row is what the engine looks at: the value of the index key, if the   *)
(* item has one, and the time in the TTL attribute, if it has one.  A row  *)
(* whose time has come is still stored and no longer visible, and every    *)
(* write is decided on what is visible (loadItem).  A change record is its *)
(* key and its event name; the images are the rows before and after.       *)
(***************************************************************************)
EXTENDS Integers, FiniteSets, SequencesExt

CONSTANTS
  ItemKeys,      \* primary keys
  IndexKeys,     \* values of the index key
  WriteOps,      \* the write operations clients send: see WriteOp
  TxTokens,      \* ClientRequestTokens
  StreamMax,     \* streamMaxRecords
  TokenTTL,      \* txTokenTTL
  TxMax,         \* bound: operations of one transaction
  MaxApplied,    \* bound: transactions applied under one token
  MaxChanges,    \* bound: change records ever written
  MaxClock       \* bound: the clock

NoRow == [ix |-> {}, dies |-> {}, there |-> FALSE]

\* ix and dies are sets of at most one value: the attribute may be missing.
Items == [ix : {{}} \cup {{x} : x \in IndexKeys}, dies : {{}} \cup {{t} : t \in 0..MaxClock},
          there : {TRUE}]

WriteOp == [key : ItemKeys, kind : {"put", "update", "delete", "check"}, row : Items,
            cond : {"none", "exists", "absent"}]

ASSUME DdbConstants ==
  /\ WriteOps \subseteq WriteOp
  /\ StreamMax \in Nat \ {0} /\ TokenTTL \in Nat \ {0} /\ TxMax \in Nat \ {0}
  /\ MaxApplied \in Nat
  /\ MaxChanges \in Nat /\ MaxClock \in Nat

VARIABLES
  table,     \* the table's definition: does it exist, and with what
  rows,      \* the data bucket: key -> row
  entries,   \* the index bucket: <<index key, primary key>>
  log,       \* the stream bucket: sequence number -> record
  lastSeq,   \* the stream bucket's sequence
  doomed,    \* the TTL sweep: the keys it listed and has not come to
  txRecords, \* tokens -> when the record of an applied transaction expires
  applied,   \* history: token -> how often it was applied, and when last
  ddbClock   \* s.clock

ddbVars == <<table, rows, entries, log, lastSeq, doomed, txRecords, applied, ddbClock>>

NoTable == [there |-> FALSE, streamed |-> FALSE, indexed |-> FALSE, ttl |-> FALSE]

DdbTypeOK ==
  /\ table \in [there : BOOLEAN, streamed : BOOLEAN, indexed : BOOLEAN, ttl : BOOLEAN]
  /\ rows \in [ItemKeys -> Items \cup {NoRow}]
  /\ entries \subseteq IndexKeys \X ItemKeys
  /\ lastSeq \in 0..MaxChanges
  /\ DOMAIN log \subseteq 1..lastSeq
  /\ \A n \in DOMAIN log : log[n] \in [key : ItemKeys, event : {"INSERT", "MODIFY", "REMOVE"}]
  /\ doomed \subseteq ItemKeys
  /\ ~table.there => entries = {} /\ \A k \in ItemKeys : rows[k] = NoRow
  /\ txRecords \in [TxTokens -> 0..(ddbClock + TokenTTL)]
  /\ applied \in [TxTokens -> [times : 0..MaxApplied, last : 0..ddbClock]]
  /\ ddbClock \in 0..MaxClock

DdbInit ==
  /\ table = NoTable
  /\ rows = [k \in ItemKeys |-> NoRow]
  /\ entries = {}
  /\ log = <<>>
  /\ lastSeq = 0
  /\ doomed = {}
  /\ txRecords = [t \in TxTokens |-> 0]
  /\ applied = [t \in TxTokens |-> [times |-> 0, last |-> 0]]
  /\ ddbClock = 0

-----------------------------------------------------------------------------
(* Reading                                                                 *)

ItemExpired(row) == table.ttl /\ \E t \in row.dies : t <= ddbClock

\* loadItem: an expired row reads as no row.
loadItem(k) == IF rows[k].there /\ ~ItemExpired(rows[k]) THEN rows[k] ELSE NoRow

CondHolds(cond, now) ==
  CASE cond = "none" -> TRUE
    [] cond = "exists" -> now.there
    [] cond = "absent" -> ~now.there

\* What an operation makes of the visible row: an update sets the index key
\* on it, or on a new item that has its key attributes only.
NextRow(op, now) ==
  CASE op.kind = "put" -> op.row
    [] op.kind = "update" ->
         IF now.there THEN [now EXCEPT !.ix = op.row.ix]
         ELSE [ix |-> op.row.ix, dies |-> {}, there |-> TRUE]
    [] op.kind = "delete" -> NoRow

-----------------------------------------------------------------------------
(* Writing.  A bucket state bs is what the writes of one bbolt transaction *)
(* have made so far of the buckets; bs.keyN is the number of records       *)
(* b.Stats() counts, that of the committed pages.                          *)

IndexEntries(k, row) == {<<x, k>> : x \in row.ix}

\* The data bucket, then the index: the old entry goes when the item leaves
\* it, the new one is put.
IndexedWrite(bs, k, old, new) ==
  [bs EXCEPT !.rows[k] = new,
             !.entries = IF table.indexed
                         THEN (@ \ IndexEntries(k, old)) \cup IndexEntries(k, new)
                         ELSE @]

EventName(old, new) ==
  CASE ~old.there /\ new.there -> "INSERT"
    [] ~new.there -> "REMOVE"
    [] OTHER -> "MODIFY"

\* pruneStream: the oldest records go, as many as were too many before the
\* transaction began.  (bbolt leaves it open whether a cursor skips a key when
\* its bucket changes under it; here it takes them in order.)
pruneStream(records, keyN) ==
  LET over == IF keyN > StreamMax THEN keyN - StreamMax ELSE 0
      kept == {n \in DOMAIN records : Cardinality({m \in DOMAIN records : m < n}) >= over}
  IN [n \in kept |-> records[n]]

captureStream(bs, k, old, new) ==
  IF ~table.streamed \/ (~old.there /\ ~new.there) THEN bs
  ELSE LET seq == bs.seq + 1
       IN [bs EXCEPT !.seq = seq,
            !.log = pruneStream([n \in DOMAIN @ \cup {seq} |->
                                   IF n = seq THEN [key |-> k, event |-> EventName(old, new)]
                                   ELSE @[n]],
                                bs.keyN)]

\* Weakened form of writeItem: the first write of an item is not captured.
WritesItemOnly(bs, k, old, new) ==
  IF old.there THEN captureStream(IndexedWrite(bs, k, old, new), k, old, new)
  ELSE IndexedWrite(bs, k, old, new)

writeItem(bs, k, old, new) == captureStream(IndexedWrite(bs, k, old, new), k, old, new)

Buckets == [rows |-> rows, entries |-> entries, log |-> log, seq |-> lastSeq,
            keyN |-> Cardinality(DOMAIN log)]

Committed(bs) ==
  /\ bs.seq <= MaxChanges
  /\ rows' = bs.rows
  /\ entries' = bs.entries
  /\ log' = bs.log
  /\ lastSeq' = bs.seq

-----------------------------------------------------------------------------
(* The table                                                               *)

CreateTable(streamed, indexed) ==
  /\ ~table.there
  /\ table' = [there |-> TRUE, streamed |-> streamed, indexed |-> indexed, ttl |-> FALSE]
  /\ UNCHANGED <<rows, entries, log, lastSeq, doomed, txRecords, applied, ddbClock>>

\* The table, its rows and its indexes go; the stream bucket stays.
DeleteTable ==
  /\ table.there
  /\ table' = NoTable
  /\ rows' = [k \in ItemKeys |-> NoRow]
  /\ entries' = {}
  /\ UNCHANGED <<log, lastSeq, doomed, txRecords, applied, ddbClock>>

\* Weakened form of backfillIndex: expired rows are not indexed.
BackfillsVisible == UNION {IndexEntries(k, loadItem(k)) : k \in ItemKeys}

backfillIndex == UNION {IndexEntries(k, rows[k]) : k \in ItemKeys}

UpdateTableIndex ==
  /\ table.there
  /\ table' = [table EXCEPT !.indexed = ~@]
  /\ entries' = IF table.indexed THEN {} ELSE backfillIndex
  /\ UNCHANGED <<rows, log, lastSeq, doomed, txRecords, applied, ddbClock>>

UpdateTimeToLive ==
  /\ table.there
  /\ table' = [table EXCEPT !.ttl = ~@]
  /\ UNCHANGED <<rows, entries, log, lastSeq, doomed, txRecords, applied, ddbClock>>

-----------------------------------------------------------------------------
(* Items                                                                   *)

\* PutItem and UpdateItem: the condition is tested on the visible row, which
\* is also the one writeItem is told it replaces.
PutItem(op) ==
  /\ op.kind \in {"put", "update"}
  /\ table.there
  /\ LET now == loadItem(op.key)
     IN /\ CondHolds(op.cond, now)
        /\ Committed(writeItem(Buckets, op.key, now, NextRow(op, now)))
  /\ UNCHANGED <<table, doomed, txRecords, applied, ddbClock>>

\* DeleteItem of k: nothing is written when no row is visible.
Deleted(k) ==
  IF table.there /\ loadItem(k).there
  THEN Committed(writeItem(Buckets, k, loadItem(k), NoRow))
  ELSE UNCHANGED <<rows, entries, log, lastSeq>>

DeleteItem(op) ==
  /\ op.kind = "delete"
  /\ table.there
  /\ CondHolds(op.cond, loadItem(op.key))
  /\ Deleted(op.key)
  /\ UNCHANGED <<table, doomed, txRecords, applied, ddbClock>>

\* Transactions: one operation for each key at most (txPlan).
Transactions ==
  {ops \in SeqOf(WriteOps, TxMax) :
     ops # <<>> /\ \A i, j \in DOMAIN ops : ops[i].key = ops[j].key => i = j}

\* txReplay: the token's transaction was applied, and not long ago.  Whatever
\* the request is now, it writes nothing.
TokenLive(token) == txRecords[token] > ddbClock

\* A planned operation: a delete of a row that is not visible is written too.
PlannedWrite(bs, op) ==
  LET now == loadItem(op.key)
  IN  IF op.kind = "check" THEN bs ELSE writeItem(bs, op.key, now, NextRow(op, now))

\* Phase 2: the planned writes in order.
Applied(ops) ==
  LET upTo[n \in 0..Len(ops)] ==
        IF n = 0 THEN Buckets ELSE PlannedWrite(upTo[n - 1], ops[n])
  IN  upTo[Len(ops)]

\* Phase 1: every condition holds of the state before the transaction.
Planned(ops) == \A i \in DOMAIN ops : CondHolds(ops[i].cond, loadItem(ops[i].key))

\* TransactWriteItems with a token that is not live; one that is live is
\* answered from its record, and a cancelled transaction records nothing.
TransactWrite(ops, token) ==
  /\ table.there
  /\ ~TokenLive(token)
  /\ applied[token].times < MaxApplied
  /\ Planned(ops)
  /\ Committed(Applied(ops))
  /\ txRecords' = [txRecords EXCEPT ![token] = ddbClock + TokenTTL]
  /\ applied' = [applied EXCEPT ![token] = [times |-> @.times + 1, last |-> ddbClock]]
  /\ UNCHANGED <<table, doomed, ddbClock>>

-----------------------------------------------------------------------------
(* The janitor's sweep                                                     *)

SweepList ==
  /\ doomed = {}
  /\ table.there /\ table.ttl
  /\ doomed' = {k \in ItemKeys : rows[k].there /\ ItemExpired(rows[k])}
  /\ UNCHANGED <<table, rows, entries, log, lastSeq, txRecords, applied, ddbClock>>

SweepDelete(k) ==
  /\ k \in doomed
  /\ doomed' = doomed \ {k}
  /\ Deleted(k)
  /\ UNCHANGED <<table, txRecords, applied, ddbClock>>

DdbTick ==
  /\ ddbClock < MaxClock
  /\ ddbClock' = ddbClock + 1
  /\ UNCHANGED <<table, rows, entries, log, lastSeq, doomed, txRecords, applied>>

DdbNext ==
  \/ \E streamed, indexed \in BOOLEAN : CreateTable(streamed, indexed)
  \/ DeleteTable
  \/ UpdateTableIndex
  \/ UpdateTimeToLive
  \/ \E op \in WriteOps : PutItem(op) \/ DeleteItem(op)
  \/ \E ops \in Transactions, token \in TxTokens : TransactWrite(ops, token)
  \/ SweepList
  \/ \E k \in ItemKeys : SweepDelete(k)
  \/ DdbTick

DdbSpec == DdbInit /\ [][DdbNext]_ddbVars

-----------------------------------------------------------------------------
(* Properties                                                              *)

\* An index query misses nothing: every stored row has its entry, through
\* expiry, backfill and writes that were decided on an invisible row.
IndexCovers ==
  table.indexed => \A k \in ItemKeys : IndexEntries(k, rows[k]) \subseteq entries

\* What becomes visible or invisible under a write is in the change log, in
\* the newest records, with the event that is true of what was visible: for
\* one write always, for a transaction of more when the log was not over its
\* limit before it (LogKeepsNewest shows what happens when it was).
ChangesRecorded ==
  [][\A k \in ItemKeys :
       (/\ table.streamed /\ table' = table /\ ddbClock' = ddbClock
        /\ lastSeq' = lastSeq + 1 \/ Cardinality(DOMAIN log) <= StreamMax
        /\ loadItem(k) # loadItem(k)') =>
       \E n \in DOMAIN log' :
         /\ n > lastSeq
         /\ log'[n] = [key |-> k, event |-> EventName(loadItem(k), rows'[k])]]_ddbVars

\* A sequence number names one record for ever: an iterator that stands at
\* it, also one from before the table was deleted, never skips a record.
SequenceNeverReused ==
  [][/\ lastSeq' >= lastSeq
     /\ \A n \in DOMAIN log' : n <= lastSeq => n \in DOMAIN log /\ log'[n] = log[n]]_ddbVars

\* A transaction that is retried with its token is applied once in the time
\* the token is remembered, whatever happened to the table since.
AppliedOnce ==
  [][\A t \in TxTokens : (applied[t].times > 0 /\ applied'[t] # applied[t]) =>
       applied'[t].last >= applied[t].last + TokenTTL]_ddbVars

\* The table's history is exact: changes are logged once, as what they were,
\* under numbers that are never used again, and a retried transaction changes
\* nothing.
TableHistory == ChangesRecorded /\ SequenceNeverReused /\ AppliedOnce

\* What the repository says and the code does not keep.

\* "pruneStream drops the oldest records beyond streamMaxRecords" (stream.go):
\* the newest streamMaxRecords records are there.
LogKeepsNewest == \A n \in 1..lastSeq : n + StreamMax > lastSeq => n \in DOMAIN log

=============================================================================
