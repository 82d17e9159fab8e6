------------------------------ MODULE Kinesis ------------------------------
(***************************************************************************)
(* One Kinesis stream (kinesis/store.go, kinesis/reshard.go,               *)
(* kinesis/records.go, kinesis/iterator.go): its definition with the       *)
(* shards held inline, and one record bucket per shard.  Every writing     *)
(* call and the retention sweep are one bbolt transaction each, so one     *)
(* action each.  A refused call changes nothing and has no action.         *)
(*                                                                         *)
(* The hash space 0..2^128-1 is 0..MaxHash; a partition key is its hash.   *)
(***************************************************************************)
EXTENDS Integers, FiniteSets

CONSTANTS
  MaxHash,        \* the top of the hash space
  Batches,        \* the key lists of PutRecord and PutRecords calls
  ShardCounts,    \* the counts CreateStream and UpdateShardCount ask for
  Retentions,     \* the retention periods callers set; the smallest is the default
  IteratorTTL,    \* iteratorTTL
  StreamOps,      \* the operations made in this instance
  MaxTime,        \* bound: the clock stops here
  MaxSeq,         \* bound: no record is numbered beyond this
  MaxShards,      \* bound: no more shards are opened than this
  MaxEra          \* bound: the stream is created no more often than this

VARIABLES
  live,       \* the stream exists
  shards,     \* its shards by number: a function on the ones not yet dropped
  nextShard,  \* NextShardNum
  nextSeq,    \* NextSeq, shared by all shards
  keep,       \* RetentionHours
  recs,       \* the record buckets
  now,        \* the wall clock
  era         \* history: how often the stream has been created

streamVars == <<live, shards, nextShard, nextSeq, keep, recs, now, era>>

-----------------------------------------------------------------------------
(* Data.                                                                   *)

Hash == 0..MaxHash

NoShard == -1

\* end is 0 while the shard is open, and stays 0 when the stream was empty.
Shard ==
  [lo : Hash, hi : Int, parent : Int, adjacent : Int, start : Nat, end : Nat,
   closed : BOOLEAN]

Record == [seq : Nat, key : Hash, at : Nat]

DefaultRetention == CHOOSE r \in Retentions : \A x \in Retentions : r <= x

ASSUME KinesisAssumption ==
  /\ MaxHash \in Nat
  /\ ShardCounts \subseteq 1..(MaxHash + 1)
  /\ Retentions \subseteq Nat \ {0} /\ Retentions # {}
  /\ IteratorTTL \in Nat
  /\ MaxTime \in Nat /\ MaxSeq \in Nat /\ MaxShards \in Nat /\ MaxEra \in Nat
  /\ \A b \in Batches :
       /\ IsFiniteSet(DOMAIN b)
       /\ DOMAIN b = 1..Cardinality(DOMAIN b)
       /\ \A i \in DOMAIN b : b[i] \in Hash

StreamTypeOK ==
  /\ live \in BOOLEAN
  /\ nextShard \in Nat /\ nextSeq \in Nat /\ keep \in Nat
  /\ DOMAIN shards \subseteq 0..(nextShard - 1)
  /\ shards \in [DOMAIN shards -> Shard]
  /\ DOMAIN recs = DOMAIN shards
  /\ \A s \in DOMAIN recs : recs[s] \subseteq Record
  /\ now \in Nat /\ era \in Nat

NoShards == [s \in {} |-> {}]

StreamInit ==
  /\ live = FALSE /\ shards = NoShards /\ recs = NoShards
  /\ nextShard = 0 /\ nextSeq = 1 /\ keep = DefaultRetention
  /\ now = 0 /\ era = 0

IsOpen(s) == ~shards[s].closed

OpenShards == {s \in DOMAIN shards : IsOpen(s)}

Covers(s, h) == shards[s].lo <= h /\ h <= shards[s].hi

-----------------------------------------------------------------------------
(* Creating, deleting and configuring the stream.                          *)

\* The i-th (from 0) of n shards that tile the hash space; the last one
\* absorbs the remainder.
TileLo(i, n) == i * ((MaxHash + 1) \div n)

TileHi(i, n) == IF i = n - 1 THEN MaxHash ELSE TileLo(i + 1, n) - 1

NewShard(lo, hi, parent, adjacent) ==
  [lo |-> lo, hi |-> hi, parent |-> parent, adjacent |-> adjacent,
   start |-> nextSeq, end |-> 0, closed |-> FALSE]

CreateStream(n) ==
  /\ ~live
  /\ era < MaxEra /\ n <= MaxShards
  /\ live' = TRUE
  /\ shards' = [i \in 0..(n - 1) |->
                  [lo |-> TileLo(i, n), hi |-> TileHi(i, n),
                   parent |-> NoShard, adjacent |-> NoShard,
                   start |-> 1, end |-> 0, closed |-> FALSE]]
  /\ recs' = [i \in 0..(n - 1) |-> {}]
  /\ nextShard' = n
  /\ nextSeq' = 1
  /\ keep' = DefaultRetention
  /\ era' = era + 1
  /\ UNCHANGED now

DeleteStream ==
  /\ live
  /\ live' = FALSE
  /\ shards' = NoShards /\ recs' = NoShards
  /\ UNCHANGED <<nextShard, nextSeq, keep, now, era>>

\* IncreaseStreamRetentionPeriod and DecreaseStreamRetentionPeriod: each
\* refuses the other's direction, so between them any period may be set.
SetRetention(r) ==
  /\ live /\ r # keep
  /\ keep' = r
  /\ UNCHANGED <<live, shards, nextShard, nextSeq, recs, now, era>>

-----------------------------------------------------------------------------
(* Writing.                                                                *)

\* The first open shard whose range holds the hash.
ShardFor(h) ==
  CHOOSE s \in OpenShards :
    Covers(s, h) /\ \A x \in OpenShards : Covers(x, h) => s <= x

\* The records a batch adds to shard s, numbered in the order of the batch.
Appended(s, b) ==
  {[seq |-> nextSeq + i - 1, key |-> b[i], at |-> now] :
     i \in {j \in DOMAIN b : ShardFor(b[j]) = s}}

\* One transaction: a key no open shard covers fails the whole batch.
Put(b) ==
  /\ live
  /\ \A i \in DOMAIN b : \E s \in OpenShards : Covers(s, b[i])
  /\ nextSeq + Cardinality(DOMAIN b) - 1 <= MaxSeq
  /\ recs' = [s \in DOMAIN recs |-> recs[s] \cup Appended(s, b)]
  /\ nextSeq' = nextSeq + Cardinality(DOMAIN b)
  /\ UNCHANGED <<live, shards, nextShard, keep, now, era>>

-----------------------------------------------------------------------------
(* Resharding: parents are closed at the current end of the stream and     *)
(* children opened from there on.                                          *)

\* closeShard: the end of the stream, not of the shard.
EndSeq == IF nextSeq > 1 THEN nextSeq - 1 ELSE 0

\* Weakened form of Closed: the shard keeps its end open.
ClosedUnended(s) == [shards[s] EXCEPT !.closed = TRUE]

Closed(s) == [shards[s] EXCEPT !.closed = TRUE, !.end = EndSeq]

\* The shards in parents close, the children get the next numbers.
Reshard(parents, children) ==
  LET new == {nextShard + i - 1 : i \in DOMAIN children}
  IN  /\ nextShard + Cardinality(new) <= MaxShards
      /\ shards' = [s \in DOMAIN shards \cup new |->
                      IF s \in new THEN children[s - nextShard + 1]
                      ELSE IF s \in parents THEN Closed(s) ELSE shards[s]]
      /\ recs' = [s \in DOMAIN recs \cup new |->
                    IF s \in new THEN {} ELSE recs[s]]
      /\ nextShard' = nextShard + Cardinality(new)
      /\ UNCHANGED <<live, nextSeq, keep, now, era>>

SplitShard(s, at) ==
  /\ live /\ s \in OpenShards
  /\ shards[s].lo < at /\ at <= shards[s].hi
  /\ Reshard({s}, <<NewShard(shards[s].lo, at - 1, s, NoShard),
                    NewShard(at, shards[s].hi, s, NoShard)>>)

\* Named in either order; the lower range is the parent, the upper one the
\* adjacent parent.
MergeShards(a, b) ==
  /\ live /\ {a, b} \subseteq OpenShards /\ a # b
  /\ shards[a].hi + 1 = shards[b].lo
  /\ Reshard({a, b}, <<NewShard(shards[a].lo, shards[b].hi, a, b)>>)

\* The open shard that owned a hash before the reshard.
ParentAt(h) == ShardFor(h)

UpdateShardCount(n) ==
  /\ live /\ Cardinality(OpenShards) # n
  /\ Reshard(OpenShards,
             [i \in 1..n |-> NewShard(TileLo(i - 1, n), TileHi(i - 1, n),
                                      ParentAt(TileLo(i - 1, n)), NoShard)])

-----------------------------------------------------------------------------
(* Retention.                                                              *)

Expired(r) == r.at < now - keep

\* bbolt's Stats counts the pages as they were when the transaction began,
\* so a closed shard is dropped by the sweep after the one that emptied it.
Finished(s) == shards[s].closed /\ recs[s] = {}

Sweep ==
  LET left == {s \in DOMAIN shards : ~Finished(s)}
  IN  /\ live
      /\ shards' = [s \in left |-> shards[s]]
      /\ recs' = [s \in left |-> {r \in recs[s] : ~Expired(r)}]
      /\ UNCHANGED <<live, nextShard, nextSeq, keep, now, era>>

Tick ==
  /\ now < MaxTime
  /\ now' = now + 1
  /\ UNCHANGED <<live, shards, nextShard, nextSeq, keep, recs, era>>

-----------------------------------------------------------------------------
(* Reading.  An iterator names a sequence number already consumed.         *)

Highest(S) == CHOOSE x \in S : \A y \in S : y <= x

Lowest(S) == CHOOSE x \in S : \A y \in S : x <= y

Seqs(S) == {r.seq : r \in S}

\* Weakened form of TrimHorizon: the oldest record counts as consumed.
TrimHorizonPast(s) ==
  LET first == IF recs[s] = {} THEN 0 ELSE Lowest(Seqs(recs[s]))
  IN  Highest({first, shards[s].start - 1})

\* GetShardIterator with TRIM_HORIZON: just below the oldest record, and not
\* below the shard's own start.
TrimHorizon(s) ==
  LET first == IF recs[s] = {} THEN 0 ELSE Lowest(Seqs(recs[s])) - 1
  IN  Highest({first, shards[s].start - 1})

\* Fetch: the first limit records after a number, none beyond a closed
\* shard's end.
Readable(s, after) ==
  {r \in recs[s] : /\ r.seq > after
                   /\ shards[s].closed /\ shards[s].end # 0 => r.seq <= shards[s].end}

Fetched(s, after, limit) ==
  {r \in Readable(s, after) :
     Cardinality({x \in Readable(s, after) : x.seq <= r.seq}) <= limit}

\* Weakened form of Drained: a closed shard is done, however far it was read.
DrainedWhenClosed(s, next) == shards[s].closed

\* GetRecords answers a null iterator when the shard is closed and read to
\* its ending sequence.
Drained(s, next) ==
  shards[s].closed /\ (shards[s].end = 0 \/ next >= shards[s].end)

-----------------------------------------------------------------------------
Does(op) == op \in StreamOps

Manage ==
  \/ \E n \in ShardCounts : Does("Create") /\ CreateStream(n)
  \/ Does("Delete") /\ DeleteStream
  \/ \E r \in Retentions : Does("Retain") /\ SetRetention(r)

Resize ==
  \/ \E s \in OpenShards, h \in Hash : Does("Split") /\ SplitShard(s, h)
  \/ \E a, b \in OpenShards : Does("Merge") /\ MergeShards(a, b)
  \/ \E n \in ShardCounts : Does("UpdateCount") /\ UpdateShardCount(n)

StreamNext ==
  \/ Manage
  \/ Resize
  \/ \E b \in Batches : Put(b)
  \/ Does("Sweep") /\ Sweep
  \/ Tick

-----------------------------------------------------------------------------
(* Properties of the stream.                                               *)

\* The open shards of a stream tile the hash space: after any splits, merges
\* and changes of the count, every key has exactly one shard to go to.
OpenTile ==
  live => \A h \in Hash : \E s \in OpenShards :
            Covers(s, h) /\ \A x \in OpenShards : Covers(x, h) => x = s

\* Of two records of one key the earlier was put into a shard that ended
\* before the later one's began, however the stream was resharded between
\* them and whatever retention has dropped: the ranges shards advertise order
\* the records of a key.
RangesOrdered ==
  \A s, t \in DOMAIN shards : \A r \in recs[s], q \in recs[t] :
    r.key = q.key /\ r.seq < q.seq /\ s # t
      => /\ shards[s].closed
         /\ r.seq <= shards[s].end /\ shards[s].end < shards[t].start
         /\ shards[t].start <= q.seq

\* Every key has one shard to go to, and the shards it went to are in order.
KeysRouted == OpenTile /\ RangesOrdered

=============================================================================
