--------------------------- MODULE KinesisProofs ----------------------------
(***************************************************************************)
(* Proofs about a Kinesis stream and the Lambda poller that reads it, for  *)
(* every hash space, every list of calls, every batch size and every value *)
(* of the bounds.                                                          *)
(***************************************************************************)
EXTENDS KinesisPoller, TLAPS, FiniteSetTheorems, WellFoundedInduction

-----------------------------------------------------------------------------
(* Numbers and the tiling of the hash space.                               *)

\* A set of natural numbers that is not empty has a least one.
LEMMA LeastNat ==
  ASSUME NEW S \in SUBSET Nat, S # {}
  PROVE  \E x \in S : \A y \in S : x <= y
<1> DEFINE R == {ss \in Nat \X Nat : ss[1] < ss[2]}
<1>1. OpToRel(<, Nat) = R
  BY Zenon DEF OpToRel
<1>2. IsWellFoundedOn(R, Nat)
  BY <1>1, NatLessThanWellFounded, Zenon
<1>3. \A x, y \in Nat : y < x => <<y, x>> \in R
  OBVIOUS
<1>4. PICK x \in S : \A y \in S : ~(<<y, x>> \in R)
  BY <1>2, WFMin
<1> HIDE DEF R
<1>5. ASSUME NEW y \in S PROVE x <= y
  <2>1. ~(<<y, x>> \in R)
    BY <1>4
  <2>2. x \in Nat /\ y \in Nat /\ ~(y < x)
    BY <1>3, <2>1
  <2> QED
    BY <2>2
<1> QED
  BY <1>5

\* A tile has a width, and the tiles fit.
LEMMA Division ==
  ASSUME NEW a \in Nat, NEW n \in 1..a
  PROVE  a \div n \in Nat \ {0} /\ n * (a \div n) <= a
OBVIOUS

\* Multiples of a width grow by the width.
LEMMA Products ==
  ASSUME NEW w \in Nat \ {0}
  PROVE  /\ \A i \in Nat : i * w \in Nat /\ (i + 1) * w = i * w + w
         /\ \A i, j \in Nat : i <= j => i * w <= j * w
         /\ \A i \in Nat : i <= i * w
         /\ 0 * w = 0
<1>1. \A i \in Nat : i * w \in Nat /\ (i + 1) * w = i * w + w
  OBVIOUS
<1>2. ASSUME NEW i \in Nat, NEW j \in Nat, i <= j
      PROVE  i * w <= j * w
  <2>1. PICK k \in Nat : j = i + k
    BY <1>2
  <2>2. j * w = i * w + k * w /\ k * w >= 0
    BY <2>1
  <2> QED
    BY <1>1, <2>2
<1>3. \A i \in Nat : i <= i * w
  OBVIOUS
<1>4. 0 * w = 0
  OBVIOUS
<1> QED
  BY <1>1, <1>2, <1>3, <1>4

\* CreateStream and UpdateShardCount (kinesis/store.go, kinesis/reshard.go) cut
\* the hash space into n ranges: none is empty, every hash is in one of them and
\* in no other, also when n does not divide the space.
LEMMA TileFacts ==
  ASSUME NEW n \in ShardCounts
  PROVE  /\ n \in Nat \ {0}
         /\ \A i \in 0..(n - 1) :
              /\ TileLo(i, n) \in Hash /\ TileHi(i, n) \in Hash
              /\ TileLo(i, n) <= TileHi(i, n)
         /\ \A h \in Hash : \E i \in 0..(n - 1) : TileLo(i, n) <= h /\ h <= TileHi(i, n)
         /\ \A i, j \in 0..(n - 1), h \in Hash :
              /\ TileLo(i, n) <= h /\ h <= TileHi(i, n)
              /\ TileLo(j, n) <= h /\ h <= TileHi(j, n)
              => i = j
<1> DEFINE w == (MaxHash + 1) \div n
           lo(i) == i * w
<1>1. MaxHash \in Nat /\ n \in 1..(MaxHash + 1)
  BY KinesisAssumption
<1>2. w \in Nat \ {0} /\ n * w <= MaxHash + 1
  BY <1>1, Division
<1>3. /\ \A i : TileLo(i, n) = lo(i)
      /\ \A i : TileHi(i, n) = IF i = n - 1 THEN MaxHash ELSE lo(i + 1) - 1
  BY DEF TileLo, TileHi
<1> HIDE DEF w
<1>4. /\ \A i \in Nat : lo(i) \in Nat /\ lo(i + 1) = lo(i) + w
      /\ \A i, j \in Nat : i <= j => lo(i) <= lo(j)
      /\ \A i \in Nat : i <= lo(i)
      /\ lo(0) = 0 /\ lo(n) <= MaxHash + 1
  BY <1>2, Products
<1> HIDE DEF lo
<1>5. n \in Nat \ {0} /\ n - 1 \in Nat /\ (n - 1) + 1 = n
  BY <1>1
<1>6. lo(n - 1) <= MaxHash
  <2>1. lo(n - 1) \in Nat /\ lo((n - 1) + 1) = lo(n - 1) + w
    BY <1>4, <1>5
  <2>2. lo(n) = lo(n - 1) + w
    BY <1>5, <2>1
  <2> QED
    BY <1>1, <1>2, <1>4, <2>1, <2>2
<1>7. ASSUME NEW i \in 0..(n - 1)
      PROVE  /\ TileLo(i, n) \in Hash /\ TileHi(i, n) \in Hash
             /\ TileLo(i, n) <= TileHi(i, n)
  <2>1. i \in Nat /\ i + 1 \in Nat /\ lo(i) \in Nat /\ lo(i) <= lo(n - 1)
    BY <1>4, <1>5
  <2>2. lo(i) <= MaxHash
    BY <1>1, <1>4, <1>5, <1>6, <2>1
  <2>3. CASE i = n - 1
    BY <1>1, <1>3, <2>1, <2>2, <2>3 DEF Hash
  <2>4. CASE i # n - 1
    <3>1. i + 1 <= n - 1 /\ lo(i + 1) = lo(i) + w
      BY <1>4, <1>5, <2>1, <2>4
    <3>2. lo(i + 1) <= lo(n - 1) /\ lo(i + 1) \in Nat /\ lo(n - 1) \in Nat
      BY <1>4, <1>5, <2>1, <3>1
    <3>3. TileHi(i, n) = lo(i + 1) - 1 /\ TileLo(i, n) = lo(i)
      BY <1>3, <2>4
    <3> QED
      BY <1>1, <1>2, <1>6, <2>1, <2>2, <3>1, <3>2, <3>3 DEF Hash
  <2> QED
    BY <2>3, <2>4
<1>8. ASSUME NEW h \in Hash
      PROVE  \E i \in 0..(n - 1) : TileLo(i, n) <= h /\ h <= TileHi(i, n)
  <2> DEFINE S == {i \in Nat : h < lo(i + 1)}
  <2>1. h \in Nat /\ h <= MaxHash
    BY <1>1 DEF Hash
  <2>2. h \in S
    <3>1. h + 1 \in Nat /\ h + 1 <= lo(h + 1) /\ lo(h + 1) \in Nat
      BY <1>4, <2>1
    <3> QED
      BY <2>1, <3>1
  <2>3. PICK k \in S : \A y \in S : k <= y
    BY <2>2, LeastNat
  <2>4. k \in Nat /\ h < lo(k + 1)
    BY <2>3
  <2>5. lo(k) <= h
    <3>1. CASE k = 0
      BY <1>4, <2>1, <3>1
    <3>2. CASE k # 0
      <4>1. k - 1 \in Nat /\ (k - 1) + 1 = k /\ ~(k <= k - 1)
        BY <2>4, <3>2
      <4>2. ~(h < lo((k - 1) + 1))
        BY <2>3, <4>1
      <4> QED
        BY <1>4, <2>1, <2>4, <4>1, <4>2
    <3> QED
      BY <3>1, <3>2
  <2> HIDE DEF S
  <2>6. CASE k < n - 1
    <3>1. k \in 0..(n - 1) /\ k # n - 1 /\ lo(k + 1) \in Nat
      BY <1>4, <1>5, <2>4, <2>6
    <3>2. TileLo(k, n) = lo(k) /\ TileHi(k, n) = lo(k + 1) - 1
      BY <1>3, <3>1
    <3> QED
      BY <2>1, <2>4, <2>5, <3>1, <3>2
  <2>7. CASE ~(k < n - 1)
    <3>1. n - 1 <= k /\ n - 1 \in 0..(n - 1)
      BY <1>5, <2>4, <2>7
    <3>2. lo(n - 1) <= lo(k) /\ lo(n - 1) \in Nat /\ lo(k) \in Nat
      BY <1>4, <1>5, <2>4, <3>1
    <3>3. TileLo(n - 1, n) = lo(n - 1) /\ TileHi(n - 1, n) = MaxHash
      BY <1>3
    <3> QED
      BY <1>1, <2>1, <2>5, <3>1, <3>2, <3>3
  <2> QED
    BY <2>6, <2>7
<1>9. ASSUME NEW i \in 0..(n - 1), NEW j \in 0..(n - 1), NEW h \in Hash, i < j,
             h <= TileHi(i, n), TileLo(j, n) <= h
      PROVE  FALSE
  <2>1. i \in Nat /\ j \in Nat /\ i + 1 \in Nat /\ i + 1 <= j /\ i # n - 1 /\ h \in Nat
    BY <1>1, <1>5, <1>9 DEF Hash
  <2>2. lo(i + 1) <= lo(j) /\ lo(i + 1) \in Nat /\ lo(j) \in Nat
    BY <1>4, <2>1
  <2>3. TileHi(i, n) = lo(i + 1) - 1 /\ TileLo(j, n) = lo(j)
    BY <1>3, <2>1
  <2> QED
    BY <1>9, <2>1, <2>2, <2>3
<1>10. ASSUME NEW i \in 0..(n - 1), NEW j \in 0..(n - 1), NEW h \in Hash,
              TileLo(i, n) <= h, h <= TileHi(i, n), TileLo(j, n) <= h, h <= TileHi(j, n)
       PROVE  i = j
  BY <1>5, <1>9, <1>10
<1> QED
  BY <1>5, <1>7, <1>8, <1>10

-----------------------------------------------------------------------------
(* The stream.                                                             *)

\* A shard has a range, began at a number of the stream and, once closed, ended
\* before the next number.
ShardsPlaced ==
  \A s \in DOMAIN shards :
    /\ shards[s].lo <= shards[s].hi
    /\ shards[s].start \in 1..nextSeq
    /\ shards[s].closed => shards[s].end < nextSeq

\* A record is in a shard that covers its key, within the numbers the shard
\* advertises.
RecordsPlaced ==
  \A s \in DOMAIN shards : \A r \in recs[s] :
    /\ Covers(s, r.key)
    /\ shards[s].start <= r.seq /\ r.seq < nextSeq
    /\ shards[s].closed => r.seq <= shards[s].end

\* s ended before t began.
Before(s, t) == shards[s].closed /\ shards[s].end < shards[t].start

\* Two shards that share a hash follow each other.
Succession ==
  \A s, t \in DOMAIN shards : \A h \in Hash :
    s # t /\ Covers(s, h) /\ Covers(t, h) => Before(s, t) \/ Before(t, s)

\* The inductive invariant of the stream.
StreamInv ==
  /\ StreamTypeOK
  /\ OpenTile
  /\ nextSeq \in 1..(MaxSeq + 1)
  /\ ShardsPlaced
  /\ RecordsPlaced
  /\ Succession

\* The invariant is strong enough for KeysRouted: records of one key in two shards
\* are in the order of the shards.
LEMMA StreamRouted == StreamInv => KeysRouted
<1> SUFFICES ASSUME StreamInv,
                    NEW s \in DOMAIN shards, NEW t \in DOMAIN shards,
                    NEW r \in recs[s], NEW q \in recs[t],
                    r.key = q.key, r.seq < q.seq, s # t
             PROVE  /\ shards[s].closed
                    /\ r.seq <= shards[s].end /\ shards[s].end < shards[t].start
                    /\ shards[t].start <= q.seq
  BY DEF StreamInv, KeysRouted, RangesOrdered
<1>1. /\ r.key \in Hash /\ r.seq \in Nat /\ q.seq \in Nat
      /\ shards[s] \in Shard /\ shards[t] \in Shard
  BY DEF StreamInv, StreamTypeOK, Record
<1>2. /\ Covers(s, r.key) /\ Covers(t, r.key)
      /\ shards[s].start <= r.seq /\ shards[t].start <= q.seq
      /\ shards[s].closed => r.seq <= shards[s].end
      /\ shards[t].closed => q.seq <= shards[t].end
  BY DEF StreamInv, RecordsPlaced
<1>3. Before(s, t) \/ Before(t, s)
  BY <1>1, <1>2 DEF StreamInv, Succession
<1>4. ~Before(t, s)
  BY <1>1, <1>2 DEF Before, Shard
<1> QED
  BY <1>2, <1>3, <1>4 DEF Before

\* The default retention is a period.
LEMMA DefaultRetentionType == DefaultRetention \in Nat \ {0}
<1>1. Retentions \in SUBSET Nat /\ Retentions # {}
  BY KinesisAssumption
<1>2. \E r \in Retentions : \A x \in Retentions : r <= x
  BY <1>1, LeastNat
<1> QED
  BY <1>2, KinesisAssumption DEF DefaultRetention

\* A stream that was never created.
LEMMA StreamInitInv == StreamInit => StreamInv
<1> SUFFICES ASSUME StreamInit PROVE StreamInv
  OBVIOUS
<1>1. DOMAIN shards = {} /\ shards \in [{} -> Shard] /\ DOMAIN recs = {}
  BY DEF StreamInit, NoShards
<1>2. StreamTypeOK
  BY <1>1, DefaultRetentionType DEF StreamInit, StreamTypeOK
<1> QED
  BY <1>1, <1>2, KinesisAssumption
  DEF StreamInit, StreamInv, OpenTile, ShardsPlaced, RecordsPlaced, Succession

\* The shard a key goes to.
LEMMA Routed ==
  ASSUME StreamInv, live, NEW h \in Hash
  PROVE  ShardFor(h) \in OpenShards /\ Covers(ShardFor(h), h)
<1>1. PICK s \in OpenShards : Covers(s, h) /\ \A x \in OpenShards : Covers(x, h) => x = s
  BY DEF StreamInv, OpenTile
<1>2. s \in Int
  BY <1>1 DEF StreamInv, StreamTypeOK, OpenShards
<1>3. \E x \in OpenShards : Covers(x, h) /\ \A y \in OpenShards : Covers(y, h) => x <= y
  BY <1>1, <1>2
<1> QED
  BY <1>3 DEF ShardFor

\* closeShard changes the end of a shard and nothing else.
LEMMA ClosedFacts ==
  ASSUME NEW s \in DOMAIN shards, shards[s] \in Shard, EndSeq \in Nat
  PROVE  /\ Closed(s) \in Shard /\ Closed(s).closed /\ Closed(s).end = EndSeq
         /\ Closed(s).lo = shards[s].lo /\ Closed(s).hi = shards[s].hi
         /\ Closed(s).start = shards[s].start
<1> DEFINE c == shards[s]
           k == [c EXCEPT !.closed = TRUE, !.end = EndSeq]
<1>1. k.lo = c.lo /\ k.hi = c.hi /\ k.start = c.start /\ k.end = EndSeq
  BY DEF Shard
<1>2. k.closed = TRUE
  BY DEF Shard
<1>3. k \in Shard
  BY DEF Shard
<1>4. Closed(s) = k
  BY DEF Closed
<1> HIDE DEF k
<1> QED
  BY <1>1, <1>2, <1>3, <1>4

\* Opening n shards in the place of the parents.  The children hold the
\* hashes the parents held, each hash in one child.
LEMMA ReshardInv ==
  ASSUME StreamInv, live, NEW parents \in SUBSET OpenShards, NEW n \in Nat \ {0},
         NEW children, DOMAIN children = 1..n,
         \A i \in 1..n :
           /\ children[i] \in Shard /\ children[i].lo <= children[i].hi
           /\ children[i].start = nextSeq /\ ~children[i].closed,
         \A h \in Hash : \A p \in parents : Covers(p, h) =>
           \E i \in 1..n : children[i].lo <= h /\ h <= children[i].hi,
         \A h \in Hash : \A i \in 1..n : children[i].lo <= h /\ h <= children[i].hi =>
           \E p \in parents : Covers(p, h),
         \A h \in Hash : \A i, j \in 1..n :
           children[i].lo <= h /\ h <= children[i].hi
             /\ children[j].lo <= h /\ h <= children[j].hi => i = j,
         Reshard(parents, children)
  PROVE  StreamInv'
<1> DEFINE new == {nextShard + i - 1 : i \in DOMAIN children}
<1>1. /\ StreamTypeOK /\ nextShard \in Nat /\ nextSeq \in Nat /\ nextSeq >= 1
      /\ DOMAIN shards \subseteq 0..(nextShard - 1) /\ DOMAIN recs = DOMAIN shards
      /\ \A s \in DOMAIN shards : shards[s] \in Shard
      /\ \A s \in DOMAIN shards : recs[s] \subseteq Record
  BY DEF StreamInv, StreamTypeOK
<1>2. new = nextShard..(nextShard + n - 1)
  <2>1. \A x \in nextShard..(nextShard + n - 1) :
          x - nextShard + 1 \in 1..n /\ x = nextShard + (x - nextShard + 1) - 1
    BY <1>1
  <2>2. \A x \in nextShard..(nextShard + n - 1) : x \in new
    BY <2>1
  <2>3. \A i \in 1..n : nextShard + i - 1 \in nextShard..(nextShard + n - 1)
    BY <1>1
  <2> QED
    BY <2>2, <2>3
<1>3. Cardinality(new) = n
  <2>1. nextShard \in Int /\ nextShard + n - 1 \in Int
        /\ nextShard <= nextShard + n - 1
        /\ (nextShard + n - 1) - nextShard + 1 = n
    BY <1>1
  <2> HIDE DEF new
  <2> QED
    BY <1>2, <2>1, FS_Interval
<1>4. /\ shards' = [s \in DOMAIN shards \cup new |->
                      IF s \in new THEN children[s - nextShard + 1]
                      ELSE IF s \in parents THEN Closed(s) ELSE shards[s]]
      /\ recs' = [s \in DOMAIN recs \cup new |-> IF s \in new THEN {} ELSE recs[s]]
      /\ nextShard' = nextShard + n
      /\ UNCHANGED <<live, nextSeq, keep, now, era>>
  BY <1>3 DEF Reshard
<1>5. \A s \in new : s - nextShard + 1 \in 1..n /\ s \notin DOMAIN shards
  <2> HIDE DEF new
  <2> QED
    BY <1>1, <1>2
<1> HIDE DEF new
<1>6. EndSeq \in Nat /\ EndSeq < nextSeq
  BY <1>1 DEF EndSeq
<1>7. \A s \in DOMAIN shards :
        /\ Closed(s) \in Shard /\ Closed(s).closed /\ Closed(s).end = EndSeq
        /\ Closed(s).lo = shards[s].lo /\ Closed(s).hi = shards[s].hi
        /\ Closed(s).start = shards[s].start
  BY <1>1, <1>6, ClosedFacts
<1>8. parents \subseteq DOMAIN shards /\ \A p \in parents : ~shards[p].closed
  BY DEF OpenShards, IsOpen
\* the shards after the step, case by case
<1>9. /\ DOMAIN shards' = DOMAIN shards \cup new
      /\ DOMAIN recs' = DOMAIN shards'
      /\ \A s \in new : shards'[s] = children[s - nextShard + 1] /\ recs'[s] = {}
      /\ \A s \in DOMAIN shards :
           recs'[s] = recs[s] /\ shards'[s] = IF s \in parents THEN Closed(s) ELSE shards[s]
  BY <1>1, <1>4, <1>5
<1>10. \A s \in DOMAIN shards :
        /\ shards'[s] \in Shard
        /\ shards'[s].lo = shards[s].lo /\ shards'[s].hi = shards[s].hi
        /\ shards'[s].start = shards[s].start
        /\ s \notin parents => shards'[s] = shards[s]
        /\ s \in parents => shards'[s].closed /\ shards'[s].end = EndSeq
  <2> SUFFICES ASSUME NEW s \in DOMAIN shards
               PROVE  /\ shards'[s] \in Shard
                      /\ shards'[s].lo = shards[s].lo /\ shards'[s].hi = shards[s].hi
                      /\ shards'[s].start = shards[s].start
                      /\ s \notin parents => shards'[s] = shards[s]
                      /\ s \in parents => shards'[s].closed /\ shards'[s].end = EndSeq
    OBVIOUS
  <2>1. CASE s \in parents
    BY <1>7, <1>9, <2>1
  <2>2. CASE s \notin parents
    BY <1>1, <1>9, <2>2
  <2> QED
    BY <2>1, <2>2
<1>11. \A s \in new :
        /\ shards'[s] \in Shard /\ shards'[s].lo <= shards'[s].hi
        /\ shards'[s].start = nextSeq /\ ~shards'[s].closed
  BY <1>5, <1>9
<1>12. StreamTypeOK'
  <2>1. DOMAIN shards' \subseteq 0..(nextShard' - 1)
    <3>1. \A s \in DOMAIN shards : s \in 0..(nextShard - 1)
      BY <1>1
    <3>2. \A s \in new : s \in nextShard..(nextShard + n - 1)
      BY <1>2
    <3>3. \A s \in DOMAIN shards \cup new : s \in 0..(nextShard + n - 1)
      BY <1>1, <3>1, <3>2
    <3> QED
      BY <1>1, <1>4, <1>9, <3>3
  <2>2. shards' \in [DOMAIN shards' -> Shard]
    BY <1>4, <1>9, <1>10, <1>11
  <2>3. \A s \in DOMAIN recs' : recs'[s] \subseteq Record
    BY <1>1, <1>9
  <2>4. nextShard' \in Nat
    BY <1>1, <1>4
  <2> QED
    BY <1>1, <1>4, <1>9, <2>1, <2>2, <2>3, <2>4 DEF StreamTypeOK
<1>13. \A s \in DOMAIN shards : \A h : Covers(s, h)' <=> Covers(s, h)
  BY <1>10 DEF Covers
<1>14. \A s \in new : \A h : Covers(s, h)' <=>
         children[s - nextShard + 1].lo <= h /\ h <= children[s - nextShard + 1].hi
  BY <1>9 DEF Covers
<1>15. \A s \in DOMAIN shards' :
         s \in OpenShards' <=> s \in new \/ (s \in OpenShards /\ s \notin parents)
  <2>1. \A s \in new : s \in OpenShards'
    BY <1>9, <1>11 DEF OpenShards, IsOpen
  <2>2. \A s \in DOMAIN shards : s \in OpenShards' <=> s \in OpenShards /\ s \notin parents
    BY <1>9, <1>10 DEF OpenShards, IsOpen
  <2> QED
    BY <1>5, <1>9, <2>1, <2>2
<1>16. OpenTile'
  <2> SUFFICES ASSUME NEW h \in Hash
               PROVE  \E s \in OpenShards' : Covers(s, h)' /\
                        \A x \in OpenShards' : Covers(x, h)' => x = s
    BY DEF OpenTile, Hash
  <2>1. PICK u \in OpenShards : Covers(u, h) /\ \A x \in OpenShards : Covers(x, h) => x = u
    BY DEF StreamInv, OpenTile
  <2>2. OpenShards \subseteq DOMAIN shards /\ OpenShards' \subseteq DOMAIN shards'
    BY DEF OpenShards
  <2>3. CASE u \in parents
    <3>1. PICK i \in 1..n : children[i].lo <= h /\ h <= children[i].hi
      BY <2>1, <2>3
    <3>2. PICK v \in new : v - nextShard + 1 = i
      <4> DEFINE w == nextShard + i - 1
      <4>1. w - nextShard + 1 = i
        BY <1>1
      <4>2. w \in nextShard..(nextShard + n - 1)
        BY <1>1
      <4> HIDE DEF w
      <4> QED
        BY <1>2, <4>1, <4>2
    <3>3. Covers(v, h)'
      BY <1>14, <3>1, <3>2
    <3>4. ASSUME NEW x \in OpenShards', Covers(x, h)'
          PROVE  x = v
      <4>1. CASE x \in new
        <5>1. x - nextShard + 1 = i
          BY <1>5, <1>14, <3>1, <3>4, <4>1
        <5>2. x \in Int /\ v \in Int
          BY <1>1, <1>2, <3>2, <4>1
        <5> QED
          BY <1>1, <3>2, <5>1, <5>2
      <4>2. CASE x \notin new
        <5>1. x \in OpenShards /\ x \notin parents
          BY <1>15, <2>2, <4>2
        <5>2. Covers(x, h)
          BY <1>13, <2>2, <3>4, <5>1
        <5> QED
          BY <2>1, <2>3, <5>1, <5>2
      <4> QED
        BY <4>1, <4>2
    <3>5. v \in OpenShards'
      BY <1>9, <1>15, <3>2
    <3> QED
      BY <3>3, <3>4, <3>5
  <2>4. CASE u \notin parents
    <3>1. u \in OpenShards' /\ Covers(u, h)'
      BY <1>9, <1>13, <1>15, <2>1, <2>2, <2>4
    <3>2. ASSUME NEW x \in OpenShards', Covers(x, h)'
          PROVE  x = u
      <4>1. CASE x \in new
        <5>1. PICK p \in parents : Covers(p, h)
          BY <1>5, <1>14, <3>2, <4>1
        <5> QED
          BY <2>1, <2>4, <5>1
      <4>2. CASE x \notin new
        <5>1. x \in OpenShards
          BY <1>15, <2>2, <4>2
        <5> QED
          BY <1>13, <2>1, <2>2, <3>2, <5>1
      <4> QED
        BY <4>1, <4>2
    <3> QED
      BY <3>1, <3>2
  <2> QED
    BY <2>3, <2>4
<1>17. ShardsPlaced'
  <2>1. \A s \in new : shards'[s].lo <= shards'[s].hi /\ shards'[s].start \in 1..nextSeq'
                       /\ ~shards'[s].closed
    BY <1>1, <1>4, <1>11
  <2>2. \A s \in DOMAIN shards :
          /\ shards'[s].lo <= shards'[s].hi /\ shards'[s].start \in 1..nextSeq'
          /\ shards'[s].closed => shards'[s].end < nextSeq'
    BY <1>4, <1>6, <1>10 DEF StreamInv, ShardsPlaced
  <2> QED
    BY <1>9, <2>1, <2>2 DEF ShardsPlaced
<1>18. RecordsPlaced'
  <2>1. ASSUME NEW s \in DOMAIN shards, NEW r \in recs[s]
        PROVE  /\ Covers(s, r.key)'
               /\ shards'[s].start <= r.seq /\ r.seq < nextSeq
               /\ shards'[s].closed => r.seq <= shards'[s].end
    <3>1. /\ Covers(s, r.key) /\ shards[s].start <= r.seq /\ r.seq < nextSeq
          /\ shards[s].closed => r.seq <= shards[s].end
      BY DEF StreamInv, RecordsPlaced
    <3>2. r.seq \in Nat /\ shards[s].start \in Nat /\ shards[s].start >= 1
      BY <1>1 DEF Record, Shard, StreamInv, ShardsPlaced
    <3>3. r.seq <= EndSeq
      BY <1>1, <3>1, <3>2 DEF EndSeq
    <3> QED
      BY <1>10, <1>13, <3>1, <3>3
  <2>2. ASSUME NEW s \in DOMAIN shards', NEW r \in recs'[s]
        PROVE  s \in DOMAIN shards /\ r \in recs[s]
    BY <1>9
  <2> QED
    BY <1>4, <2>1, <2>2 DEF RecordsPlaced
<1>19. Succession'
  <2> SUFFICES ASSUME NEW s \in DOMAIN shards', NEW t \in DOMAIN shards', NEW h \in Hash,
                      s # t, Covers(s, h)', Covers(t, h)'
               PROVE  Before(s, t)' \/ Before(t, s)'
    BY DEF Succession, Hash
  \* a shard from before the step against one it opened
  <2>1. ASSUME NEW x \in DOMAIN shards, NEW y \in new, Covers(x, h)', Covers(y, h)'
        PROVE  Before(x, y)'
    <3>1. CASE x \in parents
      BY <1>4, <1>6, <1>10, <1>11, <3>1 DEF Before
    <3>2. CASE x \notin parents /\ shards[x].closed
      <4>1. shards[x].end < nextSeq
        BY <3>2 DEF StreamInv, ShardsPlaced
      <4> QED
        BY <1>10, <1>11, <3>2, <4>1 DEF Before
    <3>3. CASE x \notin parents /\ ~shards[x].closed
      <4>1. x \in OpenShards /\ Covers(x, h)
        BY <1>13, <2>1, <3>3 DEF OpenShards, IsOpen
      <4>2. PICK p \in parents : Covers(p, h)
        BY <1>5, <1>14, <2>1
      <4>3. x = p
        <5>1. PICK u \in OpenShards : \A z \in OpenShards : Covers(z, h) => z = u
          BY DEF StreamInv, OpenTile
        <5> QED
          BY <4>1, <4>2, <5>1
      <4> QED
        BY <3>3, <4>3
    <3> QED
      BY <3>1, <3>2, <3>3
  <2>2. CASE s \in new /\ t \in new
    <3>1. s - nextShard + 1 = t - nextShard + 1
      BY <1>5, <1>14, <2>2
    <3>2. s \in Int /\ t \in Int
      BY <1>1, <1>2, <2>2
    <3> QED
      BY <1>1, <3>1, <3>2
  <2>3. CASE s \in DOMAIN shards /\ t \in new
    BY <2>1, <2>3
  <2>4. CASE s \in new /\ t \in DOMAIN shards
    BY <2>1, <2>4
  <2>5. CASE s \in DOMAIN shards /\ t \in DOMAIN shards
    <3>1. Before(s, t) \/ Before(t, s)
      BY <1>13, <2>5 DEF StreamInv, Succession
    <3>2. \A x, y \in DOMAIN shards : Before(x, y) => Before(x, y)'
      BY <1>8, <1>10 DEF Before
    <3> QED
      BY <2>5, <3>1, <3>2
  <2> QED
    BY <1>9, <2>2, <2>3, <2>4, <2>5
<1> QED
  BY <1>4, <1>12, <1>16, <1>17, <1>18, <1>19 DEF StreamInv

\* A new shard is open and begins at the next number.
LEMMA NewShardFacts ==
  ASSUME StreamInv, NEW lo \in Hash, NEW hi \in Int, NEW p \in Int, NEW a \in Int
  PROVE  /\ NewShard(lo, hi, p, a) \in Shard
         /\ NewShard(lo, hi, p, a).lo = lo /\ NewShard(lo, hi, p, a).hi = hi
         /\ NewShard(lo, hi, p, a).start = nextSeq
         /\ ~NewShard(lo, hi, p, a).closed
<1>1. nextSeq \in Nat
  BY DEF StreamInv, StreamTypeOK
<1> QED
  BY <1>1 DEF NewShard, Shard

\* SplitShard: two children in the place of one parent.
LEMMA SplitInv ==
  ASSUME StreamInv, NEW s \in OpenShards, NEW at \in Hash, SplitShard(s, at)
  PROVE  StreamInv'
<1> DEFINE lo == shards[s].lo
           hi == shards[s].hi
           l == NewShard(lo, at - 1, s, NoShard)
           u == NewShard(at, hi, s, NoShard)
           children == <<l, u>>
<1>1. /\ live /\ lo < at /\ at <= hi /\ Reshard({s}, children)
  BY DEF SplitShard
<1>2. s \in DOMAIN shards /\ s \in Int /\ lo \in Hash /\ hi \in Int /\ MaxHash \in Nat
  <2>1. s \in DOMAIN shards /\ MaxHash \in Nat
    BY KinesisAssumption DEF OpenShards
  <2>2. s \in Int /\ shards[s] \in Shard
    BY <2>1 DEF StreamInv, StreamTypeOK
  <2> QED
    BY <2>1, <2>2 DEF Shard
<1>3. lo \in Int /\ at \in Int /\ at - 1 \in Int /\ NoShard \in Int
  BY <1>2 DEF Hash, NoShard
<1>4. /\ l \in Shard /\ l.lo = lo /\ l.hi = at - 1 /\ l.start = nextSeq /\ ~l.closed
      /\ u \in Shard /\ u.lo = at /\ u.hi = hi /\ u.start = nextSeq /\ ~u.closed
  <2>0. \A x \in Hash, y \in Int, p \in Int, z \in Int :
          /\ NewShard(x, y, p, z) \in Shard
          /\ NewShard(x, y, p, z).lo = x /\ NewShard(x, y, p, z).hi = y
          /\ NewShard(x, y, p, z).start = nextSeq
          /\ ~NewShard(x, y, p, z).closed
    BY NewShardFacts
  <2> DEFINE t == at - 1
             v == NoShard
  <2>1. t \in Int /\ v \in Int
    BY <1>3
  <2> HIDE DEF t, v, lo, hi
  <2>2. l \in Shard /\ l.lo = lo /\ l.hi = t /\ l.start = nextSeq /\ ~l.closed
    <3>1. l = NewShard(lo, t, s, v)
      BY DEF t, v
    <3> HIDE DEF l
    <3> QED
      BY <1>2, <2>0, <2>1, <3>1
  <2>3. u \in Shard /\ u.lo = at /\ u.hi = hi /\ u.start = nextSeq /\ ~u.closed
    <3>1. u = NewShard(at, hi, s, v)
      BY DEF v
    <3> HIDE DEF u
    <3> QED
      BY <1>2, <2>0, <2>1, <3>1
  <2> QED
    BY <2>2, <2>3 DEF t
<1>5. DOMAIN children = 1..2 /\ children[1] = l /\ children[2] = u
  OBVIOUS
<1>6. \A i \in 1..2 : i = 1 \/ i = 2
  OBVIOUS
<1> HIDE DEF l, u, children
<1>7. \A i \in 1..2 :
        /\ children[i] \in Shard /\ children[i].lo <= children[i].hi
        /\ children[i].start = nextSeq /\ ~children[i].closed
  <2>1. l.lo <= l.hi /\ u.lo <= u.hi
    BY <1>1, <1>2, <1>3, <1>4
  <2> QED
    BY <1>4, <1>5, <1>6, <2>1
<1>8. ASSUME NEW h \in Hash
      PROVE  /\ Covers(s, h) => \/ l.lo <= h /\ h <= l.hi
                                \/ u.lo <= h /\ h <= u.hi
             /\ l.lo <= h /\ h <= l.hi => Covers(s, h)
             /\ u.lo <= h /\ h <= u.hi => Covers(s, h)
             /\ ~(/\ l.lo <= h /\ h <= l.hi /\ u.lo <= h /\ h <= u.hi)
  <2>1. h \in Int
    BY <1>2 DEF Hash
  <2>2. Covers(s, h) <=> lo <= h /\ h <= hi
    BY DEF Covers
  <2> HIDE DEF lo, hi
  <2> QED
    BY <1>1, <1>2, <1>3, <1>4, <2>1, <2>2
<1>9. \A h \in Hash : \A p \in {s} : Covers(p, h) =>
        \E i \in 1..2 : children[i].lo <= h /\ h <= children[i].hi
  BY <1>5, <1>8
<1>10. \A h \in Hash : \A i \in 1..2 : children[i].lo <= h /\ h <= children[i].hi =>
        \E p \in {s} : Covers(p, h)
  BY <1>5, <1>6, <1>8
<1>11. \A h \in Hash : \A i, j \in 1..2 :
        children[i].lo <= h /\ h <= children[i].hi
          /\ children[j].lo <= h /\ h <= children[j].hi => i = j
  BY <1>5, <1>6, <1>8
<1>12. 2 \in Nat \ {0} /\ {s} \in SUBSET OpenShards
  OBVIOUS
<1> QED
  BY <1>1, <1>5, <1>7, <1>9, <1>10, <1>11, <1>12, ReshardInv

\* MergeShards: one child in the place of two neighbours.
LEMMA MergeInv ==
  ASSUME StreamInv, NEW a \in OpenShards, NEW b \in OpenShards, MergeShards(a, b)
  PROVE  StreamInv'
<1> DEFINE c == NewShard(shards[a].lo, shards[b].hi, a, b)
           children == <<c>>
<1>1. /\ live /\ shards[a].hi + 1 = shards[b].lo /\ Reshard({a, b}, children)
  BY DEF MergeShards
<1>2. /\ a \in DOMAIN shards /\ b \in DOMAIN shards /\ a \in Int /\ b \in Int
      /\ shards[a].lo \in Hash /\ shards[a].hi \in Int
      /\ shards[b].lo \in Hash /\ shards[b].hi \in Int /\ MaxHash \in Nat
  <2>1. a \in DOMAIN shards /\ b \in DOMAIN shards
    BY DEF OpenShards
  <2>2. \A s \in DOMAIN shards : s \in Int /\ shards[s].lo \in Hash /\ shards[s].hi \in Int
    BY DEF StreamInv, StreamTypeOK, Shard
  <2> QED
    BY <2>1, <2>2, KinesisAssumption
<1>3. shards[a].lo <= shards[a].hi /\ shards[b].lo <= shards[b].hi
  BY <1>2 DEF StreamInv, ShardsPlaced
<1>4. /\ c \in Shard /\ c.lo = shards[a].lo /\ c.hi = shards[b].hi
      /\ c.start = nextSeq /\ ~c.closed
  BY <1>2, NewShardFacts
<1>5. DOMAIN children = 1..1 /\ children[1] = c
  OBVIOUS
<1>6. \A i \in 1..1 : i = 1
  OBVIOUS
<1> HIDE DEF c, children
<1>7. c.lo <= c.hi
  BY <1>1, <1>2, <1>3, <1>4 DEF Hash
<1>8. ASSUME NEW h \in Hash
      PROVE  (c.lo <= h /\ h <= c.hi) <=> (Covers(a, h) \/ Covers(b, h))
  <2>1. h \in Int /\ shards[a].lo \in Int /\ shards[b].lo \in Int
    BY <1>2 DEF Hash
  <2> QED
    BY <1>1, <1>2, <1>3, <1>4, <2>1 DEF Covers
<1>9. \A i \in 1..1 :
        /\ children[i] \in Shard /\ children[i].lo <= children[i].hi
        /\ children[i].start = nextSeq /\ ~children[i].closed
  BY <1>4, <1>5, <1>6, <1>7
<1>10. \A h \in Hash : \A p \in {a, b} : Covers(p, h) =>
        \E i \in 1..1 : children[i].lo <= h /\ h <= children[i].hi
  BY <1>5, <1>8
<1>11. \A h \in Hash : \A i \in 1..1 : children[i].lo <= h /\ h <= children[i].hi =>
        \E p \in {a, b} : Covers(p, h)
  BY <1>5, <1>6, <1>8
<1>12. \A h \in Hash : \A i, j \in 1..1 :
        children[i].lo <= h /\ h <= children[i].hi
          /\ children[j].lo <= h /\ h <= children[j].hi => i = j
  BY <1>6
<1>13. 1 \in Nat \ {0} /\ {a, b} \in SUBSET OpenShards
  OBVIOUS
<1> QED
  BY <1>1, <1>5, <1>9, <1>10, <1>11, <1>12, <1>13, ReshardInv

\* UpdateShardCount: a new tiling in the place of all open shards.
LEMMA UpdateCountInv ==
  ASSUME StreamInv, NEW n \in ShardCounts, UpdateShardCount(n)
  PROVE  StreamInv'
<1> DEFINE child(i) == NewShard(TileLo(i - 1, n), TileHi(i - 1, n),
                                ParentAt(TileLo(i - 1, n)), NoShard)
           children == [i \in 1..n |-> child(i)]
<1>1. live /\ Reshard(OpenShards, children)
  BY DEF UpdateShardCount
<1>2. /\ n \in Nat \ {0}
      /\ \A i \in 0..(n - 1) :
           /\ TileLo(i, n) \in Hash /\ TileHi(i, n) \in Hash
           /\ TileLo(i, n) <= TileHi(i, n)
      /\ \A h \in Hash : \E i \in 0..(n - 1) : TileLo(i, n) <= h /\ h <= TileHi(i, n)
      /\ \A i, j \in 0..(n - 1), h \in Hash :
           /\ TileLo(i, n) <= h /\ h <= TileHi(i, n)
           /\ TileLo(j, n) <= h /\ h <= TileHi(j, n)
           => i = j
  BY TileFacts
<1>3. \A i \in 1..n : i - 1 \in 0..(n - 1)
  BY <1>2
<1>4. \A h \in Hash : h \in Int
  BY KinesisAssumption DEF Hash
<1>5. \A i \in 1..n :
        /\ child(i) \in Shard /\ child(i).lo = TileLo(i - 1, n) /\ child(i).hi = TileHi(i - 1, n)
        /\ child(i).start = nextSeq /\ ~child(i).closed
  <2> SUFFICES ASSUME NEW i \in 1..n
               PROVE  /\ child(i) \in Shard /\ child(i).lo = TileLo(i - 1, n)
                      /\ child(i).hi = TileHi(i - 1, n)
                      /\ child(i).start = nextSeq /\ ~child(i).closed
    OBVIOUS
  <2>1. TileLo(i - 1, n) \in Hash /\ TileHi(i - 1, n) \in Int
    BY <1>2, <1>3, <1>4
  <2>2. ParentAt(TileLo(i - 1, n)) \in Int /\ NoShard \in Int
    <3>1. ParentAt(TileLo(i - 1, n)) \in OpenShards
      BY <1>1, <2>1, Routed DEF ParentAt
    <3> QED
      BY <3>1 DEF StreamInv, StreamTypeOK, OpenShards, NoShard
  <2> QED
    BY <2>1, <2>2, NewShardFacts
<1> HIDE DEF child
<1>6. DOMAIN children = 1..n /\ \A i \in 1..n : children[i] = child(i)
  OBVIOUS
<1> HIDE DEF children
<1>7. \A i \in 1..n :
        /\ children[i] \in Shard /\ children[i].lo <= children[i].hi
        /\ children[i].start = nextSeq /\ ~children[i].closed
  <2> SUFFICES ASSUME NEW i \in 1..n
               PROVE  /\ children[i] \in Shard /\ children[i].lo <= children[i].hi
                      /\ children[i].start = nextSeq /\ ~children[i].closed
    OBVIOUS
  <2>1. TileLo(i - 1, n) <= TileHi(i - 1, n)
    BY <1>2, <1>3
  <2>2. children[i] = child(i)
    BY <1>6
  <2> QED
    BY <1>5, <2>1, <2>2
<1>8. \A h \in Hash : \A p \in OpenShards : Covers(p, h) =>
        \E i \in 1..n : children[i].lo <= h /\ h <= children[i].hi
  <2> SUFFICES ASSUME NEW h \in Hash
               PROVE  \E i \in 1..n : children[i].lo <= h /\ h <= children[i].hi
    OBVIOUS
  <2>1. PICK j \in 0..(n - 1) : TileLo(j, n) <= h /\ h <= TileHi(j, n)
    BY <1>2
  <2>2. j + 1 \in 1..n /\ (j + 1) - 1 = j
    BY <1>2
  <2>3. children[j + 1].lo = TileLo(j, n) /\ children[j + 1].hi = TileHi(j, n)
    BY <1>5, <1>6, <2>2
  <2> QED
    BY <2>1, <2>2, <2>3
<1>9. \A h \in Hash : \A i \in 1..n : children[i].lo <= h /\ h <= children[i].hi =>
        \E p \in OpenShards : Covers(p, h)
  BY <1>1 DEF StreamInv, OpenTile
<1>10. \A h \in Hash : \A i, j \in 1..n :
        children[i].lo <= h /\ h <= children[i].hi
          /\ children[j].lo <= h /\ h <= children[j].hi => i = j
  <2> SUFFICES ASSUME NEW h \in Hash, NEW i \in 1..n, NEW j \in 1..n,
                      children[i].lo <= h, h <= children[i].hi,
                      children[j].lo <= h, h <= children[j].hi
               PROVE  i = j
    OBVIOUS
  <2>1. /\ children[i].lo = TileLo(i - 1, n) /\ children[i].hi = TileHi(i - 1, n)
        /\ children[j].lo = TileLo(j - 1, n) /\ children[j].hi = TileHi(j - 1, n)
        /\ i - 1 \in 0..(n - 1) /\ j - 1 \in 0..(n - 1)
    BY <1>3, <1>5, <1>6
  <2>2. i - 1 = j - 1
    BY <1>2, <2>1
  <2> QED
    BY <1>2, <2>2
<1>11. OpenShards \in SUBSET OpenShards
  OBVIOUS
<1> QED
  BY <1>1, <1>2, <1>6, <1>7, <1>8, <1>9, <1>10, <1>11, ReshardInv

\* CreateStream: a tiling, and numbers from 1 on.
LEMMA CreateInv ==
  ASSUME StreamInv, NEW n \in ShardCounts, CreateStream(n)
  PROVE  StreamInv'
<1> DEFINE tile(i) == [lo |-> TileLo(i, n), hi |-> TileHi(i, n),
                       parent |-> NoShard, adjacent |-> NoShard,
                       start |-> 1, end |-> 0, closed |-> FALSE]
<1>1. /\ n \in Nat \ {0}
      /\ \A i \in 0..(n - 1) :
           /\ TileLo(i, n) \in Hash /\ TileHi(i, n) \in Hash
           /\ TileLo(i, n) <= TileHi(i, n)
      /\ \A h \in Hash : \E i \in 0..(n - 1) : TileLo(i, n) <= h /\ h <= TileHi(i, n)
      /\ \A i, j \in 0..(n - 1), h \in Hash :
           /\ TileLo(i, n) <= h /\ h <= TileHi(i, n)
           /\ TileLo(j, n) <= h /\ h <= TileHi(j, n)
           => i = j
  BY TileFacts
<1>2. \A h \in Hash : h \in Int
  BY KinesisAssumption DEF Hash
<1>3. \A i \in 0..(n - 1) :
        /\ tile(i) \in Shard /\ tile(i).lo = TileLo(i, n) /\ tile(i).hi = TileHi(i, n)
        /\ tile(i).start = 1 /\ ~tile(i).closed
  BY <1>1, <1>2 DEF Shard, NoShard
<1>4. /\ shards' = [i \in 0..(n - 1) |-> tile(i)]
      /\ recs' = [i \in 0..(n - 1) |-> {}]
      /\ nextShard' = n /\ nextSeq' = 1 /\ keep' = DefaultRetention
      /\ era' = era + 1 /\ live' = TRUE /\ now' = now
  BY DEF CreateStream
<1> HIDE DEF tile
<1>5. /\ DOMAIN shards' = 0..(n - 1) /\ DOMAIN recs' = 0..(n - 1)
      /\ \A i \in 0..(n - 1) : shards'[i] = tile(i) /\ recs'[i] = {}
      /\ shards' \in [0..(n - 1) -> Shard]
  BY <1>3, <1>4
<1>6. era \in Nat /\ now \in Nat /\ MaxSeq \in Nat
  BY KinesisAssumption DEF StreamInv, StreamTypeOK
<1>7. StreamTypeOK'
  <2>1. keep' \in Nat /\ live' \in BOOLEAN /\ nextShard' \in Nat /\ nextSeq' \in Nat
    BY <1>1, <1>4, DefaultRetentionType
  <2>2. DOMAIN shards' \subseteq 0..(nextShard' - 1) /\ \A s \in DOMAIN recs' : recs'[s] \subseteq Record
    BY <1>4, <1>5
  <2> QED
    BY <1>4, <1>5, <1>6, <2>1, <2>2 DEF StreamTypeOK
<1>8. \A s \in 0..(n - 1) : \A h : Covers(s, h)' <=> TileLo(s, n) <= h /\ h <= TileHi(s, n)
  BY <1>3, <1>5 DEF Covers
<1>9. OpenShards' = 0..(n - 1)
  BY <1>3, <1>5 DEF OpenShards, IsOpen
<1>10. OpenTile'
  <2> SUFFICES ASSUME NEW h \in Hash
               PROVE  \E s \in OpenShards' : Covers(s, h)' /\
                        \A x \in OpenShards' : Covers(x, h)' => x = s
    BY DEF OpenTile, Hash
  <2>1. PICK i \in 0..(n - 1) : TileLo(i, n) <= h /\ h <= TileHi(i, n)
    BY <1>1
  <2> QED
    BY <1>1, <1>8, <1>9, <2>1
<1>11. ShardsPlaced'
  <2> SUFFICES ASSUME NEW s \in 0..(n - 1)
               PROVE  /\ shards'[s].lo <= shards'[s].hi
                      /\ shards'[s].start \in 1..nextSeq'
                      /\ ~shards'[s].closed
    BY <1>5 DEF ShardsPlaced
  <2>1. shards'[s].lo <= shards'[s].hi /\ shards'[s].start = 1
    <3>1. shards'[s] = tile(s)
      BY <1>5
    <3>2. tile(s).lo = TileLo(s, n) /\ tile(s).hi = TileHi(s, n) /\ tile(s).start = 1
      BY <1>3
    <3>3. TileLo(s, n) <= TileHi(s, n)
      BY <1>1
    <3> QED
      BY <3>1, <3>2, <3>3
  <2>2. ~shards'[s].closed
    BY <1>3, <1>5
  <2> QED
    BY <1>4, <2>1, <2>2
<1>12. RecordsPlaced'
  BY <1>5 DEF RecordsPlaced
<1>13. Succession'
  <2> SUFFICES ASSUME NEW s \in DOMAIN shards', NEW t \in DOMAIN shards', NEW h \in Hash,
                      s # t, Covers(s, h)', Covers(t, h)'
               PROVE  FALSE
    BY DEF Succession, Hash
  <2> QED
    BY <1>1, <1>5, <1>8
<1> QED
  BY <1>4, <1>6, <1>7, <1>10, <1>11, <1>12, <1>13 DEF StreamInv

\* PutRecord and PutRecords: every record goes to the open shard of its key,
\* under a number no record has.
LEMMA PutInv ==
  ASSUME StreamInv, NEW b \in Batches, Put(b)
  PROVE  StreamInv'
<1>1. /\ IsFiniteSet(DOMAIN b) /\ DOMAIN b = 1..Cardinality(DOMAIN b)
      /\ \A i \in DOMAIN b : b[i] \in Hash
      /\ Cardinality(DOMAIN b) \in Nat
  BY KinesisAssumption, FS_CardinalityType
<1> DEFINE k == Cardinality(DOMAIN b)
<1>2. /\ live /\ nextSeq + k - 1 <= MaxSeq
      /\ recs' = [s \in DOMAIN recs |-> recs[s] \cup Appended(s, b)]
      /\ nextSeq' = nextSeq + k
      /\ UNCHANGED <<live, shards, nextShard, keep, now, era>>
  BY DEF Put
<1>3. /\ StreamTypeOK /\ nextSeq \in Nat /\ nextSeq >= 1 /\ now \in Nat /\ MaxSeq \in Nat
      /\ DOMAIN recs = DOMAIN shards
  BY KinesisAssumption DEF StreamInv, StreamTypeOK
<1>4. k \in Nat /\ DOMAIN b = 1..k
  BY <1>1
<1> HIDE DEF k
<1>5. ASSUME NEW s \in DOMAIN shards, NEW r \in Appended(s, b)
      PROVE  /\ r \in Record /\ Covers(s, r.key) /\ ~shards[s].closed
             /\ nextSeq <= r.seq /\ r.seq < nextSeq + k
  <2>1. PICK i \in 1..k : ShardFor(b[i]) = s
                          /\ r = [seq |-> nextSeq + i - 1, key |-> b[i], at |-> now]
    BY <1>4, <1>5 DEF Appended
  <2>2. b[i] \in Hash
    BY <1>1, <1>4
  <2>3. s \in OpenShards /\ Covers(s, b[i])
    BY <1>2, <2>1, <2>2, Routed
  <2>4. nextSeq + i - 1 \in Nat /\ nextSeq <= nextSeq + i - 1 /\ nextSeq + i - 1 < nextSeq + k
    BY <1>3, <1>4
  <2>5. r.seq = nextSeq + i - 1 /\ r.key = b[i] /\ r.at = now
    BY <2>1
  <2>6. r \in Record
    BY <1>3, <2>1, <2>2, <2>4 DEF Record
  <2> QED
    BY <2>3, <2>4, <2>5, <2>6 DEF OpenShards, IsOpen
<1>6. nextSeq' \in Nat /\ nextSeq' >= nextSeq /\ nextSeq' \in 1..(MaxSeq + 1)
  BY <1>2, <1>3, <1>4
<1>7. DOMAIN recs' = DOMAIN shards' /\ \A s \in DOMAIN shards : recs'[s] = recs[s] \cup Appended(s, b)
  BY <1>2, <1>3
<1>8. StreamTypeOK'
  <2>1. \A s \in DOMAIN recs' : recs'[s] \subseteq Record
    BY <1>2, <1>3, <1>5, <1>7 DEF StreamTypeOK
  <2> QED
    BY <1>2, <1>3, <1>6, <1>7, <2>1 DEF StreamTypeOK
<1>9. OpenTile'
  BY <1>2 DEF StreamInv, OpenTile, OpenShards, IsOpen, Covers
<1>10. ShardsPlaced'
  <2>1. \A s \in DOMAIN shards : shards[s] \in Shard
    BY <1>3 DEF StreamTypeOK
  <2>2. \A s \in DOMAIN shards : shards[s].start \in Nat /\ shards[s].end \in Nat
    BY <2>1 DEF Shard
  <2> QED
    BY <1>2, <1>3, <1>6, <2>2 DEF StreamInv, ShardsPlaced
<1>11. RecordsPlaced'
  <2> SUFFICES ASSUME NEW s \in DOMAIN shards, NEW r \in recs'[s]
               PROVE  /\ Covers(s, r.key)
                      /\ shards[s].start <= r.seq /\ r.seq < nextSeq'
                      /\ shards[s].closed => r.seq <= shards[s].end
    BY <1>2 DEF RecordsPlaced, Covers
  <2>1. shards[s].start \in 1..nextSeq
    BY DEF StreamInv, ShardsPlaced
  <2>2. CASE r \in recs[s]
    <3>1. r.seq \in Nat
      BY <1>3, <2>2 DEF StreamTypeOK, Record
    <3> QED
      BY <1>3, <1>6, <2>2, <3>1 DEF StreamInv, RecordsPlaced
  <2>3. CASE r \in Appended(s, b)
    <3>1. r.seq \in Nat
      BY <1>5, <2>3 DEF Record
    <3> QED
      BY <1>2, <1>3, <1>4, <1>5, <2>1, <2>3, <3>1
  <2> QED
    BY <1>7, <2>2, <2>3
<1>12. Succession'
  BY <1>2 DEF StreamInv, Succession, Covers, Before
<1> QED
  BY <1>6, <1>8, <1>9, <1>10, <1>11, <1>12 DEF StreamInv

\* Retention drops old records and closed shards that are empty; the open ones
\* stay.
LEMMA SweepInv ==
  ASSUME StreamInv, Sweep
  PROVE  StreamInv'
<1> DEFINE left == {s \in DOMAIN shards : ~Finished(s)}
<1>1. /\ shards' = [s \in left |-> shards[s]]
      /\ recs' = [s \in left |-> {r \in recs[s] : ~Expired(r)}]
      /\ UNCHANGED <<live, nextShard, nextSeq, keep, now, era>>
  BY DEF Sweep
<1>2. left \subseteq DOMAIN shards /\ StreamTypeOK
  BY DEF StreamInv
<1>3. \A s \in OpenShards : s \in left
  BY DEF OpenShards, IsOpen, Finished
<1> HIDE DEF left
<1>4. /\ DOMAIN shards' = left /\ DOMAIN recs' = left
      /\ \A s \in left : shards'[s] = shards[s] /\ recs'[s] \subseteq recs[s]
  BY <1>1
<1>5. StreamTypeOK'
  BY <1>1, <1>2, <1>4 DEF StreamTypeOK
<1>6. OpenShards' = OpenShards
  BY <1>2, <1>3, <1>4 DEF OpenShards, IsOpen
<1>7. \A s \in left : \A h : Covers(s, h)' <=> Covers(s, h)
  BY <1>4 DEF Covers
<1>8. OpenTile'
  BY <1>1, <1>3, <1>6, <1>7 DEF StreamInv, OpenTile
<1>9. ShardsPlaced' /\ RecordsPlaced'
  BY <1>1, <1>2, <1>4, <1>7 DEF StreamInv, ShardsPlaced, RecordsPlaced
<1>10. Succession'
  BY <1>2, <1>4, <1>7 DEF StreamInv, Succession, Before
<1> QED
  BY <1>1, <1>5, <1>8, <1>9, <1>10 DEF StreamInv

\* Every step of the stream keeps its invariant.
LEMMA StreamStep == StreamInv /\ [StreamNext]_streamVars => StreamInv'
<1> SUFFICES ASSUME StreamInv, [StreamNext]_streamVars PROVE StreamInv'
  OBVIOUS
<1>1. CASE UNCHANGED <<live, shards, nextShard, nextSeq, recs>> /\ keep' \in Nat
           /\ now' \in Nat /\ era' = era
  <2>1. StreamTypeOK'
    BY <1>1 DEF StreamInv, StreamTypeOK
  <2>2. OpenTile' /\ ShardsPlaced' /\ RecordsPlaced' /\ Succession'
    BY <1>1 DEF StreamInv, OpenTile, ShardsPlaced, RecordsPlaced, Succession,
      OpenShards, IsOpen, Covers, Before
  <2> QED
    BY <1>1, <2>1, <2>2 DEF StreamInv
<1>2. CASE \E r \in Retentions : SetRetention(r)
  BY <1>1, <1>2, KinesisAssumption DEF SetRetention, StreamInv, StreamTypeOK
<1>3. CASE Tick
  BY <1>1, <1>3 DEF Tick, StreamInv, StreamTypeOK
<1>4. CASE UNCHANGED streamVars
  BY <1>1, <1>4 DEF streamVars, StreamInv, StreamTypeOK
<1>5. CASE DeleteStream
  <2>1. /\ live' = FALSE /\ DOMAIN shards' = {} /\ shards' \in [{} -> Shard] /\ DOMAIN recs' = {}
        /\ UNCHANGED <<nextShard, nextSeq, keep, now, era>>
    BY <1>5 DEF DeleteStream, NoShards
  <2>2. StreamTypeOK'
    BY <2>1 DEF StreamInv, StreamTypeOK
  <2> QED
    BY <2>1, <2>2 DEF StreamInv, OpenTile, ShardsPlaced, RecordsPlaced, Succession
<1> QED
  BY <1>2, <1>3, <1>4, <1>5, CreateInv, SplitInv, MergeInv, UpdateCountInv, PutInv, SweepInv
  DEF StreamNext, Manage, Resize

\* A bucket holds finitely many records.
RecordsFinite == \A s \in DOMAIN recs : IsFiniteSet(recs[s])

\* What a step of the stream does to its records: the stream is created anew,
\* or the records are old ones and ones with higher numbers.
LEMMA RecordsMove ==
  ASSUME StreamInv, RecordsFinite, [StreamNext]_streamVars
  PROVE  /\ RecordsFinite'
         /\ \/ era' = era + 1
            \/ /\ era' = era
               /\ nextSeq' >= nextSeq
               /\ \A s \in DOMAIN recs' : \A r \in recs'[s] :
                    (s \in DOMAIN recs /\ r \in recs[s]) \/ r.seq >= nextSeq
<1>1. nextSeq \in Nat /\ DOMAIN recs = DOMAIN shards /\ IsFiniteSet({})
  BY FS_EmptySet DEF StreamInv, StreamTypeOK
<1>2. CASE \E n \in ShardCounts : CreateStream(n)
  BY <1>1, <1>2 DEF CreateStream, RecordsFinite
<1>3. ASSUME NEW b \in Batches, Put(b)
      PROVE  /\ RecordsFinite' /\ era' = era /\ nextSeq' >= nextSeq
             /\ \A s \in DOMAIN recs' : \A r \in recs'[s] :
                  (s \in DOMAIN recs /\ r \in recs[s]) \/ r.seq >= nextSeq
  <2>1. IsFiniteSet(DOMAIN b) /\ Cardinality(DOMAIN b) \in Nat /\ DOMAIN b = 1..Cardinality(DOMAIN b)
    BY KinesisAssumption, FS_CardinalityType
  <2>2. /\ recs' = [s \in DOMAIN recs |-> recs[s] \cup Appended(s, b)]
        /\ nextSeq' = nextSeq + Cardinality(DOMAIN b) /\ era' = era
    BY <1>3 DEF Put
  <2>3. \A s : IsFiniteSet(Appended(s, b))
    <3> SUFFICES ASSUME NEW s PROVE IsFiniteSet(Appended(s, b))
      OBVIOUS
    <3> DEFINE J == {j \in DOMAIN b : ShardFor(b[j]) = s}
               f == [i \in J |-> [seq |-> nextSeq + i - 1, key |-> b[i], at |-> now]]
    <3>1. IsFiniteSet(J)
      BY <2>1, FS_Subset
    <3>2. Appended(s, b) = {f[i] : i \in J} /\ DOMAIN f = J
      BY DEF Appended
    <3>3. f \in Surjection(J, Appended(s, b))
      <4>1. f \in [J -> Appended(s, b)]
        BY <3>2
      <4>2. \A t \in Appended(s, b) : \E i \in J : f[i] = t
        BY <3>2
      <4> QED
        BY <4>1, <4>2 DEF Surjection
    <3> HIDE DEF J, f
    <3> QED
      BY <3>1, <3>3, FS_Surjection
  <2>4. \A s : \A r \in Appended(s, b) : r.seq >= nextSeq
    BY <1>1, <2>1 DEF Appended
  <2>5. RecordsFinite'
    BY <2>2, <2>3, FS_Union DEF RecordsFinite
  <2> QED
    BY <1>1, <2>1, <2>2, <2>4, <2>5
<1>4. ASSUME NEW P, NEW C, Reshard(P, C)
      PROVE  /\ RecordsFinite' /\ era' = era /\ nextSeq' = nextSeq
             /\ \A s \in DOMAIN recs' : \A r \in recs'[s] : s \in DOMAIN recs /\ r \in recs[s]
  BY <1>1, <1>4 DEF Reshard, RecordsFinite
<1>5. CASE Sweep
  <2>1. /\ \A s \in DOMAIN recs' : s \in DOMAIN recs /\ recs'[s] \subseteq recs[s]
        /\ era' = era /\ nextSeq' = nextSeq
    BY <1>1, <1>5 DEF Sweep
  <2>2. RecordsFinite'
    BY <2>1, FS_Subset DEF RecordsFinite
  <2> QED
    BY <1>1, <2>1, <2>2
<1>6. CASE DeleteStream
  <2>1. DOMAIN recs' = {} /\ era' = era /\ nextSeq' = nextSeq
    BY <1>6 DEF DeleteStream, NoShards
  <2> QED
    BY <1>1, <2>1 DEF RecordsFinite
<1>7. CASE UNCHANGED <<recs, nextSeq, era>>
  BY <1>1, <1>7 DEF RecordsFinite
<1>8. CASE Resize
  <2>1. \E P, C : Reshard(P, C)
    BY <1>8 DEF Resize, SplitShard, MergeShards, UpdateShardCount
  <2> QED
    BY <1>1, <1>4, <2>1
<1>9. CASE Manage
  BY <1>2, <1>6, <1>7, <1>9 DEF Manage, SetRetention
<1>10. CASE Tick \/ UNCHANGED streamVars
  BY <1>7, <1>10 DEF Tick, streamVars
<1> QED
  BY <1>3, <1>5, <1>8, <1>9, <1>10 DEF StreamNext

\* Highest of a bounded set of numbers.
LEMMA HighestFacts ==
  ASSUME NEW S \in SUBSET Nat, S # {}, NEW b \in Nat, \A x \in S : x <= b
  PROVE  Highest(S) \in S /\ \A y \in S : y <= Highest(S)
<1> DEFINE T == {b - x : x \in S}
<1>1. T \in SUBSET Nat /\ T # {}
  <2>1. \A x \in S : b - x \in Nat
    OBVIOUS
  <2>2. \A t \in T : t \in Nat
    BY <2>1
  <2>3. PICK x \in S : TRUE
    OBVIOUS
  <2>4. b - x \in T
    BY <2>3
  <2> QED
    BY <2>2, <2>4
<1>2. PICK t \in T : \A y \in T : t <= y
  BY <1>1, LeastNat
<1>3. PICK x \in S : t = b - x
  BY <1>2
<1>4. \A y \in S : b - x <= b - y
  BY <1>2, <1>3
<1>5. \A y \in S : y <= x
  BY <1>4
<1> QED
  BY <1>5 DEF Highest

\* Lowest of a set of numbers.
LEMMA LowestFacts ==
  ASSUME NEW S \in SUBSET Nat, S # {}
  PROVE  Lowest(S) \in S /\ \A y \in S : Lowest(S) <= y
<1>1. \E x \in S : \A y \in S : x <= y
  BY LeastNat
<1> QED
  BY <1>1 DEF Lowest

\* TRIM_HORIZON stands before every record that is stored.
LEMMA HorizonFacts ==
  ASSUME StreamInv, NEW s \in DOMAIN shards
  PROVE  /\ TrimHorizon(s) \in Nat /\ TrimHorizon(s) < nextSeq
         /\ \A r \in recs[s] : TrimHorizon(s) < r.seq
<1> DEFINE first == IF recs[s] = {} THEN 0 ELSE Lowest(Seqs(recs[s])) - 1
           from == shards[s].start - 1
<1>1. /\ shards[s].start \in 1..nextSeq /\ nextSeq \in Nat
      /\ \A r \in recs[s] : r.seq \in Nat /\ shards[s].start <= r.seq /\ r.seq < nextSeq
  BY DEF StreamInv, StreamTypeOK, ShardsPlaced, RecordsPlaced, Record
<1>2. from \in Nat /\ from < nextSeq /\ \A r \in recs[s] : from < r.seq
  BY <1>1
<1>3. first \in Nat /\ first < nextSeq /\ \A r \in recs[s] : first < r.seq
  <2>1. CASE recs[s] = {}
    BY <1>1, <2>1
  <2>2. CASE recs[s] # {}
    <3> DEFINE l == Lowest(Seqs(recs[s]))
    <3>1. Seqs(recs[s]) \in SUBSET Nat /\ Seqs(recs[s]) # {}
      BY <1>1, <2>2 DEF Seqs
    <3>2. l \in Seqs(recs[s]) /\ \A y \in Seqs(recs[s]) : l <= y
      BY <3>1, LowestFacts
    <3>3. first = l - 1
      BY <2>2
    <3> HIDE DEF l, first
    <3>4. PICK r \in recs[s] : r.seq = l
      BY <3>2 DEF Seqs
    <3>5. l \in Nat /\ 1 <= l /\ l < nextSeq
      BY <1>1, <3>4
    <3>6. \A x \in recs[s] : l <= x.seq
      BY <3>2 DEF Seqs
    <3> QED
      BY <1>1, <3>3, <3>5, <3>6
  <2> QED
    BY <2>1, <2>2
<1>4. TrimHorizon(s) = Highest({first, from})
  BY DEF TrimHorizon
<1> HIDE DEF first, from
<1>5. {first, from} \in SUBSET Nat /\ {first, from} # {} /\ \A x \in {first, from} : x <= nextSeq
  BY <1>1, <1>2, <1>3
<1>6. TrimHorizon(s) \in {first, from}
  BY <1>1, <1>4, <1>5, HighestFacts
<1> QED
  BY <1>2, <1>3, <1>6

\* Fetch returns the first records after a number, without a gap.
LEMMA FetchedFacts ==
  ASSUME StreamInv, RecordsFinite, NEW s \in DOMAIN shards, NEW after \in Nat
  PROVE  /\ Fetched(s, after, BatchSize) \subseteq recs[s]
         /\ \A r \in recs[s], g \in Fetched(s, after, BatchSize) :
              after < r.seq /\ r.seq <= g.seq => r \in Fetched(s, after, BatchSize)
<1>1. Fetched(s, after, BatchSize) \subseteq Readable(s, after)
      /\ Readable(s, after) \subseteq recs[s]
  BY DEF Fetched, Readable
<1>2. ASSUME NEW r \in recs[s], NEW g \in Fetched(s, after, BatchSize),
             after < r.seq, r.seq <= g.seq
      PROVE  r \in Fetched(s, after, BatchSize)
  <2> DEFINE R == Readable(s, after)
             below(x) == {y \in R : y.seq <= x.seq}
  <2>1. /\ \A x \in recs[s] : x.seq \in Nat
        /\ shards[s].closed => r.seq <= shards[s].end
    BY DEF StreamInv, StreamTypeOK, Record, RecordsPlaced
  <2>2. r \in R
    BY <1>2, <2>1 DEF Readable
  <2>3. IsFiniteSet(below(g))
    <3>1. IsFiniteSet(recs[s])
      BY DEF StreamInv, StreamTypeOK, RecordsFinite
    <3> QED
      BY <1>1, <3>1, FS_Subset
  <2>4. below(r) \subseteq below(g)
    BY <1>1, <1>2, <2>1
  <2>5. /\ Cardinality(below(r)) <= Cardinality(below(g))
        /\ Cardinality(below(r)) \in Nat /\ Cardinality(below(g)) \in Nat
    BY <2>3, <2>4, FS_Subset, FS_CardinalityType
  <2>6. Cardinality(below(g)) <= BatchSize
    BY DEF Fetched
  <2>7. Cardinality(below(r)) <= BatchSize
    <3> HIDE DEF below
    <3> QED
      BY <2>5, <2>6, PollerAssumption
  <2> QED
    BY <2>2, <2>7 DEF Fetched
<1> QED
  BY <1>1, <1>2

-----------------------------------------------------------------------------
(* The poller.                                                             *)

\* The fields of the poller's locals.
PolShape ==
  pol = [pc |-> pol.pc, iters |-> pol.iters, opening |-> pol.opening,
         todo |-> pol.todo, refresh |-> pol.refresh, at |-> pol.at,
         got |-> pol.got]

\* Their types; during GetRecords the shard is one of the round.
PolTyped ==
  /\ pol.pc \in {"open", "round", "answer", "invoke"}
  /\ pol.iters \in [DOMAIN pol.iters -> Iterator]
  /\ pol.todo \subseteq DOMAIN pol.iters
  /\ pol.opening \subseteq Nat
  /\ pol.got \subseteq Record
  /\ \A g \in pol.got : g.seq <= MaxSeq
  /\ pol.pc = "answer" => pol.at \in pol.todo

\* An iterator is of this stream or of an earlier one of its name, and has not
\* moved beyond the last record of this one.
IterFresh ==
  \A s \in DOMAIN pol.iters :
    /\ pol.iters[s].era <= era
    /\ pol.iters[s].era = era => pol.iters[s].after < nextSeq

\* What GetRecords has fetched is, when its answer is made, still everything in
\* the shard up to the last record fetched: what is put meanwhile has higher
\* numbers.
GotFirst ==
  pol.pc = "answer" /\ pol.iters[pol.at].era = era =>
    /\ \A g \in pol.got : g.seq < nextSeq
    /\ pol.at \in DOMAIN recs =>
         \A r \in recs[pol.at], g \in pol.got :
           pol.iters[pol.at].after < r.seq /\ r.seq <= g.seq => r \in pol.got

\* The inductive invariant of the stream and its poller.
PolInv ==
  /\ StreamInv /\ RecordsFinite
  /\ PolShape /\ PolTyped
  /\ IterFresh /\ GotFirst /\ NothingPassedOver

\* No stream and a new poller.
LEMMA PolInitInv == PollerInit => PolInv
<1> SUFFICES ASSUME PollerInit PROVE PolInv
  OBVIOUS
<1>1. StreamInv
  BY StreamInitInv DEF PollerInit
<1>2. DOMAIN recs = {}
  BY DEF PollerInit, StreamInit, NoShards
<1>3. pol = Fresh /\ DOMAIN NoShards = {}
  BY DEF PollerInit, NoShards
<1>4. PolShape
  BY <1>3 DEF PolShape, Fresh
<1>5. PolTyped
  <2>1. NoShards \in [DOMAIN NoShards -> Iterator]
    BY DEF NoShards
  <2> QED
    BY <1>3, <2>1 DEF PolTyped, Fresh
<1> QED
  BY <1>1, <1>2, <1>3, <1>4, <1>5
  DEF PolInv, RecordsFinite, IterFresh, GotFirst, NothingPassedOver, Fresh

\* A step of the stream under a poller anywhere in its loop, also one that
\* deletes the stream or creates it anew.
LEMMA PolStreamStep ==
  ASSUME PolInv, [StreamNext]_streamVars, UNCHANGED pollVars
  PROVE  PolInv'
<1>1. StreamInv' /\ pol' = pol /\ taken' = taken
  BY StreamStep DEF PolInv, pollVars
<1>2. /\ RecordsFinite'
      /\ \/ era' = era + 1
         \/ /\ era' = era /\ nextSeq' >= nextSeq
            /\ \A s \in DOMAIN recs' : \A r \in recs'[s] :
                 (s \in DOMAIN recs /\ r \in recs[s]) \/ r.seq >= nextSeq
  BY RecordsMove DEF PolInv
<1>3. PolShape' /\ PolTyped'
  BY <1>1 DEF PolInv, PolShape, PolTyped
<1>4. /\ era \in Nat /\ nextSeq \in Nat /\ nextSeq' \in Nat
      /\ \A s \in DOMAIN pol.iters :
           pol.iters[s].era \in Nat /\ pol.iters[s].era <= era /\ pol.iters[s].after \in Nat
      /\ \A s \in DOMAIN recs' : \A r \in recs'[s] : r.seq \in Nat
      /\ \A g \in pol.got : g.seq \in Nat
      /\ pol.pc = "answer" => pol.at \in DOMAIN pol.iters
  BY <1>1 DEF PolInv, PolTyped, IterFresh, Iterator, StreamInv, StreamTypeOK, Record
<1>5. CASE era' = era + 1
  <2>1. \A s \in DOMAIN pol.iters : pol.iters[s].era <= era' /\ pol.iters[s].era # era'
    BY <1>4, <1>5
  <2> QED
    BY <1>1, <1>2, <1>3, <1>4, <2>1 DEF PolInv, IterFresh, GotFirst, NothingPassedOver
<1>6. CASE /\ era' = era /\ nextSeq' >= nextSeq
           /\ \A s \in DOMAIN recs' : \A r \in recs'[s] :
                (s \in DOMAIN recs /\ r \in recs[s]) \/ r.seq >= nextSeq
  <2>1. IterFresh'
    BY <1>1, <1>4, <1>6 DEF PolInv, IterFresh
  <2>2. GotFirst'
    <3> SUFFICES ASSUME pol.pc = "answer", pol.iters[pol.at].era = era
                 PROVE  /\ \A g \in pol.got : g.seq < nextSeq'
                        /\ pol.at \in DOMAIN recs' =>
                             \A r \in recs'[pol.at], g \in pol.got :
                               pol.iters[pol.at].after < r.seq /\ r.seq <= g.seq => r \in pol.got
      BY <1>1, <1>6 DEF GotFirst
    <3>1. \A g \in pol.got : g.seq < nextSeq
      BY DEF PolInv, GotFirst
    <3>2. ASSUME pol.at \in DOMAIN recs', NEW r \in recs'[pol.at], NEW g \in pol.got,
                 pol.iters[pol.at].after < r.seq, r.seq <= g.seq
          PROVE  r \in pol.got
      <4>1. ~(r.seq >= nextSeq)
        BY <1>4, <3>1, <3>2
      <4> QED
        BY <1>6, <3>2, <4>1 DEF PolInv, GotFirst
    <3> QED
      BY <1>4, <1>6, <3>1, <3>2
  <2>3. NothingPassedOver'
    <3> SUFFICES ASSUME NEW s \in DOMAIN pol.iters, s \in DOMAIN recs', pol.iters[s].era = era,
                        NEW r \in recs'[s], r.seq <= pol.iters[s].after
                 PROVE  <<era, r.seq>> \in taken
      BY <1>1, <1>6 DEF NothingPassedOver
    <3>1. pol.iters[s].after < nextSeq
      BY DEF PolInv, IterFresh
    <3>2. ~(r.seq >= nextSeq)
      BY <1>4, <3>1
    <3> QED
      BY <1>6, <3>2 DEF PolInv, NothingPassedOver
  <2> QED
    BY <1>1, <1>2, <1>3, <2>1, <2>2, <2>3 DEF PolInv
<1> QED
  BY <1>2, <1>5, <1>6

\* The poller lets go of a shard.
LEMMA ForgottenInv ==
  ASSUME PolInv, UNCHANGED streamVars, taken \subseteq taken', NEW s,
         NEW pc \in {"round", "invoke"}, pol' = [Forgotten(s) EXCEPT !.pc = pc]
  PROVE  PolInv'
<1>1. /\ pol'.pc = pc /\ pol'.iters = Without(pol.iters, s)
      /\ pol'.todo = pol.todo \ {s} /\ pol'.opening = pol.opening
      /\ pol'.got = {} /\ PolShape'
  BY DEF PolInv, PolShape, Forgotten
<1>2. /\ DOMAIN pol'.iters = DOMAIN pol.iters \ {s}
      /\ \A x \in DOMAIN pol'.iters : pol'.iters[x] = pol.iters[x]
  BY <1>1 DEF Without
<1>3. StreamInv' /\ RecordsFinite' /\ UNCHANGED <<recs, nextSeq, era>>
  BY DEF PolInv, streamVars, StreamInv, StreamTypeOK, OpenTile, ShardsPlaced, RecordsPlaced,
    Succession, RecordsFinite, OpenShards, IsOpen, Covers, Before
<1>4. PolTyped'
  <2>1. pol'.iters \in [DOMAIN pol'.iters -> Iterator]
    BY <1>1, <1>2 DEF PolInv, PolTyped, Without
  <2> QED
    BY <1>1, <1>2, <2>1 DEF PolInv, PolTyped
<1>5. IterFresh' /\ GotFirst' /\ NothingPassedOver'
  BY <1>1, <1>2, <1>3 DEF PolInv, IterFresh, GotFirst, NothingPassedOver
<1> QED
  BY <1>1, <1>3, <1>4, <1>5 DEF PolInv

\* The poller stores an iterator that passes over nothing.
LEMMA SetIterInv ==
  ASSUME PolInv, UNCHANGED streamVars, taken \subseteq taken', NEW s, NEW it \in Iterator,
         PolShape', pol'.pc \in {"open", "round", "invoke"},
         pol'.iters = With(pol.iters, s, it),
         pol'.todo \subseteq pol.todo, pol'.opening \subseteq pol.opening,
         pol'.got \subseteq pol.got, it.era <= era,
         it.era = era => it.after < nextSeq,
         it.era = era /\ s \in DOMAIN recs =>
           \A r \in recs[s] : r.seq <= it.after => <<era, r.seq>> \in taken'
  PROVE  PolInv'
<1>1. /\ DOMAIN pol'.iters = DOMAIN pol.iters \cup {s}
      /\ pol'.iters[s] = it
      /\ \A x \in DOMAIN pol'.iters \ {s} : x \in DOMAIN pol.iters /\ pol'.iters[x] = pol.iters[x]
  BY DEF With
<1>2. StreamInv' /\ RecordsFinite' /\ UNCHANGED <<recs, nextSeq, era>>
  BY DEF PolInv, streamVars, StreamInv, StreamTypeOK, OpenTile, ShardsPlaced, RecordsPlaced,
    Succession, RecordsFinite, OpenShards, IsOpen, Covers, Before
<1>3. PolTyped'
  <2>1. pol'.iters \in [DOMAIN pol'.iters -> Iterator]
    BY DEF With, PolInv, PolTyped
  <2> QED
    BY <1>1, <2>1 DEF PolInv, PolTyped
<1>4. IterFresh' /\ GotFirst'
  BY <1>1, <1>2 DEF PolInv, IterFresh, GotFirst
<1>5. NothingPassedOver'
  BY <1>1, <1>2 DEF PolInv, NothingPassedOver
<1> QED
  BY <1>2, <1>3, <1>4, <1>5 DEF PolInv

\* The next iterator of GetRecords passes over what was fetched and nothing else.
LEMMA NextAfterFacts ==
  ASSUME PolInv, pol.pc = "answer", pol.at \in DOMAIN shards
  PROVE  /\ NextAfter \in Nat
         /\ pol.iters[pol.at].era = era =>
              /\ NextAfter < nextSeq
              /\ \A r \in recs[pol.at] :
                   r.seq <= NextAfter => <<era, r.seq>> \in taken \cup Stamped(pol.got)
<1> DEFINE it == pol.iters[pol.at]
<1>1. /\ pol.at \in DOMAIN pol.iters /\ it \in Iterator /\ it.after \in Nat
      /\ DOMAIN recs = DOMAIN shards
      /\ \A r \in recs[pol.at] : r.seq \in Nat
      /\ \A g \in pol.got : g.seq \in Nat /\ g.seq <= MaxSeq
      /\ it.era = era => it.after < nextSeq
      /\ it.era = era => \A r \in recs[pol.at] : r.seq <= it.after => <<era, r.seq>> \in taken
  BY DEF PolInv, PolTyped, Iterator, StreamInv, StreamTypeOK, Record, IterFresh, NothingPassedOver
<1>2. CASE pol.got = {}
  <2>1. NextAfter = it.after
    BY <1>2 DEF NextAfter
  <2> QED
    BY <1>1, <2>1
<1>3. CASE pol.got # {}
  <2>1. NextAfter = Highest(Seqs(pol.got))
    BY <1>3 DEF NextAfter
  <2>2. Seqs(pol.got) \in SUBSET Nat /\ Seqs(pol.got) # {} /\ \A x \in Seqs(pol.got) : x <= MaxSeq
    BY <1>1, <1>3 DEF Seqs
  <2>3. NextAfter \in Seqs(pol.got)
    BY <2>1, <2>2, HighestFacts, KinesisAssumption
  <2>4. PICK g \in pol.got : NextAfter = g.seq
    BY <2>3 DEF Seqs
  <2>5. ASSUME it.era = era, NEW r \in recs[pol.at], r.seq <= NextAfter
        PROVE  <<era, r.seq>> \in taken \cup Stamped(pol.got)
    <3>1. CASE r.seq <= it.after
      BY <1>1, <2>5, <3>1
    <3>2. CASE it.after < r.seq
      <4>1. r \in pol.got
        BY <1>1, <2>4, <2>5, <3>2 DEF PolInv, GotFirst
      <4> QED
        BY <4>1 DEF Stamped
    <3> QED
      BY <1>1, <3>1, <3>2
  <2>6. it.era = era => NextAfter < nextSeq
    BY <2>4 DEF PolInv, GotFirst
  <2> QED
    BY <1>1, <2>4, <2>5, <2>6
<1> QED
  BY <1>2, <1>3

\* Every step of the loop keeps the invariant.
LEMMA LoopInv ==
  ASSUME PolInv, Loop
  PROVE  PolInv'
<1>1. UNCHANGED streamVars
  BY DEF Loop, List, OpenIterator, BeginRound, Fetch, Answer, AnswerGone, Invoke
<1>2. StreamInv' /\ RecordsFinite' /\ UNCHANGED <<recs, nextSeq, era>>
  BY <1>1 DEF PolInv, streamVars, StreamInv, StreamTypeOK, OpenTile, ShardsPlaced, RecordsPlaced,
    Succession, RecordsFinite, OpenShards, IsOpen, Covers, Before
\* the steps that leave the iterators alone and fetch nothing
<1>3. ASSUME PolShape', taken' = taken, pol'.iters = pol.iters,
             pol'.pc \in {"open", "round", "invoke"}, pol'.got = pol.got,
             pol'.todo \subseteq DOMAIN pol.iters, pol'.opening \subseteq Nat
      PROVE  PolInv'
  <2>1. PolTyped'
    BY <1>3 DEF PolInv, PolTyped
  <2>2. IterFresh' /\ GotFirst' /\ NothingPassedOver'
    BY <1>2, <1>3 DEF PolInv, IterFresh, GotFirst, NothingPassedOver
  <2> QED
    BY <1>2, <1>3, <2>1, <2>2 DEF PolInv
<1>4. ASSUME taken' = taken, NEW s, pol' = Forgotten(s) PROVE PolInv'
  <2>1. Forgotten(s) = [Forgotten(s) EXCEPT !.pc = "round"]
    BY DEF PolInv, PolShape, Forgotten
  <2> QED
    BY <1>1, <1>4, <2>1, ForgottenInv
<1>5. CASE List
  <2>1. /\ pol' = [pol EXCEPT !.pc = "open", !.opening = DOMAIN shards \ DOMAIN pol.iters]
        /\ taken' = taken
    BY <1>5 DEF List
  <2>2. /\ PolShape' /\ pol'.iters = pol.iters /\ pol'.pc = "open" /\ pol'.got = pol.got
        /\ pol'.todo = pol.todo /\ pol'.opening = DOMAIN shards \ DOMAIN pol.iters
    BY <2>1 DEF PolInv, PolShape
  <2>3. DOMAIN shards \subseteq Nat
    BY DEF PolInv, StreamInv, StreamTypeOK
  <2> QED
    BY <1>3, <2>1, <2>2, <2>3 DEF PolInv, PolTyped
<1>6. CASE OpenIterator
  <2> DEFINE s == Lowest(pol.opening)
             it == [after |-> TrimHorizon(s), issued |-> now, era |-> era]
  <2>1. /\ pol.pc = "open" /\ pol.opening # {} /\ taken' = taken
        /\ pol' = [pol EXCEPT
             !.opening = pol.opening \ {s},
             !.iters = IF s \in DOMAIN shards THEN With(pol.iters, s, it) ELSE pol.iters]
    BY <1>6 DEF OpenIterator, PolInv, PolShape
  <2>2. CASE s \notin DOMAIN shards
    <3>1. pol' = [pol EXCEPT !.opening = pol.opening \ {s}, !.iters = pol.iters]
      BY <2>1, <2>2
    <3> HIDE DEF s
    <3>2. /\ PolShape' /\ pol'.iters = pol.iters /\ pol'.pc = "open" /\ pol'.got = pol.got
          /\ pol'.todo = pol.todo /\ pol'.opening = pol.opening \ {s}
      BY <2>1, <3>1 DEF PolInv, PolShape
    <3> QED
      BY <1>3, <2>1, <3>2 DEF PolInv, PolTyped
  <2>3. CASE s \in DOMAIN shards
    <3>1. pol' = [pol EXCEPT !.opening = pol.opening \ {s}, !.iters = With(pol.iters, s, it)]
      BY <2>1, <2>3
    <3>2. /\ TrimHorizon(s) \in Nat /\ TrimHorizon(s) < nextSeq
          /\ \A r \in recs[s] : TrimHorizon(s) < r.seq
      BY <2>3, HorizonFacts DEF PolInv
    <3>3. it \in Iterator /\ it.era = era /\ it.after = TrimHorizon(s)
      BY <3>2 DEF Iterator, PolInv, StreamInv, StreamTypeOK
    <3> HIDE DEF s, it
    <3>4. /\ PolShape' /\ pol'.iters = With(pol.iters, s, it) /\ pol'.pc = "open"
          /\ pol'.got = pol.got /\ pol'.todo = pol.todo /\ pol'.opening = pol.opening \ {s}
      BY <2>1, <3>1 DEF PolInv, PolShape
    <3>5. /\ era \in Nat /\ s \in DOMAIN recs /\ \A r \in recs[s] : r.seq \in Nat
      BY <2>3 DEF PolInv, StreamInv, StreamTypeOK, Record
    <3>6. it.era <= era /\ (it.era = era => it.after < nextSeq)
      BY <3>2, <3>3, <3>5
    <3>7. \A r \in recs[s] : ~(r.seq <= it.after)
      BY <3>2, <3>3, <3>5
    <3> QED
      BY <1>1, <2>1, <3>3, <3>4, <3>6, <3>7, SetIterInv
  <2> QED
    BY <2>2, <2>3
<1>7. CASE BeginRound
  <2>1. /\ pol' = [pol EXCEPT !.pc = "round", !.refresh = (pol.iters = NoShards),
                              !.todo = DOMAIN pol.iters]
        /\ taken' = taken
    BY <1>7 DEF BeginRound
  <2>2. /\ PolShape' /\ pol'.iters = pol.iters /\ pol'.pc = "round" /\ pol'.got = pol.got
        /\ pol'.todo = DOMAIN pol.iters /\ pol'.opening = pol.opening
    BY <2>1 DEF PolInv, PolShape
  <2> QED
    BY <1>3, <2>1, <2>2 DEF PolInv, PolTyped
<1>8. ASSUME NEW s \in pol.todo, Fetch(s) PROVE PolInv'
  <2> DEFINE it == pol.iters[s]
             F == Fetched(s, it.after, BatchSize)
  <2>1. /\ pol.pc = "round" /\ taken' = taken
        /\ pol' = IF s \in DOMAIN shards /\ ~IteratorExpired(it)
                  THEN [pol EXCEPT !.pc = "answer", !.at = s, !.got = F]
                  ELSE Forgotten(s)
    BY <1>8 DEF Fetch
  <2>2. s \in DOMAIN pol.iters /\ it.after \in Nat
    BY DEF PolInv, PolTyped, Iterator
  <2>3. CASE ~(s \in DOMAIN shards /\ ~IteratorExpired(it))
    BY <1>4, <2>1, <2>3
  <2>4. CASE s \in DOMAIN shards /\ ~IteratorExpired(it)
    <3>1. pol' = [pol EXCEPT !.pc = "answer", !.at = s, !.got = F]
      BY <2>1, <2>4
    <3>2. /\ F \subseteq recs[s]
          /\ \A r \in recs[s], g \in F : it.after < r.seq /\ r.seq <= g.seq => r \in F
      BY <2>2, <2>4, FetchedFacts DEF PolInv
    <3>3. /\ DOMAIN recs = DOMAIN shards /\ recs[s] \subseteq Record
          /\ \A r \in recs[s] : r.seq < nextSeq /\ r.seq \in Nat
          /\ nextSeq \in 1..(MaxSeq + 1) /\ MaxSeq \in Nat
      BY <2>4, KinesisAssumption DEF PolInv, StreamInv, StreamTypeOK, RecordsPlaced, Record
    <3> HIDE DEF F
    <3>4. /\ PolShape' /\ pol'.iters = pol.iters /\ pol'.pc = "answer" /\ pol'.got = F
          /\ pol'.todo = pol.todo /\ pol'.opening = pol.opening /\ pol'.at = s
      BY <3>1 DEF PolInv, PolShape
    <3>5. PolTyped'
      BY <3>2, <3>3, <3>4 DEF PolInv, PolTyped
    <3>6. IterFresh' /\ NothingPassedOver'
      BY <1>2, <2>1, <3>4 DEF PolInv, IterFresh, NothingPassedOver
    <3>7. GotFirst'
      BY <1>2, <3>2, <3>3, <3>4 DEF GotFirst
    <3> QED
      BY <1>2, <3>4, <3>5, <3>6, <3>7 DEF PolInv
  <2> QED
    BY <2>3, <2>4
<1>9. CASE Answer
  <2> DEFINE s == pol.at
             next == NextAfter
             kept == [after |-> next, issued |-> now, era |-> pol.iters[s].era]
             to == IF pol.got = {} THEN "round" ELSE "invoke"
  <2>1. /\ pol.pc = "answer" /\ s \in DOMAIN shards
        /\ taken' = taken \cup Stamped(pol.got)
        /\ pol' = IF Drained(s, next)
                  THEN [Forgotten(s) EXCEPT !.pc = to]
                  ELSE [pol EXCEPT !.pc = to, !.iters = With(pol.iters, s, kept),
                                   !.todo = pol.todo \ {s}, !.at = NoShard, !.got = {}]
    BY <1>9 DEF Answer, PolInv, PolShape
  <2>2. to \in {"round", "invoke"} /\ taken \subseteq taken'
    BY <2>1
  <2>3. CASE Drained(s, next)
    BY <1>1, <2>1, <2>2, <2>3, ForgottenInv
  <2>4. CASE ~Drained(s, next)
    <3>1. pol' = [pol EXCEPT !.pc = to, !.iters = With(pol.iters, s, kept),
                             !.todo = pol.todo \ {s}, !.at = NoShard, !.got = {}]
      BY <2>1, <2>4
    <3>2. /\ next \in Nat
          /\ pol.iters[s].era = era =>
               /\ next < nextSeq
               /\ \A r \in recs[s] : r.seq <= next => <<era, r.seq>> \in taken'
      BY <2>1, NextAfterFacts
    <3>3. s \in DOMAIN pol.iters /\ pol.iters[s].era \in Nat /\ now \in Nat
          /\ pol.iters[s].era <= era
      BY <2>1 DEF PolInv, PolTyped, Iterator, IterFresh, StreamInv, StreamTypeOK
    <3>4. kept \in Iterator /\ kept.era = pol.iters[s].era /\ kept.after = next
      BY <3>2, <3>3 DEF Iterator
    <3> HIDE DEF s, next, kept, to
    <3>5. /\ PolShape' /\ pol'.iters = With(pol.iters, s, kept) /\ pol'.pc = to
          /\ pol'.got = {} /\ pol'.todo = pol.todo \ {s} /\ pol'.opening = pol.opening
      BY <3>1 DEF PolInv, PolShape
    <3> QED
      BY <1>1, <2>2, <3>2, <3>3, <3>4, <3>5, SetIterInv
  <2> QED
    BY <2>3, <2>4
<1>10. CASE AnswerGone
  BY <1>4, <1>10 DEF AnswerGone
<1>11. CASE Invoke
  <2>1. pol' = [pol EXCEPT !.pc = "round"] /\ taken' = taken
    BY <1>11 DEF Invoke
  <2>2. /\ PolShape' /\ pol'.iters = pol.iters /\ pol'.pc = "round" /\ pol'.got = pol.got
        /\ pol'.todo = pol.todo /\ pol'.opening = pol.opening
    BY <2>1 DEF PolInv, PolShape
  <2> QED
    BY <1>3, <2>1, <2>2 DEF PolInv, PolTyped
<1> QED
  BY <1>5, <1>6, <1>7, <1>8, <1>9, <1>10, <1>11 DEF Loop

\* A new poller has no iterators.
LEMMA RestartInv ==
  ASSUME PolInv, Restart
  PROVE  PolInv'
<1>1. pol' = Fresh /\ UNCHANGED streamVars
  BY DEF Restart
<1>2. StreamInv' /\ RecordsFinite'
  BY <1>1 DEF PolInv, streamVars, StreamInv, StreamTypeOK, OpenTile, ShardsPlaced, RecordsPlaced,
    Succession, RecordsFinite, OpenShards, IsOpen, Covers, Before
<1>3. DOMAIN NoShards = {} /\ NoShards \in [DOMAIN NoShards -> Iterator]
  BY DEF NoShards
<1>4. PolShape' /\ PolTyped'
  BY <1>1, <1>3 DEF PolShape, PolTyped, Fresh
<1> QED
  BY <1>1, <1>2, <1>3, <1>4 DEF PolInv, IterFresh, GotFirst, NothingPassedOver, Fresh

\* The invariant holds in every reachable state.
THEOREM PolInvAlways == PollerSpec => []PolInv
<1>1. PolInv /\ [PollerNext]_allVars => PolInv'
  <2> SUFFICES ASSUME PolInv, [PollerNext]_allVars PROVE PolInv'
    OBVIOUS
  <2>1. CASE StreamNext /\ UNCHANGED pollVars
    BY <2>1, PolStreamStep
  <2>2. CASE UNCHANGED allVars
    BY <2>2, PolStreamStep DEF allVars
  <2> QED
    BY <2>1, <2>2, LoopInv, RestartInv DEF PollerNext
<1> QED
  BY <1>1, PolInitInv, PTL DEF PollerSpec

\* PollerTypeOK for every hash space, batch size, set of calls and bound.
THEOREM PollerTyped == PollerSpec => []PollerTypeOK
<1>1. PolInv => PollerTypeOK
  BY DEF PolInv, StreamInv, PolTyped, PollerTypeOK
<1> QED
  BY <1>1, PolInvAlways, PTL

\* KeysRouted for every hash space and every sequence of splits, merges, changes
\* of the shard count, puts and sweeps (kinesis/reshard.go): a key has exactly one open
\* shard, and the shards its records went to follow each other.
THEOREM KeysStayRouted == PollerSpec => []KeysRouted
<1>1. PolInv => KeysRouted
  BY StreamRouted DEF PolInv
<1> QED
  BY <1>1, PolInvAlways, PTL

\* NothingPassedOver for every batch size and number of shards: pollKinesis
\* (lambda/extras.go) never holds an iterator beyond a record it has not taken,
\* although GetRecords reads the records and the shard in two transactions.
THEOREM NoRecordPassedOver == PollerSpec => []NothingPassedOver
<1>1. PolInv => NothingPassedOver
  BY DEF PolInv
<1> QED
  BY <1>1, PolInvAlways, PTL

\* NullMeansRead for every batch size and number of shards: when GetRecords
\* (kinesis/records.go) answers no next iterator, everything stored in the shard
\* has been handed to the poller.
THEOREM NullIsTheTruth == PollerSpec => NullMeansRead
<1> DEFINE A == /\ Answer /\ pol.at \notin DOMAIN pol'.iters
                /\ pol.iters[pol.at].era = era
                => \A r \in recs[pol.at] : <<era, r.seq>> \in taken'
<1>1. PolInv => A
  <2> SUFFICES ASSUME PolInv, Answer, pol.at \notin DOMAIN pol'.iters,
                      pol.iters[pol.at].era = era, NEW r \in recs[pol.at]
               PROVE  <<era, r.seq>> \in taken'
    OBVIOUS
  <2> DEFINE s == pol.at
             kept == [after |-> NextAfter, issued |-> now, era |-> pol.iters[s].era]
             to == IF pol.got = {} THEN "round" ELSE "invoke"
  <2>1. /\ pol.pc = "answer" /\ s \in DOMAIN shards
        /\ taken' = taken \cup Stamped(pol.got)
        /\ ~Drained(s, NextAfter) =>
             pol' = [pol EXCEPT !.pc = to, !.iters = With(pol.iters, s, kept),
                                !.todo = pol.todo \ {s}, !.at = NoShard, !.got = {}]
    BY DEF Answer, PolInv, PolShape
  <2>2. Drained(s, NextAfter)
    <3> SUFFICES ASSUME ~Drained(s, NextAfter) PROVE FALSE
      OBVIOUS
    <3> HIDE DEF kept, to
    <3>1. pol'.iters = With(pol.iters, s, kept)
      BY <2>1 DEF PolInv, PolShape
    <3> QED
      BY <3>1 DEF With
  <2>3. /\ NextAfter \in Nat
        /\ \A x \in recs[s] : x.seq <= NextAfter => <<era, x.seq>> \in taken'
    BY <2>1, NextAfterFacts
  <2>4. /\ r.seq \in Nat /\ r.seq <= shards[s].end /\ shards[s].end \in Nat
        /\ r.seq >= 1
    BY <2>1, <2>2 DEF PolInv, StreamInv, StreamTypeOK, RecordsPlaced, ShardsPlaced, Record,
      Shard, Drained
  <2>5. r.seq <= NextAfter
    BY <2>2, <2>3, <2>4 DEF Drained
  <2> QED
    BY <2>3, <2>5
<1>2. PolInv => [A]_allVars
  BY <1>1
<1>3. NullMeansRead <=> [][A]_allVars
  BY PTL DEF NullMeansRead
<1> HIDE DEF A
<1> QED
  BY <1>2, <1>3, PolInvAlways, PTL

=============================================================================
