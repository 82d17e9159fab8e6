--------------------------- MODULE SqsStoreProofs ---------------------------
(***************************************************************************)
(* Proofs about SqsStore, for every set of queues, messages, batches and   *)
(* attribute maps and every value of the bounds.                           *)
(***************************************************************************)
EXTENDS SqsStore, TLAPS, FiniteSetTheorems

\* The numbering of SendBatch and of Arrivals: the ranks of the members of a
\* finite set of integers are its positions, and they keep its order.
LEMMA RankFacts ==
  ASSUME NEW S \in SUBSET Int, IsFiniteSet(S)
  PROVE  /\ Cardinality(S) \in Nat
         /\ \A s \in S : Rank(S, s) \in 1..Cardinality(S)
         /\ \A s, t \in S : s < t => Rank(S, s) < Rank(S, t)
<1> DEFINE Upto(s) == {t \in S : t <= s}
<1>1. Cardinality(S) \in Nat
  BY FS_CardinalityType
<1>2. \A s \in S : /\ IsFiniteSet(Upto(s))
                   /\ Cardinality(Upto(s)) \in Nat
                   /\ Cardinality(Upto(s)) <= Cardinality(S)
  <2> SUFFICES ASSUME NEW s \in S
               PROVE  /\ IsFiniteSet(Upto(s))
                      /\ Cardinality(Upto(s)) \in Nat
                      /\ Cardinality(Upto(s)) <= Cardinality(S)
    OBVIOUS
  <2>1. Upto(s) \in SUBSET S
    OBVIOUS
  <2> HIDE DEF Upto
  <2>2. IsFiniteSet(Upto(s)) /\ Cardinality(Upto(s)) <= Cardinality(S)
    BY <2>1, FS_Subset
  <2> QED
    BY <2>2, FS_CardinalityType
<1>3. \A s \in S : Cardinality(Upto(s)) # 0
  <2> SUFFICES ASSUME NEW s \in S, Cardinality(Upto(s)) = 0
               PROVE  FALSE
    OBVIOUS
  <2>1. s \in Upto(s)
    OBVIOUS
  <2> HIDE DEF Upto
  <2>2. Upto(s) = {}
    BY <1>2, FS_EmptySet
  <2> QED
    BY <2>1, <2>2
<1>4. \A s, t \in S : s < t => Cardinality(Upto(s)) < Cardinality(Upto(t))
  <2> SUFFICES ASSUME NEW s \in S, NEW t \in S, s < t
               PROVE  Cardinality(Upto(s)) < Cardinality(Upto(t))
    OBVIOUS
  <2>0. \A u \in S : u <= s => u <= t
    OBVIOUS
  <2>1. Upto(s) \in SUBSET Upto(t)
    BY <2>0
  <2>2. t \in Upto(t) /\ t \notin Upto(s)
    OBVIOUS
  <2> HIDE DEF Upto
  <2>3. /\ Cardinality(Upto(s)) <= Cardinality(Upto(t))
        /\ Cardinality(Upto(t)) = Cardinality(Upto(s)) => Upto(t) = Upto(s)
    BY <2>1, <1>2, FS_Subset
  <2> QED
    BY <2>2, <2>3, <1>2
<1>5. \A s \in S : Rank(S, s) = Cardinality(Upto(s))
  BY DEF Rank
<1> HIDE DEF Upto
<1> QED
  BY <1>1, <1>2, <1>3, <1>4, <1>5

DistinctIds(S) == \A m, n \in S : m.id = n.id => m = n

\* The inductive core: types, and the keys of the message buckets.  BucketKeys
\* is what makes every bucket finite, without which its size is no number.
Keyed == TypeOK /\ BucketKeys

\* A bucket whose keys are numbers up to its sequence is finite, and so is
\* every part of it and the set of keys of that part.
LEMMA BucketFinite ==
  ASSUME Keyed, NEW q \in Queue, NEW S \in SUBSET msgs[q]
  PROVE  /\ IsFiniteSet(S)
         /\ Cardinality(S) \in Nat
         /\ IsFiniteSet(Seqs(S))
         /\ Seqs(S) \in SUBSET Int
         /\ Cardinality(Seqs(S)) \in Nat
         /\ Cardinality(Seqs(S)) <= Cardinality(S)
<1> DEFINE f == [m \in S |-> m.seq]
<1>1. S \subseteq Message /\ lastSeq[q] \in Nat
  BY DEF Keyed, TypeOK
<1>2. f \in Injection(S, 1..lastSeq[q])
  BY <1>1 DEF Keyed, BucketKeys, Injection, IsInjective
<1>3. IsFiniteSet(1..lastSeq[q])
  BY <1>1, FS_Interval
<1>4. IsFiniteSet(S)
  BY <1>2, <1>3, FS_Injection
<1>5. f \in Surjection(S, Seqs(S))
  BY DEF Surjection, Seqs
<1>6. IsFiniteSet(Seqs(S)) /\ Cardinality(Seqs(S)) <= Cardinality(S)
  BY <1>4, <1>5, FS_Surjection
<1>7. Seqs(S) \in SUBSET Int
  BY <1>1 DEF Seqs, Message
<1> QED
  BY <1>4, <1>6, <1>7, FS_CardinalityType

-----------------------------------------------------------------------------
(* What the operations compute.                                            *)

\* applyAttrs turns a definition into a definition.
LEMMA ApplyAttrsType ==
  ASSUME NEW c \in Config, NEW a \in AttrCalls
  PROVE  ApplyAttrs(c, a) \in Config
<1>1. \A f \in DOMAIN a : f \in DOMAIN AttrValues /\ a[f] \in AttrValues[f]
  BY AttrCallsAssumption
<1>2. /\ Attr(a, "FifoQueue", c.FIFO) \in BOOLEAN
      /\ Attr(a, "ContentBasedDeduplication", c.ContentBasedDedup) \in BOOLEAN
  BY <1>1 DEF Attr, AttrValues, Config
<1>3. /\ Attr(a, "VisibilityTimeout", c.VisibilityTimeout) \in Nat
      /\ Attr(a, "DelaySeconds", c.DelaySeconds) \in Nat
      /\ Attr(a, "MessageRetentionPeriod", c.RetentionPeriod) \in Nat
      /\ Attr(a, "MaximumMessageSize", c.MaxMessageSize) \in Nat
      /\ Attr(a, "ReceiveMessageWaitTimeSeconds", c.WaitTimeSeconds) \in Nat
  BY <1>1 DEF Attr, AttrValues, Config
<1>4. CASE "RedrivePolicy" \notin DOMAIN a
  BY <1>2, <1>3, <1>4 DEF ApplyAttrs, Config
<1>5. CASE "RedrivePolicy" \in DOMAIN a /\ a.RedrivePolicy = NoQueue
  BY <1>2, <1>3, <1>5 DEF ApplyAttrs, Config
<1>6. CASE "RedrivePolicy" \in DOMAIN a /\ a.RedrivePolicy # NoQueue
  <2>1. a.RedrivePolicy \in [target : Queue, count : Nat]
    BY <1>1, <1>6 DEF AttrValues
  <2> QED
    BY <2>1, <1>2, <1>3, <1>6 DEF ApplyAttrs, Config
<1> QED
  BY <1>4, <1>5, <1>6

\* A redrive or a move task appends: the arrivals in queue d are messages with
\* numbers of their own beyond the sequence of d.
LEMMA ArrivalsFacts ==
  ASSUME Keyed, NEW q \in Queue, NEW d \in Queue, NEW S \in SUBSET msgs[q]
  PROVE  /\ Arrivals(S, d) \subseteq Message
         /\ \A m \in Arrivals(S, d) :
              m.seq > lastSeq[d] /\ m.seq <= lastSeq[d] + Cardinality(S)
         /\ \A m, n \in Arrivals(S, d) : m.seq = n.seq => m = n
         /\ Ids(Arrivals(S, d)) = Ids(S)
         /\ DistinctIds(S) => DistinctIds(Arrivals(S, d))
<1>1. /\ S \subseteq Message
      /\ lastSeq[d] \in Nat
      /\ now \in Nat
      /\ \A m, n \in S : m.seq = n.seq => m = n
  BY DEF Keyed, TypeOK, BucketKeys
<1>2. /\ Cardinality(S) \in Nat
      /\ Cardinality(Seqs(S)) \in Nat
      /\ Cardinality(Seqs(S)) <= Cardinality(S)
      /\ IsFiniteSet(Seqs(S))
      /\ Seqs(S) \in SUBSET Int
  BY BucketFinite
<1> DEFINE rank(m) == Rank(Seqs(S), m.seq)
<1>3. \A m \in S : m.seq \in Seqs(S) /\ m.seq \in Int
  BY <1>1 DEF Seqs, Message
<1>4. \A m \in S : rank(m) \in 1..Cardinality(S)
  BY <1>2, <1>3, RankFacts
<1>5. \A m, n \in S : rank(m) = rank(n) => m = n
  <2> SUFFICES ASSUME NEW m \in S, NEW n \in S, m # n
               PROVE  rank(m) # rank(n)
    OBVIOUS
  <2>1. m.seq < n.seq \/ n.seq < m.seq
    BY <1>1, <1>3
  <2> QED
    BY <2>1, <1>2, <1>3, <1>4, RankFacts
<1> DEFINE moved(m) == [m EXCEPT !.seq = lastSeq[d] + rank(m), !.count = 0,
                                 !.visible = now]
<1>6. Arrivals(S, d) = {moved(m) : m \in S}
  BY DEF Arrivals
<1>7. \A m \in S : rank(m) \in Nat
  BY <1>2, <1>4
<1> HIDE DEF rank
<1>8. \A m \in S : /\ moved(m) \in Message
                   /\ moved(m).seq = lastSeq[d] + rank(m)
                   /\ moved(m).id = m.id
  <2> SUFFICES ASSUME NEW m \in S
               PROVE  /\ moved(m) \in Message
                      /\ moved(m).seq = lastSeq[d] + rank(m)
                      /\ moved(m).id = m.id
    OBVIOUS
  <2>1. m \in Message /\ lastSeq[d] + rank(m) \in Nat
    BY <1>1, <1>7
  <2> QED
    BY <1>1, <2>1 DEF Message
<1> HIDE DEF moved
<1>9. Arrivals(S, d) \subseteq Message
  BY <1>6, <1>8
<1>10. \A m \in Arrivals(S, d) :
         m.seq > lastSeq[d] /\ m.seq <= lastSeq[d] + Cardinality(S)
  BY <1>1, <1>2, <1>4, <1>6, <1>8
<1>11. \A m, n \in Arrivals(S, d) : m.seq = n.seq => m = n
  BY <1>1, <1>5, <1>6, <1>7, <1>8
<1>12. Ids(Arrivals(S, d)) = Ids(S)
  BY <1>6, <1>8 DEF Ids
<1>13. DistinctIds(S) => DistinctIds(Arrivals(S, d))
  BY <1>6, <1>8 DEF DistinctIds
<1> QED
  BY <1>9, <1>10, <1>11, <1>12, <1>13

\* A send appends as well, one message for each entry that is enqueued.
LEMMA PostedFacts ==
  ASSUME Keyed, NEW q \in Queue, NEW b \in Batches,
         NEW ids \in [Enqueued(q, b) -> MsgId]
  PROVE  /\ Cardinality(Enqueued(q, b)) \in Nat
         /\ Posted(q, b, ids) \subseteq Message
         /\ \A m \in Posted(q, b, ids) :
              /\ m.seq > lastSeq[q]
              /\ m.seq <= lastSeq[q] + Cardinality(Enqueued(q, b))
         /\ \A m, n \in Posted(q, b, ids) : m.seq = n.seq => m = n
         /\ Ids(Posted(q, b, ids)) = {ids[i] : i \in Enqueued(q, b)}
         /\ (\A i, j \in Enqueued(q, b) : ids[i] = ids[j] => i = j)
              => DistinctIds(Posted(q, b, ids))
<1> DEFINE E == Enqueued(q, b)
           delay(i) == IF b[i].delay < 0 THEN cfg[q].DelaySeconds ELSE b[i].delay
           post(i) == [id |-> ids[i], seq |-> lastSeq[q] + Rank(E, i),
                       group |-> b[i].group, sent |-> now,
                       visible |-> now + delay(i), count |-> 0]
<1>1. lastSeq[q] \in Nat /\ now \in Nat /\ cfg[q] \in Config
  BY DEF Keyed, TypeOK
<1>2. /\ IsFiniteSet(DOMAIN b)
      /\ DOMAIN b = 1..Cardinality(DOMAIN b)
      /\ \A i \in DOMAIN b : b[i] \in Entry
  BY BatchesAssumption
<1>3. E \in SUBSET DOMAIN b
  BY DEF Enqueued
<1>4. E \in SUBSET Int
  BY <1>2, <1>3, FS_CardinalityType
<1>5. IsFiniteSet(E)
  BY <1>2, <1>3, FS_Subset
<1>6. ids \in [E -> MsgId]
  OBVIOUS
<1>7. Posted(q, b, ids) = {post(i) : i \in E}
  BY DEF Posted
<1> HIDE DEF E
<1>8. /\ Cardinality(E) \in Nat
      /\ \A i \in E : Rank(E, i) \in 1..Cardinality(E)
      /\ \A i, j \in E : i < j => Rank(E, i) < Rank(E, j)
  BY <1>4, <1>5, RankFacts
<1>9. \A i \in E : Rank(E, i) \in Nat
  BY <1>8
<1>10. \A i, j \in E : Rank(E, i) = Rank(E, j) => i = j
  <2> SUFFICES ASSUME NEW i \in E, NEW j \in E, i # j
               PROVE  Rank(E, i) # Rank(E, j)
    OBVIOUS
  <2>1. i < j \/ j < i
    BY <1>4
  <2> QED
    BY <2>1, <1>8, <1>9
<1>11. \A i \in E : delay(i) \in Nat /\ b[i].group \in Group \cup {NoGroup}
  BY <1>1, <1>2, <1>3 DEF Entry, Config
<1> HIDE DEF delay
<1>12. \A i \in E : /\ post(i) \in Message
                    /\ post(i).seq = lastSeq[q] + Rank(E, i)
                    /\ post(i).id = ids[i]
  BY <1>1, <1>6, <1>9, <1>11 DEF Message
<1> HIDE DEF post
<1>13. Posted(q, b, ids) \subseteq Message
  BY <1>7, <1>12
<1>14. \A m \in Posted(q, b, ids) :
         m.seq > lastSeq[q] /\ m.seq <= lastSeq[q] + Cardinality(E)
  BY <1>1, <1>7, <1>8, <1>12
<1>15. \A m, n \in Posted(q, b, ids) : m.seq = n.seq => m = n
  BY <1>1, <1>7, <1>9, <1>10, <1>12
<1>16. Ids(Posted(q, b, ids)) = {ids[i] : i \in E}
  BY <1>7, <1>12 DEF Ids
<1>17. (\A i, j \in E : ids[i] = ids[j] => i = j) => DistinctIds(Posted(q, b, ids))
  BY <1>7, <1>12 DEF DistinctIds
<1> QED
  BY <1>8, <1>13, <1>14, <1>15, <1>16, <1>17 DEF E

\* The deduplication records of a send have their type.
LEMMA RecordedType ==
  ASSUME TypeOK, NEW q \in Queue, NEW b \in Batches,
         NEW ids \in [Enqueued(q, b) -> MsgId], cfg[q].FIFO
  PROVE  Recorded(q, b, ids) \subseteq DedupRec
<1> SUFFICES ASSUME NEW i \in Enqueued(q, b)
             PROVE  [key |-> KeyOf(b[i]), at |-> now, id |-> ids[i]] \in DedupRec
  BY DEF Recorded
<1>1. i \in DOMAIN b /\ b[i] \in Entry
  BY BatchesAssumption DEF Enqueued
<1>2. KeyOf(b[i]) \in DedupKey
  <2>1. CASE b[i].dedup # NoDedup
    BY <1>1, <2>1 DEF Entry, KeyOf, DedupKey
  <2>2. CASE b[i].dedup = NoDedup
    BY <1>1, <2>2 DEF Entry, KeyOf, DedupKey
  <2> QED
    BY <2>1, <2>2
<1>3. ids[i] \in MsgId /\ now \in Nat
  BY DEF TypeOK
<1> QED
  BY <1>2, <1>3 DEF DedupRec

\* The messages a pass delivers are stored again under their own keys.
LEMMA TakenFacts ==
  ASSUME Keyed, NEW q \in Queue, NEW max \in Nat,
         NEW override \in Timeouts \cup {NoOverride}
  PROVE  /\ Taken(q, max, override) \subseteq Message
         /\ \A x \in Taken(q, max, override) :
              \E m \in Deliver(q, max) : x.seq = m.seq /\ x.id = m.id
         /\ \A x, y \in Taken(q, max, override) : x.seq = y.seq => x = y
         /\ Ids(Taken(q, max, override)) = Ids(Deliver(q, max))
         /\ DistinctIds(Deliver(q, max)) => DistinctIds(Taken(q, max, override))
<1> DEFINE D == Deliver(q, max)
           v == now + VisibilityFor(q, override)
           take(m) == [m EXCEPT !.count = @ + 1, !.visible = v]
<1>1. /\ D \subseteq msgs[q]
      /\ D \subseteq Message
      /\ \A m, n \in D : m.seq = n.seq => m = n
  BY DEF Keyed, TypeOK, BucketKeys, Deliver, Heads, Ready, Open
<1>2. now \in Nat /\ cfg[q] \in Config
  BY DEF Keyed, TypeOK
<1>3. v \in Nat
  BY <1>2, ConstantsAssumption DEF VisibilityFor, NoOverride, Config
<1>4. Taken(q, max, override) = {take(m) : m \in D}
  BY DEF Taken
<1> HIDE DEF D, v
<1>5. \A m \in D : take(m) \in Message /\ take(m).seq = m.seq /\ take(m).id = m.id
  <2> SUFFICES ASSUME NEW m \in D
               PROVE  take(m) \in Message /\ take(m).seq = m.seq /\ take(m).id = m.id
    OBVIOUS
  <2>1. m \in Message /\ m.count + 1 \in Nat
    BY <1>1 DEF Message
  <2> QED
    BY <1>3, <2>1 DEF Message
<1> HIDE DEF take
<1>6. Taken(q, max, override) \subseteq Message
  BY <1>4, <1>5
<1>7. \A x \in Taken(q, max, override) : \E m \in D : x.seq = m.seq /\ x.id = m.id
  BY <1>4, <1>5
<1>8. \A x, y \in Taken(q, max, override) : x.seq = y.seq => x = y
  BY <1>1, <1>4, <1>5
<1>9. Ids(Taken(q, max, override)) = Ids(D)
  BY <1>4, <1>5 DEF Ids
<1>10. DistinctIds(D) => DistinctIds(Taken(q, max, override))
  BY <1>4, <1>5 DEF DistinctIds
<1> QED
  BY <1>6, <1>7, <1>8, <1>9, <1>10 DEF D

\* So are the messages whose visibility is changed.
LEMMA RetimedFacts ==
  ASSUME Keyed, NEW q \in Queue, NEW H \in SUBSET Handle, NEW t \in [H -> Timeouts]
  PROVE  LET hit == Named(q, H)
         IN /\ Retimed(hit, t) \subseteq Message
            /\ \A x \in Retimed(hit, t) : \E m \in hit : x.seq = m.seq /\ x.id = m.id
            /\ \A x, y \in Retimed(hit, t) : x.seq = y.seq => x = y
            /\ Ids(Retimed(hit, t)) = Ids(hit)
            /\ DistinctIds(hit) => DistinctIds(Retimed(hit, t))
<1> DEFINE S == Named(q, H)
           h(m) == [seq |-> m.seq, id |-> m.id]
           retime(m) == [m EXCEPT !.visible = now + t[h(m)]]
<1>1. /\ S \subseteq Message
      /\ \A m, n \in S : m.seq = n.seq => m = n
      /\ now \in Nat
  BY DEF Keyed, TypeOK, BucketKeys, Named
<1>2. \A m \in S : h(m) \in H
  BY DEF Named, Handle
<1>4. Retimed(S, t) = {retime(m) : m \in S}
  BY DEF Retimed
<1> HIDE DEF S, h
<1>3. \A m \in S : now + t[h(m)] \in Nat
  <2>1. \A m \in S : t[h(m)] \in Nat
    BY <1>2, ConstantsAssumption
  <2> QED
    BY <1>1, <2>1
<1>5. \A m \in S : retime(m) \in Message /\ retime(m).seq = m.seq /\ retime(m).id = m.id
  BY <1>1, <1>3 DEF Message
<1> HIDE DEF retime
<1>6. Retimed(S, t) \subseteq Message
  BY <1>4, <1>5
<1>7. \A x \in Retimed(S, t) : \E m \in S : x.seq = m.seq /\ x.id = m.id
  BY <1>4, <1>5
<1>8. \A x, y \in Retimed(S, t) : x.seq = y.seq => x = y
  BY <1>1, <1>4, <1>5
<1>9. Ids(Retimed(S, t)) = Ids(S)
  BY <1>4, <1>5 DEF Ids
<1>10. DistinctIds(S) => DistinctIds(Retimed(S, t))
  BY <1>4, <1>5 DEF DistinctIds
<1> QED
  BY <1>6, <1>7, <1>8, <1>9, <1>10 DEF S

-----------------------------------------------------------------------------
(* Every operation keeps the types and the keys.                           *)

\* Giving ids a fate keeps every id with a fate.
LEMMA MarkType ==
  ASSUME TypeOK, NEW S, NEW f \in Fate
  PROVE  Mark(S, f) \in [MsgId -> Fate]
BY DEF TypeOK, Mark

\* A store starts without queues and without messages.
LEMMA InitKeyed == Init => Keyed
<1> SUFFICES ASSUME Init PROVE TypeOK /\ BucketKeys
  BY DEF Keyed
<1>1. TypeOK
  BY ConstantsAssumption DEF Init, TypeOK, Fate
<1>2. BucketKeys
  BY DEF Init, BucketKeys
<1> QED
  BY <1>1, <1>2

\* Creating and reconfiguring a queue.
LEMMA DefineKeyed ==
  ASSUME Keyed, NEW q \in Queue, NEW a \in AttrCalls,
         CreateQueue(q, a) \/ SetAttributes(q, a)
  PROVE  Keyed'
<1>1. TypeOK'
  <2>1. CASE CreateQueue(q, a)
    <3> DEFINE c == [DefaultConfig EXCEPT !.FIFO = Attr(a, "FifoQueue", FALSE)]
    <3>1. Attr(a, "FifoQueue", FALSE) \in BOOLEAN
      BY AttrCallsAssumption DEF Attr, AttrValues
    <3>2. c \in Config
      BY <3>1, ConstantsAssumption DEF Config
    <3>3. ApplyAttrs(c, a) \in Config
      BY <3>2, ApplyAttrsType
    <3>4. cfg' = [cfg EXCEPT ![q] = ApplyAttrs(c, a)]
      BY <2>1 DEF CreateQueue
    <3> HIDE DEF c
    <3> QED
      BY <2>1, <3>3, <3>4 DEF CreateQueue, Keyed, TypeOK
  <2>2. CASE SetAttributes(q, a)
    <3>1. ApplyAttrs(cfg[q], a) \in Config
      BY ApplyAttrsType DEF Keyed, TypeOK
    <3> QED
      BY <2>2, <3>1 DEF SetAttributes, Keyed, TypeOK
  <2> QED
    BY <2>1, <2>2
<1>2. UNCHANGED <<msgs, lastSeq>>
  BY DEF CreateQueue, SetAttributes
<1>3. BucketKeys'
  BY <1>2 DEF BucketKeys, Keyed
<1> QED
  BY <1>1, <1>3 DEF Keyed

\* Dropping a message bucket, with or without its queue.
LEMMA DropKeyed ==
  ASSUME Keyed, NEW q \in Queue, DeleteQueue(q) \/ Purge(q)
  PROVE  Keyed'
<1>1. Mark(Ids(msgs[q]), "purged") \in [MsgId -> Fate]
  BY MarkType DEF Fate, Keyed
<1>2. TypeOK'
  <2>1. CASE DeleteQueue(q)
    BY <1>1, <2>1, ConstantsAssumption DEF DeleteQueue, Keyed, TypeOK
  <2>2. CASE Purge(q)
    BY <1>1, <2>2 DEF Purge, Keyed, TypeOK
  <2> QED
    BY <2>1, <2>2
<1>3. /\ msgs' = [msgs EXCEPT ![q] = {}]
      /\ lastSeq' = [lastSeq EXCEPT ![q] = 0]
  BY DEF DeleteQueue, Purge
<1>4. BucketKeys'
  BY <1>3 DEF Keyed, TypeOK, BucketKeys
<1> QED
  BY <1>2, <1>4 DEF Keyed

\* Sending.
LEMMA SendKeyed ==
  ASSUME Keyed, NEW q \in Queue, NEW b \in Batches,
         NEW ids \in [Enqueued(q, b) -> MsgId], SendBatch(q, b, ids)
  PROVE  Keyed'
<1> DEFINE new == Posted(q, b, ids)
           n == Cardinality(Enqueued(q, b))
<1>1. /\ n \in Nat
      /\ new \subseteq Message
      /\ \A m \in new : m.seq > lastSeq[q] /\ m.seq <= lastSeq[q] + n
      /\ \A m, k \in new : m.seq = k.seq => m = k
  BY PostedFacts
<1>2. /\ msgs' = [msgs EXCEPT ![q] = @ \cup new]
      /\ lastSeq' = [lastSeq EXCEPT ![q] = @ + n]
  BY DEF SendBatch
<1> HIDE DEF new, n
<1>3. /\ dedup' \in [Queue -> SUBSET DedupRec]
      /\ admitted' \in [Queue -> SUBSET DedupRec]
  <2>1. CASE cfg[q].FIFO
    <3>1. Recorded(q, b, ids) \subseteq DedupRec
      BY <2>1, RecordedType DEF Keyed
    <3>2. {r \in Pruned(dedup[q]) : r.key \notin Keys(Recorded(q, b, ids))}
            \subseteq DedupRec
      BY DEF Pruned, Keyed, TypeOK
    <3> QED
      BY <2>1, <3>1, <3>2 DEF SendBatch, Keyed, TypeOK
  <2>2. CASE ~cfg[q].FIFO
    BY <2>2 DEF SendBatch, Keyed, TypeOK
  <2> QED
    BY <2>1, <2>2
<1>4. fate' \in [MsgId -> Fate]
  BY MarkType DEF SendBatch, Fate, Keyed
<1>5. TypeOK'
  <2>1. msgs' \in [Queue -> SUBSET Message] /\ lastSeq' \in [Queue -> Nat]
    BY <1>1, <1>2 DEF Keyed, TypeOK
  <2>2. UNCHANGED <<live, cfg, handles, sweep, now>>
    BY DEF SendBatch
  <2> QED
    BY <1>3, <1>4, <2>1, <2>2 DEF Keyed, TypeOK
<1>6. BucketKeys'
  <2> SUFFICES ASSUME NEW x \in Queue
               PROVE  /\ \A m \in msgs'[x] : m.seq \in 1..lastSeq'[x]
                      /\ \A m, k \in msgs'[x] : m.seq = k.seq => m = k
    BY DEF BucketKeys
  <2>1. /\ lastSeq[x] \in Nat
        /\ \A m \in msgs[x] : m.seq \in 1..lastSeq[x]
        /\ \A m, k \in msgs[x] : m.seq = k.seq => m = k
        /\ \A m \in new : m.seq \in Nat
    BY <1>1 DEF Keyed, TypeOK, BucketKeys, Message
  <2>2. CASE x = q
    <3>1. msgs'[x] = msgs[q] \cup new /\ lastSeq'[x] = lastSeq[q] + n
      BY <1>2, <2>2 DEF Keyed, TypeOK
    <3> QED
      BY <1>1, <2>1, <2>2, <3>1
  <2>3. CASE x # q
    <3>1. msgs'[x] = msgs[x] /\ lastSeq'[x] = lastSeq[x]
      BY <1>2, <2>3 DEF Keyed, TypeOK
    <3> QED
      BY <2>1, <3>1
  <2> QED
    BY <2>2, <2>3
<1> QED
  BY <1>5, <1>6 DEF Keyed

\* One delivery pass: what leaves and what comes back stays keyed, what is
\* redriven is appended to the dead-letter queue.
LEMMA ReceiveKeyed ==
  ASSUME Keyed, NEW q \in Queue, NEW max \in Nat,
         NEW override \in Timeouts \cup {NoOverride},
         ReceiveOnce(q, max, override)
  PROVE  Keyed'
<1> DEFINE out == Deliver(q, max)
           gone == out \cup ToExpire(q, max) \cup ToMove(q, max)
           taken == Taken(q, max, override)
           move == ToMove(q, max)
           target == cfg[q].DeadLetterTarget
           n == Cardinality(move)
<1>1. /\ out \subseteq msgs[q]
      /\ move \in SUBSET msgs[q]
  BY DEF Deliver, Heads, Ready, Open, ToMove
<1>2. /\ taken \subseteq Message
      /\ \A x \in taken : \E m \in out : x.seq = m.seq /\ x.id = m.id
      /\ \A x, y \in taken : x.seq = y.seq => x = y
  BY TakenFacts
<1>3. n \in Nat
  BY <1>1, BucketFinite
<1>4. \A d \in Queue :
        /\ Arrivals(move, d) \subseteq Message
        /\ \A m \in Arrivals(move, d) : m.seq > lastSeq[d] /\ m.seq <= lastSeq[d] + n
        /\ \A m, k \in Arrivals(move, d) : m.seq = k.seq => m = k
  BY <1>1, ArrivalsFacts
<1>5. \A x \in Queue :
        msgs'[x] = IF x = q THEN (msgs[q] \ gone) \cup taken
                   ELSE IF x = target THEN msgs[x] \cup Arrivals(move, x)
                   ELSE msgs[x]
  BY DEF ReceiveOnce
<1>6. \A x \in Queue :
        lastSeq'[x] = IF x = target THEN lastSeq[x] + n ELSE lastSeq[x]
  BY DEF ReceiveOnce
<1>7. out \subseteq gone
  OBVIOUS
<1>8. HandlesOf(out) \subseteq Handle
  BY <1>1 DEF HandlesOf, Handle, Keyed, TypeOK, Message
<1>9. Mark(Ids(ToExpire(q, max)), "expired") \in [MsgId -> Fate]
  BY MarkType DEF Fate, Keyed
<1>10. /\ msgs' = [x \in Queue |-> msgs'[x]]
       /\ lastSeq' = [x \in Queue |-> lastSeq'[x]]
       /\ handles' = handles \cup HandlesOf(out)
       /\ fate' = Mark(Ids(ToExpire(q, max)), "expired")
       /\ UNCHANGED <<live, cfg, dedup, sweep, now, admitted>>
  BY DEF ReceiveOnce
<1> HIDE DEF out, gone, taken, move, target, n
<1>11. \A x \in Queue : msgs'[x] \subseteq Message /\ lastSeq'[x] \in Nat
  <2> SUFFICES ASSUME NEW x \in Queue
               PROVE  msgs'[x] \subseteq Message /\ lastSeq'[x] \in Nat
    OBVIOUS
  <2>1. msgs[x] \subseteq Message /\ msgs[q] \subseteq Message /\ lastSeq[x] \in Nat
    BY DEF Keyed, TypeOK
  <2>2. lastSeq'[x] \in Nat
    BY <1>3, <1>6, <2>1
  <2>3. Arrivals(move, x) \subseteq Message
    BY <1>4
  <2>4. msgs'[x] \subseteq Message
    BY <1>2, <1>5, <2>1, <2>3
  <2> QED
    BY <2>2, <2>4
<1>12. TypeOK'
  BY <1>8, <1>9, <1>10, <1>11 DEF Keyed, TypeOK
<1>13. BucketKeys'
  <2> SUFFICES ASSUME NEW x \in Queue
               PROVE  /\ \A m \in msgs'[x] : m.seq \in 1..lastSeq'[x]
                      /\ \A m, k \in msgs'[x] : m.seq = k.seq => m = k
    BY DEF BucketKeys
  <2>1. /\ lastSeq[x] \in Nat
        /\ \A m \in msgs[x] : m.seq \in 1..lastSeq[x]
        /\ \A m, k \in msgs[x] : m.seq = k.seq => m = k
        /\ \A m \in Arrivals(move, x) : m.seq \in Nat
    BY <1>4 DEF Keyed, TypeOK, BucketKeys, Message
  <2>2. CASE x = q
    <3>1. msgs'[x] = (msgs[x] \ gone) \cup taken
      BY <1>5, <2>2
    <3>2. \A m \in taken : m.seq \in 1..lastSeq[x]
      BY <1>1, <1>2, <2>1, <2>2
    <3>3. \A m \in msgs[x] \ gone, k \in taken : m.seq # k.seq
      BY <1>1, <1>2, <1>7, <2>1, <2>2
    <3>4. \A m, k \in msgs'[x] : m.seq = k.seq => m = k
      BY <1>2, <2>1, <3>1, <3>3
    <3>5. \A m \in msgs'[x] : m.seq \in 1..lastSeq[x]
      BY <2>1, <3>1, <3>2
    <3> QED
      BY <1>3, <1>6, <2>1, <3>4, <3>5
  <2>3. CASE x # q /\ x = target
    <3>1. msgs'[x] = msgs[x] \cup Arrivals(move, x) /\ lastSeq'[x] = lastSeq[x] + n
      BY <1>5, <1>6, <2>3
    <3> QED
      BY <1>3, <1>4, <2>1, <3>1
  <2>4. CASE x # q /\ x # target
    <3>1. msgs'[x] = msgs[x] /\ lastSeq'[x] = lastSeq[x]
      BY <1>5, <1>6, <2>4
    <3> QED
      BY <2>1, <3>1
  <2> QED
    BY <2>2, <2>3, <2>4
<1> QED
  BY <1>12, <1>13 DEF Keyed

\* Peeking, deleting and changing the visibility by handle.
LEMMA HandleKeyed ==
  ASSUME Keyed, NEW q \in Queue,
         \/ \E max \in 1..MaxBatch : Peek(q, max)
         \/ \E H \in SUBSET handles : DeleteBatch(q, H)
         \/ \E H \in SUBSET handles : \E t \in [H -> Timeouts] :
              ChangeVisibilityBatch(q, t)
  PROVE  Keyed'
<1>1. ASSUME NEW max \in 1..MaxBatch, Peek(q, max)
      PROVE  Keyed'
  <2>1. \A S \in SUBSET msgs[q] : HandlesOf(S) \subseteq Handle
    BY DEF HandlesOf, Handle, Keyed, TypeOK, Message
  <2>2. handles' \subseteq Handle
    BY <1>1, <2>1 DEF Peek, Keyed, TypeOK
  <2>3. UNCHANGED <<live, cfg, msgs, lastSeq, dedup, sweep, now, fate, admitted>>
    BY <1>1 DEF Peek
  <2> QED
    BY <2>2, <2>3 DEF Keyed, TypeOK, BucketKeys
<1>2. ASSUME NEW H \in SUBSET handles, DeleteBatch(q, H)
      PROVE  Keyed'
  <2>1. fate' \in [MsgId -> Fate]
    BY <1>2, MarkType DEF DeleteBatch, Fate, Keyed
  <2>2. /\ msgs' = [msgs EXCEPT ![q] = @ \ Named(q, H)]
        /\ UNCHANGED <<live, cfg, lastSeq, dedup, handles, sweep, now, admitted>>
    BY <1>2 DEF DeleteBatch
  <2>3. TypeOK'
    BY <2>1, <2>2 DEF Keyed, TypeOK
  <2>4. BucketKeys'
    BY <2>2 DEF Keyed, TypeOK, BucketKeys
  <2> QED
    BY <2>3, <2>4 DEF Keyed
<1>3. ASSUME NEW H \in SUBSET handles, NEW t \in [H -> Timeouts],
             ChangeVisibilityBatch(q, t)
      PROVE  Keyed'
  <2> DEFINE hit == Named(q, H)
             new == Retimed(hit, t)
  <2>1. H \in SUBSET Handle
    BY DEF Keyed, TypeOK
  <2>2. /\ new \subseteq Message
        /\ \A x \in new : \E m \in hit : x.seq = m.seq /\ x.id = m.id
        /\ \A x, y \in new : x.seq = y.seq => x = y
    BY <2>1, RetimedFacts
  <2>3. hit \subseteq msgs[q]
    BY DEF Named
  <2>4. /\ msgs' = [msgs EXCEPT ![q] = (@ \ hit) \cup new]
        /\ UNCHANGED <<live, cfg, lastSeq, dedup, handles, sweep, now, fate, admitted>>
    BY <1>3 DEF ChangeVisibilityBatch
  <2> HIDE DEF hit, new
  <2>5. TypeOK'
    BY <2>2, <2>4 DEF Keyed, TypeOK
  <2>6. BucketKeys'
    <3> SUFFICES ASSUME NEW x \in Queue
                 PROVE  /\ \A m \in msgs'[x] : m.seq \in 1..lastSeq[x]
                        /\ \A m, k \in msgs'[x] : m.seq = k.seq => m = k
      BY <2>4 DEF BucketKeys
    <3>1. /\ \A m \in msgs[x] : m.seq \in 1..lastSeq[x]
          /\ \A m, k \in msgs[x] : m.seq = k.seq => m = k
      BY DEF Keyed, BucketKeys
    <3>2. msgs'[x] = IF x = q THEN (msgs[q] \ hit) \cup new ELSE msgs[x]
      BY <2>4 DEF Keyed, TypeOK
    <3> QED
      BY <2>2, <2>3, <3>1, <3>2
  <2> QED
    BY <2>5, <2>6 DEF Keyed
<1> QED
  BY <1>1, <1>2, <1>3

\* A move task: the source is emptied and its messages are appended to the
\* destination, which may be the source itself.
LEMMA MoveKeyed ==
  ASSUME Keyed, NEW src \in Queue, NEW dst \in Queue,
         StartMessageMoveTask(src, dst)
  PROVE  Keyed'
<1> DEFINE new == Arrivals(msgs[src], dst)
           n == Cardinality(msgs[src])
<1>1. /\ new \subseteq Message
      /\ \A m \in new : m.seq > lastSeq[dst] /\ m.seq <= lastSeq[dst] + n
      /\ \A m, k \in new : m.seq = k.seq => m = k
  BY ArrivalsFacts
<1>2. n \in Nat
  BY BucketFinite
<1>3. \A x \in Queue :
        msgs'[x] = IF x = dst THEN (IF src = dst THEN {} ELSE msgs[x]) \cup new
                   ELSE IF x = src THEN {}
                   ELSE msgs[x]
  BY DEF StartMessageMoveTask
<1>4. \A x \in Queue :
        lastSeq'[x] = IF x = dst THEN lastSeq[x] + n ELSE lastSeq[x]
  BY DEF StartMessageMoveTask, Keyed, TypeOK
<1>5. /\ msgs' = [x \in Queue |-> msgs'[x]]
      /\ lastSeq' = [x \in Queue |-> lastSeq'[x]]
      /\ UNCHANGED <<live, cfg, dedup, handles, sweep, now, fate, admitted>>
  BY DEF StartMessageMoveTask, Keyed, TypeOK
<1> HIDE DEF new, n
<1>6. \A x \in Queue :
        /\ msgs[x] \subseteq Message
        /\ lastSeq[x] \in Nat
        /\ \A m \in msgs[x] : m.seq \in 1..lastSeq[x]
        /\ \A m, k \in msgs[x] : m.seq = k.seq => m = k
  BY DEF Keyed, TypeOK, BucketKeys
<1>7. \A m \in new : m.seq \in Nat
  BY <1>1 DEF Message
<1>8. \A x \in Queue :
        /\ msgs'[x] \subseteq Message
        /\ lastSeq'[x] \in Nat
        /\ \A m \in msgs'[x] : m.seq \in 1..lastSeq'[x]
        /\ \A m, k \in msgs'[x] : m.seq = k.seq => m = k
  <2> SUFFICES ASSUME NEW x \in Queue
               PROVE  /\ msgs'[x] \subseteq Message
                      /\ lastSeq'[x] \in Nat
                      /\ \A m \in msgs'[x] : m.seq \in 1..lastSeq'[x]
                      /\ \A m, k \in msgs'[x] : m.seq = k.seq => m = k
    OBVIOUS
  <2>1. CASE x = dst
    <3>1. lastSeq'[x] = lastSeq[x] + n
      BY <1>4, <2>1
    <3>2. msgs'[x] \subseteq msgs[x] \cup new
      BY <1>3, <2>1
    <3> QED
      BY <1>1, <1>2, <1>6, <1>7, <2>1, <3>1, <3>2
  <2>2. CASE x # dst
    <3>1. lastSeq'[x] = lastSeq[x] /\ msgs'[x] \subseteq msgs[x]
      BY <1>3, <1>4, <2>2
    <3> QED
      BY <1>6, <3>1
  <2> QED
    BY <2>1, <2>2
<1>9. TypeOK'
  BY <1>5, <1>8 DEF Keyed, TypeOK
<1>10. BucketKeys'
  BY <1>8 DEF BucketKeys
<1> QED
  BY <1>9, <1>10 DEF Keyed

\* The janitor only takes messages and dedup entries away.
LEMMA JanitorKeyed ==
  ASSUME Keyed, Janitor
  PROVE  Keyed'
<1>1. CASE SweepBegin
  BY <1>1 DEF SweepBegin, Keyed, TypeOK, BucketKeys
<1>2. ASSUME NEW q \in Queue, SweepQueue(q)
      PROVE  Keyed'
  <2> DEFINE stale == {m \in msgs[q] : Expired(cfg[q], m, sweep.at)}
  <2>1. Mark(Ids(stale), "expired") \in [MsgId -> Fate]
    BY MarkType DEF Fate, Keyed
  <2>2. Pruned(dedup[q]) \subseteq dedup[q]
    BY DEF Pruned
  <2>3. /\ msgs' \in {msgs, [msgs EXCEPT ![q] = @ \ stale]}
        /\ fate' \in {fate, Mark(Ids(stale), "expired")}
        /\ dedup' \in {dedup, [dedup EXCEPT ![q] = Pruned(@)]}
        /\ sweep' = [sweep EXCEPT !.todo = @ \ {q}]
        /\ UNCHANGED <<live, cfg, lastSeq, handles, now, admitted>>
    BY <1>2 DEF SweepQueue
  <2> HIDE DEF stale
  <2>4. sweep' \in [todo : SUBSET Queue, at : Nat]
    BY <2>3 DEF Keyed, TypeOK
  <2>5. TypeOK'
    BY <2>1, <2>2, <2>3, <2>4 DEF Keyed, TypeOK
  <2>6. BucketKeys'
    BY <2>3 DEF Keyed, TypeOK, BucketKeys
  <2> QED
    BY <2>5, <2>6 DEF Keyed
<1> QED
  BY <1>1, <1>2 DEF Janitor

\* One step of the store, whichever operation it is.
LEMMA KeyedStep == Keyed /\ [Next]_vars => Keyed'
<1> SUFFICES ASSUME Keyed, [Next]_vars PROVE Keyed'
  OBVIOUS
<1>1. ASSUME NEW q \in Queue, Define(q)
      PROVE  Keyed'
  BY <1>1, DefineKeyed, DropKeyed DEF Define
<1>2. ASSUME NEW q \in Queue, Remove(q)
      PROVE  Keyed'
  BY <1>2, DropKeyed DEF Remove
<1>3. ASSUME NEW q \in Queue, Send(q)
      PROVE  Keyed'
  BY <1>3, SendKeyed DEF Send
<1>4. ASSUME NEW q \in Queue, Receive(q)
      PROVE  Keyed'
  <2>1. PICK max \in 1..MaxBatch, override \in Timeouts \cup {NoOverride} :
          ReceiveOnce(q, max, override)
    BY <1>4 DEF Receive
  <2>2. max \in Nat
    BY ConstantsAssumption
  <2> QED
    BY <2>1, <2>2, ReceiveKeyed
<1>5. ASSUME NEW q \in Queue, UseHandles(q)
      PROVE  Keyed'
  BY <1>5, HandleKeyed DEF UseHandles
<1>6. ASSUME NEW q \in Queue, MoveTo(q)
      PROVE  Keyed'
  BY <1>6, MoveKeyed DEF MoveTo
<1>7. CASE Janitor
  BY <1>7, JanitorKeyed
<1>8. CASE Tick
  BY <1>8, ConstantsAssumption DEF Tick, Keyed, TypeOK, BucketKeys
<1>9. CASE UNCHANGED vars
  BY <1>9 DEF vars, Keyed, TypeOK, BucketKeys
<1> QED
  BY <1>1, <1>2, <1>3, <1>4, <1>5, <1>6, <1>7, <1>8, <1>9 DEF Next

-----------------------------------------------------------------------------
(* The theorems.                                                           *)

\* Types and keys hold in every reachable state of the store.
THEOREM KeyedAlways == Spec => []Keyed
BY InitKeyed, KeyedStep, PTL DEF Spec

\* Whatever callers and the janitor do, the buckets hold what they should.
THEOREM TypeCorrect == Spec => []TypeOK
<1>1. Keyed => TypeOK
  BY DEF Keyed
<1> QED
  BY <1>1, KeyedAlways, PTL

\* No two stored messages of a queue share a number, and the next number is
\* unused: no send, redrive or move task overwrites a stored message.
THEOREM KeysUnique == Spec => []BucketKeys
<1>1. Keyed => BucketKeys
  BY DEF Keyed
<1> QED
  BY <1>1, KeyedAlways, PTL

=============================================================================
