--------------------------- MODULE SqsStoreSafety ---------------------------
(***************************************************************************)
(* Proofs that the store of SqsStore neither loses nor doubles a message,  *)
(* that retention and deletion only take what they may, that the           *)
(* deduplication window is exact, that FIFO groups are delivered in order  *)
(* and one message at a time, and that redrive bounds the receives.        *)
(***************************************************************************)
EXTENDS SqsStoreProofs

\* Where the messages are: an id occurs once, in a queue that exists, exactly
\* while its fate is "stored".  Redriving appends to another bucket than the
\* one it empties because no queue is its own dead-letter queue.
Apart ==
  /\ \A q \in Queue : DistinctIds(msgs[q])
  /\ \A p, q \in Queue : p # q => Ids(msgs[p]) \cap Ids(msgs[q]) = {}

Accounted ==
  \A i \in MsgId : fate[i] = "stored" <=> \E q \in Queue : i \in Ids(msgs[q])

GoneEmpty == \A q \in Queue : q \notin live => msgs[q] = {}

NoSelfTarget == \A q \in Queue : cfg[q].DeadLetterTarget # q

Homes == Keyed /\ Apart /\ Accounted /\ GoneEmpty /\ NoSelfTarget

\* The inductive invariant Homes is strong enough for OneHome.
LEMMA HomesOneHome == Homes => OneHome
<1> SUFFICES ASSUME Homes PROVE OneHome
  OBVIOUS
<1>1. \A i \in MsgId : fate[i] = "stored" <=> \E q \in live : i \in Ids(msgs[q])
  <2>1. \A q \in Queue, i \in MsgId : i \in Ids(msgs[q]) => q \in live
    BY DEF Homes, GoneEmpty, Ids
  <2>2. live \subseteq Queue
    BY DEF Homes, Keyed, TypeOK
  <2> QED
    BY <2>1, <2>2 DEF Homes, Accounted
<1>2. ASSUME NEW p \in Queue, NEW q \in Queue, NEW m \in msgs[p], NEW n \in msgs[q],
             m.id = n.id
      PROVE  p = q /\ m = n
  <2>1. m.id \in Ids(msgs[p]) /\ m.id \in Ids(msgs[q])
    BY <1>2 DEF Ids
  <2>2. p = q
    BY <2>1 DEF Homes, Apart
  <2> QED
    BY <1>2, <2>2 DEF Homes, Apart, DistinctIds
<1> QED
  BY <1>1, <1>2 DEF OneHome

\* The ids of a part of a bucket, and of the rest.
LEMMA IdsOfParts ==
  ASSUME NEW B, DistinctIds(B), NEW S \in SUBSET B
  PROVE  /\ Ids(B \ S) = Ids(B) \ Ids(S)
         /\ Ids(S) \subseteq Ids(B)
         /\ DistinctIds(S) /\ DistinctIds(B \ S)
BY DEF DistinctIds, Ids

\* The ids of two buckets put together.
LEMMA IdsOfUnion ==
  ASSUME NEW A, NEW B
  PROVE  /\ Ids(A \cup B) = Ids(A) \cup Ids(B)
         /\ /\ DistinctIds(A) /\ DistinctIds(B)
            /\ Ids(A) \cap Ids(B) = {}
            => DistinctIds(A \cup B)
<1>1. Ids(A \cup B) = Ids(A) \cup Ids(B)
  BY DEF Ids
<1>2. ASSUME DistinctIds(A), DistinctIds(B), Ids(A) \cap Ids(B) = {}
      PROVE  DistinctIds(A \cup B)
  <2> SUFFICES ASSUME NEW m \in A \cup B, NEW n \in A \cup B, m.id = n.id
               PROVE  m = n
    BY DEF DistinctIds
  <2>1. /\ m \in A => m.id \in Ids(A)
        /\ m \in B => m.id \in Ids(B)
        /\ n \in A => n.id \in Ids(A)
        /\ n \in B => n.id \in Ids(B)
    BY DEF Ids
  <2> QED
    BY <1>2, <2>1 DEF DistinctIds
<1> QED
  BY <1>1, <1>2

\* Every operation but a send takes ids out of one queue, for good (drop) or
\* to another queue (move), and accounts for the ones that are gone.
Relocated(q, to, drop, move, f) ==
  /\ drop \subseteq Ids(msgs[q]) /\ move \subseteq Ids(msgs[q])
  /\ drop \cap move = {}
  /\ move # {} => to \in Queue /\ to # q
  /\ f # "stored" /\ fate' = Mark(drop, f)
  /\ \A x \in Queue : DistinctIds(msgs'[x])
  /\ \A x \in Queue :
       Ids(msgs'[x]) = IF x = q THEN Ids(msgs[q]) \ (drop \cup move)
                       ELSE IF x = to THEN Ids(msgs[x]) \cup move
                       ELSE Ids(msgs[x])

\* Such a step leaves every id in one place and every fate right.
LEMMA Relocate ==
  ASSUME Homes, NEW q \in Queue, NEW to, NEW drop, NEW move, NEW f,
         Relocated(q, to, drop, move, f)
  PROVE  Apart' /\ Accounted'
<1> USE DEF Relocated
<1>1. \A p, x \in Queue : p # x => Ids(msgs[p]) \cap Ids(msgs[x]) = {}
  BY DEF Homes, Apart
<1>2. \A p, x \in Queue : p # x => Ids(msgs'[p]) \cap Ids(msgs'[x]) = {}
  BY <1>1
<1>3. \A i \in MsgId : fate'[i] = IF i \in drop THEN f ELSE fate[i]
  BY DEF Mark
<1>4. ASSUME NEW i \in MsgId
      PROVE  fate'[i] = "stored" <=> \E x \in Queue : i \in Ids(msgs'[x])
  <2>1. fate[i] = "stored" <=> \E x \in Queue : i \in Ids(msgs[x])
    BY DEF Homes, Accounted
  <2>2. CASE i \in drop
    <3>1. \A x \in Queue : i \in Ids(msgs[x]) => x = q
      BY <1>1, <2>2
    <3>2. \A x \in Queue : i \notin Ids(msgs'[x])
      BY <2>2, <3>1
    <3> QED
      BY <1>3, <2>2, <3>2
  <2>3. CASE i \in move
    <3>1. i \in Ids(msgs'[to]) /\ to \in Queue
      BY <2>3
    <3>2. i \notin drop /\ i \in Ids(msgs[q])
      BY <2>3
    <3> QED
      BY <1>3, <2>1, <3>1, <3>2
  <2>4. CASE i \notin drop \cup move
    <3>1. \A x \in Queue : i \in Ids(msgs'[x]) <=> i \in Ids(msgs[x])
      BY <2>4
    <3> QED
      BY <1>3, <2>1, <2>4, <3>1
  <2> QED
    BY <2>2, <2>3, <2>4
<1> QED
  BY <1>2, <1>4 DEF Apart, Accounted

-----------------------------------------------------------------------------
(* Every operation keeps the messages where they can be found.             *)

\* A new store has no messages to account for.
LEMMA InitHomes == Init => Homes
<1> SUFFICES ASSUME Init PROVE Homes
  OBVIOUS
<1>1. Keyed
  BY InitKeyed
<1>2. Apart /\ Accounted /\ GoneEmpty
  BY DEF Init, Apart, Accounted, GoneEmpty, DistinctIds, Ids
<1>3. NoSelfTarget
  BY ConstantsAssumption DEF Init, NoSelfTarget
<1> QED
  BY <1>1, <1>2, <1>3 DEF Homes

\* An accepted redrive policy names another queue.
LEMMA AcceptedTarget ==
  ASSUME NEW q \in Queue, NEW c, NEW a, AttrsAccepted(q, c, a),
         c.DeadLetterTarget # q
  PROVE  ApplyAttrs(c, a).DeadLetterTarget # q
<1>1. CASE "RedrivePolicy" \notin DOMAIN a
  BY <1>1 DEF ApplyAttrs
<1>2. CASE "RedrivePolicy" \in DOMAIN a /\ a.RedrivePolicy = NoQueue
  BY <1>2, ConstantsAssumption DEF ApplyAttrs
<1>3. CASE "RedrivePolicy" \in DOMAIN a /\ a.RedrivePolicy # NoQueue
  <2>1. a.RedrivePolicy.target # q
    BY <1>3 DEF AttrsAccepted, RedriveAccepted
  <2> QED
    BY <1>3, <2>1 DEF ApplyAttrs
<1> QED
  BY <1>1, <1>2, <1>3

\* CreateQueue and SetQueueAttributes leave the messages alone and never make
\* a queue its own dead-letter queue.
LEMMA DefineHomes ==
  ASSUME Homes, NEW q \in Queue, NEW a \in AttrCalls,
         CreateQueue(q, a) \/ SetAttributes(q, a)
  PROVE  Homes'
<1>1. Keyed'
  BY DefineKeyed DEF Homes
<1>2. UNCHANGED <<msgs, fate>> /\ live \subseteq live'
  BY DEF CreateQueue, SetAttributes
<1>3. Apart' /\ Accounted' /\ GoneEmpty'
  BY <1>2 DEF Homes, Apart, Accounted, GoneEmpty
<1>4. NoSelfTarget'
  <2>1. \A x \in Queue : cfg[x].DeadLetterTarget # x
    BY DEF Homes, NoSelfTarget
  <2>2. CASE CreateQueue(q, a)
    <3> DEFINE c == [DefaultConfig EXCEPT !.FIFO = Attr(a, "FifoQueue", FALSE)]
    <3>1. c.DeadLetterTarget # q
      BY ConstantsAssumption DEF Config
    <3>2. AttrsAccepted(q, c, a) /\ cfg' = [cfg EXCEPT ![q] = ApplyAttrs(c, a)]
      BY <2>2 DEF CreateQueue
    <3> HIDE DEF c
    <3>3. ApplyAttrs(c, a).DeadLetterTarget # q
      BY <3>1, <3>2, AcceptedTarget
    <3> QED
      BY <2>1, <3>2, <3>3 DEF Homes, Keyed, TypeOK, NoSelfTarget
  <2>3. CASE SetAttributes(q, a)
    <3>1. /\ AttrsAccepted(q, cfg[q], a)
          /\ cfg' = [cfg EXCEPT ![q] = ApplyAttrs(cfg[q], a)]
      BY <2>3 DEF SetAttributes
    <3>2. ApplyAttrs(cfg[q], a).DeadLetterTarget # q
      BY <2>1, <3>1, AcceptedTarget
    <3> QED
      BY <2>1, <3>1, <3>2 DEF Homes, Keyed, TypeOK, NoSelfTarget
  <2> QED
    BY <2>2, <2>3
<1> QED
  BY <1>1, <1>3, <1>4 DEF Homes

\* Taking the messages S out of queue q and giving them a final fate.
LEMMA TakeOut ==
  ASSUME Homes, NEW q \in Queue, NEW S \in SUBSET msgs[q],
         NEW f, f # "stored", fate' = Mark(Ids(S), f),
         msgs' = [msgs EXCEPT ![q] = @ \ S]
  PROVE  /\ Apart' /\ Accounted'
         /\ \A x \in Queue : msgs[x] = {} => msgs'[x] = {}
<1>1. \A x \in Queue : msgs'[x] = IF x = q THEN msgs[q] \ S ELSE msgs[x]
  BY DEF Homes, Keyed, TypeOK
<1>2. /\ \A x \in Queue : DistinctIds(msgs[x])
      /\ Ids(msgs[q] \ S) = Ids(msgs[q]) \ Ids(S)
      /\ Ids(S) \in SUBSET Ids(msgs[q])
      /\ DistinctIds(msgs[q] \ S)
  BY IdsOfParts DEF Homes, Apart
<1>3. \A x \in Queue : DistinctIds(msgs'[x])
  BY <1>1, <1>2
<1>4. \A x \in Queue :
        Ids(msgs'[x]) = IF x = q THEN Ids(msgs[q]) \ Ids(S) ELSE Ids(msgs[x])
  BY <1>1, <1>2
<1>5. Relocated(q, NoQueue, Ids(S), {}, f)
  BY <1>2, <1>3, <1>4 DEF Relocated
<1>6. Apart' /\ Accounted'
  BY <1>5, Relocate
<1> QED
  BY <1>1, <1>6

\* DeleteQueue and PurgeQueue account for every message they drop.
LEMMA DropHomes ==
  ASSUME Homes, NEW q \in Queue, DeleteQueue(q) \/ Purge(q)
  PROVE  Homes'
<1>1. Keyed'
  BY DropKeyed DEF Homes
<1>2. /\ msgs' = [msgs EXCEPT ![q] = {}]
      /\ fate' = Mark(Ids(msgs[q]), "purged")
      /\ live' \in {live, live \ {q}}
  BY DEF DeleteQueue, Purge
<1>3. msgs' = [msgs EXCEPT ![q] = @ \ msgs[q]]
  BY <1>2
<1>4. Apart' /\ Accounted'
  BY <1>2, <1>3, TakeOut
<1>5. GoneEmpty'
  BY <1>2 DEF Homes, Keyed, TypeOK, GoneEmpty
<1>6. cfg' \in {cfg, [cfg EXCEPT ![q] = DefaultConfig]}
  BY DEF DeleteQueue, Purge
<1>7. NoSelfTarget'
  BY <1>6, ConstantsAssumption DEF Homes, Keyed, TypeOK, NoSelfTarget
<1> QED
  BY <1>1, <1>4, <1>5, <1>7 DEF Homes

\* A send stores fresh ids, each once, in a queue that exists.
LEMMA SendHomes ==
  ASSUME Homes, NEW q \in Queue, NEW b \in Batches,
         NEW ids \in [Enqueued(q, b) -> MsgId], SendBatch(q, b, ids)
  PROVE  Homes'
<1> DEFINE new == Posted(q, b, ids)
           I == {ids[i] : i \in Enqueued(q, b)}
<1>1. Keyed'
  BY SendKeyed DEF Homes
<1>2. Ids(new) = I /\ DistinctIds(new)
  BY PostedFacts DEF Homes, SendBatch
<1>3. /\ \A i \in I : fate[i] = "unsent"
      /\ I \subseteq MsgId
      /\ fate' = Mark(I, "stored")
      /\ msgs' = [msgs EXCEPT ![q] = @ \cup new]
      /\ q \in live
      /\ UNCHANGED <<live, cfg>>
  BY DEF SendBatch
<1> HIDE DEF new, I
<1>4. \A x \in Queue : msgs'[x] = IF x = q THEN msgs[q] \cup new ELSE msgs[x]
  BY <1>3 DEF Homes, Keyed, TypeOK
<1>5. \A x \in Queue : I \cap Ids(msgs[x]) = {}
  BY <1>3 DEF Homes, Accounted
<1>6. \A x \in Queue :
        Ids(msgs'[x]) = IF x = q THEN Ids(msgs[q]) \cup I ELSE Ids(msgs[x])
  BY <1>2, <1>4, IdsOfUnion
<1>7. \A x \in Queue : DistinctIds(msgs'[x])
  <2>1. \A x \in Queue : DistinctIds(msgs[x])
    BY DEF Homes, Apart
  <2>2. DistinctIds(msgs[q] \cup new)
    BY <1>2, <1>5, <2>1, IdsOfUnion
  <2> QED
    BY <1>4, <2>1, <2>2
<1>8. Apart'
  <2>1. \A p, x \in Queue : p # x => Ids(msgs[p]) \cap Ids(msgs[x]) = {}
    BY DEF Homes, Apart
  <2>2. \A p, x \in Queue : p # x => Ids(msgs'[p]) \cap Ids(msgs'[x]) = {}
    BY <1>5, <1>6, <2>1
  <2> QED
    BY <1>7, <2>2 DEF Apart
<1>9. Accounted'
  <2>1. \A i \in MsgId : fate'[i] = IF i \in I THEN "stored" ELSE fate[i]
    BY <1>3 DEF Mark
  <2>2. \A i \in MsgId : fate[i] = "stored" <=> \E x \in Queue : i \in Ids(msgs[x])
    BY DEF Homes, Accounted
  <2>3. \A i \in MsgId :
          (\E x \in Queue : i \in Ids(msgs'[x]))
            <=> i \in I \/ \E x \in Queue : i \in Ids(msgs[x])
    BY <1>6
  <2> QED
    BY <2>1, <2>2, <2>3 DEF Accounted
<1>10. GoneEmpty' /\ NoSelfTarget'
  BY <1>3, <1>4 DEF Homes, GoneEmpty, NoSelfTarget
<1> QED
  BY <1>1, <1>8, <1>9, <1>10 DEF Homes

\* One delivery pass: expired messages are accounted for, exhausted ones move
\* to the dead-letter queue, delivered ones are stored again.
LEMMA ReceiveHomes ==
  ASSUME Homes, NEW q \in Queue, NEW max \in Nat,
         NEW override \in Timeouts \cup {NoOverride},
         ReceiveOnce(q, max, override)
  PROVE  Homes'
<1> DEFINE out == Deliver(q, max)
           drop == ToExpire(q, max)
           move == ToMove(q, max)
           gone == out \cup drop \cup move
           taken == Taken(q, max, override)
           target == cfg[q].DeadLetterTarget
<1>1. Keyed' /\ Keyed
  BY ReceiveKeyed DEF Homes
<1>2. out \in SUBSET msgs[q] /\ drop \in SUBSET msgs[q] /\ move \in SUBSET msgs[q]
  BY DEF Deliver, Heads, Ready, Open, ToExpire, Walked, ToMove
<1>3. \A m \in msgs[q] : /\ m \in drop => m \notin out /\ m \notin move
                         /\ m \in move => m \notin out
  BY DEF Deliver, Heads, Ready, Open, ToExpire, Walked, ToMove
<1>4. Ids(taken) = Ids(out) /\ (DistinctIds(out) => DistinctIds(taken))
  BY <1>1, TakenFacts
<1>5. \A d \in Queue : /\ Ids(Arrivals(move, d)) = Ids(move)
                       /\ DistinctIds(move) => DistinctIds(Arrivals(move, d))
  BY <1>1, <1>2, ArrivalsFacts
<1>6. move # {} => target \in live
  BY DEF ToMove
<1>7. target # q /\ live \subseteq Queue
  BY DEF Homes, NoSelfTarget, Keyed, TypeOK
<1>8. \A x \in Queue :
        msgs'[x] = IF x = q THEN (msgs[q] \ gone) \cup taken
                   ELSE IF x = target THEN msgs[x] \cup Arrivals(move, x)
                   ELSE msgs[x]
  BY DEF ReceiveOnce
<1>9. /\ fate' = Mark(Ids(drop), "expired")
      /\ q \in live
      /\ UNCHANGED <<live, cfg>>
  BY DEF ReceiveOnce
<1>10. move = {} => \A x \in Queue : Arrivals(move, x) = {}
  BY DEF Arrivals
<1> HIDE DEF out, drop, move, taken, target
<1>11. /\ \A x \in Queue : DistinctIds(msgs[x])
       /\ \A p, x \in Queue : p # x => Ids(msgs[p]) \cap Ids(msgs[x]) = {}
  BY DEF Homes, Apart
<1>12. /\ DistinctIds(out) /\ DistinctIds(move)
       /\ Ids(out) \subseteq Ids(msgs[q])
       /\ Ids(drop) \in SUBSET Ids(msgs[q])
       /\ Ids(move) \in SUBSET Ids(msgs[q])
  BY <1>2, <1>11, IdsOfParts
<1>13. /\ Ids(drop) \cap Ids(move) = {}
       /\ Ids(drop) \cap Ids(out) = {}
       /\ Ids(move) \cap Ids(out) = {}
  BY <1>2, <1>3, <1>11 DEF Ids, DistinctIds
<1>14. gone \in SUBSET msgs[q] /\ Ids(gone) = Ids(out) \cup Ids(drop) \cup Ids(move)
  BY <1>2 DEF Ids
<1> HIDE DEF gone
<1>15. Ids(msgs[q] \ gone) = Ids(msgs[q]) \ Ids(gone) /\ DistinctIds(msgs[q] \ gone)
  BY <1>11, <1>14, IdsOfParts
<1>16. /\ DistinctIds((msgs[q] \ gone) \cup taken)
       /\ Ids((msgs[q] \ gone) \cup taken) = Ids(msgs[q]) \ (Ids(drop) \cup Ids(move))
  <2>1. Ids(msgs[q] \ gone) \cap Ids(taken) = {}
    BY <1>4, <1>14, <1>15
  <2>2. Ids((msgs[q] \ gone) \cup taken) = Ids(msgs[q] \ gone) \cup Ids(taken)
    BY IdsOfUnion
  <2>3. DistinctIds((msgs[q] \ gone) \cup taken)
    BY <1>4, <1>12, <1>15, <2>1, IdsOfUnion
  <2> QED
    BY <1>4, <1>12, <1>13, <1>14, <1>15, <2>2, <2>3
<1>17. ASSUME NEW x \in Queue, x # q
       PROVE  /\ DistinctIds(msgs[x] \cup Arrivals(move, x))
              /\ Ids(msgs[x] \cup Arrivals(move, x)) = Ids(msgs[x]) \cup Ids(move)
  <2>1. Ids(msgs[x]) \cap Ids(Arrivals(move, x)) = {}
    BY <1>5, <1>11, <1>12, <1>17
  <2>2. DistinctIds(msgs[x]) /\ DistinctIds(Arrivals(move, x))
    BY <1>5, <1>11, <1>12
  <2>3. DistinctIds(msgs[x] \cup Arrivals(move, x))
    BY <2>1, <2>2, IdsOfUnion
  <2>4. Ids(msgs[x] \cup Arrivals(move, x)) = Ids(msgs[x]) \cup Ids(Arrivals(move, x))
    BY IdsOfUnion
  <2> QED
    BY <1>5, <2>3, <2>4
<1>18. \A x \in Queue : DistinctIds(msgs'[x])
  BY <1>8, <1>11, <1>16, <1>17
<1>19. \A x \in Queue :
         Ids(msgs'[x]) = IF x = q THEN Ids(msgs[q]) \ (Ids(drop) \cup Ids(move))
                         ELSE IF x = target THEN Ids(msgs[x]) \cup Ids(move)
                         ELSE Ids(msgs[x])
  BY <1>8, <1>16, <1>17
<1>20. Ids(move) # {} => target \in Queue /\ target # q
  BY <1>6, <1>7 DEF Ids
<1>21. Relocated(q, target, Ids(drop), Ids(move), "expired")
  BY <1>9, <1>12, <1>13, <1>18, <1>19, <1>20 DEF Relocated
<1>22. Apart' /\ Accounted'
  BY <1>21, Relocate
<1>23. GoneEmpty'
  BY <1>6, <1>8, <1>9, <1>10 DEF Homes, GoneEmpty
<1>24. NoSelfTarget'
  BY <1>9 DEF Homes, NoSelfTarget
<1> QED
  BY <1>1, <1>22, <1>23, <1>24 DEF Homes

\* Peeking, deleting and changing the visibility by handle.
LEMMA HandleHomes ==
  ASSUME Homes, NEW q \in Queue,
         \/ \E max \in 1..MaxBatch : Peek(q, max)
         \/ \E H \in SUBSET handles : DeleteBatch(q, H)
         \/ \E H \in SUBSET handles : \E t \in [H -> Timeouts] :
              ChangeVisibilityBatch(q, t)
  PROVE  Homes'
<1>a. Keyed' /\ Keyed
  BY HandleKeyed DEF Homes
<1>b. UNCHANGED <<live, cfg>>
  BY DEF Peek, DeleteBatch, ChangeVisibilityBatch
<1>c. NoSelfTarget'
  BY <1>b DEF Homes, NoSelfTarget
<1>1. ASSUME NEW max \in 1..MaxBatch, Peek(q, max)
      PROVE  Apart' /\ Accounted' /\ GoneEmpty'
  BY <1>1 DEF Peek, Homes, Apart, Accounted, GoneEmpty
<1>2. ASSUME NEW H \in SUBSET handles, DeleteBatch(q, H)
      PROVE  Apart' /\ Accounted' /\ GoneEmpty'
  <2>1. /\ Named(q, H) \in SUBSET msgs[q]
        /\ fate' = Mark(Ids(Named(q, H)), "deleted")
        /\ msgs' = [msgs EXCEPT ![q] = @ \ Named(q, H)]
    BY <1>2 DEF DeleteBatch, Named
  <2>2. Apart' /\ Accounted' /\ \A x \in Queue : msgs[x] = {} => msgs'[x] = {}
    BY <2>1, TakeOut
  <2> QED
    BY <1>b, <2>2 DEF Homes, GoneEmpty
<1>3. ASSUME NEW H \in SUBSET handles, NEW t \in [H -> Timeouts],
             ChangeVisibilityBatch(q, t)
      PROVE  Apart' /\ Accounted' /\ GoneEmpty'
  <2> DEFINE hit == Named(q, H)
             new == Retimed(hit, t)
  <2>1. H \in SUBSET Handle
    BY <1>a DEF Keyed, TypeOK
  <2>2. Ids(new) = Ids(hit) /\ (DistinctIds(hit) => DistinctIds(new))
    BY <1>a, <2>1, RetimedFacts
  <2>3. hit \in SUBSET msgs[q]
    BY DEF Named
  <2>4. q \in live /\ msgs' = [msgs EXCEPT ![q] = (@ \ hit) \cup new]
    BY <1>3 DEF ChangeVisibilityBatch
  <2>5. UNCHANGED fate
    BY <1>3 DEF ChangeVisibilityBatch
  <2> HIDE DEF hit, new
  <2>6. \A x \in Queue : msgs'[x] = IF x = q THEN (msgs[q] \ hit) \cup new ELSE msgs[x]
    BY <1>a, <2>4 DEF Keyed, TypeOK
  <2>7. \A x \in Queue : DistinctIds(msgs[x])
    BY DEF Homes, Apart
  <2>8. /\ Ids(msgs[q] \ hit) = Ids(msgs[q]) \ Ids(hit)
        /\ Ids(hit) \subseteq Ids(msgs[q])
        /\ DistinctIds(hit) /\ DistinctIds(msgs[q] \ hit)
    BY <2>3, <2>7, IdsOfParts
  <2>9. /\ DistinctIds((msgs[q] \ hit) \cup new)
        /\ Ids((msgs[q] \ hit) \cup new) = Ids(msgs[q])
    <3>1. Ids(msgs[q] \ hit) \cap Ids(new) = {}
      BY <2>2, <2>8
    <3>2. DistinctIds((msgs[q] \ hit) \cup new)
      BY <2>2, <2>8, <3>1, IdsOfUnion
    <3>3. Ids((msgs[q] \ hit) \cup new) = Ids(msgs[q] \ hit) \cup Ids(new)
      BY IdsOfUnion
    <3> QED
      BY <2>2, <2>8, <3>2, <3>3
  <2>10. \A x \in Queue : Ids(msgs'[x]) = Ids(msgs[x]) /\ DistinctIds(msgs'[x])
    BY <2>6, <2>7, <2>9
  <2>11. Apart' /\ Accounted'
    BY <2>5, <2>10 DEF Homes, Apart, Accounted
  <2>12. GoneEmpty'
    BY <1>b, <2>4, <2>6 DEF Homes, GoneEmpty
  <2> QED
    BY <2>11, <2>12
<1> QED
  BY <1>a, <1>c, <1>1, <1>2, <1>3 DEF Homes

\* A move task, to another queue or within one.
LEMMA MoveHomes ==
  ASSUME Homes, NEW src \in Queue, NEW dst \in Queue,
         StartMessageMoveTask(src, dst)
  PROVE  Homes'
<1> DEFINE S == msgs[src]
           new == Arrivals(S, dst)
<1>1. Keyed' /\ Keyed
  BY MoveKeyed DEF Homes
<1>2. /\ \A x \in Queue : DistinctIds(msgs[x])
      /\ \A p, x \in Queue : p # x => Ids(msgs[p]) \cap Ids(msgs[x]) = {}
  BY DEF Homes, Apart
<1>3. Ids(new) = Ids(S) /\ DistinctIds(new)
  BY <1>1, <1>2, ArrivalsFacts
<1>4. \A x \in Queue :
        msgs'[x] = IF x = dst THEN (IF src = dst THEN {} ELSE msgs[x]) \cup new
                   ELSE IF x = src THEN {}
                   ELSE msgs[x]
  BY DEF StartMessageMoveTask
<1>5. src \in live /\ dst \in live /\ UNCHANGED <<live, cfg, fate>>
  BY DEF StartMessageMoveTask
<1> HIDE DEF new
<1>6. Ids({}) = {} /\ DistinctIds({})
  BY DEF Ids, DistinctIds
<1>7. Mark({}, "expired") = fate
  BY <1>1 DEF Mark, Keyed, TypeOK
<1>8. CASE src = dst
  <2>1. \A x \in Queue : DistinctIds(msgs'[x]) /\ Ids(msgs'[x]) = Ids(msgs[x])
    BY <1>2, <1>3, <1>4, <1>8
  <2> QED
    BY <1>1, <1>4, <1>5, <2>1
       DEF Homes, Apart, Accounted, GoneEmpty, NoSelfTarget
<1>9. CASE src # dst
  <2>1. /\ DistinctIds(msgs[dst] \cup new)
        /\ Ids(msgs[dst] \cup new) = Ids(msgs[dst]) \cup Ids(S)
    <3>1. Ids(msgs[dst]) \cap Ids(new) = {}
      BY <1>2, <1>3, <1>9
    <3>2. DistinctIds(msgs[dst] \cup new)
      BY <1>2, <1>3, <3>1, IdsOfUnion
    <3>3. Ids(msgs[dst] \cup new) = Ids(msgs[dst]) \cup Ids(new)
      BY IdsOfUnion
    <3> QED
      BY <1>3, <3>2, <3>3
  <2>2. \A x \in Queue : DistinctIds(msgs'[x])
    BY <1>2, <1>4, <1>6, <1>9, <2>1
  <2>3. \A x \in Queue :
          Ids(msgs'[x]) = IF x = src THEN {}
                          ELSE IF x = dst THEN Ids(msgs[x]) \cup Ids(S)
                          ELSE Ids(msgs[x])
    BY <1>4, <1>6, <1>9, <2>1
  <2>4. Relocated(src, dst, {}, Ids(S), "expired")
    BY <1>5, <1>7, <1>9, <2>2, <2>3 DEF Relocated
  <2>5. Apart' /\ Accounted'
    BY <2>4, Relocate
  <2>6. GoneEmpty' /\ NoSelfTarget'
    BY <1>4, <1>5 DEF Homes, GoneEmpty, NoSelfTarget
  <2> QED
    BY <1>1, <2>5, <2>6 DEF Homes
<1> QED
  BY <1>8, <1>9

\* The janitor accounts for every message it drops.
LEMMA JanitorHomes ==
  ASSUME Homes, Janitor
  PROVE  Homes'
<1>1. Keyed'
  BY JanitorKeyed DEF Homes
<1>2. UNCHANGED <<live, cfg>>
  BY DEF Janitor, SweepBegin, SweepQueue
<1>3. CASE UNCHANGED <<msgs, fate>>
  BY <1>1, <1>2, <1>3 DEF Homes, Apart, Accounted, GoneEmpty, NoSelfTarget
<1>4. ASSUME NEW q \in Queue, SweepQueue(q), q \in live
      PROVE  Homes'
  <2> DEFINE stale == {m \in msgs[q] : Expired(cfg[q], m, sweep.at)}
  <2>1. /\ stale \in SUBSET msgs[q]
        /\ fate' = Mark(Ids(stale), "expired")
        /\ msgs' = [msgs EXCEPT ![q] = @ \ stale]
    BY <1>4 DEF SweepQueue
  <2> HIDE DEF stale
  <2>2. Apart' /\ Accounted' /\ \A x \in Queue : msgs[x] = {} => msgs'[x] = {}
    BY <2>1, TakeOut
  <2> QED
    BY <1>1, <1>2, <2>2 DEF Homes, GoneEmpty, NoSelfTarget
<1>5. ASSUME NEW q \in Queue, SweepQueue(q), q \notin live
      PROVE  UNCHANGED <<msgs, fate>>
  BY <1>5 DEF SweepQueue
<1>6. SweepBegin => UNCHANGED <<msgs, fate>>
  BY DEF SweepBegin
<1> QED
  BY <1>3, <1>4, <1>5, <1>6 DEF Janitor

\* One step of the store, whichever operation it is.
LEMMA HomesStep == Homes /\ [Next]_vars => Homes'
<1> SUFFICES ASSUME Homes, [Next]_vars PROVE Homes'
  OBVIOUS
<1>1. ASSUME NEW q \in Queue, Define(q)
      PROVE  Homes'
  BY <1>1, DefineHomes, DropHomes DEF Define
<1>2. ASSUME NEW q \in Queue, Remove(q)
      PROVE  Homes'
  BY <1>2, DropHomes DEF Remove
<1>3. ASSUME NEW q \in Queue, Send(q)
      PROVE  Homes'
  BY <1>3, SendHomes DEF Send
<1>4. ASSUME NEW q \in Queue, Receive(q)
      PROVE  Homes'
  <2>1. PICK max \in 1..MaxBatch, override \in Timeouts \cup {NoOverride} :
          ReceiveOnce(q, max, override)
    BY <1>4 DEF Receive
  <2>2. max \in Nat
    BY ConstantsAssumption
  <2> QED
    BY <2>1, <2>2, ReceiveHomes
<1>5. ASSUME NEW q \in Queue, UseHandles(q)
      PROVE  Homes'
  BY <1>5, HandleHomes DEF UseHandles
<1>6. ASSUME NEW q \in Queue, MoveTo(q)
      PROVE  Homes'
  BY <1>6, MoveHomes DEF MoveTo
<1>7. CASE Janitor
  BY <1>7, JanitorHomes
<1>8. CASE Tick \/ UNCHANGED vars
  <2>1. Keyed'
    BY KeyedStep DEF Homes
  <2>2. UNCHANGED <<live, cfg, msgs, fate>>
    BY <1>8 DEF Tick, vars
  <2> QED
    BY <2>1, <2>2 DEF Homes, Apart, Accounted, GoneEmpty, NoSelfTarget
<1> QED
  BY <1>1, <1>2, <1>3, <1>4, <1>5, <1>6, <1>7, <1>8 DEF Next

\* The accounting holds in every reachable state of the store.
THEOREM HomesAlways == Spec => []Homes
BY InitHomes, HomesStep, PTL DEF Spec

\* Every accepted message is stored in exactly one existing queue until it is
\* deleted by a handle, expires or is purged, whatever queues, redrive
\* policies and move tasks there are.
THEOREM NoLossNoCopy == Spec => []OneHome
BY HomesOneHome, HomesAlways, PTL

-----------------------------------------------------------------------------
(* Deletion.                                                               *)

\* A step that gives an id the fate "deleted" is a deletion on a handle for
\* that id; handles are never taken back.
LEMMA IssuedStep ==
  ASSUME TypeOK, DeletedWasIssued, [Next]_vars
  PROVE  DeletedWasIssued'
<1> SUFFICES ASSUME NEW i \in MsgId, fate'[i] = "deleted"
             PROVE  \E h \in handles' : h.id = i
  BY DEF DeletedWasIssued
<1>1. \A S, f : f # "deleted" /\ fate' = Mark(S, f) => fate[i] = "deleted"
  BY DEF Mark
<1>2. fate[i] = "deleted" => \E h \in handles : h.id = i
  BY DEF DeletedWasIssued
<1>3. CASE UNCHANGED fate /\ handles \subseteq handles'
  BY <1>2, <1>3
<1>4. CASE \E S, f : f # "deleted" /\ fate' = Mark(S, f) /\ handles \subseteq handles'
  BY <1>1, <1>2, <1>4
<1>5. CASE \E q \in Queue : \E H \in SUBSET handles : DeleteBatch(q, H)
  <2>1. PICK q \in Queue, H \in SUBSET handles : DeleteBatch(q, H)
    BY <1>5
  <2>2. fate' = Mark(Ids(Named(q, H)), "deleted") /\ handles' = handles
    BY <2>1 DEF DeleteBatch
  <2>3. CASE i \in Ids(Named(q, H))
    BY <2>2, <2>3 DEF Ids, Named
  <2>4. CASE i \notin Ids(Named(q, H))
    BY <1>2, <2>2, <2>4 DEF Mark
  <2> QED
    BY <2>3, <2>4
<1>6. ASSUME NEW q \in Queue,
             Define(q) \/ Remove(q) \/ Send(q) \/ Receive(q) \/ MoveTo(q)
      PROVE  \/ UNCHANGED fate /\ handles \subseteq handles'
             \/ \E S, f : f # "deleted" /\ fate' = Mark(S, f) /\ handles \subseteq handles'
  <2>1. CASE Define(q)
    BY <2>1 DEF Define, CreateQueue, SetAttributes, Purge
  <2>2. CASE Remove(q)
    BY <2>2 DEF Remove, DeleteQueue
  <2>3. CASE Send(q)
    BY <2>3 DEF Send, SendBatch
  <2>4. CASE Receive(q)
    BY <2>4 DEF Receive, ReceiveOnce
  <2>5. CASE MoveTo(q)
    BY <2>5 DEF MoveTo, StartMessageMoveTask
  <2> QED
    BY <1>6, <2>1, <2>2, <2>3, <2>4, <2>5
<1>7. ASSUME NEW q \in Queue, UseHandles(q)
      PROVE  \/ UNCHANGED fate /\ handles \subseteq handles'
             \/ \E H \in SUBSET handles : DeleteBatch(q, H)
  BY <1>7 DEF UseHandles, Peek, ChangeVisibilityBatch
<1>8. ASSUME Janitor \/ Tick \/ UNCHANGED vars
      PROVE  \/ UNCHANGED fate /\ handles \subseteq handles'
             \/ \E S, f : f # "deleted" /\ fate' = Mark(S, f) /\ handles \subseteq handles'
  BY <1>8 DEF Janitor, SweepBegin, SweepQueue, Tick, vars
<1> QED
  BY <1>3, <1>4, <1>5, <1>6, <1>7, <1>8 DEF Next

\* DeleteMessage removes only what its handle was handed out for, also after
\* a purge has started the numbering again.
THEOREM DeletionByHandle == Spec => []DeletedWasIssued
<1>1. Init => DeletedWasIssued
  BY DEF Init, DeletedWasIssued
<1>2. TypeOK /\ DeletedWasIssued /\ [Next]_vars => DeletedWasIssued'
  BY IssuedStep
<1> QED
  BY <1>1, <1>2, TypeCorrect, PTL DEF Spec

-----------------------------------------------------------------------------
(* Retention.                                                              *)

\* The janitor's clock reading is never ahead.
SweepPast == sweep.at <= now

\* The clock only advances, and the janitor reads it when a sweep begins.
LEMMA SweepPastStep == TypeOK /\ SweepPast /\ [Next]_vars => SweepPast'
<1> SUFFICES ASSUME TypeOK, SweepPast, [Next]_vars PROVE SweepPast'
  OBVIOUS
<1>1. CASE sweep' = sweep /\ now' \in {now, now + 1}
  BY <1>1 DEF TypeOK, SweepPast
<1>2. CASE sweep' = [todo |-> live, at |-> now] /\ now' = now
  BY <1>2 DEF TypeOK, SweepPast
<1>3. CASE now' = now /\ \E q \in Queue : sweep' = [sweep EXCEPT !.todo = @ \ {q}]
  BY <1>3 DEF TypeOK, SweepPast
<1>4. ASSUME NEW q \in Queue,
             Define(q) \/ Remove(q) \/ Send(q) \/ Receive(q) \/ UseHandles(q) \/ MoveTo(q)
      PROVE  UNCHANGED <<sweep, now>>
  <2>1. Define(q) \/ Remove(q) => UNCHANGED <<sweep, now>>
    BY DEF Define, Remove, CreateQueue, SetAttributes, Purge, DeleteQueue
  <2>2. Send(q) => UNCHANGED <<sweep, now>>
    BY DEF Send, SendBatch
  <2>3. Receive(q) => UNCHANGED <<sweep, now>>
    BY DEF Receive, ReceiveOnce
  <2>4. UseHandles(q) => UNCHANGED <<sweep, now>>
    BY DEF UseHandles, Peek, DeleteBatch, ChangeVisibilityBatch
  <2>5. MoveTo(q) => UNCHANGED <<sweep, now>>
    BY DEF MoveTo, StartMessageMoveTask
  <2> QED
    BY <1>4, <2>1, <2>2, <2>3, <2>4, <2>5
<1>5. CASE Janitor
  BY <1>2, <1>3, <1>5 DEF Janitor, SweepBegin, SweepQueue
<1>6. CASE Tick \/ UNCHANGED vars
  BY <1>1, <1>6 DEF Tick, vars
<1> QED
  BY <1>1, <1>4, <1>5, <1>6 DEF Next

\* When the messages S of queue p expire, a stored message that is expired
\* now is one of them, because ids are apart.
LEMMA ExpiredOnce ==
  ASSUME Homes, NEW p \in Queue, NEW S \in SUBSET msgs[p],
         fate' = Mark(Ids(S), "expired"),
         NEW q \in Queue, NEW m \in msgs[q], fate'[m.id] = "expired"
  PROVE  p = q /\ m \in S
<1>1. m.id \in MsgId /\ m.id \in Ids(msgs[q])
  BY DEF Homes, Keyed, TypeOK, Message, Ids
<1>2. fate[m.id] = "stored"
  BY <1>1 DEF Homes, Accounted
<1>3. m.id \in Ids(S)
  BY <1>1, <1>2 DEF Mark
<1>4. PICK n \in S : n.id = m.id
  BY <1>3 DEF Ids
<1>5. m.id \in Ids(msgs[p])
  BY <1>4 DEF Ids
<1>6. p = q
  BY <1>1, <1>5 DEF Homes, Apart
<1> QED
  BY <1>4, <1>6 DEF Homes, Apart, DistinctIds

\* A step that expires a stored message is a receive or a sweep, and the
\* message is past the retention of its queue.
LEMMA ExpiryStep ==
  ASSUME Homes, SweepPast, [Next]_vars,
         NEW q \in Queue, NEW m \in msgs[q], fate'[m.id] = "expired"
  PROVE  now - m.sent > cfg[q].RetentionPeriod
<1>1. m.id \in MsgId /\ fate[m.id] = "stored"
  BY DEF Homes, Accounted, Keyed, TypeOK, Message, Ids
<1>2. \A S, f : f # "expired" /\ fate' = Mark(S, f) => FALSE
  BY <1>1 DEF Mark
<1>3. fate' # fate
  BY <1>1
<1>4. ASSUME NEW p \in Queue, Receive(p)
      PROVE  now - m.sent > cfg[q].RetentionPeriod
  <2>1. PICK max \in 1..MaxBatch, override \in Timeouts \cup {NoOverride} :
          ReceiveOnce(p, max, override)
    BY <1>4 DEF Receive
  <2>2. /\ ToExpire(p, max) \in SUBSET msgs[p]
        /\ fate' = Mark(Ids(ToExpire(p, max)), "expired")
    BY <2>1 DEF ReceiveOnce, ToExpire, Walked
  <2>3. p = q /\ m \in ToExpire(p, max)
    BY <2>2, ExpiredOnce
  <2> QED
    BY <2>3 DEF ToExpire, Expired
<1>5. ASSUME NEW p \in Queue, SweepQueue(p)
      PROVE  now - m.sent > cfg[q].RetentionPeriod
  <2> DEFINE stale == {x \in msgs[p] : Expired(cfg[p], x, sweep.at)}
  <2>1. stale \in SUBSET msgs[p] /\ fate' = Mark(Ids(stale), "expired")
    BY <1>3, <1>5 DEF SweepQueue
  <2>2. p = q /\ m \in stale
    BY <2>1, ExpiredOnce
  <2>3. sweep.at - m.sent > cfg[q].RetentionPeriod
    BY <2>2 DEF Expired
  <2>4. sweep.at \in Nat /\ now \in Nat /\ m.sent \in Nat /\ cfg[q].RetentionPeriod \in Nat
    BY DEF Homes, Keyed, TypeOK, Message, Config
  <2> QED
    BY <2>3, <2>4 DEF SweepPast
<1>6. ASSUME NEW p \in Queue, Define(p) \/ Remove(p) \/ Send(p) \/ UseHandles(p) \/ MoveTo(p)
      PROVE  fate' = fate \/ \E S, f : f # "expired" /\ fate' = Mark(S, f)
  <2>1. CASE Define(p)
    BY <2>1 DEF Define, CreateQueue, SetAttributes, Purge
  <2>2. CASE Remove(p)
    BY <2>2 DEF Remove, DeleteQueue
  <2>3. CASE Send(p)
    BY <2>3 DEF Send, SendBatch
  <2>4. CASE UseHandles(p)
    BY <2>4 DEF UseHandles, Peek, DeleteBatch, ChangeVisibilityBatch
  <2>5. CASE MoveTo(p)
    BY <2>5 DEF MoveTo, StartMessageMoveTask
  <2> QED
    BY <1>6, <2>1, <2>2, <2>3, <2>4, <2>5
<1>7. SweepBegin \/ Tick \/ UNCHANGED vars => fate' = fate
  BY DEF SweepBegin, Tick, vars
<1> QED
  BY <1>2, <1>3, <1>4, <1>5, <1>6, <1>7 DEF Next, Janitor

\* Retention never drops a message before its time, for every history of the
\* janitor's clock and queue list.
THEOREM RetentionKept == Spec => NoEarlyExpiry
<1>1. Init => SweepPast
  BY DEF Init, SweepPast
<1>2. Spec => []SweepPast
  BY <1>1, SweepPastStep, TypeCorrect, PTL DEF Spec
<1>3. Homes /\ SweepPast /\ [Next]_vars =>
        [\A q \in Queue : \A m \in msgs[q] :
           fate'[m.id] = "expired" => now - m.sent > cfg[q].RetentionPeriod]_vars
  BY ExpiryStep
<1> QED
  BY <1>2, <1>3, HomesAlways, PTL DEF Spec, NoEarlyExpiry

-----------------------------------------------------------------------------
(* Deduplication.                                                          *)

\* A send that was enqueued less than a window ago is remembered: the dedup
\* bucket has a record of its key that is not older.
Remembered ==
  \A q \in Queue : \A a \in admitted[q] :
    /\ a.at <= now
    /\ now - a.at <= DedupWindow =>
         \E r \in dedup[q] : r.key = a.key /\ r.at >= a.at

\* Pruning does not touch what is within the window.
LEMMA PrunedKeeps ==
  ASSUME TypeOK, NEW q \in Queue, NEW r \in dedup[q], now - r.at <= DedupWindow
  PROVE  r \in Pruned(dedup[q])
<1>1. r.at \in Nat /\ now \in Nat /\ DedupWindow \in Nat
  BY ConstantsAssumption DEF TypeOK, DedupRec
<1> QED
  BY <1>1 DEF Pruned

\* A send enqueues a key only when the window has passed since its last time.
LEMMA SendDedup ==
  ASSUME TypeOK, Remembered, DedupExact, NEW q \in Queue, NEW b \in Batches,
         NEW ids \in [Enqueued(q, b) -> MsgId], SendBatch(q, b, ids)
  PROVE  Remembered' /\ DedupExact'
<1> DEFINE recs == Recorded(q, b, ids)
<1>1. CASE ~cfg[q].FIFO
  BY <1>1 DEF SendBatch, Remembered, DedupExact
<1>2. CASE cfg[q].FIFO
  <2>1. /\ dedup' = [dedup EXCEPT
              ![q] = {r \in Pruned(@) : r.key \notin Keys(recs)} \cup recs]
        /\ admitted' = [admitted EXCEPT ![q] = @ \cup recs]
        /\ now' = now
    BY <1>2 DEF SendBatch
  <2>2. \A r \in recs : r.at = now /\ ~IsDuplicate(q, r.key)
    BY <1>2 DEF Recorded, Enqueued
  <2>3. \A r, s \in recs : r.key = s.key => r.id = s.id
    <3> SUFFICES ASSUME NEW i \in Enqueued(q, b), NEW j \in Enqueued(q, b),
                        KeyOf(b[i]) = KeyOf(b[j])
                 PROVE  ids[i] = ids[j]
      BY DEF Recorded
    <3>1. /\ i \in DOMAIN b /\ j \in DOMAIN b
          /\ ~Refused(q, b[i]) /\ ~Refused(q, b[j])
      BY DEF Enqueued
    <3>2. i \in Int /\ j \in Int
      BY <3>1, BatchesAssumption, FS_CardinalityType
    <3>3. ~(i < j) /\ ~(j < i)
      BY <1>2, <3>1 DEF Enqueued
    <3> QED
      BY <3>2, <3>3
  <2>4. recs \subseteq DedupRec
    BY <1>2, RecordedType
  <2>5. \A r \in recs : r.key \in Keys(recs)
    BY DEF Keys
  <2>6. \A k \in Keys(recs) : \E r \in recs : r.key = k
    BY DEF Keys
  <2> HIDE DEF recs
  <2>7. /\ now \in Nat /\ DedupWindow \in Nat
        /\ \A x \in Queue : \A a \in admitted[x] : a.at \in Nat
        /\ \A x \in Queue : \A a \in dedup[x] : a.at \in Nat
    BY ConstantsAssumption DEF TypeOK, DedupRec
  <2>8. \A x \in Queue :
          /\ admitted'[x] = IF x = q THEN admitted[q] \cup recs ELSE admitted[x]
          /\ dedup'[x] = IF x = q
               THEN {r \in Pruned(dedup[q]) : r.key \notin Keys(recs)} \cup recs
               ELSE dedup[x]
    BY <2>1 DEF TypeOK
  <2>9. ASSUME NEW a \in admitted[q], NEW r \in recs, a.key = r.key
        PROVE  now - a.at > DedupWindow
    <3>1. ~\E s \in dedup[q] : s.key = a.key /\ now - s.at <= DedupWindow
      BY <2>2, <2>9 DEF IsDuplicate
    <3>2. \A s \in dedup[q] : s.at >= a.at /\ now - a.at <= DedupWindow
                                => now - s.at <= DedupWindow
      BY <2>7
    <3>3. ~(now - a.at <= DedupWindow)
      BY <3>1, <3>2 DEF Remembered
    <3> QED
      BY <2>7, <3>3
  <2>10. Remembered'
    <3> SUFFICES ASSUME NEW x \in Queue, NEW a \in admitted'[x]
                 PROVE  /\ a.at <= now
                        /\ now - a.at <= DedupWindow =>
                             \E r \in dedup'[x] : r.key = a.key /\ r.at >= a.at
      BY <2>1 DEF Remembered
    <3>1. CASE x = q /\ a \in recs
      <4>1. a.at = now /\ a.at \in Nat
        BY <2>2, <2>7, <3>1
      <4>2. a \in dedup'[x]
        BY <2>8, <3>1
      <4> QED
        BY <4>1, <4>2
    <3>2. CASE a \in admitted[x]
      <4>1. a.at <= now
        BY <3>2 DEF Remembered
      <4>2. ASSUME now - a.at <= DedupWindow
            PROVE  \E r \in dedup'[x] : r.key = a.key /\ r.at >= a.at
        <5>1. PICK s \in dedup[x] : s.key = a.key /\ s.at >= a.at
          BY <3>2, <4>2 DEF Remembered
        <5>2. CASE x # q
          BY <2>8, <5>1, <5>2
        <5>3. CASE x = q /\ a.key \in Keys(recs)
          BY <2>2, <2>6, <2>8, <4>1, <5>3
        <5>4. CASE x = q /\ a.key \notin Keys(recs)
          <6>1. now - s.at <= DedupWindow
            BY <2>7, <3>2, <4>2, <5>1
          <6>2. s \in Pruned(dedup[q])
            BY <5>4, <6>1, PrunedKeeps
          <6> QED
            BY <2>8, <5>1, <5>4, <6>2
        <5> QED
          BY <5>2, <5>3, <5>4
      <4> QED
        BY <4>1, <4>2
    <3> QED
      BY <2>8, <3>1, <3>2
  <2>11. DedupExact'
    <3> SUFFICES ASSUME NEW x \in Queue, NEW a \in admitted'[x], NEW c \in admitted'[x],
                        a.key = c.key, a.id # c.id
                 PROVE  a.at - c.at > DedupWindow \/ c.at - a.at > DedupWindow
      BY DEF DedupExact
    <3>1. CASE a \in admitted[x] /\ c \in admitted[x]
      BY <3>1 DEF DedupExact
    <3>2. CASE x = q /\ a \in recs /\ c \in recs
      BY <2>3, <3>2
    <3>3. CASE x = q /\ a \in admitted[x] /\ c \in recs
      BY <2>2, <2>9, <3>3
    <3>4. CASE x = q /\ a \in recs /\ c \in admitted[x]
      BY <2>2, <2>9, <3>4
    <3> QED
      BY <2>8, <3>1, <3>2, <3>3, <3>4
  <2> QED
    BY <2>10, <2>11
<1> QED
  BY <1>1, <1>2

\* One step of the store, whichever operation it is, for deduplication.
LEMMA DedupStep ==
  ASSUME TypeOK, Remembered, DedupExact, [Next]_vars
  PROVE  Remembered' /\ DedupExact'
<1>1. CASE UNCHANGED <<dedup, admitted, now>>
  BY <1>1 DEF Remembered, DedupExact
<1>2. ASSUME NEW q \in Queue, Remove(q)
      PROVE  Remembered' /\ DedupExact'
  <2>1. /\ dedup' = [dedup EXCEPT ![q] = {}]
        /\ admitted' = [admitted EXCEPT ![q] = {}]
        /\ now' = now
    BY <1>2 DEF Remove, DeleteQueue
  <2>2. \A x \in Queue :
          \/ admitted'[x] = {}
          \/ admitted'[x] = admitted[x] /\ dedup'[x] = dedup[x]
    BY <2>1 DEF TypeOK
  <2> QED
    BY <2>1, <2>2 DEF Remembered, DedupExact
<1>3. ASSUME NEW q \in Queue, Send(q)
      PROVE  Remembered' /\ DedupExact'
  BY <1>3, SendDedup DEF Send
<1>4. ASSUME NEW q \in Queue, SweepQueue(q)
      PROVE  Remembered' /\ DedupExact'
  <2>1. /\ dedup' \in {dedup, [dedup EXCEPT ![q] = Pruned(@)]}
        /\ UNCHANGED <<admitted, now>>
    BY <1>4 DEF SweepQueue
  <2>2. \A x \in Queue : dedup'[x] = dedup[x] \/ dedup'[x] = Pruned(dedup[x])
    BY <2>1 DEF TypeOK
  <2>3. /\ now \in Nat /\ DedupWindow \in Nat
        /\ \A x \in Queue : \A a \in admitted[x] : a.at \in Nat
        /\ \A x \in Queue : \A a \in dedup[x] : a.at \in Nat
    BY ConstantsAssumption DEF TypeOK, DedupRec
  <2>4. \A x \in Queue : \A r \in dedup[x] :
          now - r.at <= DedupWindow => r \in dedup'[x]
    BY <2>2, PrunedKeeps
  <2>5. ASSUME NEW x \in Queue, NEW a \in admitted[x], now - a.at <= DedupWindow
        PROVE  \E r \in dedup'[x] : r.key = a.key /\ r.at >= a.at
    <3>1. PICK s \in dedup[x] : s.key = a.key /\ s.at >= a.at
      BY <2>5 DEF Remembered
    <3>2. now - s.at <= DedupWindow
      BY <2>3, <2>5, <3>1
    <3> QED
      BY <2>4, <3>1, <3>2
  <2> QED
    BY <2>1, <2>5 DEF Remembered, DedupExact
<1>5. CASE Tick
  <2>1. UNCHANGED <<dedup, admitted>> /\ now' = now + 1
    BY <1>5 DEF Tick
  <2>2. /\ now \in Nat /\ DedupWindow \in Nat
        /\ \A x \in Queue : \A a \in admitted[x] : a.at \in Nat
    BY ConstantsAssumption DEF TypeOK, DedupRec
  <2>3. Remembered'
    <3> SUFFICES ASSUME NEW x \in Queue, NEW a \in admitted'[x]
                 PROVE  /\ a.at <= now'
                        /\ now' - a.at <= DedupWindow =>
                             \E r \in dedup'[x] : r.key = a.key /\ r.at >= a.at
      BY DEF Remembered
    <3>1. a \in admitted[x]
      BY <2>1
    <3>2. /\ a.at <= now
          /\ now - a.at <= DedupWindow =>
               \E r \in dedup[x] : r.key = a.key /\ r.at >= a.at
      BY <3>1 DEF Remembered
    <3>3. /\ a.at <= now'
          /\ now' - a.at <= DedupWindow => now - a.at <= DedupWindow
      BY <2>1, <2>2, <3>1, <3>2
    <3> QED
      BY <2>1, <3>2, <3>3
  <2>4. DedupExact'
    BY <2>1 DEF DedupExact
  <2> QED
    BY <2>3, <2>4
<1>6. ASSUME NEW q \in Queue,
             Define(q) \/ Receive(q) \/ UseHandles(q) \/ MoveTo(q)
      PROVE  UNCHANGED <<dedup, admitted, now>>
  <2>1. Define(q) => UNCHANGED <<dedup, admitted, now>>
    BY DEF Define, CreateQueue, SetAttributes, Purge
  <2>2. Receive(q) => UNCHANGED <<dedup, admitted, now>>
    BY DEF Receive, ReceiveOnce
  <2>3. UseHandles(q) => UNCHANGED <<dedup, admitted, now>>
    BY DEF UseHandles, Peek, DeleteBatch, ChangeVisibilityBatch
  <2>4. MoveTo(q) => UNCHANGED <<dedup, admitted, now>>
    BY DEF MoveTo, StartMessageMoveTask
  <2> QED
    BY <1>6, <2>1, <2>2, <2>3, <2>4
<1>7. SweepBegin \/ UNCHANGED vars => UNCHANGED <<dedup, admitted, now>>
  BY DEF SweepBegin, vars
<1> QED
  BY <1>1, <1>2, <1>3, <1>4, <1>5, <1>6, <1>7 DEF Next, Janitor

\* Two sends enqueued under one key are more than the window apart, for every
\* window, whatever is pruned, purged and swept in between.
THEOREM DedupWindowExact == Spec => []DedupExact
<1>1. Init => Remembered /\ DedupExact
  BY DEF Init, Remembered, DedupExact
<1>2. TypeOK /\ Remembered /\ DedupExact /\ [Next]_vars => Remembered' /\ DedupExact'
  BY DedupStep
<1> QED
  BY <1>1, <1>2, TypeCorrect, PTL DEF Spec

-----------------------------------------------------------------------------
(* FIFO groups.                                                            *)

\* A message that was there before the step, at the same place of the queue,
\* and one that the step put at the end.
Kept(q, n) ==
  \E m \in msgs[q] : m.seq = n.seq /\ m.group = n.group /\ m.count = n.count

\* One that the step put at the end.
Appended(q, n) == n.count = 0 /\ n.seq > lastSeq[q]

\* A delivered message is stored again with one more receive.
Redelivered(q, max, n) ==
  \E m \in Deliver(q, max) :
    m.seq = n.seq /\ m.group = n.group /\ n.count = m.count + 1

\* Messages that a redrive moves arrive at the end of the other queue, untried.
LEMMA ArrivalsAppended ==
  ASSUME Homes, NEW q \in Queue, NEW d \in Queue, NEW S \in SUBSET msgs[q],
         NEW n \in Arrivals(S, d)
  PROVE  Appended(d, n)
<1>1. n.seq > lastSeq[d]
  BY ArrivalsFacts DEF Homes
<1>2. PICK m \in S : n = [m EXCEPT !.seq = lastSeq[d] + Rank(Seqs(S), m.seq),
                                   !.count = 0, !.visible = now]
  BY DEF Arrivals
<1>3. m \in Message
  BY DEF Homes, Keyed, TypeOK
<1>4. n.count = 0
  BY <1>2, <1>3 DEF Message
<1> QED
  BY <1>1, <1>4 DEF Appended

\* Calls other than receives keep messages or append them.
LEMMA CallStep ==
  ASSUME Homes, NEW q \in Queue,
         Define(q) \/ Remove(q) \/ Send(q) \/ UseHandles(q) \/ MoveTo(q)
  PROVE  \A x \in Queue : \A n \in msgs'[x] : Kept(x, n) \/ Appended(x, n)
<1>1. TypeOK /\ Keyed
  BY DEF Homes, Keyed
<1>2. ASSUME NEW x \in Queue, NEW n \in msgs[x]
      PROVE  Kept(x, n)
  BY DEF Kept
<1>3. CASE Define(q)
  <2>1. msgs' = msgs \/ msgs' = [msgs EXCEPT ![q] = {}]
    BY <1>3 DEF Define, CreateQueue, SetAttributes, Purge
  <2> QED
    BY <1>1, <1>2, <2>1 DEF TypeOK
<1>4. CASE Remove(q)
  BY <1>1, <1>2, <1>4 DEF Remove, DeleteQueue, TypeOK
<1>5. CASE Send(q)
  <2>1. PICK b \in Batches : \E ids \in [Enqueued(q, b) -> MsgId] : SendBatch(q, b, ids)
    BY <1>5 DEF Send
  <2>2. PICK ids \in [Enqueued(q, b) -> MsgId] : SendBatch(q, b, ids)
    BY <2>1
  <2>3. msgs' = [msgs EXCEPT ![q] = @ \cup Posted(q, b, ids)]
    BY <2>2 DEF SendBatch
  <2>4. \A m \in Posted(q, b, ids) : m.seq > lastSeq[q]
    BY <1>1, PostedFacts
  <2>5. \A m \in Posted(q, b, ids) : m.count = 0
    BY DEF Posted
  <2> QED
    BY <1>1, <1>2, <2>3, <2>4, <2>5 DEF TypeOK, Appended
<1>6. CASE UseHandles(q)
  <2>1. CASE \E max \in 1..MaxBatch : Peek(q, max)
    BY <1>2, <2>1 DEF Peek
  <2>2. CASE \E H \in SUBSET handles : DeleteBatch(q, H)
    BY <1>1, <1>2, <2>2 DEF DeleteBatch, TypeOK
  <2>3. ASSUME NEW H \in SUBSET handles, NEW t \in [H -> Timeouts],
               ChangeVisibilityBatch(q, t)
        PROVE  \A x \in Queue : \A n \in msgs'[x] : Kept(x, n)
    <3>1. \A n \in Retimed(Named(q, DOMAIN t), t) : Kept(q, n)
      <4> SUFFICES ASSUME NEW n \in Retimed(Named(q, DOMAIN t), t) PROVE Kept(q, n)
        OBVIOUS
      <4>1. PICK m \in Named(q, DOMAIN t) :
              n = [m EXCEPT !.visible = now + t[[seq |-> m.seq, id |-> m.id]]]
        BY DEF Retimed
      <4>2. m \in msgs[q] /\ m \in Message
        BY <1>1, <4>1 DEF Named, TypeOK
      <4>3. m.seq = n.seq /\ m.group = n.group /\ m.count = n.count
        BY <4>1, <4>2 DEF Message
      <4> QED
        BY <4>2, <4>3 DEF Kept
    <3> QED
      BY <1>1, <1>2, <2>3, <3>1 DEF ChangeVisibilityBatch, TypeOK
  <2> QED
    BY <1>6, <2>1, <2>2, <2>3 DEF UseHandles
<1>7. CASE MoveTo(q)
  <2>1. PICK p \in Queue : StartMessageMoveTask(p, q)
    BY <1>7 DEF MoveTo
  <2>2. \A n \in Arrivals(msgs[p], q) : Appended(q, n)
    BY ArrivalsAppended
  <2> QED
    BY <1>2, <2>1, <2>2 DEF StartMessageMoveTask
<1> QED
  BY <1>3, <1>4, <1>5, <1>6, <1>7

\* The janitor and the clock put nothing into a queue.
LEMMA BackgroundStep ==
  ASSUME Homes, Janitor \/ Tick \/ UNCHANGED vars
  PROVE  \A x \in Queue : \A n \in msgs'[x] : Kept(x, n)
<1>1. TypeOK
  BY DEF Homes, Keyed
<1>2. \A x \in Queue : msgs'[x] \subseteq msgs[x]
  <2>1. CASE UNCHANGED msgs
    BY <2>1
  <2>2. ASSUME NEW p \in Queue, SweepQueue(p), p \in live
        PROVE  \A x \in Queue : msgs'[x] \subseteq msgs[x]
    BY <1>1, <2>2 DEF SweepQueue, TypeOK
  <2> QED
    BY <2>1, <2>2 DEF Janitor, SweepBegin, SweepQueue, Tick, vars
<1> QED
  BY <1>2 DEF Kept

\* A receive stores what it delivers with one more receive, and appends what it
\* redrives to the dead-letter queue.
LEMMA ReceiveStep ==
  ASSUME Homes, NEW q \in Queue, NEW max \in Nat,
         NEW override \in Timeouts \cup {NoOverride},
         ReceiveOnce(q, max, override)
  PROVE  /\ \A x \in Queue : x # q => \A n \in msgs'[x] : Kept(x, n) \/ Appended(x, n)
         /\ \A n \in msgs'[q] :
              \/ n \in msgs[q] \ (Deliver(q, max) \cup ToExpire(q, max) \cup ToMove(q, max))
              \/ Redelivered(q, max, n)
<1>1. TypeOK /\ ToMove(q, max) \in SUBSET msgs[q] /\ Deliver(q, max) \subseteq msgs[q]
  BY DEF Homes, Keyed, ToMove, Deliver, Heads, Ready, Open
<1>2. \A n \in Taken(q, max, override) : Redelivered(q, max, n)
  <2> SUFFICES ASSUME NEW n \in Taken(q, max, override) PROVE Redelivered(q, max, n)
    OBVIOUS
  <2>1. PICK m \in Deliver(q, max) :
          n = [m EXCEPT !.count = @ + 1, !.visible = now + VisibilityFor(q, override)]
    BY DEF Taken
  <2>2. m \in Message
    BY <1>1, <2>1 DEF TypeOK
  <2>3. m.seq = n.seq /\ m.group = n.group /\ n.count = m.count + 1
    BY <2>1, <2>2 DEF Message
  <2> QED
    BY <2>3 DEF Redelivered
<1>3. \A x \in Queue : \A n \in Arrivals(ToMove(q, max), x) : Appended(x, n)
  BY <1>1, ArrivalsAppended
<1>4. \A x \in Queue : \A n \in msgs[x] : Kept(x, n)
  BY DEF Kept
<1>5. \A x \in Queue : msgs'[x] =
        IF x = q
          THEN (msgs[q] \ (Deliver(q, max) \cup ToExpire(q, max) \cup ToMove(q, max)))
                 \cup Taken(q, max, override)
        ELSE IF x = cfg[q].DeadLetterTarget
          THEN msgs[x] \cup Arrivals(ToMove(q, max), x)
        ELSE msgs[x]
  BY DEF ReceiveOnce
<1> QED
  BY <1>2, <1>3, <1>4, <1>5

\* What a delivery in a FIFO queue says of the messages of the group before it.
LEMMA BeforeDelivered ==
  ASSUME Homes, NEW q \in Queue, NEW max \in Nat, cfg[q].FIFO,
         NEW d \in Deliver(q, max), NEW m \in msgs[q],
         m.group = d.group, m.group # NoGroup, m.seq < d.seq,
         m \notin ToExpire(q, max)
  PROVE  m \in Open(q) /\ m \in Walked(q, max) /\ Exhausted(q, m)
<1>1. TypeOK /\ Keyed
  BY DEF Homes, Keyed
<1>2. /\ d \in Heads(q) /\ Cardinality(Ahead(Heads(q), d)) < max
      /\ d \in Open(q) /\ d \in msgs[q] /\ Heads(q) \subseteq msgs[q]
  BY DEF Deliver, Heads, Ready, Open
<1>3. m.seq \in Nat /\ d.seq \in Nat /\ \A x \in msgs[q] : x.seq \in Nat
  BY <1>1, <1>2 DEF TypeOK, Message
<1>4. m \in Walked(q, max)
  <2>1. Ahead(Deliver(q, max), m) \subseteq Ahead(Heads(q), d)
    BY <1>2, <1>3 DEF Ahead, Deliver
  <2>2. IsFiniteSet(Ahead(Heads(q), d))
    <3>1. Ahead(Heads(q), d) \in SUBSET msgs[q]
      BY <1>2 DEF Ahead
    <3> QED
      BY <1>1, <3>1, BucketFinite
  <2>3. /\ Cardinality(Ahead(Deliver(q, max), m)) <= Cardinality(Ahead(Heads(q), d))
        /\ Cardinality(Ahead(Deliver(q, max), m)) \in Nat
        /\ Cardinality(Ahead(Heads(q), d)) \in Nat
    BY <2>1, <2>2, FS_Subset, FS_CardinalityType
  <2> QED
    BY <1>2, <2>3 DEF Walked
<1>5. ~Expired(cfg[q], m, now)
  BY <1>4 DEF ToExpire
<1>6. m.group \notin LockedGroups(q)
  BY <1>2 DEF Open
<1>7. ~InFlight(m)
  BY <1>6 DEF LockedGroups
<1>8. m \in Open(q)
  BY <1>5, <1>6, <1>7 DEF Open
<1>9. m \notin Ready(q)
  BY <1>2, <1>3 DEF Heads
<1> QED
  BY <1>4, <1>8, <1>9 DEF Ready

\* A queue stays FIFO or standard while it exists.  SetQueueAttributes accepts
\* FifoQueue, so the code itself does not promise it.
FifoFixed == \A q \in live \cap live' : cfg'[q].FIFO = cfg[q].FIFO

\* Where messages are only kept and appended, the ones that were tried are old.
LEMMA KeptOrder ==
  ASSUME Homes, Homes', FifoFixed, NEW q \in Queue, cfg'[q].FIFO,
         \A n \in msgs'[q] : Kept(q, n) \/ Appended(q, n),
         NEW m \in msgs'[q], NEW n \in msgs'[q], m.count > 0 \/ m.seq < n.seq, n.count > 0
  PROVE  cfg[q].FIFO /\ Kept(q, m) /\ Kept(q, n)
<1>1. TypeOK /\ TypeOK' /\ BucketKeys
  BY DEF Homes, Keyed
<1>2. /\ m \in Message /\ n \in Message /\ lastSeq[q] \in Nat
      /\ \A o \in msgs[q] : o.seq <= lastSeq[q] /\ o.seq \in Nat
  BY <1>1 DEF TypeOK, Message, BucketKeys
<1>3. Kept(q, n)
  BY <1>2 DEF Appended, Message
<1>4. n.seq <= lastSeq[q]
  BY <1>2, <1>3 DEF Kept
<1>5. Kept(q, m)
  BY <1>2, <1>4 DEF Appended, Message
<1>6. q \in live /\ q \in live'
  BY <1>3 DEF Homes, GoneEmpty, Kept
<1> QED
  BY <1>3, <1>5, <1>6 DEF FifoFixed

\* Every step keeps the order of a group.
LEMMA FifoOrderStep ==
  ASSUME Homes, Homes', FifoFixed, [Next]_vars, FifoInOrder
  PROVE  FifoInOrder'
<1> SUFFICES ASSUME NEW q \in Queue, cfg'[q].FIFO, NEW m \in msgs'[q], NEW n \in msgs'[q],
                    m.group = n.group, m.group # NoGroup, m.seq < n.seq, n.count > 0
             PROVE  m.count > 0
  BY DEF FifoInOrder
<1>1. CASE \A o \in msgs'[q] : Kept(q, o) \/ Appended(q, o)
  BY <1>1, KeptOrder DEF FifoInOrder, Kept
<1>2. ASSUME Receive(q)
      PROVE  m.count > 0
  <2>1. PICK max \in 1..MaxBatch, override \in Timeouts \cup {NoOverride} :
          ReceiveOnce(q, max, override)
    BY <1>2 DEF Receive
  <2>2. max \in Nat /\ cfg[q].FIFO
    BY <2>1, ConstantsAssumption DEF ReceiveOnce
  <2>3. \A o \in msgs'[q] :
          \/ o \in msgs[q] \ (Deliver(q, max) \cup ToExpire(q, max) \cup ToMove(q, max))
          \/ Redelivered(q, max, o)
    BY <2>1, <2>2, ReceiveStep
  <2>4. \A o \in msgs[q] : o.count \in Nat
    BY DEF Homes, Keyed, TypeOK, Message
  <2>5. CASE Redelivered(q, max, m)
    BY <2>4, <2>5 DEF Redelivered, Deliver, Heads, Ready, Open
  <2>6. CASE m \in msgs[q] \ (Deliver(q, max) \cup ToExpire(q, max) \cup ToMove(q, max))
    <3>1. CASE n \in msgs[q]
      BY <2>2, <2>6, <3>1 DEF FifoInOrder
    <3>2. CASE Redelivered(q, max, n)
      <4>1. PICK d \in Deliver(q, max) : d.seq = n.seq /\ d.group = n.group
        BY <3>2 DEF Redelivered
      <4>2. Exhausted(q, m)
        BY <2>2, <2>6, <4>1, BeforeDelivered
      <4>3. cfg[q].MaxReceiveCount \in Nat
        BY DEF Homes, Keyed, TypeOK, Config
      <4> QED
        BY <2>4, <2>6, <4>2, <4>3 DEF Exhausted
    <3> QED
      BY <2>3, <3>1, <3>2
  <2> QED
    BY <2>3, <2>5, <2>6
<1>3. ASSUME NEW p \in Queue, Receive(p), p # q
      PROVE  m.count > 0
  <2>1. PICK max \in 1..MaxBatch, override \in Timeouts \cup {NoOverride} :
          ReceiveOnce(p, max, override)
    BY <1>3 DEF Receive
  <2>2. max \in Nat
    BY ConstantsAssumption
  <2>3. \A o \in msgs'[q] : Kept(q, o) \/ Appended(q, o)
    BY <1>3, <2>1, <2>2, ReceiveStep
  <2> QED
    BY <1>1, <2>3
<1>4. ASSUME NEW p \in Queue,
             Define(p) \/ Remove(p) \/ Send(p) \/ UseHandles(p) \/ MoveTo(p)
      PROVE  m.count > 0
  BY <1>1, <1>4, CallStep
<1>5. CASE Janitor \/ Tick \/ UNCHANGED vars
  BY <1>1, <1>5, BackgroundStep
<1> QED
  BY <1>2, <1>3, <1>4, <1>5 DEF Next

\* FifoInOrder for every number of queues, messages and groups: in a FIFO queue
\* a message is not handed out before the older ones of its group, whatever is
\* deleted, redriven, moved, purged and swept, provided no call changes the kind
\* of a queue.
THEOREM FifoDeliversInOrder == Spec /\ [][FifoFixed]_vars => []FifoInOrder
<1>1. Init => FifoInOrder
  BY DEF Init, FifoInOrder
<1>2. Homes /\ Homes' /\ [Next]_vars /\ [FifoFixed]_vars /\ FifoInOrder => FifoInOrder'
  <2>1. UNCHANGED vars => FifoFixed
    BY DEF vars, FifoFixed
  <2> QED
    BY <2>1, FifoOrderStep
<1> QED
  BY <1>1, <1>2, HomesAlways, PTL DEF Spec

\* The dead-letter queue of a queue exists.  Deleting it is a legal call, after
\* which an exhausted message stays and no longer holds back its group.
TargetsLive ==
  \A q \in live : cfg[q].DeadLetterTarget \in live \cup {NoQueue}

\* In a FIFO queue one message of a group at most has been tried.
OneTried ==
  \A q \in Queue : cfg[q].FIFO =>
    \A m, n \in msgs[q] :
      m.group = n.group /\ m.group # NoGroup /\ m.count > 0 /\ n.count > 0 => m = n

\* Every step leaves one tried message of a group at most.
LEMMA OneTriedStep ==
  ASSUME Homes, Homes', FifoFixed, [Next]_vars, FifoInOrder, TargetsLive, OneTried
  PROVE  OneTried'
<1> SUFFICES ASSUME NEW q \in Queue, cfg'[q].FIFO, NEW m \in msgs'[q], NEW n \in msgs'[q],
                    m.group = n.group, m.group # NoGroup, m.count > 0, n.count > 0
             PROVE  m.seq = n.seq
  BY DEF OneTried, Homes, Keyed, BucketKeys
<1>1. CASE \A o \in msgs'[q] : Kept(q, o) \/ Appended(q, o)
  BY <1>1, KeptOrder DEF OneTried, Kept
<1>2. ASSUME Receive(q)
      PROVE  m.seq = n.seq
  <2>1. PICK max \in 1..MaxBatch, override \in Timeouts \cup {NoOverride} :
          ReceiveOnce(q, max, override)
    BY <1>2 DEF Receive
  <2>2. max \in Nat /\ cfg[q].FIFO /\ q \in live
    BY <2>1, ConstantsAssumption DEF ReceiveOnce
  <2>3. \A o \in msgs'[q] :
          \/ o \in msgs[q] \ (Deliver(q, max) \cup ToExpire(q, max) \cup ToMove(q, max))
          \/ Redelivered(q, max, o)
    BY <2>1, <2>2, ReceiveStep
  <2>4. /\ \A o \in msgs[q] : o.count \in Nat /\ o.seq \in Nat
        /\ \A d \in Deliver(q, max) : d \in msgs[q]
    BY DEF Homes, Keyed, TypeOK, Message, Deliver, Heads, Ready, Open
  <2>5. \A d, e \in Deliver(q, max) : d.group = e.group => d.seq = e.seq
    BY <2>2, <2>4 DEF Deliver, Heads
  \* a tried message that stays behind and a delivered one of its group
  <2>6. ASSUME NEW x \in msgs[q] \ (Deliver(q, max) \cup ToExpire(q, max) \cup ToMove(q, max)),
               x.count > 0, NEW d \in Deliver(q, max), x.group = d.group, x.group # NoGroup
        PROVE  FALSE
    <3>1. x.seq # d.seq
      BY <2>4, <2>6 DEF Homes, Keyed, BucketKeys
    <3>2. CASE d.count > 0
      BY <2>2, <2>4, <2>6, <3>2 DEF OneTried
    <3>3. CASE d.count = 0
      <4>1. x.seq < d.seq
        BY <2>2, <2>4, <2>6, <3>1, <3>3 DEF FifoInOrder
      <4>2. x \in Open(q) /\ x \in Walked(q, max) /\ Exhausted(q, x)
        BY <2>2, <2>6, <4>1, BeforeDelivered
      <4>3. cfg[q].DeadLetterTarget \in live
        BY <2>2, <4>2 DEF Exhausted, TargetsLive
      <4>4. \A e \in Deliver(q, max) : e.group = x.group => x.seq < e.seq
        BY <2>5, <2>6, <4>1
      <4>5. x \in ToMove(q, max)
        BY <4>2, <4>3, <4>4 DEF ToMove
      <4> QED
        BY <2>6, <4>5
    <3> QED
      BY <2>4, <3>2, <3>3
  <2>7. CASE Redelivered(q, max, m) /\ Redelivered(q, max, n)
    BY <2>5, <2>7 DEF Redelivered
  <2>8. CASE ~Redelivered(q, max, m) /\ Redelivered(q, max, n)
    <3>1. PICK d \in Deliver(q, max) : d.seq = n.seq /\ d.group = n.group
      BY <2>8 DEF Redelivered
    <3> QED
      BY <2>3, <2>6, <2>8, <3>1
  <2>9. CASE Redelivered(q, max, m) /\ ~Redelivered(q, max, n)
    <3>1. PICK d \in Deliver(q, max) : d.seq = m.seq /\ d.group = m.group
      BY <2>9 DEF Redelivered
    <3> QED
      BY <2>3, <2>6, <2>9, <3>1
  <2>10. CASE ~Redelivered(q, max, m) /\ ~Redelivered(q, max, n)
    BY <2>2, <2>3, <2>10 DEF OneTried
  <2> QED
    BY <2>7, <2>8, <2>9, <2>10
<1>3. ASSUME NEW p \in Queue, Receive(p), p # q
      PROVE  m.seq = n.seq
  <2>1. PICK max \in 1..MaxBatch, override \in Timeouts \cup {NoOverride} :
          ReceiveOnce(p, max, override)
    BY <1>3 DEF Receive
  <2>2. max \in Nat
    BY ConstantsAssumption
  <2>3. \A o \in msgs'[q] : Kept(q, o) \/ Appended(q, o)
    BY <1>3, <2>1, <2>2, ReceiveStep
  <2> QED
    BY <1>1, <2>3
<1>4. ASSUME NEW p \in Queue,
             Define(p) \/ Remove(p) \/ Send(p) \/ UseHandles(p) \/ MoveTo(p)
      PROVE  m.seq = n.seq
  BY <1>1, <1>4, CallStep
<1>5. CASE Janitor \/ Tick \/ UNCHANGED vars
  BY <1>1, <1>5, BackgroundStep
<1> QED
  BY <1>2, <1>3, <1>4, <1>5 DEF Next

\* FifoGroupExclusive for every number of queues, messages and groups: of a
\* FIFO group one message at most is in flight, provided no call changes the
\* kind of a queue and dead-letter queues outlive the queues that name them.
THEOREM FifoOneInFlight ==
  Spec /\ [][FifoFixed]_vars /\ []TargetsLive => []FifoGroupExclusive
<1>1. Init => OneTried
  BY DEF Init, OneTried
<1>2. Homes /\ Homes' /\ [Next]_vars /\ [FifoFixed]_vars /\ FifoInOrder
        /\ TargetsLive /\ OneTried => OneTried'
  <2>1. UNCHANGED vars => FifoFixed
    BY DEF vars, FifoFixed
  <2> QED
    BY <2>1, OneTriedStep
<1>3. OneTried => FifoGroupExclusive
  BY DEF OneTried, FifoGroupExclusive
<1> QED
  BY <1>1, <1>2, <1>3, HomesAlways, FifoDeliversInOrder, PTL DEF Spec

-----------------------------------------------------------------------------
(* Redrive.                                                                *)

\* The redrive policy of a queue that has messages stays as it is.
PolicyFixed ==
  \A q \in live \cap live' : msgs[q] # {} =>
    /\ cfg'[q].DeadLetterTarget = cfg[q].DeadLetterTarget
    /\ cfg'[q].MaxReceiveCount = cfg[q].MaxReceiveCount

\* A policy allows one receive at least.
PolicyCounts ==
  \A q \in Queue : cfg[q].DeadLetterTarget # NoQueue => cfg[q].MaxReceiveCount > 0

\* A redrive policy that is accepted allows one receive at least.
LEMMA AcceptedCount ==
  ASSUME NEW q \in Queue, NEW c, NEW a, AttrsAccepted(q, c, a),
         c.DeadLetterTarget # NoQueue => c.MaxReceiveCount > 0
  PROVE  ApplyAttrs(c, a).DeadLetterTarget # NoQueue
           => ApplyAttrs(c, a).MaxReceiveCount > 0
<1>1. CASE "RedrivePolicy" \notin DOMAIN a
  BY <1>1 DEF ApplyAttrs
<1>2. CASE "RedrivePolicy" \in DOMAIN a /\ a.RedrivePolicy = NoQueue
  BY <1>2 DEF ApplyAttrs
<1>3. CASE "RedrivePolicy" \in DOMAIN a /\ a.RedrivePolicy # NoQueue
  <2>1. a.RedrivePolicy.count > 0
    BY <1>3 DEF AttrsAccepted, RedriveAccepted
  <2> QED
    BY <1>3, <2>1 DEF ApplyAttrs
<1> QED
  BY <1>1, <1>2, <1>3

\* Every step keeps the policies so.
LEMMA PolicyStep == TypeOK /\ PolicyCounts /\ [Next]_vars => PolicyCounts'
<1> SUFFICES ASSUME TypeOK, PolicyCounts, [Next]_vars PROVE PolicyCounts'
  OBVIOUS
<1>1. CASE UNCHANGED cfg
  BY <1>1 DEF PolicyCounts
<1>2. ASSUME NEW q \in Queue, NEW a \in AttrCalls, CreateQueue(q, a)
      PROVE  PolicyCounts'
  <2> DEFINE c == [DefaultConfig EXCEPT !.FIFO = Attr(a, "FifoQueue", FALSE)]
  <2>1. c.DeadLetterTarget = NoQueue
    BY ConstantsAssumption DEF Config
  <2>2. AttrsAccepted(q, c, a) /\ cfg' = [cfg EXCEPT ![q] = ApplyAttrs(c, a)]
    BY <1>2 DEF CreateQueue
  <2> HIDE DEF c
  <2>3. ApplyAttrs(c, a).DeadLetterTarget # NoQueue => ApplyAttrs(c, a).MaxReceiveCount > 0
    BY <2>1, <2>2, AcceptedCount
  <2> QED
    BY <2>2, <2>3 DEF TypeOK, PolicyCounts
<1>3. ASSUME NEW q \in Queue, NEW a \in AttrCalls, SetAttributes(q, a)
      PROVE  PolicyCounts'
  <2>1. AttrsAccepted(q, cfg[q], a) /\ cfg' = [cfg EXCEPT ![q] = ApplyAttrs(cfg[q], a)]
    BY <1>3 DEF SetAttributes
  <2>2. ApplyAttrs(cfg[q], a).DeadLetterTarget # NoQueue
          => ApplyAttrs(cfg[q], a).MaxReceiveCount > 0
    BY <2>1, AcceptedCount DEF PolicyCounts
  <2> QED
    BY <2>1, <2>2 DEF TypeOK, PolicyCounts
<1>4. ASSUME NEW q \in Queue, DeleteQueue(q)
      PROVE  PolicyCounts'
  <2>1. cfg' = [cfg EXCEPT ![q] = DefaultConfig]
    BY <1>4 DEF DeleteQueue
  <2> QED
    BY <2>1, ConstantsAssumption DEF TypeOK, PolicyCounts
<1>5. ASSUME NEW q \in Queue,
             Purge(q) \/ Send(q) \/ Receive(q) \/ UseHandles(q) \/ MoveTo(q)
      PROVE  UNCHANGED cfg
  BY <1>5 DEF Purge, Send, SendBatch, Receive, ReceiveOnce, UseHandles, Peek,
    DeleteBatch, ChangeVisibilityBatch, MoveTo, StartMessageMoveTask
<1>6. Janitor \/ Tick \/ UNCHANGED vars => UNCHANGED cfg
  BY DEF Janitor, SweepBegin, SweepQueue, Tick, vars
<1> QED
  BY <1>1, <1>2, <1>3, <1>4, <1>5, <1>6 DEF Next, Define, Remove

\* Every step keeps the receives of a message within its queue's policy.
LEMMA PoisonStep ==
  ASSUME Homes, Homes', PolicyCounts, PolicyFixed, [Next]_vars, PoisonBound
  PROVE  PoisonBound'
<1> SUFFICES ASSUME NEW q \in Queue, cfg'[q].DeadLetterTarget # NoQueue, NEW n \in msgs'[q]
             PROVE  n.count <= cfg'[q].MaxReceiveCount
  BY DEF PoisonBound
<1>1. /\ TypeOK /\ TypeOK' /\ cfg[q].MaxReceiveCount \in Nat /\ cfg'[q].MaxReceiveCount \in Nat
      /\ \A m \in msgs[q] : m.count \in Nat
  BY DEF Homes, Keyed, TypeOK, Config, Message
<1>2. msgs[q] # {} =>
        /\ cfg'[q].DeadLetterTarget = cfg[q].DeadLetterTarget
        /\ cfg'[q].MaxReceiveCount = cfg[q].MaxReceiveCount
  BY DEF Homes, GoneEmpty, PolicyFixed
<1>3. CASE Kept(q, n) \/ Appended(q, n)
  BY <1>1, <1>2, <1>3 DEF Kept, Appended, PoisonBound
<1>4. ASSUME Receive(q)
      PROVE  n.count <= cfg'[q].MaxReceiveCount
  <2>1. PICK max \in 1..MaxBatch, override \in Timeouts \cup {NoOverride} :
          ReceiveOnce(q, max, override)
    BY <1>4 DEF Receive
  <2>2. max \in Nat
    BY ConstantsAssumption
  <2>3. n \in msgs[q] \/ Redelivered(q, max, n)
    BY <2>1, <2>2, ReceiveStep
  <2>4. CASE n \in msgs[q]
    BY <1>3, <2>4 DEF Kept
  <2>5. CASE Redelivered(q, max, n)
    <3>1. PICK d \in Deliver(q, max) : n.count = d.count + 1
      BY <2>5 DEF Redelivered
    <3>2. d \in msgs[q] /\ ~Exhausted(q, d)
      BY DEF Deliver, Heads, Ready, Open
    <3> QED
      BY <1>1, <1>2, <3>1, <3>2 DEF Exhausted, PolicyCounts
  <2> QED
    BY <2>3, <2>4, <2>5
<1>5. ASSUME NEW p \in Queue, Receive(p), p # q
      PROVE  n.count <= cfg'[q].MaxReceiveCount
  <2>1. PICK max \in 1..MaxBatch, override \in Timeouts \cup {NoOverride} :
          ReceiveOnce(p, max, override)
    BY <1>5 DEF Receive
  <2>2. max \in Nat
    BY ConstantsAssumption
  <2> QED
    BY <1>3, <1>5, <2>1, <2>2, ReceiveStep
<1>6. ASSUME NEW p \in Queue,
             Define(p) \/ Remove(p) \/ Send(p) \/ UseHandles(p) \/ MoveTo(p)
      PROVE  n.count <= cfg'[q].MaxReceiveCount
  BY <1>3, <1>6, CallStep
<1>7. CASE Janitor \/ Tick \/ UNCHANGED vars
  BY <1>3, <1>7, BackgroundStep
<1> QED
  BY <1>4, <1>5, <1>6, <1>7 DEF Next

\* PoisonBound for every number of queues and messages: with a redrive policy
\* no message is handed out more often than maxReceiveCount, provided the policy
\* of a queue with messages in it stays as it is (a lowered count makes the
\* messages already received exceed it at once).
THEOREM PoisonBounded == Spec /\ [][PolicyFixed]_vars => []PoisonBound
<1>1. Init => PolicyCounts /\ PoisonBound
  BY ConstantsAssumption DEF Init, PolicyCounts, PoisonBound
<1>2. Spec => []PolicyCounts
  BY <1>1, PolicyStep, TypeCorrect, PTL DEF Spec
<1>3. Homes /\ Homes' /\ PolicyCounts /\ [PolicyFixed]_vars /\ [Next]_vars
        /\ PoisonBound => PoisonBound'
  <2>1. UNCHANGED vars => PolicyFixed
    BY DEF vars, PolicyFixed
  <2> QED
    BY <2>1, PoisonStep
<1> QED
  BY <1>1, <1>2, <1>3, HomesAlways, PTL DEF Spec

=============================================================================
