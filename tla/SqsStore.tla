------------------------------ MODULE SqsStore ------------------------------
(***************************************************************************)
(* The bbolt-backed SQS store (sqs/store.go, sqs/receive.go, sqs/attrs.go, *)
(* sqs/store_ext.go, sqs/sweeper.go).                                      *)
(*                                                                         *)
(* Every API call that writes runs in one bbolt read-write transaction, of *)
(* which there is at most one at a time, so each call is one action.  The  *)
(* janitor is the exception: it lists the queues in one transaction and    *)
(* sweeps each of them in a later one, so it is two actions.               *)
(*                                                                         *)
(* A call that is refused writes nothing; it is the stuttering step and    *)
(* has no action.  A batch call and its single-message form are the same   *)
(* transaction body run once or several times, so they share an action.    *)
(***************************************************************************)
EXTENDS Integers, FiniteSets

CONSTANTS
  Queue,          \* queue names callers use
  FifoName,       \* the names that end in ".fifo"
  NoQueue,        \* the empty DeadLetterTarget
  Group,          \* message group ids
  NoGroup,        \* the empty MessageGroupId
  DedupId,        \* deduplication ids callers send
  NoDedup,        \* the empty MessageDeduplicationId
  MsgId,          \* the ids newID() draws, each at most once
  DedupWindow,    \* dedupWindow, in seconds
  DefaultConfig,  \* what CreateQueue starts a definition from
  Batches,        \* the entry lists of SendMessage and SendMessageBatch calls
  AttrCalls,      \* the attribute maps of CreateQueue and SetQueueAttributes calls
  Timeouts,       \* the visibility timeouts of ReceiveMessage and
                  \* ChangeMessageVisibility calls, in seconds
  MaxBatch,       \* the largest MaxNumberOfMessages a caller asks for
  Ops,            \* the operations made in this instance
  MaxTime,        \* bound: the clock stops here
  MaxSeq,         \* bound: a move task numbers no message beyond this
  MaxReceives     \* bound: no message is delivered more often than this

VARIABLES
  live,      \* keys of the "queues" bucket
  cfg,       \* the queue definitions stored there
  msgs,      \* the "q:<name>" buckets: sets of message records, keyed by seq
  lastSeq,   \* the sequence of each message bucket, 0 when there is none
  dedup,     \* the "dedup:<name>" buckets, keyed by key
  handles,   \* receipt handles handed out so far
  sweep,     \* the janitor: queues it has still to sweep, and its clock reading
  now,       \* the wall clock, in seconds
  fate,      \* history: what became of each message id
  admitted   \* history: the FIFO sends that were enqueued

vars == <<live, cfg, msgs, lastSeq, dedup, handles, sweep, now, fate, admitted>>

-----------------------------------------------------------------------------
(* Data.                                                                   *)

Config ==
  [FIFO : BOOLEAN, ContentBasedDedup : BOOLEAN, VisibilityTimeout : Nat,
   DelaySeconds : Nat, RetentionPeriod : Nat, MaxMessageSize : Nat,
   WaitTimeSeconds : Nat, DeadLetterTarget : Queue \cup {NoQueue},
   MaxReceiveCount : Nat]

Message ==
  [id : MsgId, seq : Nat, group : Group \cup {NoGroup}, sent : Nat,
   visible : Nat, count : Nat]

\* A deduplication key is the caller's id or the MD5 of the body.
DedupKey == [given : DedupId] \cup [md5 : Nat]

DedupRec == [key : DedupKey, at : Nat, id : MsgId]

\* A receipt handle encodes a message's position and its identity.
Handle == [seq : Nat, id : MsgId]

\* One entry of a send.  A body is represented by its length; a negative
\* delay asks for the queue's default.
Entry ==
  [body : Nat, delay : Int, group : Group \cup {NoGroup},
   dedup : DedupId \cup {NoDedup}]

Fate == {"unsent", "stored", "deleted", "expired", "purged"}

ASSUME ConstantsAssumption ==
  /\ FifoName \subseteq Queue
  /\ NoQueue \notin Queue
  /\ NoGroup \notin Group
  /\ NoDedup \notin DedupId
  /\ DedupWindow \in Nat
  /\ MaxTime \in Nat /\ MaxSeq \in Nat /\ MaxReceives \in Nat
  /\ MaxBatch \in Nat \ {0}
  /\ Timeouts \subseteq Nat
  /\ DefaultConfig \in Config
  /\ DefaultConfig.DeadLetterTarget = NoQueue

\* The attributes applyAttrs understands, with the values it lets through.
AttrValues ==
  [FifoQueue |-> BOOLEAN, ContentBasedDeduplication |-> BOOLEAN,
   VisibilityTimeout |-> Nat, DelaySeconds |-> Nat,
   MessageRetentionPeriod |-> Nat, MaximumMessageSize |-> Nat,
   ReceiveMessageWaitTimeSeconds |-> Nat,
   RedrivePolicy |-> {NoQueue} \cup [target : Queue, count : Nat]]

ASSUME AttrCallsAssumption ==
  \A a \in AttrCalls : \A f \in DOMAIN a :
    f \in DOMAIN AttrValues /\ a[f] \in AttrValues[f]

ASSUME BatchesAssumption ==
  \A b \in Batches :
    /\ IsFiniteSet(DOMAIN b)
    /\ DOMAIN b = 1..Cardinality(DOMAIN b)
    /\ b = [i \in DOMAIN b |-> b[i]]
    /\ \A i \in DOMAIN b : b[i] \in Entry

TypeOK ==
  /\ live \subseteq Queue
  /\ cfg \in [Queue -> Config]
  /\ msgs \in [Queue -> SUBSET Message]
  /\ lastSeq \in [Queue -> Nat]
  /\ dedup \in [Queue -> SUBSET DedupRec]
  /\ handles \subseteq Handle
  /\ sweep \in [todo : SUBSET Queue, at : Nat]
  /\ now \in Nat
  /\ fate \in [MsgId -> Fate]
  /\ admitted \in [Queue -> SUBSET DedupRec]

Init ==
  /\ live = {}
  /\ cfg = [q \in Queue |-> DefaultConfig]
  /\ msgs = [q \in Queue |-> {}]
  /\ lastSeq = [q \in Queue |-> 0]
  /\ dedup = [q \in Queue |-> {}]
  /\ handles = {}
  /\ sweep = [todo |-> {}, at |-> 0]
  /\ now = 0
  /\ fate = [i \in MsgId |-> "unsent"]
  /\ admitted = [q \in Queue |-> {}]

Ids(S) == {m.id : m \in S}

\* The ids in S are given the fate f.
Mark(S, f) == [i \in MsgId |-> IF i \in S THEN f ELSE fate[i]]

\* Weakened form of Rank: the first position is not counted.
RankFromZero(S, s) == Cardinality({t \in S : t < s})

\* The number of members of S (a set of positions) that are not after s.
Rank(S, s) == Cardinality({t \in S : t <= s})

Seqs(S) == {m.seq : m \in S}

-----------------------------------------------------------------------------
(* Queue definitions.                                                      *)

\* The value an attribute map gives to f, or the present one.
Attr(a, f, old) == IF f \in DOMAIN a THEN a[f] ELSE old

\* applyRedrive's answer to a policy [target, count]: the target is another
\* queue, exists, and is of the type this definition has at that moment.
RedriveAccepted(q, fifo, policy) ==
  /\ policy.target # q
  /\ policy.target \in live
  /\ cfg[policy.target].FIFO = fifo
  /\ policy.count \in 1..1000

\* applyAttrs walks a Go map, in no fixed order, so a redrive policy is held
\* against the FIFO flag from before or from after the same call's FifoQueue.
AttrsAccepted(q, c, a) ==
  "RedrivePolicy" \in DOMAIN a =>
    \/ a.RedrivePolicy = NoQueue
    \/ \E fifo \in {c.FIFO, Attr(a, "FifoQueue", c.FIFO)} :
         RedriveAccepted(q, fifo, a.RedrivePolicy)

\* applyAttrs: fold an accepted attribute map into a definition.  An empty
\* RedrivePolicy clears both of its fields.
ApplyAttrs(c, a) ==
  LET redrive ==
        IF "RedrivePolicy" \notin DOMAIN a
          THEN [target |-> c.DeadLetterTarget, count |-> c.MaxReceiveCount]
        ELSE IF a.RedrivePolicy = NoQueue
          THEN [target |-> NoQueue, count |-> 0]
        ELSE a.RedrivePolicy
  IN [FIFO              |-> Attr(a, "FifoQueue", c.FIFO),
      ContentBasedDedup |-> Attr(a, "ContentBasedDeduplication", c.ContentBasedDedup),
      VisibilityTimeout |-> Attr(a, "VisibilityTimeout", c.VisibilityTimeout),
      DelaySeconds      |-> Attr(a, "DelaySeconds", c.DelaySeconds),
      RetentionPeriod   |-> Attr(a, "MessageRetentionPeriod", c.RetentionPeriod),
      MaxMessageSize    |-> Attr(a, "MaximumMessageSize", c.MaxMessageSize),
      WaitTimeSeconds   |-> Attr(a, "ReceiveMessageWaitTimeSeconds", c.WaitTimeSeconds),
      DeadLetterTarget  |-> redrive.target,
      MaxReceiveCount   |-> redrive.count]

\* CreateQueue.  The FifoQueue attribute has to agree with the name.  A queue
\* that is already there is answered or refused, never rewritten.
CreateQueue(q, a) ==
  LET c == [DefaultConfig EXCEPT !.FIFO = Attr(a, "FifoQueue", FALSE)]
  IN /\ q \notin live
     /\ Attr(a, "FifoQueue", FALSE) = (q \in FifoName)
     /\ AttrsAccepted(q, c, a)
     /\ live' = live \cup {q}
     /\ cfg' = [cfg EXCEPT ![q] = ApplyAttrs(c, a)]
     /\ UNCHANGED <<msgs, lastSeq, dedup, handles, sweep, now, fate, admitted>>

\* SetAttributes.  It applies the map to the stored definition, FifoQueue
\* included, and does not look at the name again.
SetAttributes(q, a) ==
  /\ q \in live
  /\ AttrsAccepted(q, cfg[q], a)
  /\ cfg' = [cfg EXCEPT ![q] = ApplyAttrs(cfg[q], a)]
  /\ UNCHANGED <<live, msgs, lastSeq, dedup, handles, sweep, now, fate, admitted>>

\* DeleteQueue drops the definition, the messages and the dedup entries.
DeleteQueue(q) ==
  /\ q \in live
  /\ live' = live \ {q}
  /\ cfg' = [cfg EXCEPT ![q] = DefaultConfig]
  /\ msgs' = [msgs EXCEPT ![q] = {}]
  /\ lastSeq' = [lastSeq EXCEPT ![q] = 0]
  /\ dedup' = [dedup EXCEPT ![q] = {}]
  /\ fate' = Mark(Ids(msgs[q]), "purged")
  /\ admitted' = [admitted EXCEPT ![q] = {}]
  /\ UNCHANGED <<handles, sweep, now>>

\* Purge drops the message bucket, and with it the bucket's sequence: the
\* next message sent is number 1 again.  The dedup entries stay.
Purge(q) ==
  /\ q \in live
  /\ msgs' = [msgs EXCEPT ![q] = {}]
  /\ lastSeq' = [lastSeq EXCEPT ![q] = 0]
  /\ fate' = Mark(Ids(msgs[q]), "purged")
  /\ UNCHANGED <<live, cfg, dedup, handles, sweep, now, admitted>>

-----------------------------------------------------------------------------
(* Sending.                                                                *)

\* The deduplication key of an entry sent to queue q.
HasKey(q, e) == e.dedup # NoDedup \/ cfg[q].ContentBasedDedup

KeyOf(e) == IF e.dedup # NoDedup THEN [given |-> e.dedup] ELSE [md5 |-> e.body]

\* sendIn's early returns: the body is too long, or a FIFO entry has no group
\* or no deduplication key.
Refused(q, e) ==
  \/ cfg[q].MaxMessageSize > 0 /\ e.body > cfg[q].MaxMessageSize
  \/ cfg[q].FIFO /\ (e.group = NoGroup \/ ~HasKey(q, e))

\* Weakened form of IsDuplicate: the last second of the window is left out.
IsRecentDuplicate(q, key) ==
  \E r \in dedup[q] : r.key = key /\ now - r.at < DedupWindow

\* lookupDedup: an entry of the dedup bucket that is within the window.
IsDuplicate(q, key) ==
  \E r \in dedup[q] : r.key = key /\ now - r.at <= DedupWindow

\* The positions of a batch that are enqueued.  A FIFO entry is not when its
\* key is in the window, or was recorded by an earlier entry of the batch.
Enqueued(q, b) ==
  {i \in DOMAIN b :
     /\ ~Refused(q, b[i])
     /\ cfg[q].FIFO =>
          /\ ~IsDuplicate(q, KeyOf(b[i]))
          /\ \A j \in DOMAIN b :
               j < i /\ ~Refused(q, b[j]) => KeyOf(b[j]) # KeyOf(b[i])}

\* gcDedup: what is left of a dedup bucket once its stale entries are pruned.
Pruned(S) == {r \in S : r.at >= now - DedupWindow}

\* The messages and the dedup records of the entries that are enqueued, ids
\* giving each of them its id.
Posted(q, b, ids) ==
  LET delay(i) == IF b[i].delay < 0 THEN cfg[q].DelaySeconds ELSE b[i].delay
  IN {[id |-> ids[i], seq |-> lastSeq[q] + Rank(Enqueued(q, b), i),
       group |-> b[i].group, sent |-> now, visible |-> now + delay(i),
       count |-> 0] : i \in Enqueued(q, b)}

Recorded(q, b, ids) ==
  {[key |-> KeyOf(b[i]), at |-> now, id |-> ids[i]] : i \in Enqueued(q, b)}

Keys(S) == {r.key : r \in S}

\* Send and SendBatch: one transaction, a per-entry failure does not sink the
\* other entries.  A call that enqueues nothing writes nothing.
SendBatch(q, b, ids) ==
  LET E    == Enqueued(q, b)
      recs == Recorded(q, b, ids)
  IN /\ q \in live
     /\ E # {}
     /\ \A i \in E : fate[ids[i]] = "unsent"
     /\ \A i, j \in E : ids[i] = ids[j] => i = j
     /\ msgs' = [msgs EXCEPT ![q] = @ \cup Posted(q, b, ids)]
     /\ lastSeq' = [lastSeq EXCEPT ![q] = @ + Cardinality(E)]
     /\ IF cfg[q].FIFO
          THEN /\ dedup' = [dedup EXCEPT
                     ![q] = {r \in Pruned(@) : r.key \notin Keys(recs)} \cup recs]
               /\ admitted' = [admitted EXCEPT ![q] = @ \cup recs]
          ELSE UNCHANGED <<dedup, admitted>>
     /\ fate' = Mark({ids[i] : i \in E}, "stored")
     /\ UNCHANGED <<live, cfg, handles, sweep, now>>

-----------------------------------------------------------------------------
(* Receiving.                                                              *)

\* Weakened form of Expired: a message goes when its period is just used up.
ExpiredEarly(c, m, t) == c.RetentionPeriod > 0 /\ t - m.sent >= c.RetentionPeriod

\* The message is older than the retention period at time t.
Expired(c, m, t) == c.RetentionPeriod > 0 /\ t - m.sent > c.RetentionPeriod

InFlight(m) == m.visible > now

\* Weakened form of LockedGroups: delayed messages do not lock.
LockedByDelivery(q) ==
  IF cfg[q].FIFO
    THEN {m.group : m \in {x \in msgs[q] : InFlight(x) /\ x.count > 0}}
    ELSE {}

\* The first pass of receiveOnce: the groups of a FIFO queue that have a
\* message in flight or still delayed.
LockedGroups(q) ==
  IF cfg[q].FIFO
    THEN {m.group : m \in {x \in msgs[q] : InFlight(x) /\ x.group # NoGroup}}
    ELSE {}

\* Weakened form of Exhausted: one receive too many.
ExhaustedLate(q, m) ==
  /\ cfg[q].DeadLetterTarget # NoQueue
  /\ m.count > cfg[q].MaxReceiveCount

\* The message has used up its receives and a dead-letter queue is named.
Exhausted(q, m) ==
  /\ cfg[q].DeadLetterTarget # NoQueue
  /\ cfg[q].MaxReceiveCount > 0
  /\ m.count >= cfg[q].MaxReceiveCount

\* Messages the pass could act on: kept, visible and in no locked group.
Open(q) ==
  {m \in msgs[q] :
     ~Expired(cfg[q], m, now) /\ ~InFlight(m) /\ m.group \notin LockedGroups(q)}

Ready(q) == {m \in Open(q) : ~Exhausted(q, m)}

\* Weakened form of Heads: a delivery does not lock its group.
HeadsUnlocked(q) == Ready(q)

\* Delivering a FIFO message locks its group for the rest of the pass, so of
\* each group only the first ready message can be delivered.
Heads(q) ==
  {m \in Ready(q) :
     cfg[q].FIFO => \A x \in Ready(q) : x.group = m.group => m.seq <= x.seq}

\* The walk is in key order and stops once max messages are chosen.
Ahead(S, m) == {x \in S : x.seq < m.seq}

Deliver(q, max) == {m \in Heads(q) : Cardinality(Ahead(Heads(q), m)) < max}

Walked(q, max) ==
  {m \in msgs[q] : Cardinality(Ahead(Deliver(q, max), m)) < max}

ToExpire(q, max) == {m \in Walked(q, max) : Expired(cfg[q], m, now)}

\* Weakened form of ToMove: nobody asks whether the target is there.
ToMoveBlindly(q, max) ==
  {m \in Open(q) \cap Walked(q, max) : Exhausted(q, m)}

\* Exhausted messages the walk meets outside the groups it has locked itself.
\* They are moved when the dead-letter queue is there, and left otherwise.
ToMove(q, max) ==
  IF cfg[q].DeadLetterTarget \in live
    THEN {m \in Open(q) \cap Walked(q, max) :
            /\ Exhausted(q, m)
            /\ cfg[q].FIFO =>
                 \A d \in Deliver(q, max) : d.group = m.group => m.seq < d.seq}
    ELSE {}

\* moveToDLQ and StartMessageMoveTask: copies of the messages of S, in order,
\* at the end of queue d, never received and visible at once.
Arrivals(S, d) ==
  {[m EXCEPT !.seq = lastSeq[d] + Rank(Seqs(S), m.seq),
             !.count = 0, !.visible = now] : m \in S}

\* The visibility timeout of a receive: the call's, or the queue's.
NoOverride == -1

\* Weakened form of VisibilityFor: -1 is taken for a timeout.
VisibilityAsGiven(q, override) == override

VisibilityFor(q, override) ==
  IF override >= 0 THEN override ELSE cfg[q].VisibilityTimeout

HandlesOf(S) == {[seq |-> m.seq, id |-> m.id] : m \in S}

\* The delivered messages as they are stored again.
Taken(q, max, override) ==
  {[m EXCEPT !.count = @ + 1, !.visible = now + VisibilityFor(q, override)] :
     m \in Deliver(q, max)}

\* receiveOnce: one delivery pass, in one transaction.
ReceiveOnce(q, max, override) ==
  LET out    == Deliver(q, max)
      drop   == ToExpire(q, max)
      move   == ToMove(q, max)
      target == cfg[q].DeadLetterTarget
  IN /\ q \in live
     /\ msgs' = [x \in Queue |->
          IF x = q
            THEN (msgs[q] \ (out \cup drop \cup move)) \cup Taken(q, max, override)
          ELSE IF x = target THEN msgs[x] \cup Arrivals(move, x)
          ELSE msgs[x]]
     /\ lastSeq' = [x \in Queue |->
          IF x = target THEN lastSeq[x] + Cardinality(move) ELSE lastSeq[x]]
     /\ handles' = handles \cup HandlesOf(out)
     /\ fate' = Mark(Ids(drop), "expired")
     /\ UNCHANGED <<live, cfg, dedup, sweep, now, admitted>>

\* Peek, the console's inspector: handles for the first visible messages,
\* group locks ignored, nothing written.
Peek(q, max) ==
  LET seen == {m \in msgs[q] : ~InFlight(m) /\ ~Expired(cfg[q], m, now)}
  IN /\ q \in live
     /\ handles' = handles \cup
          HandlesOf({m \in seen : Cardinality(Ahead(seen, m)) < max})
     /\ UNCHANGED <<live, cfg, msgs, lastSeq, dedup, sweep, now, fate, admitted>>

-----------------------------------------------------------------------------
(* Receipt handles.                                                        *)

\* Weakened form of Named: the position alone decides.
NamedByPosition(q, H) == {m \in msgs[q] : \E h \in H : m.seq = h.seq}

\* The stored messages a handle acts on: the one at its position, provided it
\* is still the message the handle was made for.
Named(q, H) ==
  {m \in msgs[q] : \E h \in H : m.seq = h.seq /\ m.id = h.id}

\* Delete and DeleteBatch.  A handle that names nothing is a success.
DeleteBatch(q, H) ==
  /\ q \in live
  /\ msgs' = [msgs EXCEPT ![q] = @ \ Named(q, H)]
  /\ fate' = Mark(Ids(Named(q, H)), "deleted")
  /\ UNCHANGED <<live, cfg, lastSeq, dedup, handles, sweep, now, admitted>>

\* The messages S with the visibility their handles are given by t.
Retimed(S, t) ==
  {[m EXCEPT !.visible = now + t[[seq |-> m.seq, id |-> m.id]]] : m \in S}

\* ChangeVisibility and ChangeVisibilityBatch: t gives each handle its new
\* timeout.  No receive has to be in progress.
ChangeVisibilityBatch(q, t) ==
  LET hit == Named(q, DOMAIN t)
  IN /\ q \in live
     /\ msgs' = [msgs EXCEPT ![q] = (@ \ hit) \cup Retimed(hit, t)]
     /\ UNCHANGED <<live, cfg, lastSeq, dedup, handles, sweep, now, fate, admitted>>

-----------------------------------------------------------------------------
(* Move tasks, the janitor and time.                                       *)

\* Weakened form of StartMessageMoveTask: the source keeps its messages.
CopyMessages(src, dst) ==
  /\ src \in live
  /\ dst \in live
  /\ msgs' = [msgs EXCEPT ![dst] = @ \cup Arrivals(msgs[src], dst)]
  /\ lastSeq' = [lastSeq EXCEPT ![dst] = @ + Cardinality(msgs[src])]
  /\ UNCHANGED <<live, cfg, dedup, handles, sweep, now, fate, admitted>>

\* StartMessageMoveTask moves every stored message, in flight or not.  With
\* src = dst the messages are renumbered in place (a bucket of one leaf page).
StartMessageMoveTask(src, dst) ==
  /\ src \in live
  /\ dst \in live
  /\ msgs' = [x \in Queue |->
       IF x = dst
         THEN (IF src = dst THEN {} ELSE msgs[x]) \cup Arrivals(msgs[src], x)
       ELSE IF x = src THEN {}
       ELSE msgs[x]]
  /\ lastSeq' = [lastSeq EXCEPT ![dst] = @ + Cardinality(msgs[src])]
  /\ UNCHANGED <<live, cfg, dedup, handles, sweep, now, fate, admitted>>

\* Sweep, first transaction: list the queues and read the clock.
SweepBegin ==
  /\ sweep.todo = {}
  /\ live # {}
  /\ sweep' = [todo |-> live, at |-> now]
  /\ UNCHANGED <<live, cfg, msgs, lastSeq, dedup, handles, now, fate, admitted>>

\* Weakened form of SweepQueue: only the dedup entries are looked at.
SweepDedup(q) ==
  /\ q \in sweep.todo
  /\ sweep' = [sweep EXCEPT !.todo = @ \ {q}]
  /\ dedup' = [dedup EXCEPT ![q] = Pruned(@)]
  /\ UNCHANGED <<live, cfg, msgs, lastSeq, handles, now, fate, admitted>>

\* Sweep, one later transaction per queue: retention against the clock read
\* at the start, dedup entries against the present one.  A queue that is gone
\* is skipped.
SweepQueue(q) ==
  LET stale == {m \in msgs[q] : Expired(cfg[q], m, sweep.at)}
  IN /\ q \in sweep.todo
     /\ sweep' = [sweep EXCEPT !.todo = @ \ {q}]
     /\ IF q \in live
          THEN /\ msgs' = [msgs EXCEPT ![q] = @ \ stale]
               /\ fate' = Mark(Ids(stale), "expired")
               /\ dedup' = [dedup EXCEPT ![q] = Pruned(@)]
          ELSE UNCHANGED <<msgs, fate, dedup>>
     /\ UNCHANGED <<live, cfg, lastSeq, handles, now, admitted>>

\* The clock advances by a second, up to the bound.
Tick ==
  /\ now < MaxTime
  /\ now' = now + 1
  /\ UNCHANGED <<live, cfg, msgs, lastSeq, dedup, handles, sweep, fate, admitted>>

-----------------------------------------------------------------------------
(* The specification.  Ops selects the operations an instance makes.       *)

Does(op) == op \in Ops

Define(q) ==
  \/ \E a \in AttrCalls : Does("CreateQueue") /\ CreateQueue(q, a)
  \/ \E a \in AttrCalls : Does("SetQueueAttributes") /\ SetAttributes(q, a)
  \/ Does("PurgeQueue") /\ Purge(q)

Remove(q) == Does("DeleteQueue") /\ DeleteQueue(q)

Send(q) ==
  \E b \in Batches : \E ids \in [Enqueued(q, b) -> MsgId] :
    Does("SendMessage") /\ SendBatch(q, b, ids)

\* A receive that does not wait.
Receive(q) ==
  \E max \in 1..MaxBatch, override \in Timeouts \cup {NoOverride} :
    /\ Does("ReceiveMessage")
    /\ \A m \in Deliver(q, max) : m.count < MaxReceives
    /\ ReceiveOnce(q, max, override)

UseHandles(q) ==
  \/ \E max \in 1..MaxBatch : Does("DozePeek") /\ Peek(q, max)
  \/ \E H \in SUBSET handles :
       Does("DeleteMessage") /\ H # {} /\ DeleteBatch(q, H)
  \/ \E H \in SUBSET handles : \E t \in [H -> Timeouts] :
       Does("ChangeMessageVisibility") /\ H # {} /\ ChangeVisibilityBatch(q, t)

MoveTo(q) ==
  \E p \in Queue :
    /\ Does("StartMessageMoveTask")
    /\ lastSeq[q] + Cardinality(msgs[p]) <= MaxSeq
    /\ StartMessageMoveTask(p, q)

Janitor ==
  /\ Does("Sweep")
  /\ SweepBegin \/ \E q \in Queue : SweepQueue(q)

Next ==
  \/ \E q \in Queue :
       Define(q) \/ Remove(q) \/ Send(q) \/ Receive(q) \/ UseHandles(q) \/ MoveTo(q)
  \/ Janitor
  \/ Tick

Spec == Init /\ [][Next]_vars

\* The janitor runs for as long as the server does (bg.Every).
FairSpec == Spec /\ WF_vars(Janitor)

-----------------------------------------------------------------------------
(* Properties.                                                             *)

\* A message bucket is keyed by sequence number: no two records share one,
\* and NextSequence has already passed every number in use, so that neither
\* a send, a redrive nor a move task overwrites a stored message.
BucketKeys ==
  \A q \in Queue :
    /\ \A m \in msgs[q] : m.seq \in 1..lastSeq[q]
    /\ \A m, n \in msgs[q] : m.seq = n.seq => m = n

\* Every accepted message is stored in exactly one existing queue until it is deleted
\* by a handle, expires, or is purged (with its queue or without): redriving
\* to a dead-letter queue that may be gone and moving between queues neither
\* lose nor duplicate one.
OneHome ==
  /\ \A i \in MsgId :
       fate[i] = "stored" <=> \E q \in live : i \in Ids(msgs[q])
  /\ \A p, q \in Queue : \A m \in msgs[p], n \in msgs[q] :
       m.id = n.id => p = q /\ m = n

\* DeleteMessage removes a message only on a handle that was handed out for
\* that very message.  A purge restarts the numbering, so an old handle can
\* point at the position of a message its holder never received.
DeletedWasIssued ==
  \A i \in MsgId : fate[i] = "deleted" => \E h \in handles : h.id = i

\* In a FIFO queue no message is overtaken: when a message of a group has
\* been delivered, so has every earlier message of the group that is stored.
FifoInOrder ==
  \A q \in Queue : cfg[q].FIFO =>
    \A m, n \in msgs[q] :
      m.group = n.group /\ m.group # NoGroup /\ m.seq < n.seq /\ n.count > 0
        => m.count > 0

\* In a FIFO queue at most one delivered message of a group is in flight,
\* whatever is done with older handles of the group in the meantime.
FifoGroupExclusive ==
  \A q \in Queue : cfg[q].FIFO =>
    \A m, n \in msgs[q] :
      /\ m.group = n.group /\ m.group # NoGroup
      /\ m.count > 0 /\ InFlight(m)
      /\ n.count > 0 /\ InFlight(n)
      => m = n

\* Two sends enqueued in a FIFO queue under one deduplication key are more
\* than the window apart: pruning never forgets a key too early, neither on
\* a send nor in the janitor, and a purge does not open the window.
DedupExact ==
  \A q \in Queue : \A a, b \in admitted[q] :
    a.key = b.key /\ a.id # b.id =>
      a.at - b.at > DedupWindow \/ b.at - a.at > DedupWindow

\* A message of a queue with a redrive policy has never been received more
\* often than the policy allows (while the policies are set before use).
PoisonBound ==
  \A q \in Queue : cfg[q].DeadLetterTarget # NoQueue =>
    \A m \in msgs[q] : m.count <= cfg[q].MaxReceiveCount

\* Retention never drops a message before its time, although the janitor
\* works with a clock reading and a queue list older than its transactions.
NoEarlyExpiry ==
  [][\A q \in Queue : \A m \in msgs[q] :
       fate'[m.id] = "expired" => now - m.sent > cfg[q].RetentionPeriod]_vars

\* A message past its queue's retention is reclaimed although nobody receives
\* from the queue, unless the retention period is raised in the meantime.
ExpiredReclaimed ==
  \A q \in Queue, i \in MsgId :
    LET overdue == \E m \in msgs[q] : m.id = i /\ Expired(cfg[q], m, now)
    IN overdue ~> ~overdue

\* What the repository says and the code does not keep.

\* "a target that does not exist leaves moveToDLQ correctly declining to drop
\* the message, so the queue redelivers forever" (applyRedrive): a message
\* that is visible and in no locked group can be delivered or be moved.
RedeliversForever ==
  \A q \in live : \A m \in Open(q) :
    m \in Ready(q) \/ cfg[q].DeadLetterTarget \in live

=============================================================================
