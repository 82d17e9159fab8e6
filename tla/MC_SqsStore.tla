---------------------------- MODULE MC_SqsStore ----------------------------
(***************************************************************************)
(* Small instances of SqsStore for TLC.                                    *)
(***************************************************************************)
EXTENDS SqsStore, TLC

CONSTANTS src, dlq, g, h, k, m1, m2

\* CreateQueue's defaults, scaled down: retention 2s, timeout 1s.
MCDefault ==
  [FIFO |-> FALSE, ContentBasedDedup |-> FALSE, VisibilityTimeout |-> 1,
   DelaySeconds |-> 0, RetentionPeriod |-> 2, MaxMessageSize |-> 2,
   WaitTimeSeconds |-> 1,
   DeadLetterTarget |-> NoQueue, MaxReceiveCount |-> 0]

\* A definition whose messages outlive the run.
MCKeep == [MCDefault EXCEPT !.RetentionPeriod = 9]

\* A definition whose messages stay visible when they are received.
MCInstant == [MCKeep EXCEPT !.VisibilityTimeout = 0]

\* A definition whose messages expire while they can be in flight.
MCBrief == [MCDefault EXCEPT !.RetentionPeriod = 1]

Plain(body, delay) ==
  [body |-> body, delay |-> delay, group |-> NoGroup, dedup |-> NoDedup]

Grouped(body, gr, key) ==
  [body |-> body, delay |-> NoOverride, group |-> gr, dedup |-> key]

\* One message; a batch whose first entry is too long for the queue.
StandardBatches ==
  {<<Plain(1, NoOverride)>>, <<Plain(3, 0), Plain(1, 1), Plain(1, 0)>>}
SingleBatch == {<<Plain(1, NoOverride)>>}
DelayBatches == {<<Plain(1, 0)>>, <<Plain(1, 1)>>}

\* A message keyed by its body, and a delayed one with a key of its own.
FifoBatches ==
  {<<Grouped(1, g, NoDedup)>>, <<[Grouped(2, g, k) EXCEPT !.delay = 1]>>}

\* Two messages of one group, sent apart.
MoveBatches == {<<Grouped(1, g, NoDedup)>>, <<Grouped(2, g, NoDedup)>>}

NoAttrs == <<>>
Redrive(n) == [RedrivePolicy |-> [target |-> dlq, count |-> n]]
Retain(n) == [MessageRetentionPeriod |-> n]
Fifo == [FifoQueue |-> TRUE, ContentBasedDeduplication |-> TRUE]
FifoRedrive(n) == Fifo @@ Redrive(n)

StandardAttrs == {Redrive(1), Retain(1)}
PlainFifoAttrs == {Fifo}
FifoAttrs == {Fifo, FifoRedrive(1)}
PollAttrs == {NoAttrs, Redrive(1)}
NoAttrsOnly == {NoAttrs}

Symmetry == Permutations(MsgId)
=============================================================================
