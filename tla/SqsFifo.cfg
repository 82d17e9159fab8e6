CONSTANTS
  src = src
  dlq = dlq
  g = g
  h = h
  k = k
  m1 = m1
  m2 = m2
  NoQueue = NoQueue
  NoGroup = NoGroup
  NoDedup = NoDedup
  Queue = {src, dlq}
  FifoName = {src, dlq}
  Group = {g, h}
  DedupId = {k}
  MsgId = {m1, m2}
  DedupWindow = 0
  DefaultConfig <- MCKeep
  Batches <- FifoBatches
  AttrCalls <- FifoAttrs
  Timeouts = {0, 1}
  MaxBatch = 2
  Ops = {"CreateQueue", "SendMessage", "ReceiveMessage", "DozePeek", "DeleteMessage", "ChangeMessageVisibility", "StartMessageMoveTask"}
  MaxTime = 1
  MaxSeq = 2
  MaxReceives = 2
SPECIFICATION Spec
INVARIANTS OneHome FifoInOrder FifoGroupExclusive PoisonBound DedupExact
SYMMETRY Symmetry
