CONSTANTS
  src = src
  dlq = dlq
  g = g
  h = h
  k = k
  m1 = m1
  m2 = m2
  NoQueue = NoQueue
  NoGroup = NoGroup
  NoDedup = NoDedup
  Queue = {src, dlq}
  FifoName = {}
  Group = {g, h}
  DedupId = {k}
  MsgId = {m1}
  DedupWindow = 1
  DefaultConfig <- MCKeep
  Batches <- SingleBatch
  AttrCalls <- PollAttrs
  Timeouts = {1}
  MaxBatch = 1
  Ops = {"CreateQueue", "DeleteQueue", "SendMessage", "ReceiveMessage"}
  MaxTime = 3
  MaxSeq = 4
  MaxReceives = 2
SPECIFICATION Spec
INVARIANT RedeliversForever
