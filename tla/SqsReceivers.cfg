CONSTANTS
  src = src
  dlq = dlq
  g = g
  h = h
  k = k
  m1 = m1
  m2 = m2
  r1 = r1
  r2 = r2
  NoQueue = NoQueue
  NoGroup = NoGroup
  NoDedup = NoDedup
  Queue = {src}
  FifoName = {}
  Group = {g, h}
  DedupId = {k}
  MsgId = {m1}
  DedupWindow = 1
  DefaultConfig <- MCKeep
  Batches <- DelayBatches
  AttrCalls <- NoAttrsOnly
  Timeouts = {}
  MaxBatch = 1
  Ops = {"CreateQueue", "DeleteQueue", "SendMessage", "ReceiveFromMissing"}
  MaxTime = 2
  MaxSeq = 1
  MaxReceives = 3
  Receiver = {r1, r2}
  Waits = {0, 2}
  MaxWait = 2
  MaxOwed = 1
SPECIFICATION FairPollSpec
INVARIANTS NoLostWakeup NoStrandedChannel
PROPERTY ReceiveReturns
