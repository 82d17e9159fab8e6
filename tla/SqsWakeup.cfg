CONSTANTS
  src = src
  dlq = dlq
  g = g
  h = h
  k = k
  m1 = m1
  m2 = m2
  r1 = r1
  r2 = r2
  NoQueue = NoQueue
  NoGroup = NoGroup
  NoDedup = NoDedup
  Queue = {src, dlq}
  FifoName = {}
  Group = {g, h}
  DedupId = {k}
  MsgId = {m1}
  DedupWindow = 1
  DefaultConfig <- MCInstant
  Batches <- DelayBatches
  AttrCalls <- PollAttrs
  Timeouts = {}
  MaxBatch = 1
  Ops = {"CreateQueue", "SendMessage", "StartMessageMoveTask"}
  MaxTime = 1
  MaxSeq = 1
  MaxReceives = 2
  Receiver = {r1, r2}
  Waits <- MCDefaultWaits
  MaxWait = 2
  MaxOwed = 1
SPECIFICATION PollSpec
INVARIANTS PollTypeOK NoLostWakeup
SYMMETRY PollSymmetry
