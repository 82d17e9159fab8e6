CONSTANTS
  src = src
  dlq = dlq
  g = g
  h = h
  k = k
  m1 = m1
  m2 = m2
  r1 = r1
  r2 = r2
  NoQueue = NoQueue
  NoGroup = NoGroup
  NoDedup = NoDedup
  Queue = {src}
  FifoName = {}
  Group = {g, h}
  DedupId = {k}
  MsgId = {m1}
  DedupWindow = 1
  DefaultConfig <- MCKeep
  Batches <- SingleBatch
  AttrCalls <- NoAttrsOnly
  Timeouts = {}
  MaxBatch = 1
  Ops = {"CreateQueue", "SendMessage", "ReceiveFromMissing"}
  MaxTime = 1
  MaxSeq = 4
  MaxReceives = 4
  Receiver = {r1, r2}
  Waits = {0, 1}
  MaxWait = 2
  MaxOwed = 1
SPECIFICATION PollSpec
INVARIANT NobodyForgotten
