CONSTANTS
  src = src
  dlq = dlq
  g = g
  h = h
  k = k
  m1 = m1
  m2 = m2
  r1 = r1
  r2 = r2
  NoQueue = NoQueue
  NoGroup = NoGroup
  NoDedup = NoDedup
  Queue = {src}
  FifoName = {src}
  Group = {g, h}
  DedupId = {k}
  MsgId = {m1, m2}
  DedupWindow = 1
  DefaultConfig <- MCBrief
  Batches <- MoveBatches
  AttrCalls <- PlainFifoAttrs
  Timeouts = {3}
  MaxBatch = 1
  Ops = {"CreateQueue", "SendMessage"}
  MaxTime = 3
  MaxSeq = 4
  MaxReceives = 4
  Receiver = {r1}
  Waits = {0, 1}
  MaxWait = 2
  MaxOwed = 1
SPECIFICATION PollSpec
INVARIANT NoLostWakeup
SYMMETRY PollSymmetry
