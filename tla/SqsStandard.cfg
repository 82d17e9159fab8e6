CONSTANTS
  src = src
  dlq = dlq
  g = g
  h = h
  k = k
  m1 = m1
  m2 = m2
  NoQueue = NoQueue
  NoGroup = NoGroup
  NoDedup = NoDedup
  Queue = {src, dlq}
  FifoName = {}
  Group = {g, h}
  DedupId = {k}
  MsgId = {m1, m2}
  DedupWindow = 1
  DefaultConfig <- MCDefault
  Batches <- StandardBatches
  AttrCalls <- StandardAttrs
  Timeouts = {}
  MaxBatch = 2
  Ops = {"CreateQueue", "SetQueueAttributes", "DeleteQueue", "PurgeQueue", "SendMessage", "ReceiveMessage", "DeleteMessage", "Sweep"}
  MaxTime = 3
  MaxSeq = 2
  MaxReceives = 2
SPECIFICATION FairSpec
INVARIANTS TypeOK BucketKeys OneHome DeletedWasIssued
PROPERTIES NoEarlyExpiry ExpiredReclaimed
