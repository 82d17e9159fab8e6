CONSTANTS
  MaxHash = 1
  Batches <- OneOrTwo
  ShardCounts = {1, 2}
  Retentions = {1, 2}
  IteratorTTL = 1
  StreamOps = {"Create", "Delete", "Retain", "Split", "Merge", "UpdateCount", "Sweep", "Restart"}
  MaxTime = 2
  MaxSeq = 2
  MaxShards = 3
  MaxEra = 1
  BatchSize = 1
SPECIFICATION FairPollerSpec
INVARIANTS PollerTypeOK KeysRouted NothingPassedOver
PROPERTIES NullMeansRead OpenedIsRead
CHECK_DEADLOCK FALSE
