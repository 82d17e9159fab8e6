CONSTANTS
  Parts = {"pool", "runner", "mapping", "execution", "stacks", "database"}
  Pollers = {p1}
  Asyncs = {a1}
  PoolMax = 2
  Retries = 0
  MaxVersion = 2
  MaxPools = 2
  MaxRunners = 2
  MaxLate = 1
  Invs = {i1, i2, i3}
  QueueMax = 2
  MaxProcs = 2
  Handlers = {h1, h2}
  BatchSizes = {1, 10}
  MaxStarts = 3
  Def <- Machine
  First = "A"
  Workers = {w1}
  MaxCalls = 5
  MaxFrames = 4
  MaxRestarts = 1
  MaxRedrives = 1
  ResourceNames = {1, 2, 3}
  Stacks = {"s"}
  StackRequests = {q1}
  Templates <- SomeTemplates
  DeletionPolicy <- SomePolicies
  Report <- SomeReports
  Early = {1}
  Callers = {c1, c2, c3}
  MaxHandles = 3
SPECIFICATION ComputeSpec
INVARIANTS
  ComputeTypeOK
  ScaleToZero PoolAccounted
  HandedOverOnce PollersTracked ExecutionMoves BranchesGoverned
  RollbackRestores NoHandleLeaks
CHECK_DEADLOCK FALSE
