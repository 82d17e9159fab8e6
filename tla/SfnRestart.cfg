CONSTANTS
  Parts = {"execution"}
  Pollers = {p1}
  Asyncs = {a1}
  PoolMax = 1
  Retries = 0
  MaxVersion = 1
  MaxPools = 1
  MaxRunners = 1
  MaxLate = 1
  Invs = {i1}
  QueueMax = 1
  MaxProcs = 1
  Handlers = {h1}
  BatchSizes = {1}
  MaxStarts = 1
  Def <- Machine
  First = "M"
  Workers = {w1}
  MaxCalls = 5
  MaxFrames = 4
  MaxRestarts = 1
  MaxRedrives = 0
  ResourceNames = {1, 2, 3}
  Stacks = {"s"}
  StackRequests = {q1}
  Templates <- SomeTemplates
  DeletionPolicy <- SomePolicies
  Report <- SomeReports
  Early = {1}
  Callers = {c1}
  MaxHandles = 1
SPECIFICATION ComputeSpec
INVARIANT RestartResumes
CHECK_DEADLOCK FALSE
