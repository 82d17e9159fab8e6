CONSTANTS
  Keys = {k1}
  Pieces = {y1, y2}
  PartNumbers = {1, 2}
  Locks = {"none", "hold", "governance"}
  Requests = {x1, x2}
  MaxBlob = 3
  MaxSeq = 2
  MaxUploads = 1
  MaxCreates = 1
  ItemKeys = {x1, x2, x3}
  IndexKeys = {"x", "y"}
  WriteOps <- PlainPuts
  TxTokens = {t1, t2, t3}
  StreamMax = 3
  TokenTTL = 1
  TxMax = 3
  MaxApplied = 1
  MaxChanges = 9
  MaxClock = 1
  Versions = {y1, y2, v3}
  Rotations = {x1, x2}
  Recovery = 1
  SecretTime = 2
  Entries = {y1, y2}
  Replays = {x1, x2}
  ReplayNames = {"n"}
  RuleTargets = {t1, t2}
  HttpTargets = {t2}
  MaxArchives = 2
  LogClients = {x1, x2}
  FilterNames = {y1, y2}
  Patterns = {"a", "bad"}
  Unusable = {"bad"}
  MaxFilters = 1
  FanBuffer = 1
  Flushers = {x1, x2}
  WorkMax = 1
  MaxEvents = 3
SPECIFICATION DataSpec
INVARIANT LogKeepsNewest
CHECK_DEADLOCK FALSE
