SPECIFICATION DataSpec
CONSTANTS
  Ids = {1, 2, 3, 4}
  Numeric = {1, 2, 4}
  accountStart = 1
  accountEnd = 4
  limit = 2
  Genesis <- FirstTables
  Written = {1, 4}
  MaxTime = 3
  MaxCrashes = 1
  CodeAccounts = {2, 3}
  Calls = {c1, c2}
  riAccountsCacheSize = 1
  riAccountsDeleteBatchSize = 1
CHECK_DEADLOCK FALSE
INVARIANTS EveryAccountArrives CacheIsBounded
PROPERTY SyncEnds
