SPECIFICATION PipelineSpec
CONSTANTS
  ThrottleMax = 1
  Leaves = {"depth", "name"}
  PathOf <- MCPathOf
  Unattributed = {}
  FirstTree <- MCFirstTree
  ValuesOf <- MCValuesOf
  Precision <- MCPrecision
  Rules <- MCRules
  Filter <- MCFilter
  SkipOwnData = TRUE
  BufferCap = 2
  DropCount = 1
  MaxBatch = 1
  RecentMax = 1
  MaxPumps = 1
  MaxPublished = 3
  MaxFaults = 2
  RegistryMax = 2
  RegistryTtl = 3
  Empty = Empty
  SafePayload = 4
  BudgetFactor = 2
INVARIANTS PipelineInv RestartedIsReprimed ReceiverFollows
CHECK_DEADLOCK FALSE
