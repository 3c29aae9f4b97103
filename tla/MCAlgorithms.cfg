SPECIFICATION Spec
CONSTANTS
  Components = {"run", "packed", "codecs", "time"}
  RunPageBytes = 7
  FragmentHeader = 1
  MaxKeyBytes = 2
  MaxValueBytes = 9
  MaxRunPages = 7
  MaxRunEntries = 3
  Stride = 2
  RunValues <- SmallRunValues
  RunInputs <- SmallRunInputs
  RunChanges <- SmallRunChanges
  ProbeKeys <- SmallProbeKeys
  GetLimits <- SmallGetLimits
  ScanLimits <- SmallScanLimits
  ReadLimits <- SmallReadLimits
  MergeLimits <- SmallMergeLimits
  ByteBits = 2
  PageCapacity = 2
  LookupBudget = 10
  RangeBudget = 12
  MaxSlots = 3
  MaxPayload = 9
  MaxChunkData = 2
  MaxPackPages = 6
  Scenarios <- SmallScenarios
  WideLimits <- AllLimits
  StageLimits <- SmallStageLimits
  CheckLimits <- SmallCheckLimits
  Records <- AllRecords
  Pool <- SmallPool
  MaxEdits = 1
  MaxGrown = 3
  MaxU64 = 11
  MaxU32 = 7
  HardCap = 5
  PermissionMask = 7
  MaxInlineBytes = 5
  MaxPrincipals = 2
  MaxRules = 4
  MaxOffset = 6
  MaxEffective = 9
  MaxDigits = 9
  MaxDetail = 11
  MaxCount = 11
  MaxAssumptions = 2
  EmptyText = EmptyText
  HalfTurn = 4
  QuarterTurn = 2
  Base = 8
  NotUtf8 = 7
  MaxText = 2
  MaxItems = 2
  MaxRows = 5
  MaxBlobBytes = 9
  BlobChunkBytes = 2
  MaxSourceBytes = 4
  MaxSeconds = 20
  NanosPerSecond = 8
  MaxRequestBytes = 100
  MaxInline = 3
  MaxCollection = 3
  MaxNesting = 2
  MaxNodes = 6
  MaxValuePayload = 30
  MapField <- MapKey
  RefsField <- RefsKey
  SecondsPerDay = 8
  Zones <- SmallZones
  TimeRequests <- SmallRequests
INVARIANTS
  IndexesAreCanonical
  IndexReadsAreExact
  CodecsAreCanonical
  TimesAreSettled
CHECK_DEADLOCK FALSE
