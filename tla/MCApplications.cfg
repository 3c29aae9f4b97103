SPECIFICATION Spec
CONSTANTS
    Profile <- SmallPilotProfile
    ResearchProfile <- SmallResearchProfile
    Transactions <- SmallTransactions
    Readers <- SmallReaders
    MaxRevision = 8
    Chunk = 2
    MaxBytes = 3
    SourceBytes <- SmallSourceBytes
    Uploads = {t1, t2}
    OtherMutations <- SmallOtherMutations
    MaxGeneration = 2
    MaxFaults = 2
    ConsumerWrites <- SmallWrites
    MaxWriteFaults = 2
    MaxStored = 3
    Ids <- SmallIds
    MaxOperations = 9
    MaxReferences = 24
    MaxResults = 4
    MaxBatchRecords = 2
    MaxEntries = 6
    MaxFrameDepth = 1
    MaxJobs = 2
    MaxBatches = 4
    MaxRows = 3
    MaxBatchRows = 2
    EvidenceDigest <- SmallEvidenceDigest
    GraphRequests <- SmallGraphRequests
    Starts <- SmallStarts
    Plans <- SmallPlans
    MaxLog = 8
INVARIANTS
    ReadsAsKnown
    MappingRebuilds
    RetriesAreExact
    ImportIsExact
    EngineRestores
PROPERTIES
    PendingIsSettled
CHECK_DEADLOCK FALSE
