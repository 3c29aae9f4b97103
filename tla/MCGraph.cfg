SPECIFICATION Spec
CONSTANTS
    Ids <- MCIds
    MaxOperations = 5
    MaxReferences = 24
    MaxResults = 4
    Transactions <- MCTransactions
    Requests <- MCRequests
    Grants <- MCGrants
    MaxRevision = 3
INVARIANTS
    ReducerStateIsRestorable
    PartialProofsSuffice
    RootsHoldTheJournalState
    ReadsAgree
PROPERTY
    EffectsWereAuthorized
