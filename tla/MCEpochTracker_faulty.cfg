SPECIFICATION Spec
CONSTANTS
    p1 = p1
    p2 = p2
    Nil = Nil
    Participant <- OneParticipant
    FirstWallet <- OneCoinEach
    MaxEpoch = 3
    MaxHistory = 1
    RunningMaxima = 1
    MaxServed = 1
    MaxWallet = 1
    MaxTransfers = 0
    MayFail <- Failures
    MaxFaults = 2
INVARIANTS
    TypeOK
    OnlyFinishedEpochsArchived
    DurationsNonNegative
    ArchivedSeriesAgree
    HistoryBounded
PROPERTIES
    RewrittenOnlyAtBoot
    RunningMaxNeverDrops
    NodeDataNotCarriedOver
