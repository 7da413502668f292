SPECIFICATION Spec
CONSTANTS
    p1 = p1
    p2 = p2
    Nil = Nil
    Participant <- OneParticipant
    FirstWallet <- OneCoinEach
    MaxEpoch = 3
    MaxHistory = 2
    RunningMaxima = 5
    MaxServed = 0
    MaxWallet = 2
    MaxTransfers = 1
    MayFail <- AllButEpochAndDisk
    MaxFaults = 2
INVARIANTS
    NoGapWhileRunning
    NoGapAcrossRestarts
    StateFileNotAhead
    NoPhantomIncome
PROPERTIES
    BaselineMovesWithSnapshot
