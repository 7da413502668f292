SPECIFICATION Spec
CONSTANTS
    p1 = p1
    p2 = p2
    Nil = Nil
    Participant <- OneParticipant
    FirstWallet <- OneCoinEach
    MaxEpoch = 2
    MaxHistory = 2
    RunningMaxima = 5
    MaxServed = 0
    MaxWallet = 1
    MaxTransfers = 0
    MayFail = {}
    MaxFaults = 0
INVARIANTS
    EstimateOfOwnEpoch
