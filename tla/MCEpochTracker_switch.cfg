SPECIFICATION Spec
CONSTANTS
    p1 = p1
    p2 = p2
    Nil = Nil
    Participant <- TwoParticipants
    FirstWallet <- AnotherForTheSecond
    MaxEpoch = 2
    MaxHistory = 2
    RunningMaxima = 5
    MaxServed = 0
    MaxWallet = 2
    MaxTransfers = 0
    MayFail = {"crash"}
    MaxFaults = 1
INVARIANTS
    NoPhantomIncome
