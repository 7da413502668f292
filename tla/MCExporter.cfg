SPECIFICATION FairSpec
CONSTANTS
    Poll = {1, 2, 3}
    PublicNodes = 3
    SampleSize = 2
    MaxHeight = 2
    Timeout = 2
    Interval = 3
    Grace = 1
    Requests = 2
INVARIANTS
    TypeOK
    OneCollectAtATime
    NothingServedBeforeFirstCycle
    PollsBounded
    BestAnswer
    PairOfOneBlock
PROPERTIES
    CyclesGoOn
    SignalEnds
