SPECIFICATION FairSpec
CONSTANTS
    n1 = n1
    n2 = n2
    t1 = t1
    t2 = t2
    Nil = Nil
    Node = {n1, n2}
    Task = {t1, t2}
    Lists <- FewLists
    MaxSweeps = 2
INVARIANTS
    TypeOK
    OneSweepShown
    ExactlyTheListed
    GaugeIsMaximum
PROPERTIES
    KeepsPromise
    SweepEnds
