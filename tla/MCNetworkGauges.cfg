SPECIFICATION FairSpec
CONSTANTS
    Mod32 = 16
    Mod64 = 32
    Item <- TwoNames
    Nil = Nil
    Bare = Bare
    Error = Error
    Group <- AllGroups
    MaxEvents = 1
INVARIANTS
    TypeOK
    NeverInvented
    OneAnswer
PROPERTIES
    FollowsSource
