CONSTANTS
    Window = 2
    BatchSize = 2
    Keep = 3
    Wire = 2
    MaxEvents = 8
    MaxDrops = 2
SPECIFICATION FairSpec
INVARIANT InStep
PROPERTY FollowsFeed
PROPERTY EventuallyShown
CHECK_DEADLOCK FALSE
