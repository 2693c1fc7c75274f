SPECIFICATION FairSpec
CONSTANTS
    one = one
    two = two
    review = review
    other = other
    side = side
    main = main
    byCide = byCide
    Sessions = {one, two, review, other}
    Tabs = {main, side, byCide}
    TabOf <- Placed
    Ephemeral = {byCide}
    Depth = 1
    MaxGen = 2
    Worlds <- Mixed
INVARIANTS
    TypeOK
    NoDeadPane
    NoChildLost
PROPERTIES
    DetachedGoes
    ReopenEnds
CHECK_DEADLOCK FALSE
