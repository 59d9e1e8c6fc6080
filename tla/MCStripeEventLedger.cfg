SPECIFICATION Spec
CONSTANTS
    w1 = w1
    w2 = w2
    demo = demo
    None = None
    Workspaces = {w1, w2, demo}
    Demo = {demo}
    Governed = {w1}
    Ids = {1, 2, 3, 4}
    Objects <- AllObjects
    Histories <- SmallHistories
    PerSecond = 2
    Freshness = 2
    MaxTime = 6
    MaxActs = 2
INVARIANTS TypeOK PendingFreezes OneTenant ReceiptsAreOrdered NewestStatusWins
PROPERTIES NoRevival FollowsTheCut
CHECK_DEADLOCK FALSE
