SPECIFICATION FairSpec
CONSTANTS
    j1 = j1
    j2 = j2
    w1 = w1
    w2 = w2
    o1 = o1
    JobIds = {j1, j2}
    Owners = {o1}
    NONE = none
    Waits = {w1, w2}
    MaxActive = 2
    WakeBudget = 1
INVARIANTS
    NoSilentSettlement
    NoOrphans
PROPERTIES
    NoticeOnlyIfUnclaimed
    FirstOutcomeStands
    TeardownEnds
CHECK_DEADLOCK FALSE
