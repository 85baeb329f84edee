SPECIFICATION FairSpec
CONSTANTS
    Node = {1, 2, 3, 4, 5}
    Deps <- Diamond
    MaxRepairs <- FirstRepairable
    Worker = {t1, t2}
    Caller = caller
    Limit = 2
    MaxFaults = 1
    MaxCrashes = 1
INVARIANTS StatusFollowsDeps ExecutedOncePerAttempt
PROPERTIES RunFinishes SettledStays
CHECK_DEADLOCK FALSE
