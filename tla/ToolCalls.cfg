SPECIFICATION FairSpec
CONSTANTS
    N = 3
    MaxParallel = 2
INVARIANTS
    ResultsInModelOrder
    NothingDangles
    ExclusiveIsBarrier
PROPERTIES
    StepEnds
CHECK_DEADLOCK FALSE
