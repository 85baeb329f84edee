SPECIFICATION FairSpec
CONSTANTS
    m1 = m1
    m2 = m2
    Msgs = {m1, m2}
    CTX = ctx
    MaxSteps = 2
    MaxOps = 2
INVARIANTS
    LogWellFormed
    InboxIsReplay
    EntersOnce
PROPERTIES
    WakeReplayed
    DisposalCompletes
CHECK_DEADLOCK FALSE
