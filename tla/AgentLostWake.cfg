SPECIFICATION Spec
CONSTANTS
    m1 = m1
    m2 = m2
    Msgs = {m1, m2}
    CTX = ctx
    MaxSteps = 2
    MaxOps = 2
PROPERTIES
    LiveDriverClaims
CHECK_DEADLOCK FALSE
