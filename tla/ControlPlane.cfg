CONSTANTS
    k1 = k1
    k2 = k2
    o1 = o1
    o2 = o2
    h1 = h1
    h2 = h2
    NoOwner = NoOwner
    NoHash = NoHash
    Key <- MCKey
    Owner <- MCOwner
    Hash <- MCHash
    Outcomes = {"succeeded", "pending"}
    MaxFence = 2
SPECIFICATION Spec
SYMMETRY Symmetry
CHECK_DEADLOCK FALSE
INVARIANTS
    StaleTokensPowerless
    FinalByNewest
    OneEntryPerAdmission
PROPERTIES
    FinalStable
    ImplementsContract
