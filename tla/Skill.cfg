SPECIFICATION FairSpec
CONSTANTS
    c1 = c1  c2 = c2  c3 = c3
    f1 = f1
    r1 = r1  p1 = p1  p2 = p2
    Call = {c1, c2, c3}
    Run = {r1}
    Proc = {p1, p2}
    Fingerprint = {f1}
    RunOf <- OneRun
    ProcOf <- TwoProcs
    PrintOf <- OnePrint
    ParentPolicies <- Parents
    ChildPolicy <- Children
    Unreliable = {c2}
    Answer <- TwoReplies
    UsageId = {"u"}
    Meter = {"model_tokens"}
    NoPolicy = NoPolicy
    NoLimit = NoLimit
    Nil = Nil
    Shared = TRUE
    Free = Free
    NoEntry = NoEntry
INVARIANTS OneGenerator ReservationsReturned ChildrenBounded SlotsExact
PROPERTIES ClaimKeptForOwner EveryCallReturns
CHECK_DEADLOCK FALSE
