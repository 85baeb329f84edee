CONSTANTS
    p1 = p1
    p2 = p2
    t1 = t1
    t2 = t2
    d1 = d1
    d2 = d2
    r1 = r1
    r2 = r2
    NoRun = NoRun
    NoProc = NoProc
    Request = Request
    NoRequest = NoRequest
    Proc = {p1, p2}
    Thread = {t1, t2}
    Db = {d1}
    DbOf <- OneDb
    Run = {r1}
    Shared = FALSE
    Punctual = TRUE
    CallbackResults = {"succeeded", "pending", "cancelled", "error", "retry"}
    MaxAttempts = 2
    MaxFence = 0
    MaxCrashes = 2
    MaxOutages = 0
    MaxFailures = 2
    MaxPool = 3
    Cancels <- AllCancels
SPECIFICATION FairSpec
CHECK_DEADLOCK FALSE
INVARIANTS
    OneExecutor
    AttemptsExact
    NothingForgotten
PROPERTIES
    OutcomeStable
    EveryRunSettles
