CONSTANTS
    p1 = p1
    p2 = p2
    t1 = t1
    t2 = t2
    d1 = d1
    d2 = d2
    r1 = r1
    r2 = r2
    NoRun = NoRun
    NoProc = NoProc
    Request = Request
    NoRequest = NoRequest
    Proc = {p1, p2}
    Thread = {t1}
    Db = {d1, d2}
    DbOf <- OwnDb
    Run = {r1}
    Shared = TRUE
    Punctual = TRUE
    CallbackResults = {"succeeded"}
    MaxAttempts = 1
    MaxFence = 3
    MaxCrashes = 1
    MaxOutages = 0
    MaxFailures = 1
    MaxPool = 1
    Cancels <- NoCancels
SPECIFICATION FairSpec
CHECK_DEADLOCK FALSE
PROPERTIES
    DeadWorkersRunRetried
