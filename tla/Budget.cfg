SPECIFICATION Spec
CONSTANTS
    Run = {r1, r2}
    Reservation = {i1, i2, i3}
    Meter = {"model_tokens", "tool_calls"}
    Policy <- SmallPolicies
    Claim <- SmallClaims
    Usage <- SmallUsages
    UsageId = {"x", "y"}
    NoPolicy = NoPolicy
    NoLimit = NoLimit
    Nil = Nil
    Shared = TRUE
INVARIANTS NoOverspend CountersMatchOpen ReportWithinUsed
PROPERTIES CommitmentsKept
