SPECIFICATION Spec
CONSTANTS
    Requests = {r1, r2, r3}
    None = None
    MaxStamps = 2
    DaysPerMonth = 2
    MaxDay = 0
    MonthlyLimit <- Limits
INVARIANT RulesFitTheCard
SYMMETRY Interchangeable
CHECK_DEADLOCK FALSE
