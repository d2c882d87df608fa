SPECIFICATION Spec
CONSTANTS
    Requests = {r1, r2, r3}
    None = None
    MaxStamps = 2
    DaysPerMonth = 2
    MaxDay = 2
    MonthlyLimit <- Limits
INVARIANTS TypeOK DailyLimitHolds AuditTellsState
PROPERTIES MonthlyLimitHolds
SYMMETRY Interchangeable
CHECK_DEADLOCK FALSE
