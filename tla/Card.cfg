\* Two rules of three costs, active or not, on a card of one stamp and on one
\* of three: up to two full cards and a half, and a week of two days, three
\* weeks of charts.  The nine days are enough for rows to leave the charts.
CONSTANTS
    Rules = {r1, r2}
    Costs = {1, 3, 4}
    Sizes = {1, 3}
    MaxStamps = 9
    WeekDays = 2
    WeeksBack = 3
    PeriodDays = 3
    InactiveDays = 4
    NearRewardGap = 2
    MaxOpening = 6
    MaxMoves = 3
    Horizon = 8
    None = None
    Businesses <- MCBusinesses
SYMMETRY Symmetry
SPECIFICATION DayByDay
INVARIANTS
    NumbersHonest
    DashboardAddsUp
    PassesTellTheTruth
PROPERTY EveryMoveShows
CHECK_DEADLOCK FALSE
