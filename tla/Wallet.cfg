SPECIFICATION FairSpec
CONSTANTS
    Customers = {c1, c2, c3}
    Devices = {d1}
    ApplePasses = {c1, c2}
    GooglePasses = {c3}
    Attempts = 2
    TicksPerMs = 2
    MaxMoves = 2
    Movers = {c1, c3}
    MaxPromos = 1
    MaxChanges = 1
    None = None
INVARIANTS TypeOK AppleInSync GoogleInSync
PROPERTIES JobsEnd
CHECK_DEADLOCK FALSE
