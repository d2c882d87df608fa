\* Two concurrent requests while the owner and the platform change the
\* business, the operator, the program and the rule under them.
CONSTANTS
    Requests = {r1, r2}
    Customers = {c1}
    Keys = {k1, k2}
    Rules = {reward}
    Costs = {1, 2}
    Cooldowns = {0, 2}
    MinStampGap = 1
    MaxOpening = 1
    MaxTime = 2
    MaxAdmin = 1
SPECIFICATION FairSpec
INVARIANT RevokedNeverActs
PROPERTIES
    ImplementsLedger
    Answered
