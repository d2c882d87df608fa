\* Three concurrent requests of any kind, for any of two customers and with
\* any of two keys; nothing else changes.
CONSTANTS
    Requests = {r1, r2, r3}
    Customers = {c1, c2}
    Keys = {k1, k2}
    Rules = {reward}
    Costs = {1, 2}
    Cooldowns = {0}
    MinStampGap = 1
    MaxOpening = 2
    MaxTime = 1
    MaxAdmin = 0
SPECIFICATION Spec
SYMMETRY Interchangeable
INVARIANTS
    TypeOK
    BalanceConserved
    OneEffectPerKey
    StampGap
    RewardsPaired
    HonestReplies
PROPERTY BalanceMovesWithLedger
