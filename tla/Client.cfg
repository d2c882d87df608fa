\* One page, two customers and up to four server actions, any of which may
\* be late, lost, rejected or fail after its commit.
CONSTANTS
    Customers = {c1, c2}
    NoOne = NoOne
    MaxCalls = 4
SPECIFICATION FairTabSpec
INVARIANTS
    TabTypeOK
    SuccessIsReal
    ShownKeysAreSpent
PROPERTY NeverStuck
CHECK_DEADLOCK FALSE
