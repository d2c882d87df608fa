\* One operator, whose entries no other operator touches, with two lookups
\* at a time, over more than two windows of each kind and two sweeps.
CONSTANTS
    Operators = {o1}
    Slots = {s1, s2}
    LookupWindow = 1
    LookupMax = 2
    FailureWindow = 2
    FailureMax = 2
    Block = 2
    StampWindow = 2
    StampMax = 1
    SweepInterval = 1
    MaxTime = 4
SPECIFICATION Spec
INVARIANTS
    TypeOK
    WindowsHold
    GuessesBounded
    WaitingPays
PROPERTY BlocksHold
CHECK_DEADLOCK FALSE
