\* Two active rules sharing one balance.
CONSTANTS
    Rules = {r1, r2}
    Costs = {3, 6}
    Sizes = {6}
    MaxStamps = 10
SPECIFICATION Spec
INVARIANT CountIsReal
CHECK_DEADLOCK FALSE
