SPECIFICATION Spec
CONSTANTS
    Customers = {c1, c2, c3}
    Names = {ana, eva}
    None = None
    PageSizes = {1, 2}
    DefaultSize = 1
    MaxPage = 3
SYMMETRY Interchangeable
INVARIANT NobodySkipped
