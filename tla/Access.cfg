SPECIFICATION Spec
CONSTANTS
    Requests = {r1, r2, r3}
    Admins = {a1}
    Businesses = {b1, b2}
    Emails = {e1}
    Earlier = Earlier
    None = None
SYMMETRY Interchangeable
CHECK_DEADLOCK FALSE
INVARIANTS
    TypeOK
    OneSeat
    StaffFits
PROPERTIES
    DeletedIsLeft
