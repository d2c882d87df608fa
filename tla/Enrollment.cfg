SPECIFICATION Spec
CONSTANTS
    Requests = {r1, r2, r3}
    Numbers = {n1}
    Emails = {e1, e2}
    None = None
SYMMETRY Interchangeable
CHECK_DEADLOCK FALSE
INVARIANTS
    TypeOK
    OneCustomerPerKey
    HonestAnswers
    LinksOpen
