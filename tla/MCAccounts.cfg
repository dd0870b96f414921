\* Three requests about a user and a registration at most.
SPECIFICATION Spec
CONSTANTS
    r1 = r1
    r2 = r2
    r3 = r3
    n1 = n1
    n2 = n2
    e1 = e1
    e2 = e2
    e3 = e3
    Before = Before
    Nothing = Nothing
    Requests = {r1, r2, r3}
    Names = {n1, n2}
    Emails = {e1, e2, e3}
    Typed <- TheTyped
    First <- TheFirst
SYMMETRY Symmetry
INVARIANTS OneLinkPerUser
PROPERTIES KeyProvesAddress NothingLostOrUndone
\* Every request may have been answered.
CHECK_DEADLOCK FALSE
