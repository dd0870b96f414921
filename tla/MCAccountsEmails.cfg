\* One request.
SPECIFICATION Spec
CONSTANTS
    r1 = r1
    r2 = r2
    r3 = r3
    n1 = n1
    n2 = n2
    e1 = e1
    e2 = e2
    e3 = e3
    Before = Before
    Nothing = Nothing
    Requests = {r1}
    Names = {n1, n2}
    Emails = {e1, e2, e3}
    Typed <- AnyCase
    First <- TheFirst
INVARIANTS EmailUnique
\* Every request may have been answered.
CHECK_DEADLOCK FALSE
