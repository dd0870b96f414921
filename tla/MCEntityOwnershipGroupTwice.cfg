SPECIFICATION Spec
CONSTANTS
    ann = ann
    bob = bob
    cem = cem
    r1 = r1
    r2 = r2
    r3 = r3
    r4 = r4
    Users = {ann, bob}
    Admins = {}
    Requests = {r1, r2, r3, r4}
    Grants = {}
    LoginIsName = {}
    FirstMembers <- OneOwner
    FirstVersion = 1
    FirstInvitations <- BobInvitedAsOwner
    Holders = {}
SYMMETRY Symmetric
PROPERTY LastOwnerStays
CHECK_DEADLOCK FALSE
