\* Two requests at a time, two of them saving, on three users with any roles.
\* The last administrators can deactivate each other: then nobody can ask.
SPECIFICATION Spec
CONSTANTS
    Users = {u1, u2, u3}
    Requests = {r1, r2}
    Roles = {"customer", "manager", "admin", "super_admin"}
    Status = {"active", "suspended"}
    None = None
    MaxSaves = 2
SYMMETRY MCSymmetry
CHECK_DEADLOCK FALSE
INVARIANTS
    TypeOK
    RanksFromAbove
PROPERTIES
    SomeoneStays
    OneColumnAtATime
