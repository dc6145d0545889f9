\* Two viewers of two roles, three orders, a month that ends on the second of four days.
SPECIFICATION Spec
CONSTANTS
    Orders = {o1, o2, o3}
    Viewers = {v1, v2}
    Roles = {admin, manager}
    FirstDays = {1, 3}
    MaxDay = 4
SYMMETRY MCSymmetry
INVARIANT
    SummaryAddsUp
