\* The ledger by itself.
SPECIFICATION Spec
CONSTANTS
    Orders = {o1, o2, o3}
    Stock = {"shirts", "caps"}
    Demands <- SmallDemands
    Initial <- OnHand
SYMMETRY Symmetry
INVARIANTS TypeOK ReservedIsHeld StockConserved NoOversell
