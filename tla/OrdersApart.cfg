\* Two requests at a time that are apart, callers that respect the life cycle.
SPECIFICATION ApartSpec
CONSTANTS
    None = None
    Placing = {p1, p2, p3}
    Updating = {u1, u2}
    Customers = {"ann", "bob"}
    Items = {"shirt", "cap", "tee"}
    Stock = {"shirts", "caps"}
    OwnerOf <- Owners
    Quantity <- Quantities
    VariantStock <- Variants
    ProductStock <- Products
    Initial <- OnHandTight
    Lifecycle <- Disciplined
    MaxInFlight = 2
SYMMETRY Symmetry
INVARIANTS ReservedIsHeld OnHandAudited RowsConserved
PROPERTIES ImplementsLedger
