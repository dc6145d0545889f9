\* Two requests reserve the same units.
SPECIFICATION Spec
CONSTANTS
    None = None
    Placing = {p1, p2}
    Updating = {}
    Customers = {"ann", "bob"}
    Items = {"shirt", "cap", "tee"}
    Stock = {"shirts", "caps"}
    OwnerOf <- Owners
    Quantity <- Quantities
    VariantStock <- Variants
    ProductStock <- Products
    Initial <- OnHandTight
    Lifecycle <- Disciplined
    MaxInFlight = 3
INVARIANTS NoOversell
