\* Every request ends, also after a deadlock; the tees have no inventory record.
SPECIFICATION FairSpec
CONSTANTS
    None = None
    Placing = {p1, p2}
    Updating = {u1}
    Customers = {"ann", "bob"}
    Items = {"shirt", "cap", "tee"}
    Stock = {"shirts", "caps"}
    OwnerOf <- Owners
    Quantity <- Quantities
    VariantStock <- Variants
    ProductStock <- TeelessProducts
    Initial <- OnHand
    Lifecycle <- Disciplined
    MaxInFlight = 3
PROPERTIES EveryRequestEnds
