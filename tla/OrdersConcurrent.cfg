\* Requests served concurrently, callers that ask for anything.
SPECIFICATION Spec
CONSTANTS
    None = None
    Placing = {p1, p2}
    Updating = {u1, u2}
    Customers = {"ann", "bob"}
    Items = {"shirt", "cap", "tee"}
    Stock = {"shirts", "caps"}
    OwnerOf <- Owners
    Quantity <- Quantities
    VariantStock <- Variants
    ProductStock <- Products
    Initial <- OnHand
    Lifecycle <- Anything
    MaxInFlight = 3
SYMMETRY Symmetry
INVARIANTS TypeOK DeliveryLogged CustomerTold
PROPERTIES StampsKept OnHandOnlyByDelivery
