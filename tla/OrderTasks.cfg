\* The worker next to the requests; every task comes to an end.
SPECIFICATION FairTasksSpec
CONSTANTS
    None = None
    Placing = {p1}
    Updating = {}
    Customers = {"ann"}
    Items = {"shirt"}
    Stock = {"shirts"}
    OwnerOf <- Owners
    Quantity <- Quantities
    VariantStock <- Variants
    ProductStock <- Products
    Initial <- OnHand
    Lifecycle <- Updates
    MaxInFlight = 2
    AccountMails = {"reset"}
    MaxRetries = 3
INVARIANT MailOnlyForOrders
PROPERTY EveryTaskSettles
