\* One reader beside two writers, two products, two slugs.
SPECIFICATION FairSpec
CONSTANTS
    Products = {p1, p2}
    Slugs = {"a", "b"}
    Shown = {"no", "featured"}
    Readers = {r1}
    Writers = {w1, w2}
    Seed = Seed
INVARIANTS
    TypeOK
    CleanEntriesCurrent
    SealedStaysDeleted
PROPERTY
    EventuallyCoherent
