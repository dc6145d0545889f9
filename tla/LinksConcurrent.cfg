\* Three requests at a time on one account.
SPECIFICATION Spec
CONSTANTS
    r1 = r1
    r2 = r2
    r3 = r3
    r4 = r4
    r5 = r5
    r6 = r6
    r7 = r7
    r8 = r8
    r9 = r9
    r10 = r10
    None = None
    KindOf <- Together
    Requests = {r1, r2, r3, r4, r5, r6, r7, r8}
    VerifyTokens = {v1, v2}
    ResetTokens = {w1, w2}
    Passwords = {p1, p2}
    MaxInFlight = 3
SYMMETRY AlikeTogether
INVARIANTS
    TypeOK
    SpentIsUsed
    VerifiedByLink
    CirclesAreSweeps
PROPERTIES
    TokensOnlyAge
    PasswordByHolder
