\* Three logins at a time; the fifth failure locks, the sixth locks again.
SPECIFICATION Spec
CONSTANTS
    Workers = {w1, w2, w3}
    Threshold = 5
    LockTime = 2
    MaxWrong = 6
    MaxTime = 3
SYMMETRY Alike
INVARIANTS
    TypeOK
    LocksAreEarned
    FailuresInARowLock
PROPERTIES
    LockKept
