\* Two calls at a time, a long and a short transcript, one query.
SPECIFICATION Spec
CONSTANTS
    long = long
    short = short
    Calls = {c1, c2}
    Idle = Idle
    Sessions = {s1}
    Files <- TwoFiles
    Queries = {q1}
    Parts <- ChunkCounts
    Costs = {1}
    MaxPerSession = 2
    MaxPerFileDay = 2
    SpendCap = 1
    MaxDay = 1
    MaxLosses = 2
INVARIANTS
    TypeOK
    OvershootBounded
    BillAccounted
PROPERTIES
    CachedIsPaid
    EveryCallAnswered
