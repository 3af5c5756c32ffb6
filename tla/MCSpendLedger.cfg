\* Three processes, so that two may find the lock of the third one stale.
SPECIFICATION LedgerSpec
CONSTANTS
    Procs = {p1, p2, p3}
    Amounts = {1, 2}
    MaxRecorded = 3
    NoFile = NoFile
    NoLock = NoLock
SYMMETRY ProcSymmetry
INVARIANTS
    LedgerTypeOK
    NeverOvercounts
PROPERTIES
    ImplementsCounter
