\* Two runs, at a time or in turn, and two of a midnight, a crash and a save.
SPECIFICATION Spec
CONSTANTS
    alice = alice  bob = bob  nobody = nobody
    scan1 = scan1  scan2 = scan2  scan3 = scan3  legacy = legacy  k1 = k1  k2 = k2
    NoKey = NoKey
    Tasks = {t1, t2}
    Docs = {scan1, scan2, scan3, legacy}
    Owners = {alice, bob}
    NoOwner = nobody
    Owner <- MCOwner
    Key <- MCKey
    Days = {1, 2}
    Limit <- MCLimit
    Configs <- MCConfigs
    MaxRuns = 2
    MaxEvents = 2
SYMMETRY TaskSymmetry
CHECK_DEADLOCK FALSE
INVARIANTS
    TypeOK
    ChargedExactly
    CacheHoldsItsInvoice
    AnswersUnsavedDocument
