\* The bootstrap admin, two accounts to come, and two requests in flight.
SPECIFICATION Spec
CONSTANTS
    root = root
    ann = ann
    ben = ben
    Users = {root, ann, ben}
    Username <- MCUsername
    Root = root
    Legacy = {}
    Requests = {r1, r2}
    InviteRequired = TRUE
    MaxUses = 1
    MaxHashes = 3
    MaxVersion = 2
    MaxSessions = 2
SYMMETRY RequestSymmetry
INVARIANTS
    TypeOK
    AdminRemains
PROPERTIES EndedStaysEnded
CHECK_DEADLOCK FALSE
