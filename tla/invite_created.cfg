\* The bootstrap admin creates the first code.
SPECIFICATION Spec
CONSTANTS
    root = root
    ann = ann
    ben = ben
    Users = {root, ann, ben}
    Username <- MCUsername
    Root = root
    Legacy = {}
    Requests = {r1, r2}
    InviteRequired = TRUE
    MaxUses = 1
    MaxHashes = 2
    MaxVersion = 1
    MaxSessions = 2
SYMMETRY RequestSymmetry
INVARIANTS InviteCreated
CHECK_DEADLOCK FALSE
