SPECIFICATION SignInSpec
CONSTANTS
    home = home
    cafe = cafe
    ann = ann
    form = form
    Browsers = {"firefox"}
    Addresses = {home, cafe}
    Names = {ann}
    Forms = {form}
    Limit <- MCLimit
    Window <- MCWindow
    MaxBuckets = 3
    Sweep = 1
    Threshold = 2
    FailMax = 2
    FailWindow = 2
    CodeLife = 1
    MaxNow = 2
    NoCode = NoCode
INVARIANTS
    SignInTypeOK
    SlidingWindow
    CaptchaGate
SYMMETRY Symmetry
CHECK_DEADLOCK FALSE
