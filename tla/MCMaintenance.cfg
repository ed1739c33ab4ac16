CONSTANTS
    a1 = a1
    Accounts <- OneAccount
    Commands = {c1, c2}
    Target <- AllAtOne
    None = None
    Offered = {"redeem", "disconnect", "reload"}
    Deletable = {}
    Impatient = {}
    MaxRev = 2
    MaxRows = 0
    MaxFailures = 1
SYMMETRY Symmetry
SPECIFICATION Spec
INVARIANTS AcknowledgedMeansDrained BackgroundStaysParked AtMostOneRunner
