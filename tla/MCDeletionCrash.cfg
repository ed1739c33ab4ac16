CONSTANTS
    a1 = a1
    Accounts <- OneAccount
    Commands = {c1}
    Target <- AllAtOne
    None = None
    Offered = {"automation", "reconnect", "probe", "stop"}
    Deletable = {a1}
    Impatient = {c1}
    MaxRev = 0
    MaxRows = 1
    MaxFailures = 1
SPECIFICATION FairSpec
PROPERTY DeletionCompletes
INVARIANT DeletionIsIsolated
