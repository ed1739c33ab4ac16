CONSTANTS
    a1 = a1
    Accounts <- OneAccount
    Commands = {c1}
    Target <- AllAtOne
    None = None
    Offered = {"reconnect", "start", "pause"}
    Deletable = {}
    Impatient = {}
    MaxRev = 1
    MaxRows = 0
    MaxFailures = 1
SPECIFICATION FairSpec
PROPERTY CommandIsAcknowledged
