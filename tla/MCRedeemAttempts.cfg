SPECIFICATION FairSpec
CONSTANTS
    Codes = {k1}
    Accounts = {a1, a2}
    Workers = {w1, w2}
    NoOne = NoOne
    Crowd = 1
INVARIANT TypeOK
PROPERTIES SettledStays QuietVerdictHolds RunningEnds
