CONSTANTS
    attempt = attempt  conn = conn  login = login  other = other
    Attempt = attempt
    Conn = conn
    Login = login
    Calls = {login, other}
    Work <- AllWork
    Mode <- Modes
    Fickle = {attempt, other}
    Waiters = {x1}
SPECIFICATION FairClientSpec
INVARIANTS WaitMeansDrained CloseAtMostOnce BlockedWorkIsCancelled DrainedMeansSilent SendersNeverBlock MergedAtMostOnce
PROPERTY WaitReturns
