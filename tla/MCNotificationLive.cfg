SPECIFICATION FairSpec
CONSTANTS
    Accounts = {a1}
    NoAccount = none
    Workers = {w1}
    EventKinds = {"session_expired", "session"}
    Batch = 1
    QueueLimit = 1
    MaxAttempts = 2
    Lease = 1
    Pace = 1
    Natives = {TRUE}
    Backoffs = {1}
    Cooldown = 1
    TestWait = 1
    MaxEvents = 2
    MaxRevision = 1
    MaxTests = 1
    Upheavals = {}
INVARIANT SubscriberIsTold
PROPERTIES RowsSettle EventsAreConsumed
