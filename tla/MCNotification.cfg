SPECIFICATION Spec
SYMMETRY WorkerSymmetry
CONSTANTS
    Accounts = {a1}
    NoAccount = none
    Workers = {w1, w2}
    EventKinds = {"session_retry", "session_expired", "session"}
    Batch = 2
    QueueLimit = 2
    MaxAttempts = 2
    Lease = 1
    Pace = 1
    Natives = {TRUE}
    Backoffs = {1}
    Cooldown = 1
    TestWait = 1
    MaxEvents = 2
    MaxRevision = 2
    MaxTests = 0
    Upheavals = {"user", "delete"}
INVARIANTS TypeOK SubscriberIsTold RecoveryFollowsAlert RoutePostponedByItself
PROPERTIES ImplementsFeed
