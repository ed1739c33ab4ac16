-------------------------- MODULE NotificationOutbox --------------------------
(***************************************************************************)
(* The notifications of one user (internal/notification/service.go,        *)
(* internal/store/notifications.go and what account deletion does to them, *)
(* internal/store/account_deletion.go).                                    *)
(*                                                                         *)
(* Runners append events to the log.  An ingestion loop turns the events   *)
(* behind the user's cursor into incidents and outbox rows, one            *)
(* transaction per batch.  Workers claim a row under a lease, check its    *)
(* destination again, send it, and record the result; a worker may stall   *)
(* anywhere, and may die anywhere (an error of the database, a shutdown, a *)
(* crash), which leaves its row to the lease.  Meanwhile the user edits    *)
(* the settings, an administrator disables the user, and accounts are      *)
(* deleted.                                                                *)
(*                                                                         *)
(* Deadlines are kept as the time left until them, so that time can pass   *)
(* for ever in a finite model: 0 is a deadline that has passed.  Settled   *)
(* rows are never purged here (the code keeps them for seven days); their  *)
(* timers are cleared.  An open row grows old at any moment.               *)
(***************************************************************************)
EXTENDS Integers, Sequences, FiniteSets, FiniteSetsExt

CONSTANTS
    Accounts, NoAccount,  \* NoAccount: the row of a test message has none
    Workers,
    EventKinds,    \* the events the runners emit
    Batch,         \* events per ingestion transaction: 200
    QueueLimit,    \* open rows per user: 200
    MaxAttempts,   \* 5
    Lease,         \* one minute
    Pace,          \* four seconds between attempts at a native provider
    Backoffs,      \* retryDelay, or the longer delay a receiver asks for
    Natives,       \* whether the providers the user chooses from are native
    Cooldown,      \* cooldown_minutes
    TestWait,      \* a minute between test messages
    MaxEvents, MaxRevision, MaxTests,  \* bounds
    Upheavals      \* bound: which of "user" and "delete" are exercised

ASSUME OutboxAssumption ==
    /\ NoAccount \notin Accounts
    /\ {Batch, QueueLimit, MaxAttempts, Lease, Pace, Cooldown, TestWait}
           \cup Backoffs \subseteq Nat \ {0}
    /\ Natives \subseteq BOOLEAN
    /\ Batch <= QueueLimit
    /\ {MaxEvents, MaxRevision, MaxTests} \subseteq Nat

VARIABLES
    log,       \* event_log: [acct, kind]
    user,      \* users.status is active
    account,   \* "live", "deleting" (deletion_pending) or "gone"
    settings,  \* the row of user_notifications
    incidents, \* notification_incidents, by account and incident kind
    rows,      \* notification_outbox in order of id
    worker,    \* the deliverNext in progress
    start      \* history: where the log stood when the route was last changed

vars == <<log, user, account, settings, incidents, rows, worker, start>>

IncidentKinds == {"connection", "account_request", "session", "reputation", "pearl_hire"}

\* "session_retry" is the event session_expired with action retry_scheduled;
\* "other" stands for every event that is no incident.
Classify(k) ==
    LET alert(kind, sev) == [kind |-> kind, sev |-> sev, recovered |-> FALSE]
        recovery(kind) == [kind |-> kind, sev |-> 0, recovered |-> TRUE]
    IN  CASE k = "connection_unavailable" -> alert("connection", 2)
          [] k = "connection_recovered" -> recovery("connection")
          [] k = "account_request_paused" -> alert("account_request", 2)
          [] k = "account_request_resumed" -> recovery("account_request")
          [] k = "session_retry" -> alert("session", 1)
          [] k = "session_expired" -> alert("session", 2)
          [] k = "session" -> recovery("session")
          [] k = "reputation_blocked" -> alert("reputation", 2)
          [] k = "pearl_hire_locked" -> alert("pearl_hire", 2)
          [] OTHER -> [kind |-> "none", sev |-> 0, recovered |-> FALSE]

Open(row) == row.status \in {"pending", "sending"}

NoIncident == [sev |-> 0, age |-> 0]

Idle == [pc |-> "idle", row |-> 0, att |-> 0, rev |-> 0, age |-> 0]

Less(n) == IF n = 0 THEN 0 ELSE n - 1

MaxOf(a, b) == IF a > b THEN a ELSE b

-----------------------------------------------------------------------------
(* Ingestion                                                               *)

\* insertNotification: the row, when the queue has room for it.
NewRow(a, s, rev) ==
    [acct |-> a, kind |-> s.kind, sev |-> s.sev, recovered |-> s.recovered,
     rev |-> rev, status |-> "pending", att |-> 0, next |-> 0, lease |-> 0,
     old |-> FALSE, pace |-> 0, sends |-> 0]

\* Mutant: off by one at the limit.
QueueFullTooSoon(rs) == Cardinality({i \in DOMAIN rs : Open(rs[i])}) >= QueueLimit - 1

QueueFull(rs) == Cardinality({i \in DOMAIN rs : Open(rs[i])}) >= QueueLimit

\* Mutant: a recovery needs no incident.
IgnoredUnlessRecovery(s, old) == s.kind = "none"

Ignored(s, old) == s.kind = "none" \/ (s.recovered /\ old.sev = 0)

\* recordNotificationSignal on the transaction's view of the tables.  The
\* first full queue fails the whole transaction.
RecordSignal(tx, e) ==
    LET s == Classify(e.kind)
        old == tx.incidents[e.acct][s.kind]
        send == old.sev = 0 \/ s.recovered \/ s.sev > old.sev \/ old.age >= Cooldown
    IN  IF tx.full \/ Ignored(s, old) THEN tx
        ELSE IF send /\ QueueFull(tx.rows) THEN [tx EXCEPT !.full = TRUE]
        ELSE [rows |-> IF send THEN Append(tx.rows, NewRow(e.acct, s, settings.rev))
                       ELSE tx.rows,
              incidents |-> [tx.incidents EXCEPT ![e.acct][s.kind] =
                  IF s.recovered THEN NoIncident
                  ELSE [sev |-> MaxOf(old.sev, s.sev),
                        age |-> IF send THEN 0 ELSE old.age]],
              full |-> FALSE]

\* The ids of the next batch, and of its last event: the oldest events
\* behind the cursor, of accounts not being deleted.
NextEvents ==
    LET ready == {i \in DOMAIN log : i > settings.cursor /\ account[log[i].acct] = "live"}
    IN  {i \in ready : Cardinality({j \in ready : j <= i}) <= Batch}

LastEvent == Max(NextEvents)

\* The view of the tables once the events up to the i-th are recorded.
Ingested[i \in settings.cursor .. LastEvent] ==
    IF i = settings.cursor THEN [rows |-> rows, incidents |-> incidents, full |-> FALSE]
    ELSE IF i \in NextEvents THEN RecordSignal(Ingested[i - 1], log[i])
    ELSE Ingested[i - 1]

\* Mutant: what fitted into the queue is committed, with the cursor.
RolledBackNever(tx) == FALSE

RolledBack(tx) == tx.full

\* ConsumeNotificationEvents.  A full queue rolls everything back, the cursor
\* too, and the loop comes again.
ConsumeNotificationEvents ==
    LET done == Ingested[LastEvent]
    IN  /\ settings.enabled /\ user
        /\ NextEvents # {}
        /\ ~RolledBack(done)
        /\ rows' = done.rows
        /\ incidents' = done.incidents
        /\ settings' = [settings EXCEPT !.cursor = LastEvent]
        /\ UNCHANGED <<log, user, account, worker, start>>

\* QueueNotificationTest, when the queue has room.
QueueNotificationTest ==
    /\ Cardinality({i \in DOMAIN rows : rows[i].acct = NoAccount}) < MaxTests
    /\ settings.enabled /\ user /\ settings.test = 0
    /\ ~QueueFull(rows)
    /\ rows' = Append(rows, NewRow(NoAccount, [kind |-> "test", sev |-> 0, recovered |-> FALSE],
                                   settings.rev))
    /\ settings' = [settings EXCEPT !.test = TestWait]
    /\ UNCHANGED <<log, user, account, incidents, worker, start>>

-----------------------------------------------------------------------------
(* Delivery                                                                *)

\* notificationClaimSelect: oldest row first, and only the oldest open row of
\* its account.
\* Mutant: only pending rows count as older.
OldestPending(i) ==
    \A j \in 1 .. i - 1 : ~(rows[j].acct = rows[i].acct /\ rows[j].status = "pending")

\* See notificationClaimSelect.
OldestOfAccount(i) ==
    \A j \in 1 .. i - 1 : ~(rows[j].acct = rows[i].acct /\ Open(rows[j]))

AccountAlive(a) == a \in Accounts => account[a] = "live"

\* Mutant: the attempts are not limited by the claim.
ClaimableForEver(i) ==
    /\ \/ rows[i].status = "pending" /\ rows[i].next = 0
       \/ rows[i].status = "sending" /\ rows[i].lease = 0
    /\ ~rows[i].old
    /\ AccountAlive(rows[i].acct)
    /\ OldestOfAccount(i)
    /\ settings.retry = 0
    /\ settings.native => \A j \in DOMAIN rows : rows[j].pace = 0

Claimable(i) ==
    /\ \/ rows[i].status = "pending" /\ rows[i].next = 0
       \/ rows[i].status = "sending" /\ rows[i].lease = 0
    /\ ~rows[i].old /\ rows[i].att < MaxAttempts
    /\ AccountAlive(rows[i].acct)
    /\ OldestOfAccount(i)
    /\ settings.retry = 0
    /\ settings.native => \A j \in DOMAIN rows : rows[j].pace = 0

ClaimNotification(w) ==
    /\ worker[w].pc = "idle"
    /\ \E i \in DOMAIN rows :
         /\ Claimable(i) /\ \A j \in 1 .. i - 1 : ~Claimable(j)
         /\ rows' = [rows EXCEPT ![i].status = "sending", ![i].att = @ + 1,
                                 ![i].lease = Lease, ![i].pace = Pace]
         /\ worker' = [worker EXCEPT ![w] =
              [pc |-> "claimed", row |-> i, att |-> rows[i].att + 1, rev |-> rows[i].rev, age |-> 0]]
    /\ UNCHANGED <<log, user, account, settings, incidents, start>>

\* NotificationDestination: the claim, the route, the user and the account
\* are looked at again before anything is sent.
DestinationValid(w) ==
    LET r == rows[worker[w].row]
    IN  /\ r.status = "sending" /\ r.att = worker[w].att
        /\ settings.enabled /\ settings.rev = worker[w].rev
        /\ user /\ AccountAlive(r.acct)

\* The request leaves, or the row will be cancelled, or the destination could
\* not be decoded or used and the row will fail.
NotificationDestination(w) ==
    /\ worker[w].pc = "claimed"
    /\ \E pc \in IF DestinationValid(w) THEN {"http", "failed"} ELSE {"cancelled"} :
         /\ worker' = [worker EXCEPT ![w].pc = pc]
         /\ rows' = IF pc = "http" THEN [rows EXCEPT ![worker[w].row].sends = @ + 1] ELSE rows
    /\ UNCHANGED <<log, user, account, settings, incidents, start>>

Settled(row, status) ==
    [row EXCEPT !.status = status, !.next = 0, !.lease = 0, !.old = FALSE]

\* FinishNotification: nothing happens unless the row is still in this
\* attempt; a retry also postpones the destination, if it is still the same.
\* The deadline was counted from the claim.
FinishNotification(w, status, delay) ==
    LET i == worker[w].row
        left == IF delay > worker[w].age THEN delay - worker[w].age ELSE 0
        mine == rows[i].status = "sending" /\ rows[i].att = worker[w].att
    IN  /\ rows' = IF ~mine THEN rows
                   ELSE IF status = "pending"
                   THEN [rows EXCEPT ![i].status = "pending", ![i].next = left, ![i].lease = 0]
                   ELSE [rows EXCEPT ![i] = Settled(@, status)]
        /\ settings' = IF mine /\ status = "pending" /\ settings.rev = worker[w].rev
                       THEN [settings EXCEPT !.retry = MaxOf(@, left)] ELSE settings
        /\ worker' = [worker EXCEPT ![w] = Idle]
        /\ UNCHANGED <<log, user, account, incidents, start>>

\* deliverNext after the destination was refused.
Refuse(w) ==
    /\ worker[w].pc \in {"cancelled", "failed"}
    /\ FinishNotification(w, worker[w].pc, 0)

\* deliverNext after the response: acknowledged, refused for good, or to be
\* tried again unless that was the last attempt.
Respond(w) ==
    /\ worker[w].pc = "http"
    /\ \/ FinishNotification(w, "sent", 0)
       \/ FinishNotification(w, "failed", 0)
       \/ /\ worker[w].att < MaxAttempts
          /\ \E d \in Backoffs : FinishNotification(w, "pending", d)

\* The worker ends without recording a result: the write failed, the service
\* is shutting down, or the daemon died.
Abandon(w) ==
    /\ worker[w].pc # "idle"
    /\ worker' = [worker EXCEPT ![w] = Idle]
    /\ UNCHANGED <<log, user, account, settings, incidents, rows, start>>

\* Open rows that no claim can take any more.
\* Mutant: rows in delivery are left to their worker.
ExpiredPending(row) ==
    row.status = "pending" /\ (row.old \/ (row.att >= MaxAttempts /\ row.lease = 0))

\* See CleanNotificationOutbox.
Expired(row) ==
    Open(row) /\ (row.old \/ (row.att >= MaxAttempts /\ row.lease = 0))

CleanNotificationOutbox ==
    /\ \E i \in DOMAIN rows : Expired(rows[i])
    /\ rows' = [i \in DOMAIN rows |->
                  IF Expired(rows[i]) THEN Settled(rows[i], "failed") ELSE rows[i]]
    /\ UNCHANGED <<log, user, account, settings, incidents, worker, start>>

-----------------------------------------------------------------------------
(* Everyone else                                                           *)

\* Event appended by a runner; the triggers of a deletion ignore it.
LogEvent(a, k) ==
    /\ Len(log) < MaxEvents
    /\ account[a] = "live"
    /\ log' = Append(log, [acct |-> a, kind |-> k])
    /\ UNCHANGED <<user, account, settings, incidents, rows, worker, start>>

\* Mutant: the backoff outlives the route.
NewRouteKeepingBackoff(enabled, native, url) ==
    [settings EXCEPT !.enabled = enabled, !.native = native, !.url = url,
                     !.rev = @ + 1, !.cursor = Len(log)]

\* The settings once the route has changed: a new revision, no backoff, and
\* only events from now on.
NewRoute(enabled, native, url) ==
    [settings EXCEPT !.enabled = enabled, !.native = native, !.url = url,
                     !.rev = @ + 1, !.retry = 0, !.cursor = Len(log)]

\* Mutant: the incidents outlive the route.
IncidentsKept == incidents

\* The incidents of the old route are deleted.
IncidentsDeleted == [a \in Accounts |-> [k \in IncidentKinds |-> NoIncident]]

\* SaveNotificationSettings with a new route: enabled or disabled, another
\* provider, or another endpoint.  A replaced endpoint never equals the old
\* one, as it is stored encrypted under a fresh nonce; signing secrets change
\* the route likewise.  An edit that leaves the route alone changes at most
\* the cooldown, and is left out.
SaveNotificationSettings(enabled, native, endpoint) ==
    LET url == IF endpoint = "keep" THEN settings.url ELSE endpoint = "replace"
    IN  /\ user
        /\ settings.rev < MaxRevision
        /\ native # settings.native => endpoint # "keep"
        /\ enabled => url
        /\ \/ enabled # settings.enabled \/ native # settings.native
           \/ endpoint = "replace" \/ url # settings.url
        /\ settings' = NewRoute(enabled, native, url)
        /\ rows' = [i \in DOMAIN rows |->
                      IF Open(rows[i]) THEN Settled(rows[i], "cancelled") ELSE rows[i]]
        /\ incidents' = IncidentsDeleted
        /\ start' = Len(log)
        /\ UNCHANGED <<log, user, account, worker>>

\* An administrator disables the user or lets them in again (UpdateUser).
UpdateUserStatus ==
    /\ "user" \in Upheavals
    /\ user' = ~user
    /\ UNCHANGED <<log, account, settings, incidents, rows, worker, start>>

RequestAccountDeletion(a) ==
    /\ "delete" \in Upheavals
    /\ account[a] = "live"
    /\ account' = [account EXCEPT ![a] = "deleting"]
    /\ UNCHANGED <<log, user, settings, incidents, rows, worker, start>>

\* CleanAccountDeletionBatch: the rows of the outbox go in batches, then the
\* incidents, then the account.
CleanAccountDeletionBatch(a) ==
    /\ account[a] = "deleting"
    /\ LET left == {i \in DOMAIN rows : rows[i].acct = a /\ rows[i].status # "removed"}
       IN  IF left # {}
           THEN /\ \E i \in left :
                     rows' = [rows EXCEPT ![i] = [Settled(@, "removed") EXCEPT !.pace = 0]]
                /\ UNCHANGED <<incidents, account>>
           ELSE /\ incidents' = [incidents EXCEPT ![a] = [k \in IncidentKinds |-> NoIncident]]
                /\ account' = [account EXCEPT ![a] = "gone"]
                /\ UNCHANGED rows
    /\ UNCHANGED <<log, user, settings, worker, start>>

\* Time passes for every deadline.
Tick ==
    /\ rows' = [i \in DOMAIN rows |->
                  [rows[i] EXCEPT !.next = Less(@), !.lease = Less(@),
                                  !.pace = Less(@)]]
    /\ settings' = [settings EXCEPT !.retry = Less(@), !.test = Less(@)]
    /\ incidents' = [a \in Accounts |-> [k \in IncidentKinds |->
                       [incidents[a][k] EXCEPT !.age =
                          IF incidents[a][k].sev = 0 \/ @ = Cooldown THEN @ ELSE @ + 1]]]
    /\ worker' = [w \in Workers |->
                    [worker[w] EXCEPT !.age =
                       IF worker[w].pc = "idle" \/ \A d \in Backoffs : @ >= d THEN @ ELSE @ + 1]]
    /\ UNCHANGED <<log, user, account, start>>

\* The row is 24 hours old, and so are those before it.  A day is long
\* against every other deadline: it may end in any state of those.
GrowOld(i) ==
    /\ Open(rows[i]) /\ ~rows[i].old
    /\ rows' = [j \in DOMAIN rows |->
                  IF j <= i /\ Open(rows[j]) THEN [rows[j] EXCEPT !.old = TRUE] ELSE rows[j]]
    /\ UNCHANGED <<log, user, account, settings, incidents, worker, start>>

Init ==
    /\ log = <<>>
    /\ user = TRUE
    /\ account = [a \in Accounts |-> "live"]
    /\ settings = [enabled |-> FALSE, native |-> FALSE, url |-> FALSE,
                   rev |-> 0, cursor |-> 0, retry |-> 0, test |-> 0]
    /\ incidents = [a \in Accounts |-> [k \in IncidentKinds |-> NoIncident]]
    /\ rows = <<>>
    /\ worker = [w \in Workers |-> Idle]
    /\ start = 0

Deliver(w) ==
    ClaimNotification(w) \/ NotificationDestination(w) \/ Refuse(w) \/ Respond(w)

Next ==
    \/ \E a \in Accounts, k \in EventKinds : LogEvent(a, k)
    \/ ConsumeNotificationEvents
    \/ QueueNotificationTest
    \/ \E w \in Workers : Deliver(w) \/ Abandon(w)
    \/ CleanNotificationOutbox
    \/ \E enabled \in BOOLEAN, native \in Natives, endpoint \in {"keep", "replace", "remove"} :
          SaveNotificationSettings(enabled, native, endpoint)
    \/ UpdateUserStatus
    \/ \E a \in Accounts : RequestAccountDeletion(a) \/ CleanAccountDeletionBatch(a)
    \/ Tick
    \/ \E i \in DOMAIN rows : GrowOld(i)

Spec == Init /\ [][Next]_vars

\* The four delivery goroutines, the ingestion loop, the cleanup ticker and
\* the deletion worker all run for ever, each on its own ticker, and time
\* passes.  Nothing obliges anyone to emit, to edit or to abandon.
FairSpec ==
    /\ Spec
    /\ \A w \in Workers : WF_vars(Deliver(w))
    /\ WF_vars(ConsumeNotificationEvents)
    /\ WF_vars(CleanNotificationOutbox)
    /\ \A a \in Accounts : WF_vars(CleanAccountDeletionBatch(a))
    /\ WF_vars(Tick)
    /\ WF_vars(\E i \in DOMAIN rows : GrowOld(i))

-----------------------------------------------------------------------------
(* Properties                                                              *)

Event == [acct : Accounts, kind : EventKinds]
Settings == [enabled : BOOLEAN, native : BOOLEAN, url : BOOLEAN, rev : Nat,
             cursor : Nat, retry : Nat, test : Nat]
Incident == [sev : 0 .. 2, age : 0 .. Cooldown]
Row == [acct : Accounts \cup {NoAccount}, kind : IncidentKinds \cup {"test"},
        sev : 0 .. 2, recovered : BOOLEAN, rev : Nat,
        status : {"pending", "sending", "sent", "failed", "cancelled", "removed"},
        att : 0 .. MaxAttempts, next : Nat, lease : 0 .. Lease,
        old : BOOLEAN, pace : 0 .. Pace, sends : 0 .. MaxAttempts]
Worker == [pc : {"idle", "claimed", "http", "cancelled", "failed"},
           row : Nat, att : 0 .. MaxAttempts, rev : Nat, age : Nat]

\* Every variable keeps its type; the counters of attempts stay in bounds.
TypeOK ==
    /\ log \in Seq(Event)
    /\ user \in BOOLEAN
    /\ account \in [Accounts -> {"live", "deleting", "gone"}]
    /\ settings \in Settings
    /\ incidents \in [Accounts -> [IncidentKinds -> Incident]]
    /\ rows \in Seq(Row)
    /\ worker \in [Workers -> Worker]
    /\ start \in Nat

\* What the events behind the cursor say of an incident since the route was
\* set: its highest severity since the last recovery, 0 when it is over.
SeverityInLog(a, k) ==
    LET ids == {i \in start + 1 .. settings.cursor :
                  log[i].acct = a /\ Classify(log[i].kind).kind = k}
        ended == {i \in ids : Classify(log[i].kind).recovered}
        since == {i \in ids : \A j \in ended : j < i}
    IN  Max({0} \cup {Classify(log[i].kind).sev : i \in since})

\* The same, from the notifications queued for the current route.
SeverityQueued(a, k) ==
    LET ids == {i \in DOMAIN rows :
                  rows[i].acct = a /\ rows[i].kind = k /\ rows[i].rev = settings.rev}
        ended == {i \in ids : rows[i].recovered}
        since == {i \in ids : \A j \in ended : j < i}
    IN  Max({0} \cup {rows[i].sev : i \in since})

\* The queue never misleads: whatever batches, full queues, restarts, cooldowns
\* and route changes came between, the notifications queued for an account say
\* of each incident what the consumed events say (ConsumeNotificationEvents:
\* "a dropped Bus event or daemon restart cannot lose a retained log").
SubscriberIsTold ==
    \A a \in Accounts, k \in IncidentKinds : account[a] = "live" =>
        SeverityQueued(a, k) = SeverityInLog(a, k)

\* A recovery is announced only to a subscriber who was told of the incident
\* over the same route, and once (emitConnectionRecovered: "the outbox ignores
\* unmatched recoveries").
RecoveryFollowsAlert ==
    \A i \in DOMAIN rows : rows[i].recovered =>
        LET ids == {j \in 1 .. i - 1 : /\ rows[j].acct = rows[i].acct /\ rows[j].kind = rows[i].kind
                                       /\ rows[j].rev = rows[i].rev}
        IN  ids # {} /\ ~rows[Max(ids)].recovered

\* A route is postponed only by a failure of its own: neither the backoff of
\* the route before it nor a worker still busy with that route holds it back
\* (FinishNotification: "a stale worker or changed settings must not postpone
\* a new route").
RoutePostponedByItself ==
    settings.retry > 0 =>
        \E i \in DOMAIN rows : rows[i].rev = settings.rev /\ rows[i].att > 0

\* The service implements the feed: per account in order, each notification
\* handed to the network at most MaxAttempts times, settled once, and "sent"
\* only after it was handed over, whatever stalled or dead workers do.  The
\* hand-over is the moment NotificationDestination accepts.
Feed == INSTANCE NotificationFeed WITH
    Lanes <- Accounts \cup {NoAccount},
    Attempts <- MaxAttempts,
    lane <- [i \in DOMAIN rows |-> rows[i].acct],
    fate <- [i \in DOMAIN rows |-> IF Open(rows[i]) THEN "open" ELSE rows[i].status],
    sends <- [i \in DOMAIN rows |-> rows[i].sends]

ImplementsFeed == Feed!Spec

\* Every queued notification is settled: no lease, backoff, dead worker or
\* deletion leaves a row open for ever, which would also block its account.
RowsSettle ==
    \A i \in 1 .. MaxEvents + MaxTests :
        (i \in DOMAIN rows) ~> (i \in DOMAIN rows /\ ~Open(rows[i]))

\* Every event is consumed, although a full queue turns the ingestion back,
\* unless notifications or the account go away.
EventsAreConsumed ==
    \A i \in 1 .. MaxEvents :
        (i \in DOMAIN log) ~>
            /\ i \in DOMAIN log
            /\ settings.cursor < i =>
                 ~settings.enabled \/ ~user \/ account[log[i].acct] # "live"
=============================================================================
