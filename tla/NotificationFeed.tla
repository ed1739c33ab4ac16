--------------------------- MODULE NotificationFeed ---------------------------
(***************************************************************************)
(* What the notification service promises a subscriber, without leases,    *)
(* attempts in progress, cursors or clocks: a feed of notifications, each  *)
(* in the lane of one account (or in the lane of test messages), handed to *)
(* the receiver in lane order, at most Attempts times each, and settled    *)
(* once.                                                                   *)
(***************************************************************************)
EXTENDS Integers, Sequences

CONSTANTS Lanes, Attempts

VARIABLES
    lane,   \* the lane of the i-th notification of the feed
    fate,   \* "open" until it is settled
    sends   \* how often it was handed to the network

feed == <<lane, fate, sends>>

Fates == {"open", "sent", "failed", "cancelled", "removed"}

\* No older notification of the same lane is still open.
FirstInLane(i) ==
    \A j \in 1 .. i - 1 : lane[j] = lane[i] => fate[j] # "open"

Init == lane = <<>> /\ fate = <<>> /\ sends = <<>>

\* Several notifications of one transaction join the feed together.
Queue ==
    /\ Len(lane') > Len(lane)
    /\ SubSeq(lane', 1, Len(lane)) = lane
    /\ \A i \in DOMAIN lane' : lane'[i] \in Lanes
    /\ fate' = [i \in DOMAIN lane' |-> IF i \in DOMAIN fate THEN fate[i] ELSE "open"]
    /\ sends' = [i \in DOMAIN lane' |-> IF i \in DOMAIN sends THEN sends[i] ELSE 0]

Dispatch(i) ==
    /\ fate[i] = "open" /\ FirstInLane(i)
    /\ sends[i] < Attempts
    /\ sends' = [sends EXCEPT ![i] = @ + 1]
    /\ UNCHANGED <<lane, fate>>

\* The receiver acknowledged a notification handed to it.
Acknowledge(i) ==
    /\ fate[i] = "open" /\ FirstInLane(i)
    /\ sends[i] > 0
    /\ fate' = [fate EXCEPT ![i] = "sent"]
    /\ UNCHANGED <<lane, sends>>

\* Open notifications are given up: expired, refused or out of attempts
\* ("failed"), or their route or account went away ("cancelled").
GiveUp(f) ==
    /\ fate' # fate
    /\ DOMAIN fate' = DOMAIN fate
    /\ \A i \in DOMAIN fate : fate'[i] = fate[i] \/ (fate[i] = "open" /\ fate'[i] = f)
    /\ UNCHANGED <<lane, sends>>

\* The deletion of an account removes its rows, settled or not.
Remove(i) ==
    /\ fate[i] # "removed"
    /\ fate' = [fate EXCEPT ![i] = "removed"]
    /\ UNCHANGED <<lane, sends>>

Next ==
    \/ Queue
    \/ \E i \in DOMAIN fate : Dispatch(i) \/ Acknowledge(i) \/ Remove(i)
    \/ \E f \in {"failed", "cancelled"} : GiveUp(f)

Spec == Init /\ [][Next]_feed
=============================================================================
