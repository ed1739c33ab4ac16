----------------------------- MODULE GameClient -----------------------------
(***************************************************************************)
(* One WebSocket client of the game (internal/babigame/client.go and       *)
(* rpc.go), from the attempt that dials it (connectSession of              *)
(* internal/runner/lifecycle.go) to its physical close, together with the  *)
(* gate that admits its I/O.  Three kinds of work enter the gate: the      *)
(* attempt for as long as it lasts, the connection until OnClosed, and     *)
(* every call.                                                             *)
(*                                                                         *)
(* The goroutines are the attempt, the callers of rpc, the reader, and     *)
(* whoever closes: the first to set c.closed goes through Close, everybody *)
(* else returns from it at once.  An action is a critical section of c.mu, *)
(* a channel operation or an I/O.                                          *)
(*                                                                         *)
(* One gate stands for the daemon-wide and the account's gate, which       *)
(* beginGameWork enters one after the other.  A request gets at most one   *)
(* response, of its own key.  The observer of responses (OnRPCResponse),   *)
(* the handlers of expired sessions and binary frames, and pushes that     *)
(* answer no request do not touch the client.                              *)
(***************************************************************************)
EXTENDS GameGate

CONSTANTS
    Attempt, Conn, \* the work of the attempt and of the connection
    Calls, Login,  \* the calls of rpc; Login is the attempt's own
    Mode,          \* who applies the payload of a call's response
    Fickle         \* bound: the work whose callers may go away

ASSUME WorkAssumption ==
    /\ Work = {Attempt, Conn} \cup Calls
    /\ Attempt # Conn /\ {Attempt, Conn} \cap Calls = {}
    /\ Login \in Calls
    /\ Fickle \subseteq Work \ {Conn, Login}

\* "hook": WithApplyV, "manual": WithPayloadApply(false), "push": neither
ASSUME ModeAssumption == Mode \in [Calls -> {"hook", "manual", "push"}]

VARIABLES
    apc,      \* where the attempt is
    sock,     \* the physical socket
    installed,\* c.conn is set
    cpc,      \* where Close is; c.closed and closedCh are set once it has begun
    swept,    \* the entries Close has taken and not yet failed
    pending,  \* the keys of c.pending
    kpc,      \* where each call is
    ch,       \* the content of a call's result channel, which holds one
    sent,     \* requests the server has and may answer
    rd,       \* the reader: [at, call, ans, ok]
    got,      \* calls that returned a response
    applied   \* history: how often the response to a call reached the state

socketVars  == <<sock, installed>>
closeVars   == <<cpc, swept>>
callVars    == <<kpc, ch, sent, got, applied>>
clientVars  == <<apc, socketVars, closeVars, callVars, pending, rd>>
allVars     == <<vars, clientVars>>

Shut == cpc # "none"

Reading == [at |-> "reading", call |-> Login, ans |-> "data", ok |-> FALSE]

ClientInit ==
    /\ Init
    /\ apc = "new"
    /\ sock = "none" /\ installed = FALSE
    /\ cpc = "none" /\ swept = {}
    /\ pending = {}
    /\ kpc = [c \in Calls |-> "new"]
    /\ ch = [c \in Calls |-> "empty"]
    /\ sent = {} /\ got = {}
    /\ rd = Reading
    /\ applied = [c \in Calls |-> 0]

-----------------------------------------------------------------------------
(* connectSession                                                          *)

AttemptBegins ==
    /\ apc = "new"
    /\ \/ begin(Attempt) /\ apc' = "begun"
       \/ beginRefused(Attempt) /\ apc' = "over"
    /\ UNCHANGED <<socketVars, closeVars, callVars, pending, rd>>

\* The connection's work has a background context; only block ends it.
ConnBegins ==
    /\ apc = "begun"
    /\ \/ begin(Conn) /\ apc' = "prepared"
       \/ beginRefused(Conn) /\ apc' = "returning"
    /\ UNCHANGED <<socketVars, closeVars, callVars, pending, rd>>

Connect ==
    /\ apc = "prepared"
    /\ apc' = IF Shut THEN "failing" ELSE "dialling"
    /\ UNCHANGED <<vars, socketVars, closeVars, callVars, pending, rd>>

DialSucceeds ==
    /\ apc = "dialling"
    /\ apc' = "dialled" /\ sock' = "up"
    /\ UNCHANGED <<vars, installed, closeVars, callVars, pending, rd>>

DialFails ==
    /\ apc = "dialling"
    /\ apc' = "failing"
    /\ UNCHANGED <<vars, socketVars, closeVars, callVars, pending, rd>>

\* Mutant: Connect does not look at c.closed again after the dial.
InstallAnyway ==
    /\ apc = "dialled"
    /\ apc' = "login" /\ installed' = TRUE /\ UNCHANGED sock
    /\ UNCHANGED <<vars, closeVars, callVars, pending, rd>>

\* The end of Connect: a client closed during the dial drops the socket.
Install ==
    /\ apc = "dialled"
    /\ IF Shut THEN apc' = "failing" /\ sock' = "down" /\ UNCHANGED installed
               ELSE apc' = "login" /\ installed' = TRUE /\ UNCHANGED sock
    /\ UNCHANGED <<vars, closeVars, callVars, pending, rd>>

\* The login, and the calls of the setup behind it, decide; an attempt whose
\* context ended fails.
AttemptDecides ==
    /\ apc = "login" /\ kpc[Login] = "over"
    /\ \/ apc' = "failing"
       \/ Login \in got /\ Attempt \notin cancelled /\ apc' = "returning"
    /\ UNCHANGED <<vars, socketVars, closeVars, callVars, pending, rd>>

\* A failed attempt closes its client, unless somebody else already does.
AttemptFails ==
    /\ apc = "failing"
    /\ IF Shut THEN apc' = "returning" /\ UNCHANGED cpc
               ELSE apc' = "closing" /\ cpc' = "marked"
    /\ UNCHANGED <<vars, socketVars, swept, callVars, pending, rd>>

AttemptClosed ==
    /\ apc = "closing" /\ cpc = "done"
    /\ apc' = "returning"
    /\ UNCHANGED <<vars, socketVars, closeVars, callVars, pending, rd>>

AttemptReturns ==
    /\ apc = "returning"
    /\ release(Attempt)
    /\ apc' = "over"
    /\ UNCHANGED <<socketVars, closeVars, callVars, pending, rd>>

-----------------------------------------------------------------------------
(* Close                                                                   *)

Mark ==
    /\ ~Shut
    /\ cpc' = "marked"
    /\ UNCHANGED <<vars, apc, socketVars, swept, callVars, pending, rd>>

\* context.AfterFunc on the connection's context.
AfterFunc ==
    /\ Conn \in cancelled
    /\ Mark

\* The reader meets a broken socket, or the runner gives the client up.
OwnerCloses == installed /\ (rd.at = "reading" \/ apc = "over") /\ Mark

CloseTakes ==
    /\ cpc = "marked"
    /\ cpc' = "sweeping" /\ swept' = pending /\ pending' = {}
    /\ UNCHANGED <<vars, apc, socketVars, callVars, rd>>

\* The send blocks while the channel is full.
CloseFails(c) ==
    /\ cpc = "sweeping" /\ c \in swept
    /\ ch[c] = "empty"
    /\ ch' = [ch EXCEPT ![c] = "closed"]
    /\ swept' = swept \ {c}
    /\ UNCHANGED <<vars, apc, socketVars, cpc, kpc, sent, got, applied, pending, rd>>

\* The socket is closed if there is one.
CloseSocket ==
    /\ cpc = "sweeping" /\ swept = {}
    /\ cpc' = "shut"
    /\ sock' = IF installed THEN "down" ELSE sock
    /\ UNCHANGED <<vars, apc, installed, swept, callVars, pending, rd>>

\* OnClosed gives the connection's work back.
CloseNotifies ==
    /\ cpc = "shut"
    /\ release(Conn)
    /\ cpc' = "done"
    /\ UNCHANGED <<apc, socketVars, swept, callVars, pending, rd>>

-----------------------------------------------------------------------------
(* rpc                                                                     *)

\* The client is known to callers once it is connected: to the heartbeat at
\* once, to the attempt for its login, to the runner afterwards.
CallBegins(c) ==
    /\ kpc[c] = "new" /\ installed
    /\ c = Login => apc = "login"
    /\ \/ begin(c) /\ kpc' = [kpc EXCEPT ![c] = "begun"]
       \/ beginRefused(c) /\ kpc' = [kpc EXCEPT ![c] = "over"]
    /\ UNCHANGED <<apc, socketVars, closeVars, ch, sent, got, applied, pending, rd>>

\* BeforeRPC rejects the call, or waits for its pace; then c.closed is read.
CallChecks(c) ==
    /\ kpc[c] = "begun"
    /\ \E next \in {"returning"} \cup (IF Shut THEN {} ELSE {"checked"}) :
         kpc' = [kpc EXCEPT ![c] = next]
    /\ UNCHANGED <<vars, apc, socketVars, closeVars, ch, sent, got, applied, pending, rd>>

CallRegisters(c) ==
    /\ kpc[c] = "checked"
    /\ kpc' = [kpc EXCEPT ![c] = "writing"]
    /\ pending' = pending \cup {c}
    /\ UNCHANGED <<vars, apc, socketVars, closeVars, ch, sent, got, applied, rd>>

CallWrites(c) ==
    /\ kpc[c] = "writing" /\ sock = "up"
    /\ kpc' = [kpc EXCEPT ![c] = "waiting"]
    /\ sent' = sent \cup {c}
    /\ UNCHANGED <<vars, apc, socketVars, closeVars, ch, got, applied, pending, rd>>

\* The write fails; it may also hang until the socket or the context ends.
CallWriteFails(c) ==
    /\ kpc[c] = "writing"
    /\ kpc' = [kpc EXCEPT ![c] = "returning"]
    /\ pending' = pending \ {c}
    /\ UNCHANGED <<vars, apc, socketVars, closeVars, ch, sent, got, applied, rd>>

\* The select takes the result; the caller applies it where that is its part.
CallReceives(c) ==
    /\ kpc[c] = "waiting" /\ ch[c] # "empty"
    /\ kpc' = [kpc EXCEPT ![c] = "returning"]
    /\ ch' = [ch EXCEPT ![c] = "empty"]
    /\ got' = IF ch[c] = "data" THEN got \cup {c} ELSE got
    /\ applied' = IF ch[c] = "data" /\ Mode[c] # "push"
                  THEN [applied EXCEPT ![c] = @ + 1] ELSE applied
    /\ UNCHANGED <<vars, apc, socketVars, closeVars, sent, pending, rd>>

\* The select takes the timer or the end of the context.
CallTimesOut(c) ==
    /\ kpc[c] = "waiting"
    /\ kpc' = [kpc EXCEPT ![c] = "returning"]
    /\ pending' = pending \ {c}
    /\ UNCHANGED <<vars, apc, socketVars, closeVars, ch, sent, got, applied, rd>>

\* The select takes closedCh.
CallSeesClose(c) ==
    /\ kpc[c] = "waiting" /\ Shut
    /\ kpc' = [kpc EXCEPT ![c] = "returning"]
    /\ UNCHANGED <<vars, apc, socketVars, closeVars, ch, sent, got, applied, pending, rd>>

CallReturns(c) ==
    /\ kpc[c] = "returning"
    /\ release(c)
    /\ kpc' = [kpc EXCEPT ![c] = "over"]
    /\ UNCHANGED <<apc, socketVars, closeVars, ch, sent, got, applied, pending, rd>>

-----------------------------------------------------------------------------
(* reader and dispatchText                                                 *)

ReadFrame(c) ==
    /\ rd.at = "reading" /\ sock = "up" /\ installed
    /\ c \in sent
    /\ sent' = sent \ {c}
    /\ \E ans \in {"data", "error"} :
         rd' = [at |-> "read", call |-> c, ans |-> ans, ok |-> FALSE]
    /\ UNCHANGED <<vars, apc, socketVars, closeVars, kpc, ch, got, applied, pending>>

\* Mutant: the entry stays in the table.
LookupKeepsEntry ==
    /\ rd.at = "read"
    /\ rd' = IF rd.call \in pending THEN [rd EXCEPT !.at = "delivering", !.ok = TRUE]
             ELSE [rd EXCEPT !.at = "firing"]
    /\ UNCHANGED <<vars, apc, socketVars, closeVars, callVars, pending>>

\* The waiter is taken out of the table.
Lookup ==
    /\ rd.at = "read"
    /\ rd' = IF rd.call \in pending THEN [rd EXCEPT !.at = "delivering", !.ok = TRUE]
             ELSE [rd EXCEPT !.at = "firing"]
    /\ pending' = pending \ {rd.call}
    /\ UNCHANGED <<vars, apc, socketVars, closeVars, callVars>>

\* The send blocks while the channel is full.
Deliver ==
    /\ rd.at = "delivering" /\ ch[rd.call] = "empty"
    /\ ch' = [ch EXCEPT ![rd.call] = rd.ans]
    /\ rd' = [rd EXCEPT !.at = "firing"]
    /\ UNCHANGED <<vars, apc, socketVars, closeVars, kpc, sent, got, applied, pending>>

\* Mutant: only an installed hook suppresses the subscribers.
DispatchesUnlessHook(c) == Mode[c] # "hook"

\* shouldDispatchNamespaces
Dispatches(c) == Mode[c] = "push"

\* Data without a waiter, or for a caller who leaves it to them, goes to the
\* namespace subscribers.
Fire ==
    /\ rd.at = "firing"
    /\ applied' = IF rd.ans = "data" /\ (rd.ok => Dispatches(rd.call))
                  THEN [applied EXCEPT ![rd.call] = @ + 1] ELSE applied
    /\ rd' = Reading
    /\ UNCHANGED <<vars, apc, socketVars, closeVars, kpc, ch, sent, got, pending>>

-----------------------------------------------------------------------------

\* The end of the attempt's context reaches its login.
AttemptCancelsLogin == Attempt \in cancelled /\ CancelParent(Login) /\ UNCHANGED clientVars

Attempts ==
    \/ AttemptBegins \/ ConnBegins \/ Connect \/ DialSucceeds \/ DialFails \/ Install
    \/ AttemptDecides \/ AttemptFails \/ AttemptClosed \/ AttemptReturns

Close ==
    \/ AfterFunc \/ OwnerCloses
    \/ CloseTakes \/ CloseSocket \/ CloseNotifies
    \/ \E c \in Calls : CloseFails(c)

rpc(c) ==
    \/ CallBegins(c) \/ CallChecks(c) \/ CallRegisters(c) \/ CallWrites(c) \/ CallWriteFails(c)
    \/ CallReceives(c) \/ CallTimesOut(c) \/ CallSeesClose(c) \/ CallReturns(c)

reader == Lookup \/ Deliver \/ Fire \/ \E c \in Calls : ReadFrame(c)

\* The operator's side of the gate, and callers who go away.
Gate ==
    /\ \/ block \/ open
       \/ \E x \in Waiters : wait(x) \/ waitIdle(x) \/ waitCancelled(x)
       \/ \E w \in Fickle : CancelParent(w)
    /\ UNCHANGED clientVars

ClientNext ==
    \/ Attempts \/ AttemptCancelsLogin \/ Close \/ reader \/ Gate
    \/ \E c \in Calls : rpc(c)

ClientSpec == ClientInit /\ [][ClientNext]_allVars

\* Goroutines run on; a dial or a write ends with its context, a write with
\* its socket; a waiting call has a timer; Close waits for nothing but sends
\* and the bounded closing handshake.  An answer or a caller may never come.
AttemptGoesOn ==
    \/ ConnBegins \/ Connect \/ (Attempt \in cancelled /\ DialFails) \/ Install
    \/ CallBegins(Login) \/ AttemptDecides \/ AttemptFails \/ AttemptClosed \/ AttemptReturns

CloseGoesOn ==
    AfterFunc \/ CloseTakes \/ (\E c \in Calls : CloseFails(c)) \/ CloseSocket \/ CloseNotifies

CallGoesOn(c) ==
    \/ CallChecks(c) \/ CallRegisters(c) \/ ((c \in cancelled \/ sock = "down") /\ CallWriteFails(c))
    \/ CallTimesOut(c) \/ CallReturns(c)

FairClientSpec ==
    /\ ClientSpec
    /\ WF_allVars(AttemptGoesOn) /\ WF_allVars(AttemptCancelsLogin)
    /\ WF_allVars(CloseGoesOn)
    /\ WF_allVars(Lookup \/ Deliver \/ Fire)
    /\ \A c \in Calls : WF_allVars(CallGoesOn(c))
    /\ \A x \in Waiters : WF_allVars(waitIdle(x) /\ UNCHANGED clientVars)

-----------------------------------------------------------------------------
(* Properties                                                              *)

\* A drained gate is silent: when wait has returned under a blocked gate, no
\* socket is up and none is being dialled, although Close may run OnClosed
\* while the attempt still dials (connectSession: "track the actual
\* connection until physical close").
DrainedMeansSilent ==
    \A x \in Waiters : wpc[x] = "returned" /\ held[x] => sock # "up" /\ apc # "dialling"

\* The reader and Close never block on a caller who has left: whoever owns a
\* call's entry finds its channel empty (dispatchText and Close both take the
\* entry out of c.pending before they send).
SendersNeverBlock ==
    /\ \A c \in swept : ch[c] = "empty"
    /\ rd.at = "delivering" => ch[rd.call] = "empty"

\* The payload of a response reaches the state at most once, whoever applies
\* it and whenever the caller gives up (pendingRPC: "additive namespace deltas
\* are never merged twice").
MergedAtMostOnce == \A c \in Calls : applied[c] <= 1

-----------------------------------------------------------------------------
(* The strengthening under which the safety properties are inductive.      *)

ClientTypeOK ==
    /\ apc \in {"new", "begun", "prepared", "dialling", "dialled", "login",
                "failing", "closing", "returning", "over"}
    /\ sock \in {"none", "up", "down"} /\ installed \in BOOLEAN
    /\ cpc \in {"none", "marked", "sweeping", "shut", "done"}
    /\ swept \subseteq Calls /\ pending \subseteq Calls
    /\ kpc \in [Calls -> {"new", "begun", "checked", "writing", "waiting", "returning", "over"}]
    /\ ch \in [Calls -> {"empty", "data", "error", "closed"}]
    /\ sent \subseteq Calls /\ got \subseteq Calls
    /\ rd \in [at : {"reading", "read", "delivering", "firing"}, call : Calls,
               ans : {"data", "error"}, ok : BOOLEAN]
    /\ applied \in [Calls -> Nat]

\* A socket is covered by the attempt until it is installed, and by the
\* connection from then on.
SocketIsTracked ==
    /\ apc \notin {"new", "over"} => phase[Attempt] = "running"
    /\ apc \in {"new", "begun", "prepared", "dialling", "dialled"} => ~installed
    /\ installed \/ apc \in {"prepared", "dialling", "dialled", "login", "failing", "closing"} =>
         phase[Conn] = "running" \/ cpc = "done"
    /\ sock = "up" => installed \/ apc = "dialled"
    /\ installed /\ cpc \in {"shut", "done"} => sock # "up"

Delivering(c) == rd.at = "delivering" /\ rd.call = c

\* An entry belongs to the table, to Close or to the reader, and until its
\* owner sends nobody has.
EntryHasOneOwner ==
    /\ rd.at = "delivering" => rd.ok
    /\ \A c \in Calls :
         /\ c \in pending => c \notin swept
         /\ c \in pending \cup swept => ~Delivering(c)
         /\ c \in pending \cup swept \/ Delivering(c) => ch[c] = "empty"
         /\ kpc[c] \in {"new", "begun", "checked"} => c \notin pending \cup swept /\ ch[c] = "empty"

\* The reader is at the response of c.
Active(c) == rd.at # "reading" /\ rd.call = c

Unwritten(c) == kpc[c] \in {"new", "begun", "checked", "writing"}

\* Before the response is handed on nothing has been applied, and afterwards
\* either the caller or the subscribers may apply it, not both.
AppliedByOne ==
    \A c \in Calls :
        /\ Unwritten(c) => c \notin sent
        /\ Unwritten(c) \/ c \in sent => ~Active(c)
        /\ Unwritten(c) \/ c \in sent \/ (Active(c) /\ rd.at # "firing") =>
             applied[c] = 0 /\ ch[c] \in {"empty", "closed"}
        /\ Active(c) /\ rd.at = "firing" /\ ~rd.ok => applied[c] = 0 /\ ch[c] # "data"
        /\ Active(c) /\ rd.at = "firing" /\ Mode[c] = "push" => applied[c] = 0
        /\ ch[c] = "data" => applied[c] = 0 \/ Mode[c] = "push"
        /\ applied[c] <= 1

ClientInv == ClientTypeOK /\ SocketIsTracked /\ EntryHasOneOwner /\ AppliedByOne
=============================================================================
