----------------------------- MODULE WsListener -----------------------------
(***************************************************************************)
(* The websocket's connection: HyperliquidListener.run and _connect_once,  *)
(* the heartbeat watcher, and the two columns they write, ws_connected and *)
(* last_ws_msg_ms, from which check_can_trade judges the feed's freshness. *)
(*                                                                         *)
(* Time advances by ticks; ages stop counting one past the timeout.  The   *)
(* back-off between two attempts is finite and left out; the exchange's    *)
(* socket is external.                                                     *)
(***************************************************************************)
EXTENDS Integers

CONSTANTS
    Timeout,     \* heartbeat_timeout_s, in ticks
    MaxFaults    \* bound: restarts and database errors

ASSUME ListenerAssumption == Timeout \in Nat /\ MaxFaults \in Nat

VARIABLES
    link,           \* where _connect_once is
    msg_age,        \* ticks since _last_msg_ms; a new process sets it when it connects
    watcher,        \* the heartbeat watcher of this connection
    ws_connected, recorded, stamp_age,   \* bot_state: the flag; last_ws_msg_ms > 0 and its age
    faults

memoryVars == <<link, msg_age, watcher>>
rowVars == <<ws_connected, recorded, stamp_age>>
listenerVars == <<memoryVars, rowVars, faults>>

Ages == 0 .. Timeout + 1
Older(age) == IF age > Timeout THEN age ELSE age + 1

ListenerTypeOK ==
    /\ link \in {"down", "opening", "subscribing", "up", "ending"}
    /\ watcher \in {"none", "watching", "closing"}
    /\ msg_age \in Ages /\ stamp_age \in Ages
    /\ ws_connected \in BOOLEAN /\ recorded \in BOOLEAN
    /\ faults \in Nat

ListenerInit ==
    /\ link = "down" /\ watcher = "none"
    /\ msg_age = Timeout + 1 /\ stamp_age = Timeout + 1
    /\ ws_connected = FALSE /\ recorded = FALSE
    /\ faults = 0

\* The test of check_can_trade: last > 0 and now_ms - last beyond heartbeat_timeout_s.
Stale == recorded /\ stamp_age > Timeout

----------------------------------------------------------------------------
Connect ==
    /\ link = "down"
    /\ link' = "opening" /\ msg_age' = 0
    /\ UNCHANGED <<watcher, rowVars, faults>>

MarkConnected ==
    /\ link = "opening"
    /\ ws_connected' = TRUE /\ recorded' = TRUE /\ stamp_age' = msg_age
    /\ link' = "subscribing"
    /\ UNCHANGED <<msg_age, watcher, faults>>

\* The update failed: the socket is closed and run() tries again after its back-off.
MarkConnectedFails ==
    /\ link = "opening" /\ faults < MaxFaults
    /\ faults' = faults + 1 /\ link' = "down"
    /\ UNCHANGED <<msg_age, watcher, rowVars>>

Subscribe ==
    /\ link = "subscribing"
    /\ link' = "up" /\ watcher' = "watching"
    /\ UNCHANGED <<msg_age, rowVars, faults>>

\* Faulty variant: run() does not catch a failed send, and its task ends.
SubscribeFailsForGood ==
    /\ link = "subscribing"
    /\ link' = "ended"
    /\ UNCHANGED <<msg_age, watcher, rowVars, faults>>

\* A send raised before the try whose finally clears ws_connected.
SubscribeFails ==
    /\ link = "subscribing"
    /\ link' = "down"
    /\ UNCHANGED <<msg_age, watcher, rowVars, faults>>

Message ==
    /\ link = "up"
    /\ msg_age' = 0
    /\ UNCHANGED <<link, watcher, rowVars, faults>>

\* The socket closes under the message loop.
Drop ==
    /\ link = "up"
    /\ link' = "ending" /\ watcher' = "none"
    /\ UNCHANGED <<msg_age, rowVars, faults>>

\* Faulty variant: the row is stamped with the time of the disconnection.
MarkDisconnectedStamping ==
    /\ link = "ending"
    /\ ws_connected' = FALSE /\ stamp_age' = 0
    /\ link' = "down"
    /\ UNCHANGED <<msg_age, watcher, recorded, faults>>

MarkDisconnected ==
    /\ link = "ending"
    /\ ws_connected' = FALSE
    /\ link' = "down"
    /\ UNCHANGED <<msg_age, watcher, recorded, stamp_age, faults>>

\* The update in the finally clause failed; run() catches what it raised.
MarkDisconnectedFails ==
    /\ link = "ending" /\ faults < MaxFaults
    /\ faults' = faults + 1 /\ link' = "down"
    /\ UNCHANGED <<msg_age, watcher, rowVars>>

Connection ==
    \/ Connect \/ MarkConnected \/ MarkConnectedFails \/ Subscribe \/ SubscribeFails
    \/ Message \/ Drop \/ MarkDisconnected \/ MarkDisconnectedFails

----------------------------------------------------------------------------
(* The heartbeat watcher measures the silence, writes to the activity log, *)
(* and only then closes the socket.                                        *)

WatcherTrips ==
    /\ watcher = "watching" /\ msg_age > Timeout
    /\ watcher' = "closing"
    /\ UNCHANGED <<link, msg_age, rowVars, faults>>

\* Faulty variant: the watcher ends without having closed the socket.
WatcherGivesUp ==
    /\ watcher = "closing"
    /\ watcher' = "none"
    /\ UNCHANGED <<link, msg_age, rowVars, faults>>

WatcherCloses ==
    /\ watcher = "closing"
    /\ link' = "ending" /\ watcher' = "none"
    /\ UNCHANGED <<msg_age, rowVars, faults>>

Tick ==
    /\ msg_age' = Older(msg_age) /\ stamp_age' = Older(stamp_age)
    /\ UNCHANGED <<link, watcher, ws_connected, recorded, faults>>

\* A new process: the row stays as it was.
ListenerRestart ==
    /\ faults < MaxFaults
    /\ faults' = faults + 1
    /\ link' = "down" /\ watcher' = "none"
    /\ UNCHANGED <<msg_age, rowVars>>

ListenerNext == Connection \/ WatcherTrips \/ WatcherCloses \/ Tick \/ ListenerRestart

ListenerSpec == ListenerInit /\ [][ListenerNext]_listenerVars

\* Every await of the listener returns, and the exchange accepts a connection and its
\* subscriptions again and again.
ListenerFairSpec ==
    /\ ListenerSpec
    /\ WF_listenerVars(Connect) /\ WF_listenerVars(MarkConnected \/ MarkConnectedFails)
    /\ SF_listenerVars(Subscribe)
    /\ WF_listenerVars(MarkDisconnected \/ MarkDisconnectedFails)
    /\ WF_listenerVars(WatcherTrips) /\ WF_listenerVars(WatcherCloses) /\ WF_listenerVars(Tick)

----------------------------------------------------------------------------
\* The safe direction of the freshness test: once a connection was recorded, a feed that has given
\* neither a message nor a connection for longer than the timeout is refused, through disconnects,
\* failed updates and restarts.  A connect sets the message clock, so it counts as a message.
SilenceIsRefused == recorded /\ msg_age > Timeout => Stale

\* The strengthening: the stamp is never younger than the last message.
StampInv == recorded => stamp_age >= msg_age

\* The listener is never stuck on a silent, broken or half-open connection: again and again a
\* message arrives or a new connection is subscribed.
NeverStuck == []<><<Message \/ Subscribe>>_listenerVars

----------------------------------------------------------------------------
(* Statements of the documents that the code does not meet.                *)

\* The refusal says "WS stale (..s since last message)": a link that is refused as stale has had
\* no message within the timeout.
StaleMeansSilent == link = "up" /\ Stale => msg_age > Timeout

\* The listener's head comment: the watchdog force-closes if there was no message for the timeout.
ClosesOnlySilent == [][WatcherCloses => msg_age > Timeout]_listenerVars

=============================================================================
