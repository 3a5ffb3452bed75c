-------------------------- MODULE WsListenerProofs --------------------------
(***************************************************************************)
(* The freshness test never takes a silent feed for a live one: proved for *)
(* every timeout and any number of failed updates and restarts.            *)
(***************************************************************************)
EXTENDS WsListener, TLAPS

\* The types are kept by every step of the listener, the watcher and the clock.
THEOREM ListenerTypeCorrect == ListenerSpec => []ListenerTypeOK
<1> USE ListenerAssumption
<1>1. ASSUME ListenerInit
      PROVE  ListenerTypeOK
  <2>1. msg_age \in Ages /\ stamp_age \in Ages
    BY <1>1 DEF ListenerInit, Ages
  <2>2. ws_connected \in BOOLEAN /\ recorded \in BOOLEAN
    BY <1>1, Zenon DEF ListenerInit
  <2> QED  BY <1>1, <2>1, <2>2 DEF ListenerInit, ListenerTypeOK
<1>2. ASSUME ListenerTypeOK, [ListenerNext]_listenerVars
      PROVE  ListenerTypeOK'
  <2> USE DEF memoryVars, rowVars
  <2>1. msg_age' \in Ages /\ stamp_age' \in Ages
    <3> USE DEF ListenerTypeOK, Ages
    <3>1. CASE Connection
      BY <1>2, <3>1 DEF Connection, Connect, MarkConnected, MarkConnectedFails, Subscribe,
            SubscribeFails, Message, Drop, MarkDisconnected, MarkDisconnectedFails
    <3>2. CASE WatcherTrips \/ WatcherCloses
      BY <1>2, <3>2 DEF WatcherTrips, WatcherCloses
    <3>3. CASE Tick
      BY <1>2, <3>3 DEF Tick, Older
    <3>4. CASE ListenerRestart \/ UNCHANGED listenerVars
      BY <1>2, <3>4 DEF ListenerRestart, listenerVars
    <3> QED  BY <1>2, <3>1, <3>2, <3>3, <3>4 DEF ListenerNext
  <2>2. ws_connected' \in BOOLEAN /\ recorded' \in BOOLEAN
    BY <1>2, Zenon
       DEF ListenerTypeOK, ListenerNext, listenerVars, Connection, Connect, MarkConnected,
           MarkConnectedFails, Subscribe, SubscribeFails, Message, Drop, MarkDisconnected,
           MarkDisconnectedFails, WatcherTrips, WatcherCloses, Tick, ListenerRestart
  <2>3. /\ link' \in {"down", "opening", "subscribing", "up", "ending"}
        /\ watcher' \in {"none", "watching", "closing"}
        /\ faults' \in Nat
    BY <1>2
       DEF ListenerTypeOK, ListenerNext, listenerVars, Connection, Connect, MarkConnected,
           MarkConnectedFails, Subscribe, SubscribeFails, Message, Drop, MarkDisconnected,
           MarkDisconnectedFails, WatcherTrips, WatcherCloses, Tick, ListenerRestart
  <2> QED  BY <2>1, <2>2, <2>3 DEF ListenerTypeOK
<1> QED  BY <1>1, <1>2, PTL DEF ListenerSpec

\* StampInv is inductive: the stamp is taken from the message clock when a connection is
\* recorded, and from then on only the message clock is set back.
LEMMA StampStep ==
  ASSUME ListenerTypeOK, StampInv, [ListenerNext]_listenerVars
  PROVE  StampInv'
<1> USE DEF StampInv, ListenerTypeOK, Ages, memoryVars, rowVars
<1> USE ListenerAssumption
<1>1. CASE MarkConnected
  BY <1>1 DEF MarkConnected
<1>2. CASE Connect \/ Message
  <2>1. msg_age' = 0 /\ stamp_age' = stamp_age /\ recorded' = recorded
    BY <1>2 DEF Connect, Message
  <2> QED  BY <2>1
<1>3. CASE MarkConnectedFails \/ Subscribe \/ SubscribeFails \/ Drop
  BY <1>3 DEF MarkConnectedFails, Subscribe, SubscribeFails, Drop
<1>4. CASE MarkDisconnected \/ MarkDisconnectedFails \/ WatcherTrips \/ WatcherCloses
  BY <1>4 DEF MarkDisconnected, MarkDisconnectedFails, WatcherTrips, WatcherCloses
<1>5. CASE Tick
  BY <1>5 DEF Tick, Older
<1>6. CASE ListenerRestart
  BY <1>6 DEF ListenerRestart
<1>7. CASE UNCHANGED listenerVars
  BY <1>7 DEF listenerVars
<1> QED  BY <1>1, <1>2, <1>3, <1>4, <1>5, <1>6, <1>7 DEF ListenerNext, Connection

\* The stamp of bot_state is at least as old as the last message.
THEOREM StampIsOld == ListenerSpec => []StampInv
<1>1. ListenerInit => StampInv
  BY DEF ListenerInit, StampInv
<1>2. ListenerTypeOK /\ StampInv /\ [ListenerNext]_listenerVars => StampInv'
  BY StampStep
<1> QED  BY <1>1, <1>2, ListenerTypeCorrect, PTL DEF ListenerSpec

\* A feed silent beyond the timeout is refused by check_can_trade, whatever failed or restarted.
THEOREM SilenceRefused == ListenerSpec => []SilenceIsRefused
<1>1. ListenerTypeOK /\ StampInv => SilenceIsRefused
  BY ListenerAssumption DEF ListenerTypeOK, StampInv, SilenceIsRefused, Stale, Ages
<1> QED  BY <1>1, ListenerTypeCorrect, StampIsOld, PTL

=============================================================================
