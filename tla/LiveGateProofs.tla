--------------------------- MODULE LiveGateProofs ---------------------------
(* Proofs about LiveGate and Startup for all values of their constants.    *)
EXTENDS LiveGate, SequenceTheorems, TLAPS

\* Writing a status into the last row keeps the table a sequence of statuses.
LEMMA StatusTable ==
    ASSUME NEW S, NEW s \in Seq(S), Len(s) > 0, NEW e \in S
    PROVE  /\ [s EXCEPT ![Len(s)] = e] \in Seq(S)
           /\ Len([s EXCEPT ![Len(s)] = e]) = Len(s)
<1>1. Len(s) \in 1..Len(s)
  BY LenProperties
<1>2. QED
  BY <1>1, ExceptSeq

\* The life of the process: the types, and what the checks at the start leave for later. A process
\* that is not down passed them, and the SDK is only there where its conditions held.
StartedInv ==
    /\ process # "down" => ValidateConfig(CFG) /\ StartupSafetyChecks(CFG)
    /\ capable => Serving /\ InitializesSdk(CFG)

LEMMA StartupStep ==
    ASSUME StartupTypeOK, StartedInv,
           Start \/ ComesUp \/ ShutDown \/ Ends \/ UNCHANGED startupVars
    PROVE  StartupTypeOK' /\ StartedInv'
<1> USE DEF StartupTypeOK, StartedInv, Serving
<1>1. CASE Start
  <2>1. CFG' \in AllSettings
    BY <1>1, StartupAssumption DEF Start
  <2>2. ~capable'
    BY <1>1 DEF Start
  <2>3. QED
    BY <1>1, <2>1, <2>2 DEF Start
<1>2. CASE ComesUp
  <2>1. capable' \in BOOLEAN /\ (capable' => InitializesSdk(CFG))
    BY <1>2 DEF ComesUp
  <2>2. process' = "up" /\ CFG' = CFG /\ process = "starting"
    BY <1>2 DEF ComesUp
  <2>3. QED
    BY <2>1, <2>2 DEF ValidateConfig, StartupSafetyChecks, InitializesSdk
<1>3. CASE ShutDown
  BY <1>3 DEF ShutDown, ValidateConfig, StartupSafetyChecks, InitializesSdk
<1>4. CASE Ends
  BY <1>4 DEF Ends
<1>5. CASE UNCHANGED startupVars
  BY <1>5 DEF startupVars, ValidateConfig, StartupSafetyChecks, InitializesSdk
<1>6. QED
  BY <1>1, <1>2, <1>3, <1>4, <1>5

\* A step of LiveGate is one of the process's life, or leaves it alone.
LEMMA ProcessStep ==
    ASSUME [LiveNext]_liveVars
    PROVE  Start \/ ComesUp \/ ShutDown \/ Ends \/ UNCHANGED startupVars
<1>1. CASE Sending
  BY <1>1 DEF Sending, Signal, IsArmed, Guards, RecordIntent, MarketOpen, MarkFailed, PlaceExits,
              MarketClose, Halt, OpenFails
<1>2. CASE ReconcileStep \/ ReconcileFails
  BY <1>2 DEF ReconcileStep, ReadPositions, Compare, PauseOnMismatch, ReconcileFails
<1>3. CASE Operator
  BY <1>3 DEF Operator, Arm, Disarm, Pause, Resume, ClearPause, EmergencyStop
<1>4. CASE Process
  BY <1>4 DEF Process, Starts, InitDb, StopsLoops, Dies
<1>5. CASE UNCHANGED liveVars
  BY <1>5 DEF liveVars
<1>6. QED
  BY <1>1, <1>2, <1>3, <1>4, <1>5 DEF LiveNext

\* The process keeps its types, and nothing is capable whose settings were not checked.
THEOREM SettingsAreChecked == LiveSpec => [](StartupTypeOK /\ StartedInv)
<1>1. LiveInit => StartupTypeOK /\ StartedInv
  <2> SUFFICES ASSUME LiveInit PROVE StartupTypeOK /\ StartedInv
    OBVIOUS
  <2>1. CFG \in AllSettings
    BY StartupAssumption DEF LiveInit, StartupInit
  <2>2. QED
    BY <2>1 DEF LiveInit, StartupInit, StartupTypeOK, StartedInv
<1>2. StartupTypeOK /\ StartedInv /\ [LiveNext]_liveVars => (StartupTypeOK /\ StartedInv)'
  BY StartupStep, ProcessStep
<1>3. QED
  BY <1>1, <1>2, PTL DEF LiveSpec

\* Whatever the settings say and however often they change, a process that may send orders answers
\* its control endpoints: the default token never comes with an SDK.
THEOREM CapableProcessIsControlled == LiveSpec => []CapableIsControlled
<1>1. StartedInv => CapableIsControlled
  BY DEF StartedInv, CapableIsControlled, Authorized, Serving, ValidateConfig, InitializesSdk
<1>2. QED
  BY <1>1, SettingsAreChecked, PTL

----------------------------------------------------------------------------

\* Every step keeps the types.
LEMMA LiveTypeStep ==
    ASSUME LiveTypeOK, [LiveNext]_liveVars, StartupTypeOK'
    PROVE  LiveTypeOK'
<1> USE DEF LiveTypeOK, startupVars, flagVars, bookVars, loopVars, historyVars
<1>0. Len(live_trades) \in Nat
  BY LenProperties
<1>1. CASE Sending
  <2>1. CASE Signal
    BY <2>1 DEF Signal
  <2>2. CASE IsArmed
    BY <2>2 DEF IsArmed
  <2>3. CASE Guards
    BY <2>3 DEF Guards
  <2>4. CASE RecordIntent
    <3>1. live_trades' \in Seq({"pending", "failed"}) /\ Len(live_trades') = Len(live_trades) + 1
      BY <2>4, AppendProperties DEF RecordIntent
    <3>2. Len(live_trades') > 0
      BY <1>0, <3>1
    <3>3. small' \subseteq Nat
      BY <1>0, <2>4 DEF RecordIntent, Current
    <3>4. QED
      BY <2>4, <3>1, <3>2, <3>3 DEF RecordIntent
  <2>5. CASE MarketOpen
    <3>1. positions' \subseteq Nat
      BY <1>0, <2>5 DEF MarketOpen, Fill, Current
    <3>2. confirmed' \in Nat
      BY <2>5 DEF MarketOpen
    <3>3. sending' \in {"exits", "failing"}
      BY <2>5 DEF MarketOpen
    <3>4. Len(live_trades) > 0
      BY <2>5 DEF MarketOpen
    <3>5. QED
      BY <2>5, <3>1, <3>2, <3>3, <3>4 DEF MarketOpen
  <2>6. CASE MarkFailed
    <3>1. live_trades' \in Seq({"pending", "failed"})
      BY <2>6, StatusTable DEF MarkFailed, Current
    <3>2. QED
      BY <2>6, <3>1 DEF MarkFailed
  <2>7. CASE PlaceExits
    BY <2>7 DEF PlaceExits
  <2>8. CASE MarketClose
    BY <2>8 DEF MarketClose
  <2>9. CASE Halt
    BY <2>9 DEF Halt
  <2>10. CASE OpenFails
    BY <2>10 DEF OpenFails
  <2>11. QED
    BY <1>1, <2>1, <2>2, <2>3, <2>4, <2>5, <2>6, <2>7, <2>8, <2>9, <2>10 DEF Sending
<1>2. CASE ReconcileStep \/ ReconcileFails
  <2>1. CASE ReadPositions
    BY <2>1 DEF ReadPositions, Noticed
  <2>2. CASE Compare
    BY <2>2 DEF Compare
  <2>3. CASE PauseOnMismatch
    BY <2>3 DEF PauseOnMismatch
  <2>4. CASE ReconcileFails
    <3>1. faults' \in Nat
      BY <2>4 DEF ReconcileFails
    <3>2. QED
      BY <2>4, <3>1, Zenon DEF ReconcileFails
  <2>5. QED
    BY <1>2, <2>1, <2>2, <2>3, <2>4 DEF ReconcileStep
<1>3. CASE Operator
  <2>1. CASE Arm
    BY <2>1 DEF Arm
  <2>2. CASE Disarm
    BY <2>2 DEF Disarm
  <2>3. CASE Pause
    BY <2>3 DEF Pause
  <2>4. CASE Resume
    BY <2>4 DEF Resume
  <2>5. CASE ClearPause
    BY <2>5 DEF ClearPause
  <2>6. CASE EmergencyStop
    BY <2>6 DEF EmergencyStop
  <2>7. QED
    BY <1>3, <2>1, <2>2, <2>3, <2>4, <2>5, <2>6 DEF Operator
<1>4. CASE Process
  <2>1. CASE Starts
    BY <2>1 DEF Starts
  <2>2. CASE InitDb
    BY <2>2 DEF InitDb
  <2>3. CASE StopsLoops
    BY <2>3 DEF StopsLoops
  <2>4. CASE Dies
    <3>1. faults' \in Nat
      BY <2>4 DEF Dies
    <3>2. QED
      BY <2>4, <3>1 DEF Dies
  <2>5. QED
    BY <1>4, <2>1, <2>2, <2>3, <2>4 DEF Process
<1>5. CASE UNCHANGED liveVars
  BY <1>5 DEF liveVars
<1>6. QED
  BY <1>1, <1>2, <1>3, <1>4, <1>5 DEF LiveNext

\* The flags, the rows and the process's bookkeeping keep their types.
THEOREM LiveTypeCorrect == LiveSpec => []LiveTypeOK
<1>1. LiveInit => LiveTypeOK
  <2> SUFFICES ASSUME LiveInit PROVE LiveTypeOK
    OBVIOUS
  <2>1. live_trades \in Seq({"pending", "failed"})
    BY EmptySeq DEF LiveInit
  <2>2. QED
    BY <2>1, StartupAssumption DEF LiveInit, StartupInit, LiveTypeOK, StartupTypeOK
<1>2. LiveTypeOK /\ [LiveNext]_liveVars /\ StartupTypeOK' => LiveTypeOK'
  BY LiveTypeStep
<1>3. QED
  BY <1>1, <1>2, SettingsAreChecked, PTL DEF LiveSpec

----------------------------------------------------------------------------

\* A process that does not serve has no order on its way.
NothingSentBeforeUp == ~Serving => sending = "idle"

\* Arming checks the settings of its process; the settings only change where no order is on its
\* way, and init_db disarms before the process serves.
LEMMA GateStep ==
    ASSUME LiveTypeOK, StartedInv, GateInv, NothingSentBeforeUp, [LiveNext]_liveVars
    PROVE  GateInv' /\ NothingSentBeforeUp'
<1> USE DEF GateInv, OrderIsLegitimate, NothingSentBeforeUp, Serving, startupVars, flagVars,
            bookVars, loopVars, historyVars
<1>1. CASE Sending
  <2>1. CASE Signal \/ IsArmed
    BY <2>1 DEF Signal, IsArmed
  <2>2. CASE Guards
    BY <2>2 DEF Guards
  <2>3. CASE RecordIntent \/ MarketOpen \/ MarkFailed
    BY <2>3 DEF RecordIntent, MarketOpen, MarkFailed
  <2>4. CASE PlaceExits \/ MarketClose \/ Halt \/ OpenFails
    BY <2>4 DEF PlaceExits, MarketClose, Halt, OpenFails
  <2>5. QED
    BY <1>1, <2>1, <2>2, <2>3, <2>4 DEF Sending
<1>2. CASE ReconcileStep \/ ReconcileFails
  BY <1>2 DEF ReconcileStep, ReadPositions, Compare, PauseOnMismatch, ReconcileFails
<1>3. CASE Arm
  BY <1>3 DEF Arm
<1>4. CASE Disarm \/ Pause \/ Resume \/ ClearPause \/ EmergencyStop
  BY <1>4 DEF Disarm, Pause, Resume, ClearPause, EmergencyStop
<1>5. CASE Process
  <2>1. CASE Starts
    BY <2>1 DEF Starts, Start
  <2>2. CASE InitDb
    BY <2>2 DEF InitDb, ComesUp
  <2>3. CASE StopsLoops
    BY <2>3 DEF StopsLoops, ShutDown
  <2>4. CASE Dies
    BY <2>4 DEF Dies, Ends
  <2>5. QED
    BY <1>5, <2>1, <2>2, <2>3, <2>4 DEF Process
<1>6. CASE UNCHANGED liveVars
  BY <1>6 DEF liveVars
<1>7. QED
  BY <1>1, <1>2, <1>3, <1>4, <1>5, <1>6 DEF LiveNext, Operator

\* The gate holds for all settings: the flag of a process that serves, and every order past the
\* check of the flag, come from an arming in this process, with the SDK and without protected exits.
THEOREM GateHolds == LiveSpec => []GateInv
<1>1. LiveInit => GateInv /\ NothingSentBeforeUp
  BY DEF LiveInit, StartupInit, GateInv, OrderIsLegitimate, NothingSentBeforeUp
<1>2. LiveTypeOK /\ StartedInv /\ GateInv /\ NothingSentBeforeUp /\ [LiveNext]_liveVars
      => (GateInv /\ NothingSentBeforeUp)'
  BY GateStep
<1>3. QED
  BY <1>1, <1>2, LiveTypeCorrect, SettingsAreChecked, PTL DEF LiveSpec

\* No order is on its way but in a capable process that does not require protected exits and
\* that the operator armed since it started, whatever the sequence of restarts and settings.
THEOREM OrdersAreLegitimate == LiveSpec => []OrderIsLegitimate
<1>1. GateInv => OrderIsLegitimate
  BY DEF GateInv
<1>2. QED
  BY <1>1, GateHolds, PTL

\* The one writer of a reason that does not pause is the guard the gate keeps from being reached.
LEMMA ReasonStep ==
    ASSUME LiveTypeOK, GateInv, ReasonMeansPaused, [LiveNext]_liveVars
    PROVE  ReasonMeansPaused'
<1> USE DEF ReasonMeansPaused, startupVars, flagVars, bookVars, loopVars, historyVars
<1>1. CASE Guards
  <2>1. ~CFG.require_protected_exits
    BY <1>1 DEF Guards, GateInv
  <2>2. QED
    BY <1>1, <2>1 DEF Guards
<1>2. CASE Signal \/ IsArmed \/ RecordIntent \/ MarketOpen \/ MarkFailed
  BY <1>2 DEF Signal, IsArmed, RecordIntent, MarketOpen, MarkFailed
<1>3. CASE PlaceExits \/ MarketClose \/ Halt \/ OpenFails
  BY <1>3 DEF PlaceExits, MarketClose, Halt, OpenFails
<1>4. CASE ReconcileStep \/ ReconcileFails
  BY <1>4 DEF ReconcileStep, ReadPositions, Compare, PauseOnMismatch, ReconcileFails
<1>5. CASE Operator
  BY <1>5 DEF Operator, Arm, Disarm, Pause, Resume, ClearPause, EmergencyStop
<1>6. CASE Process
  BY <1>6 DEF Process, Starts, InitDb, StopsLoops, Dies
<1>7. CASE UNCHANGED liveVars
  BY <1>7 DEF liveVars
<1>8. QED
  BY <1>1, <1>2, <1>3, <1>4, <1>5, <1>6, <1>7 DEF LiveNext, Sending

\* The reason the operator reads belongs to a pause, after any sequence of halts, requests and
\* restarts.
THEOREM ReasonsArePauses == LiveSpec => []ReasonMeansPaused
<1>1. LiveInit => ReasonMeansPaused
  BY DEF LiveInit, ReasonMeansPaused
<1>2. LiveTypeOK /\ GateInv /\ ReasonMeansPaused /\ [LiveNext]_liveVars => ReasonMeansPaused'
  BY ReasonStep
<1>3. QED
  BY <1>1, <1>2, LiveTypeCorrect, GateHolds, PTL DEF LiveSpec

----------------------------------------------------------------------------

\* A position is only opened by an order whose row was committed before, and rows are never deleted.
LEMMA RecordedStep ==
    ASSUME LiveTypeOK, PositionsAreRecorded, [LiveNext]_liveVars
    PROVE  PositionsAreRecorded'
<1> USE DEF PositionsAreRecorded, startupVars, flagVars, bookVars, loopVars, historyVars
<1>0. Len(live_trades) \in Nat /\ DOMAIN live_trades = 1..Len(live_trades)
  BY LenProperties DEF LiveTypeOK
<1>1. CASE RecordIntent
  <2>1. live_trades' \in Seq({"pending", "failed"}) /\ Len(live_trades') = Len(live_trades) + 1
    BY <1>1, AppendProperties DEF RecordIntent, LiveTypeOK
  <2>2. DOMAIN live_trades' = 1..(Len(live_trades) + 1)
    BY <2>1, LenProperties
  <2>3. QED
    BY <1>0, <1>1, <2>2 DEF RecordIntent
<1>2. CASE MarketOpen
  <2>1. Len(live_trades) \in DOMAIN live_trades
    BY <1>0, <1>2 DEF MarketOpen, LiveTypeOK
  <2>2. QED
    BY <1>2, <2>1 DEF MarketOpen, Fill, Current
<1>3. CASE MarkFailed
  BY <1>3 DEF MarkFailed
<1>4. CASE MarketClose
  BY <1>4 DEF MarketClose
<1>5. CASE Signal \/ IsArmed \/ Guards \/ PlaceExits \/ Halt \/ OpenFails
  BY <1>5 DEF Signal, IsArmed, Guards, PlaceExits, Halt, OpenFails
<1>6. CASE ReconcileStep \/ ReconcileFails
  BY <1>6 DEF ReconcileStep, ReadPositions, Compare, PauseOnMismatch, ReconcileFails
<1>7. CASE Operator \/ Process
  BY <1>7 DEF Operator, Arm, Disarm, Pause, Resume, ClearPause, EmergencyStop,
              Process, Starts, InitDb, StopsLoops, Dies
<1>8. CASE UNCHANGED liveVars
  BY <1>8 DEF liveVars
<1>9. QED
  BY <1>1, <1>2, <1>3, <1>4, <1>5, <1>6, <1>7, <1>8 DEF LiveNext, Sending

\* Every position the executor opened at the exchange has its row in live_trades.
THEOREM PositionsHaveRows == LiveSpec => []PositionsAreRecorded
<1>1. LiveInit => PositionsAreRecorded
  BY DEF LiveInit, PositionsAreRecorded
<1>2. QED
  BY <1>1, LiveTypeCorrect, RecordedStep, PTL DEF LiveSpec

----------------------------------------------------------------------------

\* After an order that went out disarmed nothing is past the check of the flag any more, and no
\* step but an arming sets the flag.
LeakInv == leaked # 0 =>
    leaked = 1 /\ ~live_armed /\ sending \notin {"guards", "intent", "entry"}

LEMMA LeakStep ==
    ASSUME LiveTypeOK, LeakInv, [LiveNext]_liveVars
    PROVE  LeakInv'
<1> USE DEF LeakInv, startupVars, flagVars, bookVars, loopVars, historyVars
<1>1. CASE MarketOpen
  <2>1. leaked = 0 /\ sending' \in {"exits", "failing"} /\ live_armed' = live_armed
    BY <1>1 DEF MarketOpen
  <2>2. leaked' = IF live_armed THEN 0 ELSE 1
    BY <1>1, <2>1 DEF MarketOpen
  <2>3. QED
    BY <2>1, <2>2 DEF LiveTypeOK
<1>2. CASE Signal \/ IsArmed \/ Guards \/ RecordIntent \/ MarkFailed
  BY <1>2 DEF Signal, IsArmed, Guards, RecordIntent, MarkFailed
<1>3. CASE PlaceExits \/ MarketClose \/ Halt \/ OpenFails
  BY <1>3 DEF PlaceExits, MarketClose, Halt, OpenFails
<1>4. CASE ReconcileStep \/ ReconcileFails
  BY <1>4 DEF ReconcileStep, ReadPositions, Compare, PauseOnMismatch, ReconcileFails
<1>5. CASE Operator
  BY <1>5 DEF Operator, Arm, Disarm, Pause, Resume, ClearPause, EmergencyStop
<1>6. CASE Process
  BY <1>6 DEF Process, Starts, InitDb, StopsLoops, Dies
<1>7. CASE UNCHANGED liveVars
  BY <1>7 DEF liveVars
<1>8. QED
  BY <1>1, <1>2, <1>3, <1>4, <1>5, <1>6, <1>7 DEF LiveNext, Sending

\* However often the operator, a halt, a mismatch or a restart disarms the bot, one order at most
\* slips through before the next arming.
THEOREM DisarmLeaks == LiveSpec => []DisarmLeaksAtMostOne
<1>1. LiveInit => LeakInv
  BY DEF LiveInit, LeakInv
<1>2. LiveTypeOK /\ LeakInv /\ [LiveNext]_liveVars => LeakInv'
  BY LeakStep
<1>3. LeakInv => DisarmLeaksAtMostOne
  BY DEF LeakInv, DisarmLeaksAtMostOne
<1>4. QED
  BY <1>1, <1>2, <1>3, LiveTypeCorrect, PTL DEF LiveSpec

----------------------------------------------------------------------------

\* A confirmed entry ends in a halt unless a fault voids it: until the halt is through, or where the
\* flag still lets an order pass, the faults account for all entries confirmed before.
ConfirmInv ==
    /\ confirmed <= faults + 1
    /\ \/ sending \in {"guards", "intent", "entry"}
       \/ live_armed /\ Serving /\ sending \notin {"exits", "closing", "halt"}
       => confirmed <= faults

LEMMA ConfirmStep ==
    ASSUME LiveTypeOK, NothingSentBeforeUp, ConfirmInv, [LiveNext]_liveVars
    PROVE  ConfirmInv'
<1> USE DEF ConfirmInv, Serving, startupVars, flagVars, bookVars, loopVars, historyVars
<1>0. confirmed \in Nat /\ faults \in Nat
  BY DEF LiveTypeOK
<1>1. CASE Signal \/ Guards \/ RecordIntent \/ MarkFailed
  BY <1>1 DEF Signal, Guards, RecordIntent, MarkFailed
<1>2. CASE IsArmed
  BY <1>2 DEF IsArmed, NothingSentBeforeUp
<1>3. CASE MarketOpen
  <2>1. CASE sending' = "exits" /\ confirmed' = confirmed + 1
    BY <1>0, <1>3, <2>1 DEF MarketOpen
  <2>2. CASE sending' = "failing" /\ confirmed' = confirmed
    BY <1>0, <1>3, <2>2 DEF MarketOpen
  <2>3. QED
    BY <1>3, <2>1, <2>2 DEF MarketOpen
<1>4. CASE PlaceExits \/ MarketClose \/ Halt
  BY <1>4 DEF PlaceExits, MarketClose, Halt
<1>5. CASE OpenFails
  <2>1. faults' = faults + 1 /\ confirmed' = confirmed
    BY <1>5 DEF OpenFails
  <2>2. QED
    BY <1>0, <2>1
<1>6. CASE ReconcileStep
  BY <1>6 DEF ReconcileStep, ReadPositions, Compare, PauseOnMismatch
<1>7. CASE ReconcileFails
  <2>1. faults' = faults + 1 /\ confirmed' = confirmed
    BY <1>7 DEF ReconcileFails
  <2>2. QED
    BY <1>0, <2>1
<1>8. CASE Arm
  BY <1>0, <1>8 DEF Arm
<1>9. CASE Disarm \/ Pause \/ Resume \/ ClearPause \/ EmergencyStop
  BY <1>9 DEF Disarm, Pause, Resume, ClearPause, EmergencyStop
<1>10. CASE Process
  <2>1. CASE Starts
    BY <2>1 DEF Starts, Start
  <2>2. CASE InitDb
    BY <1>0, <2>2 DEF InitDb, ComesUp
  <2>3. CASE StopsLoops
    BY <2>3 DEF StopsLoops, ShutDown
  <2>4. CASE Dies
    <3>1. faults' \in {faults, faults + 1} /\ confirmed' = confirmed
      BY <2>4 DEF Dies
    <3>2. process' = "down" /\ sending' = "idle"
      BY <2>4 DEF Dies, Ends
    <3>3. confirmed' <= faults' + 1
      <4>1. confirmed <= faults + 1
        OBVIOUS
      <4>2. CASE faults' = faults
        BY <3>1, <4>1, <4>2
      <4>3. CASE faults' = faults + 1
        <5>1. faults + 1 <= faults' + 1
          BY <1>0, <4>3
        <5>2. QED
          BY <1>0, <3>1, <4>1, <4>3, <5>1
      <4>4. QED
        BY <3>1, <4>2, <4>3
    <3>4. ~Serving' /\ sending' \notin {"guards", "intent", "entry"}
      BY <3>2
    <3>5. QED
      BY <3>3, <3>4
  <2>5. QED
    BY <1>10, <2>1, <2>2, <2>3, <2>4 DEF Process
<1>11. CASE UNCHANGED liveVars
  BY <1>11 DEF liveVars
<1>12. QED
  BY <1>1, <1>2, <1>3, <1>4, <1>5, <1>6, <1>7, <1>8, <1>9, <1>10, <1>11
     DEF LiveNext, Sending, Operator

\* One arming leads to one confirmed entry and no more, but for one more with every fault.
THEOREM OneExit == LiveSpec => OneExitPerArming
<1>1. LiveInit => ConfirmInv
  BY DEF LiveInit, StartupInit, ConfirmInv, Serving
<1>2. LiveTypeOK /\ NothingSentBeforeUp /\ ConfirmInv /\ [LiveNext]_liveVars => ConfirmInv'
  BY ConfirmStep
<1>3. LiveTypeOK /\ ConfirmInv /\ [LiveNext]_liveVars => [PlaceExits => confirmed <= 1 + faults]_liveVars
  BY DEF ConfirmInv, LiveTypeOK
<1>4. LiveInit => GateInv /\ NothingSentBeforeUp
  BY DEF LiveInit, StartupInit, GateInv, OrderIsLegitimate, NothingSentBeforeUp
<1>5. LiveTypeOK /\ StartedInv /\ GateInv /\ NothingSentBeforeUp /\ [LiveNext]_liveVars
      => (GateInv /\ NothingSentBeforeUp)'
  BY GateStep
<1>6. QED
  BY <1>1, <1>2, <1>3, <1>4, <1>5, LiveTypeCorrect, SettingsAreChecked, PTL
     DEF LiveSpec, OneExitPerArming

=============================================================================
