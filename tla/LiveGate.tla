------------------------------ MODULE LiveGate ------------------------------
(***************************************************************************)
(* The way of a live order: arming and disarming, LiveExecutor.open with   *)
(* its gates, the exchange, the reconciliation loop, the emergency stop    *)
(* and the life of the process (Startup), with its shutdowns, crashes and  *)
(* restarts under other settings.                                          *)
(*                                                                         *)
(* _place_protected_exits always raises ProtectedExitsNotImplementedError, *)
(* so an entry that was filled is closed at once and the bot halted; the   *)
(* row stays 'pending', no row ever becomes 'open', and close() and the    *)
(* manager's live loop, which work on open rows, find nothing to do.       *)
(* The exchange is external: an order may be filled, be rejected, or be    *)
(* filled although the call raised.  Positions of one coin that offset     *)
(* each other are left out: an order's position stays until it is closed.  *)
(***************************************************************************)
EXTENDS Startup, Integers, Sequences, FiniteSets

CONSTANTS
    Requests,               \* in use of "pause", "resume", "clear_pause", "disarm", "emergency"
    MaxOrders, MaxFaults    \* bounds: order attempts, crashes and database errors

ASSUME LiveAssumption == MaxOrders \in Nat /\ MaxFaults \in Nat

VARIABLES
    live_armed, is_paused,     \* bot_state columns
    pause_reason,              \* and whether this one is set
    live_trades,               \* statuses of the table's rows, by id
    positions,                 \* ids of the orders whose position is open at the exchange
    small,                     \* ids of the orders for at most 0.01 coin
    sending,                   \* where LiveExecutor.open is
    reconciling, seen,         \* the reconciliation loop and the positions it was told
    armed_here,                \* history: this process has been armed
    confirmed,                 \* history: entries confirmed since the last arming
    leaked,                    \* history: orders sent disarmed since the last arming
    faults

flagVars == <<live_armed, is_paused, pause_reason>>
bookVars == <<live_trades, positions, small>>
loopVars == <<reconciling, seen>>
historyVars == <<armed_here, confirmed, leaked>>
liveVars == <<startupVars, flagVars, bookVars, sending, loopVars, historyVars, faults>>

LiveTypeOK ==
    /\ StartupTypeOK
    /\ live_armed \in BOOLEAN /\ is_paused \in BOOLEAN /\ pause_reason \in BOOLEAN
    /\ live_trades \in Seq({"pending", "failed"})
    /\ positions \subseteq Nat /\ small \subseteq Nat
    /\ sending \in {"idle", "gate", "guards", "intent", "entry", "failing",
                    "exits", "closing", "halt"}
    /\ sending \in {"entry", "failing", "exits", "closing", "halt"} => Len(live_trades) > 0
    /\ reconciling \in {"idle", "comparing", "pausing"}
    /\ seen \in BOOLEAN
    /\ armed_here \in BOOLEAN
    /\ confirmed \in Nat /\ leaked \in Nat /\ faults \in Nat

LiveInit ==
    /\ StartupInit
    /\ live_armed = FALSE /\ is_paused = FALSE /\ pause_reason = FALSE
    /\ live_trades = <<>> /\ positions = {} /\ small = {}
    /\ sending = "idle" /\ reconciling = "idle" /\ seen = FALSE
    /\ armed_here = FALSE /\ confirmed = 0 /\ leaked = 0 /\ faults = 0

----------------------------------------------------------------------------
(* LiveExecutor.open, called by the orchestrator after its risk check.     *)

Current == Len(live_trades)

\* The orchestrator's check found the bot unpaused; live.open is called if the SDK is capable.  The
\* tick under way at a shutdown still visits its other coins.
Signal ==
    /\ Serving /\ sending = "idle" /\ capable /\ ~is_paused /\ Len(live_trades) < MaxOrders
    /\ sending' = "gate"
    /\ UNCHANGED <<startupVars, flagVars, bookVars, loopVars, historyVars, faults>>

\* Faulty variant: an arming is remembered in the process.
SkipsIsArmed ==
    /\ sending = "gate"
    /\ sending' = IF armed_here THEN "guards" ELSE "idle"
    /\ UNCHANGED <<startupVars, flagVars, bookVars, loopVars, historyVars, faults>>

IsArmed ==
    /\ sending = "gate"
    /\ sending' = IF live_armed THEN "guards" ELSE "idle"
    /\ UNCHANGED <<startupVars, flagVars, bookVars, loopVars, historyVars, faults>>

\* Size, price and slippage may refuse (a choice here); then the hard guard on protected exits
\* refuses, disarms and gives a reason without pausing.  GateInv shows that the guard is never
\* needed, so its update is not given a step of its own.
Guards ==
    /\ sending = "guards"
    /\ \E passed \in BOOLEAN :
        /\ sending' = IF passed /\ ~CFG.require_protected_exits THEN "intent" ELSE "idle"
        /\ IF passed /\ CFG.require_protected_exits
           THEN live_armed' = FALSE /\ pause_reason' = TRUE
           ELSE UNCHANGED <<live_armed, pause_reason>>
    /\ UNCHANGED <<startupVars, is_paused, bookVars, loopVars, historyVars, faults>>

\* Faulty variant: the row is to be written when the order has been filled.
SkipIntent ==
    /\ sending = "intent"
    /\ sending' = "entry"
    /\ UNCHANGED <<startupVars, flagVars, bookVars, loopVars, historyVars, faults>>

\* Faulty variant: the row starts as 'open'.
RecordAsOpen ==
    /\ sending = "intent"
    /\ live_trades' = Append(live_trades, "open")
    /\ sending' = "entry"
    /\ UNCHANGED <<startupVars, flagVars, positions, small, loopVars, historyVars, faults>>

\* The size in coins is a choice: at most 0.01, or more.
RecordIntent ==
    /\ sending = "intent"
    /\ live_trades' = Append(live_trades, "pending")
    /\ small' \in {small, small \cup {Current + 1}}
    /\ sending' = "entry"
    /\ UNCHANGED <<startupVars, flagVars, positions, loopVars, historyVars, faults>>

\* market_open at the exchange, in an executor thread; its result comes back in the same step. An
\* answer that is ok as a whole and refuses the one order in it is taken for a fill.
Fill == positions' = positions \cup {Current}

MarketOpen ==
    /\ sending = "entry"
    /\ \/ /\ Fill \/ UNCHANGED positions
          /\ sending' = "exits" /\ confirmed' = confirmed + 1
       \/ Fill /\ sending' = "failing" /\ UNCHANGED confirmed
       \/ UNCHANGED <<positions, confirmed>> /\ sending' = "failing"
    /\ leaked' = IF live_armed THEN leaked ELSE leaked + 1
    /\ UNCHANGED <<startupVars, flagVars, live_trades, small, loopVars, armed_here, faults>>

MarkFailed ==
    /\ sending = "failing"
    /\ live_trades' = [live_trades EXCEPT ![Current] = "failed"]
    /\ sending' = "idle"
    /\ UNCHANGED <<startupVars, flagVars, positions, small, loopVars, historyVars, faults>>

PlaceExits ==
    /\ sending = "exits"
    /\ sending' = "closing"
    /\ UNCHANGED <<startupVars, flagVars, bookVars, loopVars, historyVars, faults>>

\* _market_close closes the coin's position, or its error is logged and passed over.
MarketClose ==
    /\ sending = "closing"
    /\ \/ positions' = positions \ {Current}
       \/ UNCHANGED positions
    /\ sending' = "halt"
    /\ UNCHANGED <<startupVars, flagVars, live_trades, small, loopVars, historyVars, faults>>

\* Faulty variant: the halt pauses without disarming.
HaltPausesOnly ==
    /\ sending = "halt"
    /\ is_paused' = TRUE /\ pause_reason' = TRUE
    /\ sending' = "idle"
    /\ UNCHANGED <<startupVars, live_armed, bookVars, loopVars, historyVars, faults>>

Halt ==
    /\ sending = "halt"
    /\ is_paused' = TRUE /\ live_armed' = FALSE /\ pause_reason' = TRUE
    /\ sending' = "idle"
    /\ UNCHANGED <<startupVars, bookVars, loopVars, historyVars, faults>>

\* A database error in one of open's transactions aborts the orchestrator's tick.
OpenFails ==
    /\ sending \in {"gate", "intent", "failing", "halt"} /\ faults < MaxFaults
    /\ faults' = faults + 1 /\ sending' = "idle"
    /\ UNCHANGED <<startupVars, flagVars, bookVars, loopVars, historyVars>>

Sending ==
    \/ Signal \/ IsArmed \/ Guards \/ RecordIntent \/ MarketOpen
    \/ MarkFailed \/ PlaceExits \/ MarketClose \/ Halt \/ OpenFails

----------------------------------------------------------------------------
(* reconcile_with_exchange: two reads and, on a mismatch, a pause.  No row *)
(* is ever 'open', so db_size is 0, the tolerance is 0.01 coin, and every  *)
(* larger position is a mismatch; small ones may add up to one.            *)

Noticed ==
    IF positions \subseteq small
    THEN IF Cardinality(positions) > 1 THEN BOOLEAN ELSE {FALSE}
    ELSE {TRUE}

ReadPositions ==
    /\ process = "up" /\ reconciling = "idle" /\ capable
    /\ seen' \in Noticed /\ reconciling' = "comparing"
    /\ UNCHANGED <<startupVars, flagVars, bookVars, sending, historyVars, faults>>

Compare ==
    /\ reconciling = "comparing"
    /\ reconciling' = IF seen THEN "pausing" ELSE "idle"
    /\ seen' = FALSE
    /\ UNCHANGED <<startupVars, flagVars, bookVars, sending, historyVars, faults>>

\* Faulty variant: a mismatch disarms but does not pause.
MismatchOnlyDisarms ==
    /\ reconciling = "pausing"
    /\ live_armed' = FALSE
    /\ reconciling' = "idle"
    /\ UNCHANGED <<startupVars, is_paused, pause_reason, bookVars, sending, seen, historyVars, faults>>

PauseOnMismatch ==
    /\ reconciling = "pausing"
    /\ is_paused' = TRUE /\ live_armed' = FALSE /\ pause_reason' = TRUE
    /\ reconciling' = "idle"
    /\ UNCHANGED <<startupVars, bookVars, sending, seen, historyVars, faults>>

\* A failed call is logged; the loop tries again after its interval.
ReconcileFails ==
    /\ reconciling # "idle" /\ faults < MaxFaults
    /\ faults' = faults + 1 /\ reconciling' = "idle" /\ seen' = FALSE
    /\ UNCHANGED <<startupVars, flagVars, bookVars, sending, historyVars>>

ReconcileStep == ReadPositions \/ Compare \/ PauseOnMismatch

----------------------------------------------------------------------------
(* The operator. Every request needs the token.                            *)

\* Faulty variant: the API arms an SDK that is not capable.
ArmUnchecked ==
    /\ Authorized /\ ~CFG.require_protected_exits
    /\ live_armed' = TRUE /\ armed_here' = TRUE /\ confirmed' = 0 /\ leaked' = 0
    /\ UNCHANGED <<startupVars, is_paused, pause_reason, bookVars, sending, loopVars, faults>>

\* POST /api/toggle live_armed on: refused unless capable, refused with protected exits required.
Arm ==
    /\ Authorized /\ capable /\ ~CFG.require_protected_exits
    /\ live_armed' = TRUE /\ armed_here' = TRUE /\ confirmed' = 0 /\ leaked' = 0
    /\ UNCHANGED <<startupVars, is_paused, pause_reason, bookVars, sending, loopVars, faults>>

Disarm ==
    /\ "disarm" \in Requests /\ Authorized
    /\ live_armed' = FALSE
    /\ UNCHANGED <<startupVars, is_paused, pause_reason, bookVars, sending, loopVars,
                    historyVars, faults>>

Pause ==
    /\ "pause" \in Requests /\ Authorized
    /\ is_paused' = TRUE /\ pause_reason' = TRUE
    /\ UNCHANGED <<startupVars, live_armed, bookVars, sending, loopVars, historyVars, faults>>

\* Faulty variant: the reason outlives the pause.
ResumeKeepsReason ==
    /\ "resume" \in Requests /\ Authorized
    /\ is_paused' = FALSE
    /\ UNCHANGED <<startupVars, live_armed, pause_reason, bookVars, sending, loopVars,
                    historyVars, faults>>

Resume ==
    /\ "resume" \in Requests /\ Authorized
    /\ is_paused' = FALSE /\ pause_reason' = FALSE
    /\ UNCHANGED <<startupVars, live_armed, bookVars, sending, loopVars, historyVars, faults>>

\* POST /api/clear_pause: the reason, and nothing else.
ClearPause ==
    /\ "clear_pause" \in Requests /\ Authorized
    /\ pause_reason' = FALSE
    /\ UNCHANGED <<startupVars, live_armed, is_paused, bookVars, sending, loopVars,
                    historyVars, faults>>

\* The emergency stop disarms and pauses; it finds no open live row to close.
EmergencyStop ==
    /\ "emergency" \in Requests /\ Authorized
    /\ is_paused' = TRUE /\ live_armed' = FALSE /\ pause_reason' = TRUE
    /\ UNCHANGED <<startupVars, bookVars, sending, loopVars, historyVars, faults>>

----------------------------------------------------------------------------
(* The process. The row, the table and the positions outlive it.           *)

Starts == Start /\ UNCHANGED <<flagVars, bookVars, sending, loopVars, historyVars, faults>>

\* Faulty variant: init_db keeps live_armed.
InitDbKeepingArmed ==
    /\ ComesUp
    /\ armed_here' = FALSE /\ confirmed' = 0 /\ UNCHANGED leaked
    /\ UNCHANGED <<flagVars, bookVars, sending, loopVars, faults>>

\* init_db disarms; the pause and its reason stay.
InitDb ==
    /\ ComesUp
    /\ live_armed' = FALSE
    /\ armed_here' = FALSE /\ confirmed' = 0 /\ UNCHANGED leaked
    /\ UNCHANGED <<is_paused, pause_reason, bookVars, sending, loopVars, faults>>

StopsLoops == ShutDown /\ UNCHANGED <<flagVars, bookVars, sending, loopVars, historyVars, faults>>

\* The end of a shutdown, which cancels what takes too long, or a crash. An order in the executor
\* thread may go out in either case: a fill, and then the end, is a step of MarketOpen before this.
Dies ==
    /\ Ends
    /\ IF process = "stopping" THEN UNCHANGED faults ELSE faults < MaxFaults /\ faults' = faults + 1
    /\ sending' = "idle" /\ reconciling' = "idle" /\ seen' = FALSE
    /\ UNCHANGED <<flagVars, bookVars, historyVars>>

Operator == Arm \/ Disarm \/ Pause \/ Resume \/ ClearPause \/ EmergencyStop
Process == Starts \/ InitDb \/ StopsLoops \/ Dies

LiveNext ==
    \/ Sending \/ ReconcileStep \/ ReconcileFails
    \/ Operator \/ Process

LiveSpec == LiveInit /\ [][LiveNext]_liveVars

\* The reconciliation loop keeps running.
LiveFairSpec == LiveSpec /\ WF_liveVars(ReconcileStep)

----------------------------------------------------------------------------
\* An order is on its way only in a process that is capable, does not require protected exits,
\* and was armed by the operator since it started: no restart resumes live trading.
OrderIsLegitimate ==
    sending \in {"intent", "entry", "failing", "exits", "closing", "halt"} =>
        capable /\ ~CFG.require_protected_exits /\ armed_here

\* The flag itself is legitimate in a process that serves; a dead one may leave it set.
GateInv ==
    /\ OrderIsLegitimate
    /\ (live_armed /\ Serving) \/ sending = "guards" =>
         capable /\ ~CFG.require_protected_exits /\ armed_here

\* A reason that is shown is the reason of a pause. Six writers set or clear the two columns; one
\* gives a reason without pausing, and the gates keep the bot from ever reaching it.
ReasonMeansPaused == pause_reason => is_paused

\* A position at the exchange always has a row of its own in live_trades, even if the process
\* died between the order and the next write, because the intent is recorded first.
PositionsAreRecorded == positions \subseteq DOMAIN live_trades

\* One arming leads to at most one confirmed entry: the halt that follows it disarms before the
\* next signal is looked at, whatever the operator and the reconciliation do meanwhile.  A
\* database error may void one halt.
OneExitPerArming ==
    [][PlaceExits => confirmed <= 1 + faults]_liveVars

\* Whoever disarms the bot, and whenever: at most one order still goes to the exchange before it is
\* armed again, the one that had been let through the check of live_armed.
DisarmLeaksAtMostOne == leaked <= 1

\* A position above the tolerance that no open row accounts for pauses the bot in the end, as
\* long as the process runs and is capable of asking the exchange.
OrphanPausesBot ==
    positions \ small # {} ~>
        is_paused \/ positions \subseteq small \/ ~capable \/ process = "stopping"

----------------------------------------------------------------------------
(* Statements of the documents that the code does not meet.                *)

\* live_executor.py's head comment: mismatches between live_trades and the positions at the
\* exchange pause the bot.  As long as the process runs and the position stays.
MismatchPausesBot ==
    positions # {} /\ sending = "idle" ~>
        is_paused \/ positions = {} \/ ~capable \/ process = "stopping"

\* server.py's head comment: POST /api/clear_pause clears the pause flag.
ClearPauseClears == [][ClearPause => ~is_paused']_liveVars

\* live_executor.py's head comment: all three stages must be true for an order to actually be sent.
OrderNeedsArming == [][MarketOpen => live_armed]_liveVars

=============================================================================
