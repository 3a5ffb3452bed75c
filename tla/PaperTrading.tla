---------------------------- MODULE PaperTrading ----------------------------
(***************************************************************************)
(* The paper-trading core of the bot: the orchestrator's tick, the risk    *)
(* check, the paper executor, the trade manager, the emergency stop and    *)
(* the operator's requests.  They are asyncio tasks of one process that    *)
(* share two database tables, paper_trades and the single bot_state row,   *)
(* and every action below is the code between two awaits that another task *)
(* can observe.                                                            *)
(*                                                                         *)
(* Money is counted in whole units, a trade's net PnL is drawn from Pnls,  *)
(* days are numbered, and paper_realized_pnl_usd, which is always written  *)
(* together with paper_equity_usd, is left out, as are the Signal, MAE/MFE *)
(* and activity columns, which no guard reads.  Live trades never reach    *)
(* status 'open' (_place_protected_exits always raises), so the live share *)
(* of every position count is zero and is left out too.                    *)
(***************************************************************************)
EXTENDS Integers, Sequences, FiniteSets

CONSTANTS
    Coins, Strategies,
    Pairs,          \* the <<coin, strategy>> pairs the orchestrator ticks
    Manager,        \* the TradeManager task
    Handlers,       \* POST /api/emergency_stop requests, each made once
    Requests,       \* the other controls the operator uses
    MaxPos, MaxPosStrat, MaxPosCoin,
    StartBalance, DailyLimit, CircuitPct, MaxConsec,
    Pnls,           \* net results a close can have
    None,           \* Python's None
    MaxTrades, LastDay, MaxFaults  \* bounds: trades opened, days, restarts and database errors

Closers == {Manager} \cup Handlers

ASSUME PairsAssumption == Pairs \subseteq Coins \X Strategies /\ None \notin Pairs
ASSUME ManagerAssumption == Manager \notin Handlers
ASSUME LimitsAssumption ==
    /\ MaxPos \in Nat /\ MaxPosStrat \in Nat /\ MaxPosCoin \in Nat
    /\ DailyLimit \in Nat /\ CircuitPct \in Nat /\ MaxConsec \in Nat
ASSUME MoneyAssumption == StartBalance \in Nat \ {0} /\ Pnls \subseteq Int
ASSUME BoundsAssumption == MaxTrades \in Nat /\ LastDay \in Nat /\ MaxFaults \in Nat

VARIABLES
    paper_trades,   \* the table, indexed by id
    overdue,        \* ids of the open trades past their time stop
    is_paused, enabled, account,    \* columns of the bot_state row
    today,          \* the UTC date
    opc, signal,    \* where the orchestrator is, and the signal it carries
    cached_state,   \* RiskManager._cached_state: the toggles the tick gates on
    cooling,        \* coins in RiskManager's loss cooldown (memory only)
    priced,         \* coins with a latest_price since the process started
    at, todo, job,  \* per closer: where it is, ids still to visit, the close in progress
    faults

orchVars   == <<opc, signal, cached_state>>
closerVars == <<at, todo, job>>
botVars    == <<is_paused, enabled, account>>
tradeVars  == <<paper_trades, overdue>>
worldVars  == <<today, priced, faults>>
vars == <<tradeVars, botVars, orchVars, closerVars, worldVars, cooling>>

----------------------------------------------------------------------------
Accounts == [equity : Int, peak : Int, daily : Int, date : Nat, consec : Nat]

InitAccount == [equity |-> StartBalance, peak |-> StartBalance,
                daily |-> 0, date |-> 0, consec |-> 0]

Trades == [coin : Coins, strategy : Strategies, status : {"open", "closed"}, pnl : Int]

NoJob == [trade |-> 0, pnl |-> 0, account |-> InitAccount]

TypeOK ==
    /\ paper_trades \in Seq(Trades)
    /\ overdue \subseteq DOMAIN paper_trades
    /\ is_paused \in BOOLEAN
    /\ enabled \in [Strategies -> BOOLEAN]
    /\ account \in Accounts
    /\ today \in Nat
    /\ opc \in {"idle", "check", "pause", "count", "open"}
    /\ signal \in Pairs \cup {None}
    /\ opc # "idle" => signal \in Pairs
    /\ cached_state \in [Strategies -> BOOLEAN] \cup {None}
    /\ cooling \subseteq Coins
    /\ priced \subseteq Coins
    /\ at \in [Closers -> {"idle", "listing", "loop", "closing", "booking",
                           "updating", "returning", "done", "failed"}]
    /\ todo \in [Closers -> SUBSET DOMAIN paper_trades]
    /\ job \in [Closers -> [trade : Nat, pnl : Int, account : Accounts]]
    /\ \A p \in Closers : at[p] \in {"closing", "booking", "updating", "returning"} =>
                             job[p].trade \in DOMAIN paper_trades
    /\ faults \in Nat

Init ==
    /\ paper_trades = <<>> /\ overdue = {}
    /\ is_paused = FALSE /\ enabled = [s \in Strategies |-> TRUE] /\ account = InitAccount
    /\ today = 1
    /\ opc = "idle" /\ signal = None /\ cached_state = None
    /\ cooling = {} /\ priced = {}
    /\ at = [p \in Closers |-> "idle"] /\ todo = [p \in Closers |-> {}]
    /\ job = [p \in Closers |-> NoJob]
    /\ faults = 0

----------------------------------------------------------------------------
(* What the risk check reads.                                              *)

OpenIds == {t \in DOMAIN paper_trades : paper_trades[t].status = "open"}
OpenByStrategy(s) == {t \in OpenIds : paper_trades[t].strategy = s}
OpenByCoin(c) == {t \in OpenIds : paper_trades[t].coin = c}

\* Faulty variant: the per-coin count also selects on the strategy.
RoomIgnoringOtherStrategies(c, s) ==
    /\ Cardinality(OpenIds) < MaxPos
    /\ Cardinality(OpenByStrategy(s)) < MaxPosStrat
    /\ Cardinality(OpenByCoin(c) \cap OpenByStrategy(s)) < MaxPosCoin

Room(c, s) ==
    /\ Cardinality(OpenIds) < MaxPos
    /\ Cardinality(OpenByStrategy(s)) < MaxPosStrat
    /\ Cardinality(OpenByCoin(c)) < MaxPosCoin

DailyLimitHit(a) == a.date = today /\ a.daily <= -DailyLimit

\* dd_pct >= CircuitPct, multiplied out: peak is positive.
DrawdownHit(a) ==
    LET peak == IF a.peak > StartBalance THEN a.peak ELSE StartBalance
    IN  100 * (peak - a.equity) >= CircuitPct * peak

\* Faulty variant: the drawdown circuit is armed only within the day it broke.
TrippedWithinTheDay(a) ==
    DailyLimitHit(a) \/ (a.date = today /\ DrawdownHit(a)) \/ a.consec >= MaxConsec

Tripped(a) == DailyLimitHit(a) \/ DrawdownHit(a) \/ a.consec >= MaxConsec

----------------------------------------------------------------------------
(* The orchestrator: _tick, _tick_strategy and check_can_trade.  It is the *)
(* only task that opens trades, and it carries one signal at a time.       *)

Goto(pc) == opc' = pc /\ signal' = IF pc = "idle" THEN None ELSE signal

\* get_state(force=False) at the start of a tick: the cached toggles are older than a second.
RefreshState ==
    /\ opc = "idle"
    /\ cached_state' = enabled
    /\ UNCHANGED <<opc, signal, tradeVars, botVars, closerVars, worldVars, cooling>>

\* A strategy that the tick does not gate off returns a signal; it needs a last price.
Evaluate ==
    /\ opc = "idle" /\ cached_state # None
    /\ Len(paper_trades) < MaxTrades
    /\ \E c \in Coins, s \in Strategies :
        /\ <<c, s>> \in Pairs /\ cached_state[s] /\ c \in priced
        /\ signal' = <<c, s>>
    /\ opc' = "check"
    /\ UNCHANGED <<cached_state, tradeVars, botVars, closerVars, worldVars, cooling>>

\* Faulty variant: the pause flag is taken from the tick's cached state, which missed it.
NotStoppedIgnoringPause(s) == enabled[s]

NotStopped(s) == ~is_paused /\ enabled[s]

\* check_can_trade returns False: paused, toggled off, cooling, or (a choice here) stale prices.
CheckRefuses ==
    /\ opc = "check"
    /\ cached_state' = enabled
    /\ Goto("idle")
    /\ UNCHANGED <<tradeVars, botVars, closerVars, worldVars, cooling>>

CheckTrips ==
    /\ opc = "check"
    /\ NotStopped(signal[2]) /\ Tripped(account)
    /\ cached_state' = enabled
    /\ Goto("pause")
    /\ UNCHANGED <<tradeVars, botVars, closerVars, worldVars, cooling>>

CheckPasses ==
    /\ opc = "check"
    /\ NotStopped(signal[2]) /\ ~Tripped(account) /\ signal[1] \notin cooling
    /\ cached_state' = enabled
    /\ Goto("count")
    /\ UNCHANGED <<tradeVars, botVars, closerVars, worldVars, cooling>>

AutoPause ==
    /\ opc = "pause"
    /\ is_paused' = TRUE
    /\ Goto("idle")
    /\ UNCHANGED <<cached_state, tradeVars, enabled, account, closerVars, worldVars, cooling>>

\* The position counts.  No other task opens trades, so reading them at one instant is no loss.
CountRefuses ==
    /\ opc = "count"
    /\ ~Room(signal[1], signal[2])
    /\ Goto("idle")
    /\ UNCHANGED <<cached_state, tradeVars, botVars, closerVars, worldVars, cooling>>

CountPasses ==
    /\ opc = "count"
    /\ Room(signal[1], signal[2])
    /\ Goto("open")
    /\ UNCHANGED <<cached_state, tradeVars, botVars, closerVars, worldVars, cooling>>

\* compute_size_usd returned 0: the equity was lost since the check.
SizeIsZero ==
    /\ opc = "open" /\ account.equity <= 0
    /\ Goto("idle")
    /\ UNCHANGED <<cached_state, tradeVars, botVars, closerVars, worldVars, cooling>>

\* Faulty variant: the row is inserted as 'pending', as the live executor does.
OpenTradeAsPending ==
    /\ opc = "open"
    /\ paper_trades' = Append(paper_trades,
                              [coin |-> signal[1], strategy |-> signal[2],
                               status |-> "pending", pnl |-> 0])
    /\ Goto("idle")
    /\ UNCHANGED <<cached_state, overdue, botVars, closerVars, worldVars, cooling>>

\* The Signal row and the paper trade are written; nothing is checked again.
OpenTrade ==
    /\ opc = "open"
    /\ paper_trades' = Append(paper_trades,
                              [coin |-> signal[1], strategy |-> signal[2],
                               status |-> "open", pnl |-> 0])
    /\ Goto("idle")
    /\ UNCHANGED <<cached_state, overdue, botVars, closerVars, worldVars, cooling>>

\* run() catches what a tick raises and goes on with the next tick.
TickError ==
    /\ opc # "idle" /\ faults < MaxFaults
    /\ faults' = faults + 1
    /\ Goto("idle")
    /\ UNCHANGED <<cached_state, tradeVars, botVars, closerVars, today, priced, cooling>>

Orchestrator ==
    \/ RefreshState \/ Evaluate
    \/ CheckRefuses \/ CheckTrips \/ CheckPasses \/ AutoPause
    \/ CountRefuses \/ CountPasses \/ SizeIsZero \/ OpenTrade
    \/ TickError

----------------------------------------------------------------------------
(* Closing: TradeManager._tick and emergency_close_all both walk a list of *)
(* open trades read earlier and call PaperExecutor.close on its members.   *)

Snapshot(p) ==
    /\ at[p] = IF p = Manager THEN "idle" ELSE "listing"
    /\ at' = [at EXCEPT ![p] = "loop"]
    /\ todo' = [todo EXCEPT ![p] = OpenIds]
    /\ UNCHANGED <<job, tradeVars, botVars, orchVars, worldVars, cooling>>

\* Faulty variant: the time stop is not among the exit conditions.
HoldForStopOrTarget(t) ==
    /\ at[Manager] = "loop" /\ t \in todo[Manager]
    /\ todo' = [todo EXCEPT ![Manager] = @ \ {t}]
    /\ UNCHANGED <<at, job, tradeVars, botVars, orchVars, worldVars, cooling>>

\* The manager passes over a trade whose coin has no price, or that meets no exit condition.
Hold(t) ==
    /\ at[Manager] = "loop" /\ t \in todo[Manager]
    /\ paper_trades[t].coin \in priced => t \notin overdue
    /\ todo' = [todo EXCEPT ![Manager] = @ \ {t}]
    /\ UNCHANGED <<at, job, tradeVars, botVars, orchVars, worldVars, cooling>>

\* close goes on only if the row it read is still open.
MayClose(t) == paper_trades[t].status = "open"

\* close reads the row; the price, hence the PnL, is known by now.
CloseReads(p, t) ==
    /\ at[p] = "loop" /\ t \in todo[p]
    /\ p = Manager => paper_trades[t].coin \in priced
    /\ MayClose(t)
    /\ \E pnl \in Pnls :
        job' = [job EXCEPT ![p] = [trade |-> t, pnl |-> pnl, account |-> InitAccount]]
    /\ at' = [at EXCEPT ![p] = "closing"]
    /\ todo' = [todo EXCEPT ![p] = @ \ {t}]
    /\ UNCHANGED <<tradeVars, botVars, orchVars, worldVars, cooling>>

\* close returns None: another closer was faster.
CloseSkips(p, t) ==
    /\ at[p] = "loop" /\ t \in todo[p]
    /\ ~MayClose(t)
    /\ todo' = [todo EXCEPT ![p] = @ \ {t}]
    /\ UNCHANGED <<at, job, tradeVars, botVars, orchVars, worldVars, cooling>>

ClosedWith(tr, pnl) == [tr EXCEPT !.status = "closed", !.pnl = pnl]

CloseCommits(p) ==
    /\ at[p] = "closing"
    /\ paper_trades' = [paper_trades EXCEPT ![job[p].trade] =
                           ClosedWith(@, job[p].pnl)]
    /\ overdue' = overdue \ {job[p].trade}
    /\ at' = [at EXCEPT ![p] = "booking"]
    /\ UNCHANGED <<todo, job, botVars, orchVars, worldVars, cooling>>

\* Faulty variant: the equity is not allowed to go below zero.
BookedClamped(a, pnl) ==
    LET equity == IF a.equity + pnl < 0 THEN 0 ELSE a.equity + pnl
    IN  [equity |-> equity,
         peak   |-> IF equity > a.peak THEN equity ELSE a.peak,
         daily  |-> (IF a.date = today THEN a.daily ELSE 0) + pnl,
         date   |-> today,
         consec |-> IF pnl < 0 THEN a.consec + 1 ELSE 0]

\* Faulty variant: the peak follows the equity down.
BookedLoweringPeak(a, pnl) ==
    [equity |-> a.equity + pnl,
     peak   |-> a.equity + pnl,
     daily  |-> (IF a.date = today THEN a.daily ELSE 0) + pnl,
     date   |-> today,
     consec |-> IF pnl < 0 THEN a.consec + 1 ELSE 0]

\* Faulty variant: the day's result is carried over to the next day.
BookedCarryingOver(a, pnl) ==
    [equity |-> a.equity + pnl,
     peak   |-> IF a.equity + pnl > a.peak THEN a.equity + pnl ELSE a.peak,
     daily  |-> a.daily + pnl,
     date   |-> today,
     consec |-> IF pnl < 0 THEN a.consec + 1 ELSE 0]

\* The new statistics, computed from the row get_state returned.
Booked(a, pnl) ==
    [equity |-> a.equity + pnl,
     peak   |-> IF a.equity + pnl > a.peak THEN a.equity + pnl ELSE a.peak,
     daily  |-> (IF a.date = today THEN a.daily ELSE 0) + pnl,
     date   |-> today,
     consec |-> IF pnl < 0 THEN a.consec + 1 ELSE 0]

GetState(p) ==
    /\ at[p] = "booking"
    /\ job' = [job EXCEPT ![p].account = Booked(account, job[p].pnl)]
    /\ at' = [at EXCEPT ![p] = "updating"]
    /\ UNCHANGED <<todo, tradeVars, botVars, orchVars, worldVars, cooling>>

\* update_state writes the computed values, whatever the row holds by now.
UpdateState(p) ==
    /\ at[p] = "updating"
    /\ account' = job[p].account
    /\ at' = [at EXCEPT ![p] = "returning"]
    /\ UNCHANGED <<todo, job, tradeVars, is_paused, enabled, orchVars, worldVars, cooling>>

\* close returns after its log write; only the manager records a loss for the cooldown.
CloseReturns(p) ==
    /\ at[p] = "returning"
    /\ cooling' = IF p = Manager /\ job[p].pnl < 0
                  THEN cooling \cup {paper_trades[job[p].trade].coin} ELSE cooling
    /\ at' = [at EXCEPT ![p] = "loop"]
    /\ job' = [job EXCEPT ![p] = NoJob]
    /\ UNCHANGED <<todo, tradeVars, botVars, orchVars, worldVars>>

LoopEnds(p) ==
    /\ at[p] = "loop" /\ todo[p] = {}
    /\ at' = [at EXCEPT ![p] = IF p = Manager THEN "idle" ELSE "done"]
    /\ UNCHANGED <<todo, job, tradeVars, botVars, orchVars, worldVars, cooling>>

\* A database error aborts the manager's tick (run() goes on) or the request (HTTP 500).
CloserError(p) ==
    /\ at[p] \in {"listing", "loop", "closing", "booking", "updating"} /\ faults < MaxFaults
    /\ faults' = faults + 1
    /\ at' = [at EXCEPT ![p] = IF p = Manager THEN "idle" ELSE "failed"]
    /\ todo' = [todo EXCEPT ![p] = {}]
    /\ job' = [job EXCEPT ![p] = NoJob]
    /\ UNCHANGED <<tradeVars, botVars, orchVars, today, priced, cooling>>

CloserStep(p) ==
    \/ Snapshot(p)
    \/ \E t \in todo[p] : CloseReads(p, t) \/ CloseSkips(p, t)
    \/ CloseCommits(p) \/ GetState(p) \/ UpdateState(p) \/ CloseReturns(p) \/ LoopEnds(p)

Closer(p) ==
    \/ CloserStep(p)
    \/ p = Manager /\ \E t \in todo[p] : Hold(t)

----------------------------------------------------------------------------
(* The operator's requests.                                                *)

\* Faulty variant: the emergency stop closes the trades but does not pause.
EmergencyStopWithoutPause(h) ==
    /\ at[h] = "idle"
    /\ at' = [at EXCEPT ![h] = "listing"]
    /\ UNCHANGED <<todo, job, tradeVars, botVars, orchVars, worldVars, cooling>>

EmergencyStop(h) ==
    /\ at[h] = "idle"
    /\ is_paused' = TRUE
    /\ at' = [at EXCEPT ![h] = "listing"]
    /\ UNCHANGED <<todo, job, tradeVars, enabled, account, orchVars, worldVars, cooling>>

Pause ==
    /\ "pause" \in Requests
    /\ is_paused' = TRUE
    /\ UNCHANGED <<tradeVars, enabled, account, orchVars, closerVars, worldVars, cooling>>

Resume ==
    /\ "resume" \in Requests
    /\ is_paused' = FALSE
    /\ account' = [account EXCEPT !.consec = 0]
    /\ UNCHANGED <<tradeVars, enabled, orchVars, closerVars, worldVars, cooling>>

Toggle(s) ==
    /\ "toggle" \in Requests
    /\ enabled' = [enabled EXCEPT ![s] = ~@]
    /\ UNCHANGED <<tradeVars, is_paused, account, orchVars, closerVars, worldVars, cooling>>

Operator ==
    \/ Pause \/ Resume
    \/ \E s \in Strategies : Toggle(s)
    \/ \E h \in Handlers : EmergencyStop(h)

----------------------------------------------------------------------------
(* The clock, the feed, and a restart of the process.                      *)

NewDay ==
    /\ today < LastDay
    /\ today' = today + 1
    /\ UNCHANGED <<tradeVars, botVars, orchVars, closerVars, priced, faults, cooling>>

MarketTrade(c) ==
    /\ c \notin priced
    /\ priced' = priced \cup {c}
    /\ UNCHANGED <<tradeVars, botVars, orchVars, closerVars, today, faults, cooling>>

CooldownExpires(c) ==
    /\ c \in cooling
    /\ cooling' = cooling \ {c}
    /\ UNCHANGED <<tradeVars, botVars, orchVars, closerVars, worldVars>>

TimeStop(t) ==
    /\ t \in OpenIds \ overdue
    /\ overdue' = overdue \cup {t}
    /\ UNCHANGED <<paper_trades, botVars, orchVars, closerVars, worldVars, cooling>>

\* The database survives; the tasks, the caches, the cooldowns and the prices do not.
Restart ==
    /\ faults < MaxFaults
    /\ faults' = faults + 1
    /\ opc' = "idle" /\ signal' = None /\ cached_state' = None
    /\ cooling' = {} /\ priced' = {}
    /\ at' = [p \in Closers |-> IF p = Manager THEN "idle"
                                ELSE IF at[p] \in {"idle", "done"} THEN at[p] ELSE "failed"]
    /\ todo' = [p \in Closers |-> {}]
    /\ job' = [p \in Closers |-> NoJob]
    /\ UNCHANGED <<tradeVars, botVars, today>>

Environment ==
    \/ NewDay \/ Restart
    \/ \E c \in Coins : MarketTrade(c) \/ CooldownExpires(c)
    \/ \E t \in DOMAIN paper_trades : TimeStop(t)

Next ==
    \/ Orchestrator
    \/ \E p \in Closers : Closer(p) \/ CloserError(p)
    \/ Operator
    \/ Environment

Spec == Init /\ [][Next]_vars

(* The tasks run on one event loop that serves them all; a coin that is    *)
(* subscribed trades again after a restart; the clock reaches a time stop. *)
Fairness ==
    /\ WF_vars(Closer(Manager))
    /\ \A c \in Coins : WF_vars(MarketTrade(c))
    /\ \A t \in 1..MaxTrades : WF_vars(TimeStop(t))

FairSpec == Spec /\ Fairness

\* A busy market, in addition: the strategies keep finding signals, and a tick once begun ends.
CheckSteps == CheckRefuses \/ CheckTrips \/ CheckPasses \/ AutoPause
BusySpec ==
    FairSpec /\ WF_vars(RefreshState) /\ WF_vars(Evaluate) /\ WF_vars(CheckSteps) /\ WF_vars(NewDay)

----------------------------------------------------------------------------
(* Properties.                                                             *)

\* The limits of check_can_trade hold of the table at all times, although they are counted
\* before the signal row and the trade row are written and closers run in between.
PositionLimits ==
    /\ Cardinality(OpenIds) <= MaxPos
    /\ \A s \in Strategies : Cardinality(OpenByStrategy(s)) <= MaxPosStrat
    /\ \A c \in Coins : Cardinality(OpenByCoin(c)) <= MaxPosCoin

\* The strengthening: a signal that passed the counts still has room when its trade is inserted,
\* because only the orchestrator opens trades and the closers only make room.
LimitsInv ==
    /\ PositionLimits
    /\ opc = "open" => Room(signal[1], signal[2])

\* Nothing is open, nothing is being closed, no signal is past the check, and the drawdown
\* circuit is broken: the equity can no longer change.
Latched ==
    /\ DrawdownHit(account)
    /\ OpenIds = {}
    /\ \A p \in Closers : at[p] \notin {"closing", "booking", "updating"}
    /\ opc \notin {"count", "open"}

\* The drawdown circuit latches: neither resume, nor a new day, nor a restart makes the bot
\* trade again (the peak is never lowered, and every check pauses the bot again).
CircuitLatches == [][Latched => Latched']_vars

\* An emergency stop that was answered leaves at most one trade open, the one whose check had
\* passed before the pause, as long as nobody resumes.
EmergencyLeavesAtMostOne ==
    \A h \in Handlers : at[h] = "done" => Cardinality(OpenIds) <= 1

\* Every open trade is closed in the end, by the time stop if by nothing else, across
\* restarts and database errors.
EveryTradeCloses ==
    \A t \in 1..MaxTrades : t \in OpenIds ~> t \notin OpenIds

----------------------------------------------------------------------------
(* Statements of the documents that the code does not meet.                *)

\* POST /api/emergency_stop is documented as "close all": when it has been answered and
\* nobody resumed, no trade is open.
EmergencyClosesAll ==
    \A h \in Handlers : at[h] = "done" => OpenIds = {}

\* README: a pause for the daily loss limit is reset by the new UTC day.  Stated where no other
\* circuit, request or fault can pause the bot.
DailyPauseEnds == is_paused /\ ~DailyLimitHit(account) ~> ~is_paused

\* PaperExecutor.close: consecutive losses are incremented on a loss. When no result is under way,
\* each closed trade has been counted, if all of them lost.  Stated where nothing failed and nobody
\* resumes, which resets the count.
EveryResultCounts ==
    LET closed == DOMAIN paper_trades \ OpenIds
    IN  /\ faults = 0
        /\ \A p \in Closers : at[p] \notin {"booking", "updating"}
        /\ \A t \in closed : paper_trades[t].pnl < 0
        => account.consec >= Cardinality(closed)

=============================================================================
