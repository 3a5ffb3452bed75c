--------------------------- MODULE LiquidationFade ---------------------------
(***************************************************************************)
(* The liquidation fade of one coin, from the exchange's tape to a signal. *)
(* The exchange prints trades; the listener takes them in order, some time *)
(* later, and is held up by the insert of every liquidation; the deque of  *)
(* MarketState keeps the last Buffer of them; each tick of the             *)
(* orchestrator reads its clock, is held up in turn, and evaluates the     *)
(* strategy on what the deque holds by then.                               *)
(*                                                                         *)
(* A trade is its index on the tape. Time is counted in seconds, and a     *)
(* trade carries the time at which it was printed.                         *)
(***************************************************************************)
EXTENDS Integers, Sequences, FiniteSetsExt

CONSTANTS
    Prints,       \* what can be printed: liquidation (the field's shape), buy, usd
    Threshold,    \* liq_min_cascade_*_usd
    Window,       \* liq_window_seconds
    Wait,         \* liq_post_cascade_wait_s
    MaxAge,       \* liq_max_post_cascade_age_s
    Gap,          \* min_signal_gap_s
    Buffer,       \* MarketState.TRADE_BUFFER
    Lag,          \* no trade waits longer for the listener, no tick longer for its evaluation
    Span,         \* Buffer + 1 trades are never printed in less time
    MaxTime, MaxTrades, MaxFaults   \* bounds

Shapes == {"absent", "dict", "true", "false", "string", "garbled"}

ASSUME FadeAssumption ==
    /\ Prints \subseteq [liquidation : Shapes, buy : BOOLEAN, usd : Nat]
    /\ Threshold \in Nat \ {0} /\ Window \in Nat /\ Wait \in Nat /\ MaxAge \in Nat
    /\ Gap \in Nat /\ Gap + Wait > Window
    /\ Buffer \in Nat \ {0} /\ Lag \in Nat /\ Span \in Nat /\ Span >= Wait + Lag
    /\ MaxTime \in Nat /\ MaxTrades \in Nat /\ MaxFaults \in Nat

VARIABLES
    now,
    tape,             \* history: what the exchange has printed
    handled,          \* how much of it the listener has taken
    missed,           \* history: trades that were in flight when a connection or the process ended
    saving,           \* the liquidation the listener is inserting, 0 if none
    liquidation_events,
    counters,
    trades,           \* the deque of MarketState
    tick_ms,          \* the clock as the running tick has read it, 0 between ticks
    _last_signal_ms,
    signals,          \* history: when each signal was given, its direction and its liquidations
    faults

exchangeVars == <<now, tape>>
listenerVars == <<handled, missed, saving, liquidation_events, counters, trades>>
strategyVars == <<tick_ms, _last_signal_ms, signals>>
fadeVars == <<exchangeVars, listenerVars, strategyVars, faults>>

Printed == [liquidation : Shapes, buy : BOOLEAN, usd : Nat, ts : Nat]
Signals == [at : Nat, direction : {"long", "short"}, liqs : SUBSET (Nat \ {0})]
Counters == {"with_liq_field", "shape_dict", "shape_bool", "shape_other", "parse_errors"}

FadeTypeOK ==
    /\ now \in Nat /\ tape \in Seq(Printed)
    /\ handled \in 0 .. Len(tape) /\ missed \subseteq 1 .. handled
    /\ saving \in 0 .. handled
    /\ liquidation_events \subseteq 1 .. handled
    /\ counters \in [Counters -> Nat]
    /\ trades \in Seq(1 .. handled) /\ Len(trades) <= Buffer
    /\ tick_ms \in 0 .. now /\ _last_signal_ms \in 0 .. now
    /\ signals \subseteq Signals
    /\ faults \in Nat

NoCounts == [c \in Counters |-> 0]

\* The clock starts beyond the gap: the first signal is never held back.
FadeInit ==
    /\ now = Gap + 1 /\ tape = <<>>
    /\ handled = 0 /\ missed = {} /\ saving = 0 /\ liquidation_events = {}
    /\ counters = NoCounts /\ trades = <<>>
    /\ tick_ms = 0 /\ _last_signal_ms = 0 /\ signals = {}
    /\ faults = 0

----------------------------------------------------------------------------
(* The exchange and the clock.                                             *)

PrintTrade ==
    /\ Len(tape) < MaxTrades
    /\ Len(tape) >= Buffer => tape[Len(tape) + 1 - Buffer].ts + Span <= now
    /\ \E p \in Prints :
          tape' = Append(tape, [liquidation |-> p.liquidation, buy |-> p.buy,
                                usd |-> p.usd, ts |-> now])
    /\ UNCHANGED <<now, listenerVars, strategyVars, faults>>

Tick ==
    /\ now < MaxTime
    /\ handled < Len(tape) => now < tape[handled + 1].ts + Lag
    /\ tick_ms # 0 => now < tick_ms + Lag
    /\ now' = now + 1
    /\ UNCHANGED <<tape, listenerVars, strategyVars, faults>>

----------------------------------------------------------------------------
(* The listener takes the trades of a batch one by one.                    *)

\* Faulty variant: any boolean in the field makes a liquidation.
DetectAnyBool(shape) == shape \in {"dict", "true", "false", "string"}

\* detect_liquidation_field gives a dict, not None.
Detect(shape) == shape \in {"dict", "true", "string"}

ShapeCounter(shape) ==
    CASE shape = "dict"   -> "shape_dict"
      [] shape = "string" -> "shape_other"
      [] OTHER            -> "shape_bool"

\* Faulty variant: a deque without a bound.
AddTradeUnbounded(i) == trades' = Append(trades, i)

\* deque(maxlen=Buffer).append
AddTrade(i) ==
    LET full == Append(trades, i)
    IN  trades' = IF Len(trades) < Buffer THEN full ELSE Tail(full)

\* A trade that cannot be parsed is counted and the batch goes on.
HandleGarbled ==
    /\ saving = 0 /\ handled < Len(tape)
    /\ tape[handled + 1].liquidation = "garbled"
    /\ handled' = handled + 1
    /\ counters' = [counters EXCEPT !["parse_errors"] = @ + 1]
    /\ UNCHANGED <<exchangeVars, missed, saving, liquidation_events, trades, strategyVars, faults>>

\* Faulty variant: a false field is counted with the booleans.
HandleTradeCountsFalse ==
    /\ saving = 0 /\ handled < Len(tape)
    /\ tape[handled + 1].liquidation # "garbled" /\ ~Detect(tape[handled + 1].liquidation)
    /\ handled' = handled + 1
    /\ AddTrade(handled + 1)
    /\ counters' = [counters EXCEPT !["shape_bool"] =
                        IF tape[handled + 1].liquidation = "false" THEN @ + 1 ELSE @]
    /\ UNCHANGED <<exchangeVars, missed, saving, liquidation_events, strategyVars, faults>>

HandleTrade ==
    /\ saving = 0 /\ handled < Len(tape)
    /\ tape[handled + 1].liquidation # "garbled" /\ ~Detect(tape[handled + 1].liquidation)
    /\ handled' = handled + 1
    /\ AddTrade(handled + 1)
    /\ UNCHANGED <<exchangeVars, missed, saving, liquidation_events, counters, strategyVars, faults>>

HandleLiquidation ==
    /\ saving = 0 /\ handled < Len(tape)
    /\ Detect(tape[handled + 1].liquidation)
    /\ handled' = handled + 1
    /\ AddTrade(handled + 1)
    /\ counters' = [counters EXCEPT !["with_liq_field"] = @ + 1,
                                    ![ShapeCounter(tape[handled + 1].liquidation)] = @ + 1]
    /\ saving' = handled + 1
    /\ UNCHANGED <<exchangeVars, missed, liquidation_events, strategyVars, faults>>

\* The insert returns; the next trade of the batch is taken only then.
Save ==
    /\ saving # 0
    /\ liquidation_events' = liquidation_events \cup {saving}
    /\ saving' = 0
    /\ UNCHANGED <<exchangeVars, handled, missed, counters, trades, strategyVars, faults>>

\* The insert fails; the error is logged.
SaveFails ==
    /\ saving # 0 /\ faults < MaxFaults
    /\ faults' = faults + 1 /\ saving' = 0
    /\ UNCHANGED <<exchangeVars, handled, missed, liquidation_events, counters, trades, strategyVars>>

\* The connection is lost, and the trades in flight with it.
LoseConnection ==
    /\ handled < Len(tape) /\ saving = 0 /\ faults < MaxFaults
    /\ faults' = faults + 1
    /\ missed' = missed \cup ((handled + 1) .. Len(tape))
    /\ handled' = Len(tape)
    /\ UNCHANGED <<exchangeVars, saving, liquidation_events, counters, trades, strategyVars>>

----------------------------------------------------------------------------
(* The strategy.                                                           *)

Usd(S) == MapThenSumSet(LAMBDA i : tape[i].usd, S)

\* trades_in_window: everything from the cutoff on, whatever its time.
InWindow(seconds) == {i \in Range(trades) : tape[i].ts >= tick_ms - seconds}

Liqs == {i \in InWindow(Window) : Detect(tape[i].liquidation)}

\* Longs are liquidated by sells and shorts by buys.
Longs == {i \in Liqs : ~tape[i].buy}
Shorts == Liqs \ Longs

\* Faulty variant: the threshold itself is not enough.
IsCascadeAbove == Usd(Longs) > Threshold \/ Usd(Shorts) > Threshold

IsCascade == Usd(Longs) >= Threshold \/ Usd(Shorts) >= Threshold

\* The fade: after longs were liquidated the price is down, and is bought.
Direction == IF Usd(Longs) >= Usd(Shorts) THEN "long" ELSE "short"

\* Faulty variant: only the dominant side is waited for.
LastDominant(i) ==
    LET side == IF Direction = "long" THEN Longs ELSE Shorts
    IN  i \in side /\ \A j \in side : tape[j].ts <= tape[i].ts

\* i is a newest liquidation of the window, of either side: its time is cascade_end_ms.
Last(i) == i \in Liqs /\ \A j \in Liqs : tape[j].ts <= tape[i].ts

\* aggressor_buy_ratio over the trades since the cascade that are no liquidations, and over the
\* last second and a half at least.
Flow(age) == {i \in InWindow(Max({age, 1})) : ~Detect(tape[i].liquidation)}
FlowFlipped(age) ==
    LET total == Usd(Flow(age))
        buys  == Usd({i \in Flow(age) : tape[i].buy})
    IN  /\ total > 0
        /\ IF Direction = "long" THEN 100 * buys >= 55 * total ELSE 100 * buys <= 45 * total

Cooling == tick_ms - _last_signal_ms < Gap

\* _tick reads the clock once, before its first await.
TickStarts ==
    /\ tick_ms = 0
    /\ tick_ms' = now
    /\ UNCHANGED <<exchangeVars, listenerVars, _last_signal_ms, signals, faults>>

Reject == tick_ms' = 0 /\ UNCHANGED <<exchangeVars, listenerVars, _last_signal_ms, signals, faults>>

RejectCooling == tick_ms # 0 /\ Cooling /\ Reject

RejectNoCascade == tick_ms # 0 /\ ~Cooling /\ ~IsCascade /\ Reject

RejectWaiting ==
    /\ tick_ms # 0 /\ ~Cooling
    /\ \E i \in Range(trades) : Last(i) /\ tick_ms - tape[i].ts < Wait
    /\ IsCascade
    /\ Reject

RejectStale ==
    /\ tick_ms # 0 /\ ~Cooling
    /\ \E i \in Range(trades) :
          Last(i) /\ tick_ms - tape[i].ts >= Wait /\ tick_ms - tape[i].ts > MaxAge
    /\ IsCascade
    /\ Reject

\* The newest liquidation of a cascade that may be faded now.
Ripe(i) ==
    /\ tick_ms # 0 /\ ~Cooling
    /\ Last(i) /\ tick_ms - tape[i].ts >= Wait /\ tick_ms - tape[i].ts <= MaxAge
    /\ IsCascade

\* The flow has not turned, or there are not the candles, or the range, to take an ATR from.
RejectUnconfirmed == \E i \in Range(trades) : Ripe(i) /\ Reject

\* Faulty variant: the signal is not marked.
FiresUnmarked ==
    \E i \in Range(trades) :
        /\ Ripe(i) /\ FlowFlipped(tick_ms - tape[i].ts)
        /\ tick_ms' = 0
        /\ signals' = signals \cup {[at |-> tick_ms, direction |-> Direction, liqs |-> Liqs]}
        /\ UNCHANGED <<exchangeVars, listenerVars, _last_signal_ms, faults>>

\* The signal is marked with the tick's clock before any risk check has seen it.
Fires ==
    \E i \in Range(trades) :
        /\ Ripe(i) /\ FlowFlipped(tick_ms - tape[i].ts)
        /\ tick_ms' = 0
        /\ _last_signal_ms' = tick_ms
        /\ signals' = signals \cup {[at |-> tick_ms, direction |-> Direction, liqs |-> Liqs]}
        /\ UNCHANGED <<exchangeVars, listenerVars, faults>>

\* A new process: nothing of this is kept but the table.
FadeRestart ==
    /\ faults < MaxFaults
    /\ faults' = faults + 1
    /\ missed' = missed \cup ((handled + 1) .. Len(tape))
    /\ handled' = Len(tape) /\ saving' = 0
    /\ counters' = NoCounts /\ trades' = <<>>
    /\ tick_ms' = 0 /\ _last_signal_ms' = 0
    /\ UNCHANGED <<exchangeVars, liquidation_events, signals>>

Exchange == PrintTrade \/ Tick
FadeListener ==
    \/ HandleGarbled \/ HandleTrade \/ HandleLiquidation
    \/ Save \/ SaveFails \/ LoseConnection
Evaluate ==
    \/ RejectCooling \/ RejectNoCascade \/ RejectWaiting \/ RejectStale
    \/ RejectUnconfirmed \/ Fires

FadeNext == Exchange \/ FadeListener \/ TickStarts \/ Evaluate \/ FadeRestart

FadeSpec == FadeInit /\ [][FadeNext]_fadeVars

----------------------------------------------------------------------------
\* What the exchange did, whatever the parser makes of it.
Forced(i) == tape[i].liquidation \in {"dict", "true", "string"}

\* A cascade is faded once: no liquidation counts towards two signals, in one process or two.
\* It needs the gap between two signals to reach beyond the window.
OneSignalPerCascade == \A s, t \in signals : s # t => s.liqs \cap t.liqs = {}

\* A signal comes out of a quiet market: no liquidation was printed during the wait before it,
\* except what the listener had no time to take or lost with a connection. The deque must not
\* overflow meanwhile, although it is bounded by trades and not by time.
QuietBeforeSignal ==
    \A s \in signals : \A i \in DOMAIN tape \ missed :
        Forced(i) /\ tape[i].ts > s.at - Wait => tape[i].ts >= s.at - Lag

\* A signal fades what happened: on the tape, the side it bets against was liquidated for the
\* threshold, and all of it between the start of the window and the start of the wait.
SignalOnEvidence ==
    \A s \in signals :
        Threshold <= Usd({i \in DOMAIN tape :
            /\ Forced(i) /\ tape[i].buy = (s.direction = "short")
            /\ s.at - Window <= tape[i].ts /\ tape[i].ts <= s.at - Wait})

\* No cascade is overlooked: as long as nothing failed, a tick that finds none has none on the
\* tape, of either side, but for what was printed too late for the listener. The deque must reach
\* back over the window and the lag, although it is bounded by trades and not by time.
NoCascadeOverlooked ==
    [][RejectNoCascade /\ faults = 0 =>
         \A buy \in BOOLEAN :
            Usd({i \in DOMAIN tape :
                    /\ Forced(i) /\ tape[i].buy = buy
                    /\ tick_ms - Window < tape[i].ts /\ tape[i].ts < tick_ms - Lag}) < Threshold]_fadeVars

\* The counters of /api/feed_health and the table tell the same story: every counted field has
\* one shape, every row is a liquidation, and without faults every counted one has its row.
CountersAgree ==
    /\ counters["with_liq_field"] =
          counters["shape_dict"] + counters["shape_bool"] + counters["shape_other"]
    /\ \A i \in liquidation_events : Forced(i)
    /\ faults = 0 =>
          counters["with_liq_field"] = Cardinality(liquidation_events \cup ({saving} \ {0}))

----------------------------------------------------------------------------
(* A statement of the documents that the code does not meet.               *)

\* The strategy's head comment: a total beyond the threshold over the window declares a cascade,
\* which is then waited for. Here: a side whose liquidations reached the threshold over the window
\* that ends with the newest one is not found to be no cascade when the wait is over.
DeclaredIsFaded ==
    [][RejectNoCascade =>
         \A i \in Range(trades) :
            Last(i) /\ tick_ms - tape[i].ts = Wait =>
                Usd({j \in InWindow(Window + Wait) :
                        Forced(j) /\ tape[j].buy = tape[i].buy
                        /\ tape[j].ts >= tape[i].ts - Window}) < Threshold]_fadeVars

=============================================================================
