----------------------------- MODULE PaperFills -----------------------------
(***************************************************************************)
(* Prices of paper trades: from the signal to the fill at the entry, the   *)
(* excursions the manager records, and the fill at the exit, on a market   *)
(* that moves between any two steps. Whether a signal may be opened, and   *)
(* what a result does to the account, is in PaperTrading.                  *)
(*                                                                         *)
(* Prices are whole numbers of a small unit. A profit is measured per      *)
(* dollar of the position, in units of 1/entry_fill_px.                    *)
(***************************************************************************)
EXTENDS Candles

CONSTANTS
    SlipBase, SlipPerVol,   \* slippage_bps_base, slippage_bps_per_vol_pct
    FeeBps,                 \* taker_fee_bps
    TimeStop,               \* liq_time_stop_seconds or wall_time_stop_seconds
    Levels,                 \* stop and target prices
    Equities,               \* values of paper_equity_usd when a trade is sized
    RiskPct, MaxPositionUsd, MaxLeverage,
    MaxTrades, MaxFaults    \* bounds

Bps == 10000

ASSUME FillsAssumption ==
    /\ SlipBase \in Nat /\ SlipPerVol \in Nat /\ FeeBps \in Nat /\ TimeStop \in Nat
    /\ Levels \subseteq Int /\ Equities \subseteq Int
    /\ RiskPct \in Nat /\ MaxPositionUsd \in Nat /\ MaxLeverage \in Nat
    /\ MaxTrades \in Nat /\ MaxFaults \in Nat
    /\ None \notin [direction : {"long", "short"}, entry_px : Prices,
                    stop_px : Levels, target_px : Levels]
    /\ None \notin {"stop", "target", "time_stop", "emergency_stop"}

VARIABLES
    sig,        \* the signal between evaluate and open
    rows,       \* paper_trades, by id
    tick_ms,    \* the clock as the manager's tick has read it
    todo,       \* by closer: the rows it has listed and not looked at
    job,        \* by closer: the row it is at
    faults

fillVars == <<sig, rows, tick_ms, todo, job, faults>>
allVars == <<marketVars, fillVars>>

Closers == {"manager", "emergency"}
Signal == [direction : {"long", "short"}, entry_px : Prices, stop_px : Levels, target_px : Levels]
ManagerReasons == {"stop", "target", "time_stop"}
Reasons == ManagerReasons \cup {"emergency_stop"}

Row == [direction : {"long", "short"}, entry_px : Prices, stop_px : Levels, target_px : Levels,
        equity : Int,                       \* history
        size_usd : Nat \ {0}, entry_fill_px : Int, opened_ms : Nat,
        mae_usd : Int, mfe_usd : Int, status : {"open", "closed"},
        exit_px_intended : Int, exit_px : Int, exit_reason : Reasons \cup {None}]

\* at: what the closer does next with the row.
Job == [id : Nat \ {0}, at : {"mark", "read", "commit"}, px : Int, reason : Reasons \cup {None},
        mae_usd : Int, mfe_usd : Int, fill_px : Int]

NoRows == [i \in {} |-> None]

FillsTypeOK ==
    /\ MarketTypeOK
    /\ sig \in Signal \cup {None}
    /\ rows \in Seq(Row)
    /\ tick_ms \in 0 .. now
    /\ DOMAIN todo = Closers /\ DOMAIN job = Closers
    /\ \A p \in Closers :
          /\ DOMAIN todo[p] \subseteq DOMAIN rows
          /\ \A i \in DOMAIN todo[p] : todo[p][i] \in Row
          /\ job[p] = None \/ (job[p] \in Job /\ job[p].id \in DOMAIN rows)
    /\ faults \in Nat

FillsInit ==
    /\ MarketInit
    /\ sig = None /\ rows = <<>> /\ tick_ms = 0 /\ faults = 0
    /\ todo = [p \in Closers |-> NoRows] /\ job = [p \in Closers |-> None]

----------------------------------------------------------------------------
(* Slippage, sizing and the exit conditions.                               *)

\* slippage_bps_base and the part for volatility, which is 0.5 percent when it is not known.
Slippages ==
    IF HasAtr /\ LatestPrice # None
    THEN {SlipBase + (100 * SlipPerVol * atr) \div LatestPrice : atr \in Atrs}
    ELSE {SlipBase + SlipPerVol \div 2}

\* Faulty variant: the exit is filled in the direction of the position.
ApplySlippageInFavour(direction, px, slip) ==
    (px * (IF direction = "short" THEN Bps + slip ELSE Bps - slip)) \div Bps

\* The fill of a trade in this direction: always against us.
ApplySlippage(direction, px, slip) ==
    (px * (IF direction = "long" THEN Bps + slip ELSE Bps - slip)) \div Bps

Opposite(direction) == IF direction = "long" THEN "short" ELSE "long"

\* Faulty variant: the distance to the stop is not taken relative to the entry.
ComputeSizePerUnit(equity, entry, stop) ==
    IF equity <= 0 \/ stop <= 0 \/ entry = stop THEN 0
    ELSE Min({(equity * RiskPct * entry) \div 100, MaxPositionUsd, equity * MaxLeverage})

\* Such that hitting the stop loses RiskPct of the equity, under both caps.
ComputeSizeUsd(equity, entry, stop) ==
    IF equity <= 0 \/ stop <= 0 \/ entry = stop THEN 0
    ELSE Min({(equity * RiskPct * entry) \div (100 * Distance(entry, stop)),
              MaxPositionUsd, equity * MaxLeverage})

\* What a price makes of a row, before fees.
Unrealized(r, px) ==
    IF r.direction = "long" THEN px - r.entry_fill_px ELSE r.entry_fill_px - px

Beyond(direction, a, b) == IF direction = "long" THEN a >= b ELSE a <= b

CheckExit(r, last) ==
    IF Beyond(Opposite(r.direction), last, r.stop_px) THEN "stop"
    ELSE IF Beyond(r.direction, last, r.target_px) THEN "target"
    ELSE IF tick_ms - r.opened_ms >= TimeStop THEN "time_stop"
    ELSE None

----------------------------------------------------------------------------
(* The orchestrator.                                                       *)

\* Either strategy: candles to take an ATR from, and the levels on their sides of the entry.
Evaluate ==
    /\ sig = None /\ HasAtr /\ LatestPrice # None
    /\ \E direction \in {"long", "short"}, stop, target \in Levels :
          /\ LatestPrice # stop /\ Beyond(direction, LatestPrice, stop)
          /\ LatestPrice # target /\ Beyond(direction, target, LatestPrice)
          /\ sig' = [direction |-> direction, entry_px |-> LatestPrice,
                     stop_px |-> stop, target_px |-> target]
    /\ UNCHANGED <<marketVars, rows, tick_ms, todo, job, faults>>

\* The entry is filled at the price of the signal, slipped by the volatility of now.
OpenTrade ==
    /\ sig # None /\ Len(rows) < MaxTrades
    /\ \E equity \in Equities, slip \in Slippages :
          LET size == ComputeSizeUsd(equity, sig.entry_px, sig.stop_px)
          IN  /\ size > 0
              /\ rows' = Append(rows,
                   [direction |-> sig.direction, entry_px |-> sig.entry_px,
                    stop_px |-> sig.stop_px, target_px |-> sig.target_px,
                    equity |-> equity, size_usd |-> size,
                    entry_fill_px |-> ApplySlippage(sig.direction, sig.entry_px, slip),
                    opened_ms |-> now, mae_usd |-> 0, mfe_usd |-> 0, status |-> "open",
                    exit_px_intended |-> 0, exit_px |-> 0, exit_reason |-> None])
    /\ sig' = None
    /\ UNCHANGED <<marketVars, tick_ms, todo, job, faults>>

\* Refused by the risk check, or too small.
Dropped == sig # None /\ sig' = None /\ UNCHANGED <<marketVars, rows, tick_ms, todo, job, faults>>

----------------------------------------------------------------------------
(* The manager and an emergency stop, one row after the other.             *)

OpenRows == [i \in {j \in DOMAIN rows : rows[j].status = "open"} |-> rows[i]]

Idle(p) == DOMAIN todo[p] = {} /\ job[p] = None

Without(f, i) == [j \in DOMAIN f \ {i} |-> f[j]]

\* A tick that finds no open row ends at once.
ManagerTick ==
    /\ Idle("manager") /\ DOMAIN OpenRows # {}
    /\ tick_ms' = now /\ todo' = [todo EXCEPT !["manager"] = OpenRows]
    /\ UNCHANGED <<marketVars, sig, rows, job, faults>>

EmergencyCloseAll ==
    /\ Idle("emergency")
    /\ todo' = [todo EXCEPT !["emergency"] = OpenRows]
    /\ UNCHANGED <<marketVars, sig, rows, tick_ms, job, faults>>

\* Faulty variant: the excursion is recorded only of rows that stay open.
ManagerLooksExitFirst ==
    /\ job["manager"] = None /\ LatestPrice # None
    /\ \E i \in DOMAIN todo["manager"] :
          LET r      == todo["manager"][i]
              pnl    == Unrealized(r, LatestPrice)
              reason == CheckExit(r, LatestPrice)
              marks  == reason = None /\ (pnl < r.mae_usd \/ pnl > r.mfe_usd)
          IN  /\ todo' = [todo EXCEPT !["manager"] = Without(@, i)]
              /\ job' = [job EXCEPT !["manager"] =
                    IF ~marks /\ reason = None THEN None
                    ELSE [id |-> i, at |-> IF marks THEN "mark" ELSE "read",
                          px |-> LatestPrice, reason |-> reason,
                          mae_usd |-> Min({r.mae_usd, pnl}), mfe_usd |-> Max({r.mfe_usd, pnl}),
                          fill_px |-> 0]]
    /\ UNCHANGED <<marketVars, sig, rows, tick_ms, faults>>

\* The price is read once: the excursion, the exit condition and the exit itself are about it,
\* however long the writes take.
ManagerLooks ==
    /\ job["manager"] = None /\ LatestPrice # None
    /\ \E i \in DOMAIN todo["manager"] :
          LET r      == todo["manager"][i]
              pnl    == Unrealized(r, LatestPrice)
              reason == CheckExit(r, LatestPrice)
              marks  == pnl < r.mae_usd \/ pnl > r.mfe_usd
          IN  /\ todo' = [todo EXCEPT !["manager"] = Without(@, i)]
              /\ job' = [job EXCEPT !["manager"] =
                    IF ~marks /\ reason = None THEN None
                    ELSE [id |-> i, at |-> IF marks THEN "mark" ELSE "read",
                          px |-> LatestPrice, reason |-> reason,
                          mae_usd |-> Min({r.mae_usd, pnl}), mfe_usd |-> Max({r.mfe_usd, pnl}),
                          fill_px |-> 0]]
    /\ UNCHANGED <<marketVars, sig, rows, tick_ms, faults>>

ManagerSkips ==
    /\ job["manager"] = None /\ LatestPrice = None
    /\ \E i \in DOMAIN todo["manager"] : todo' = [todo EXCEPT !["manager"] = Without(@, i)]
    /\ UNCHANGED <<marketVars, sig, rows, tick_ms, job, faults>>

\* The excursion is written, if the row is still open.
ManagerMarks ==
    LET j == job["manager"]
    IN  /\ j # None /\ j.at = "mark"
        /\ rows' = IF rows[j.id].status = "open"
                   THEN [rows EXCEPT ![j.id].mae_usd = j.mae_usd, ![j.id].mfe_usd = j.mfe_usd]
                   ELSE rows
        /\ job' = [job EXCEPT !["manager"] = IF j.reason = None THEN None ELSE [j EXCEPT !.at = "read"]]
        /\ UNCHANGED <<marketVars, sig, tick_ms, todo, faults>>

EmergencyLooks ==
    /\ job["emergency"] = None
    /\ \E i \in DOMAIN todo["emergency"] :
          LET r == todo["emergency"][i]
          IN  /\ todo' = [todo EXCEPT !["emergency"] = Without(@, i)]
              /\ job' = [job EXCEPT !["emergency"] =
                    [id |-> i, at |-> "read", reason |-> "emergency_stop",
                     px |-> IF LatestPrice = None THEN r.entry_fill_px ELSE LatestPrice,
                     mae_usd |-> r.mae_usd, mfe_usd |-> r.mfe_usd, fill_px |-> 0]]
    /\ UNCHANGED <<marketVars, sig, rows, tick_ms, faults>>

\* close reads the row and computes; what it finds open it closes, without looking again.
CloseReads(p) ==
    LET j == job[p]
    IN  /\ j # None /\ j.at = "read" /\ rows[j.id].status = "open"
        /\ \E slip \in Slippages :
              job' = [job EXCEPT ![p] = [j EXCEPT !.at = "commit",
                        !.fill_px = ApplySlippage(Opposite(rows[j.id].direction), j.px, slip)]]
        /\ UNCHANGED <<marketVars, sig, rows, tick_ms, todo, faults>>

CloseSkips(p) ==
    /\ job[p] # None /\ job[p].at = "read" /\ rows[job[p].id].status = "closed"
    /\ job' = [job EXCEPT ![p] = None]
    /\ UNCHANGED <<marketVars, sig, rows, tick_ms, todo, faults>>

CloseCommits(p) ==
    LET j == job[p]
    IN  /\ j # None /\ j.at = "commit"
        /\ rows' = [rows EXCEPT ![j.id] =
              [@ EXCEPT !.status = "closed", !.exit_px_intended = j.px, !.exit_px = j.fill_px,
                        !.exit_reason = j.reason]]
        /\ job' = [job EXCEPT ![p] = None]
        /\ UNCHANGED <<marketVars, sig, tick_ms, todo, faults>>

\* A database error ends the tick or the request.
CloserError(p) ==
    /\ job[p] # None /\ faults < MaxFaults
    /\ faults' = faults + 1
    /\ todo' = [todo EXCEPT ![p] = NoRows] /\ job' = [job EXCEPT ![p] = None]
    /\ UNCHANGED <<marketVars, sig, rows, tick_ms>>

FillsRestart ==
    /\ faults < MaxFaults
    /\ faults' = faults + 1
    /\ MarketRestart
    /\ sig' = None /\ tick_ms' = 0
    /\ todo' = [p \in Closers |-> NoRows] /\ job' = [p \in Closers |-> None]
    /\ UNCHANGED rows

Market == (AddTrade \/ Tick) /\ UNCHANGED fillVars
Orchestrator == Evaluate \/ OpenTrade \/ Dropped
Manager == ManagerTick \/ ManagerLooks \/ ManagerSkips \/ ManagerMarks
Emergency == EmergencyCloseAll \/ EmergencyLooks
Close(p) == CloseReads(p) \/ CloseSkips(p) \/ CloseCommits(p) \/ CloserError(p)

FillsNext ==
    \/ Market \/ Orchestrator \/ Manager \/ Emergency \/ FillsRestart
    \/ \E p \in Closers : Close(p)

FillsSpec == FillsInit /\ [][FillsNext]_allVars

----------------------------------------------------------------------------
\* pnl_net < 0: the result at the exit's fill does not cover the fees of entry and exit.
IsLoss(r) == Bps * Unrealized(r, r.exit_px) < 2 * FeeBps * r.entry_fill_px

\* A stop is a loss: whatever the price did between signal, entry and exit, a trade closed by its
\* stop has a negative result, and so counts as a consecutive loss and starts the coin's cooldown.
StopIsALoss ==
    \A i \in DOMAIN rows :
        rows[i].exit_reason = "stop" /\ rows[i].entry_fill_px > 0 => IsLoss(rows[i])

\* The excursions of a trade the manager closed cover the price it was closed at, although they
\* are written in another transaction, from a row read before, while requests close rows as well.
ExcursionCoversExit ==
    \A i \in DOMAIN rows :
        LET r == rows[i]
        IN  r.exit_reason \in ManagerReasons =>
              /\ r.mae_usd <= Unrealized(r, r.exit_px_intended)
              /\ Unrealized(r, r.exit_px_intended) <= r.mfe_usd

\* No trade is larger than either cap, nor than what loses RiskPct of the equity at the stop.
SizeWithinRisk ==
    \A i \in DOMAIN rows :
        LET r == rows[i]
        IN  /\ r.size_usd <= MaxPositionUsd /\ r.size_usd <= r.equity * MaxLeverage
            /\ 100 * r.size_usd * Distance(r.entry_px, r.stop_px) <= RiskPct * r.equity * r.entry_px

----------------------------------------------------------------------------
(* Statements of the documents that the code does not meet.                *)

\* PaperTrade's comment: mae_usd is the worst loss seen during the life of the trade. The price an
\* emergency stop closes at is not among what the manager has seen.
ExcursionCoversEveryExit ==
    \A i \in DOMAIN rows :
        LET r == rows[i]
        IN  r.status = "closed" => r.mae_usd <= Unrealized(r, r.exit_px_intended)

\* validate_config's warning: a maximum above the balance is capped at the balance. It is capped
\* at the balance times the leverage.
SizeCappedAtBalance == \A i \in DOMAIN rows : rows[i].size_usd <= rows[i].equity

=============================================================================
