------------------------------- MODULE Candles -------------------------------
(***************************************************************************)
(* What MarketState keeps of one coin's trades: the latest price, the bar  *)
(* in progress and the closed bars, and the true ranges the ATR is the     *)
(* mean of.                                                                *)
(*                                                                         *)
(* Trades are added in the order in which the exchange printed them. What  *)
(* the bars say of volume is left out: nothing reads it.                   *)
(***************************************************************************)
EXTENDS Integers, Sequences, FiniteSetsExt

CONSTANTS
    None,           \* Python's None
    Prices,         \* the prices of trades
    Minute,         \* the length of a bar
    CandleBuffer,   \* MarketState.CANDLE_BUFFER_1M
    Period,         \* of the ATR
    MaxTime, MaxPrints   \* bounds

Bar == [open_ms : Nat, o : Prices, h : Prices, l : Prices, c : Prices]

ASSUME CandleAssumption ==
    /\ Prices \subseteq Nat \ {0} /\ None \notin Prices /\ None \notin Bar
    /\ Minute \in Nat \ {0} /\ CandleBuffer \in Nat \ {0} /\ Period \in Nat \ {0}
    /\ MaxTime \in Nat /\ MaxPrints \in Nat

VARIABLES
    now,
    prints,       \* the trades of this process, the last of them at the end
    _cur_bar,
    candles_1m

marketVars == <<now, prints, _cur_bar, candles_1m>>

MarketTypeOK ==
    /\ now \in Nat
    /\ prints \in Seq([ts : Nat, px : Prices]) /\ \A i \in DOMAIN prints : prints[i].ts <= now
    /\ _cur_bar \in Bar \cup {None}
    /\ candles_1m \in Seq(Bar) /\ Len(candles_1m) <= CandleBuffer

MarketInit == now = 0 /\ prints = <<>> /\ _cur_bar = None /\ candles_1m = <<>>

LatestPrice == IF prints = <<>> THEN None ELSE prints[Len(prints)].px

MinuteOf(t) == t \div Minute

\* Faulty variant: one bar too many is kept.
KeptOneMore(bars) == IF Len(bars) > CandleBuffer + 1 THEN Tail(bars) ELSE bars

\* deque(maxlen=CandleBuffer).append
Kept(bars) == IF Len(bars) > CandleBuffer THEN Tail(bars) ELSE bars

\* Faulty variant: the bar runs on into the next minute.
UpdateCandleLate(px) ==
    IF _cur_bar # None /\ now - Minute * _cur_bar.open_ms <= Minute
    THEN /\ _cur_bar' = [_cur_bar EXCEPT !.h = Max({@, px}), !.l = Min({@, px}), !.c = px]
         /\ UNCHANGED candles_1m
    ELSE /\ _cur_bar' = [open_ms |-> MinuteOf(now), o |-> px, h |-> px, l |-> px, c |-> px]
         /\ candles_1m' = IF _cur_bar = None THEN candles_1m ELSE Kept(Append(candles_1m, _cur_bar))

\* A trade of another minute closes the bar; until one comes, a minute that is over is not closed.
UpdateCandle(px) ==
    IF _cur_bar # None /\ _cur_bar.open_ms = MinuteOf(now)
    THEN /\ _cur_bar' = [_cur_bar EXCEPT !.h = Max({@, px}), !.l = Min({@, px}), !.c = px]
         /\ UNCHANGED candles_1m
    ELSE /\ _cur_bar' = [open_ms |-> MinuteOf(now), o |-> px, h |-> px, l |-> px, c |-> px]
         /\ candles_1m' = IF _cur_bar = None THEN candles_1m ELSE Kept(Append(candles_1m, _cur_bar))

AddTrade ==
    /\ Len(prints) < MaxPrints
    /\ \E px \in Prices :
          prints' = Append(prints, [ts |-> now, px |-> px]) /\ UpdateCandle(px)
    /\ UNCHANGED now

Tick == now < MaxTime /\ now' = now + 1 /\ UNCHANGED <<prints, _cur_bar, candles_1m>>

\* Everything is in memory, and a restart takes a while.
MarketRestart ==
    /\ now < MaxTime /\ now' = now + 1
    /\ prints' = <<>> /\ _cur_bar' = None /\ candles_1m' = <<>>

----------------------------------------------------------------------------
(* The ATR: the mean of the last Period true ranges. What is used of the   *)
(* mean is that it lies between two of them.                               *)

Distance(a, b) == IF a >= b THEN a - b ELSE b - a

TrueRange(bar, prev_close) ==
    Max({bar.h - bar.l, Distance(bar.h, prev_close), Distance(bar.l, prev_close)})

HasAtr == Len(candles_1m) >= Period + 1

Atrs ==
    LET ranges == {TrueRange(candles_1m[i], candles_1m[i - 1].c) :
                      i \in Len(candles_1m) - Period + 1 .. Len(candles_1m)}
    IN  UNION {low .. high : low, high \in ranges}

----------------------------------------------------------------------------
\* The bar of a minute has the first, highest, lowest and last price of the minute's trades.
IsBarOfMinute(bar, trades) ==
    LET S == {i \in DOMAIN trades : MinuteOf(trades[i].ts) = bar.open_ms}
    IN  /\ \E i \in S : trades[i].px = bar.o /\ \A j \in S : i <= j
        /\ \E i \in S : trades[i].px = bar.c /\ \A j \in S : j <= i
        /\ \E i \in S : trades[i].px = bar.h /\ \A j \in S : trades[j].px <= bar.h
        /\ \E i \in S : trades[i].px = bar.l /\ \A j \in S : bar.l <= trades[j].px

\* The bars are the trades: one for each minute with a trade, in order, none missing since the
\* oldest that is kept, and none missing at all until the buffer has been full.
Bars == IF _cur_bar = None THEN candles_1m ELSE Append(candles_1m, _cur_bar)

BarsAreTheTrades ==
    /\ (_cur_bar = None) = (prints = <<>>)
    /\ \A k \in DOMAIN Bars : IsBarOfMinute(Bars[k], prints)
    /\ \A j, k \in DOMAIN Bars : j < k => Bars[j].open_ms < Bars[k].open_ms
    /\ \A i \in DOMAIN prints :
          \/ \E k \in DOMAIN Bars : Bars[k].open_ms = MinuteOf(prints[i].ts)
          \/ Len(Bars) > CandleBuffer /\ MinuteOf(prints[i].ts) < Bars[1].open_ms

=============================================================================
