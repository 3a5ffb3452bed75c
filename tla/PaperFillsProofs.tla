-------------------------- MODULE PaperFillsProofs --------------------------
(***************************************************************************)
(* Theorems about Candles and PaperFills, for every length of a bar, every *)
(* buffer, slippage, fee and limit, and any number of trades and faults.   *)
(***************************************************************************)
EXTENDS PaperFills, SequenceTheorems, TLAPS

LEMMA PricesAreNumbers ==
  /\ \A px \in Prices : px \in Nat /\ px > 0
  /\ None \notin Prices /\ None \notin Bar
BY CandleAssumption DEF CandleAssumption

LEMMA Lengths == Minute \in Nat /\ Minute > 0 /\ CandleBuffer \in Nat /\ CandleBuffer > 0 /\ Period \in Nat /\ Period > 0
BY CandleAssumption DEF CandleAssumption

----------------------------------------------------------------------------
(* The market.                                                             *)

LEMMA MaxOfTwo ==
  ASSUME NEW a \in Int, NEW b \in Int
  PROVE  /\ Max({a, b}) \in {a, b} /\ Max({a, b}) >= a /\ Max({a, b}) >= b
         /\ Min({a, b}) \in {a, b} /\ Min({a, b}) <= a /\ Min({a, b}) <= b
<1>1. \E x \in {a, b} : \A y \in {a, b} : x >= y
  <2>1. CASE a >= b
    BY <2>1
  <2>2. CASE ~(a >= b)
    BY <2>2
  <2> QED  BY <2>1, <2>2
<1>2. \E x \in {a, b} : \A y \in {a, b} : x =< y
  <2>1. CASE a =< b
    BY <2>1
  <2>2. CASE ~(a =< b)
    BY <2>2
  <2> QED  BY <2>1, <2>2
<1> QED  BY <1>1, <1>2 DEF Max, Min

LEMMA MaxOfThree ==
  ASSUME NEW a \in Int, NEW b \in Int, NEW c \in Int
  PROVE  Max({a, b, c}) \in Int /\ Max({a, b, c}) >= a
<1>1. \E x \in {a, b, c} : \A y \in {a, b, c} : x >= y
  <2>1. CASE a >= b /\ a >= c
    BY <2>1
  <2>2. CASE b >= a /\ b >= c
    BY <2>2
  <2>3. CASE c >= a /\ c >= b
    BY <2>3
  <2> QED  BY <2>1, <2>2, <2>3
<1> QED  BY <1>1 DEF Max

\* Later times are in later minutes.
LEMMA MinutesInOrder ==
  ASSUME NEW a \in Nat, NEW b \in Nat, a <= b
  PROVE  MinuteOf(a) \in Nat /\ MinuteOf(b) \in Nat /\ MinuteOf(a) <= MinuteOf(b)
<1> DEFINE q == a \div Minute
           r == b \div Minute
<1>1. q \in Int /\ r \in Int /\ Minute \in Nat /\ Minute > 0
  BY Lengths
<1>2. Minute * q <= a /\ a < Minute * q + Minute
  BY Lengths
<1>3. Minute * r <= b /\ b < Minute * r + Minute
  BY Lengths
<1> HIDE DEF q, r
<1>4. Minute * (r + 1) = Minute * r + Minute /\ Minute * (q + 1) = Minute * q + Minute
  BY <1>1
<1>5. q >= 0 /\ r >= 0 /\ q <= r
  <2>1. q + 1 > 0
    BY <1>1, <1>2, <1>4
  <2>2. r + 1 > 0
    BY <1>1, <1>3, <1>4
  <2>3. Minute * q < Minute * (r + 1)
    BY <1>1, <1>2, <1>3, <1>4
  <2>4. q < r + 1
    BY <1>1, <2>3
  <2> QED  BY <1>1, <2>1, <2>2, <2>4
<1> QED  BY <1>1, <1>5 DEF MinuteOf, q, r

LEMMA MarketTypeStep ==
  ASSUME MarketTypeOK, AddTrade \/ Tick \/ MarketRestart \/ UNCHANGED marketVars
  PROVE  MarketTypeOK'
<1>1. CASE AddTrade
  <2>1. PICK px \in Prices :
           prints' = Append(prints, [ts |-> now, px |-> px]) /\ UpdateCandle(px)
    BY <1>1 DEF AddTrade
  <2>2. now' = now /\ now \in Nat
    BY <1>1 DEF AddTrade, MarketTypeOK
  <2>3. /\ prints' \in Seq([ts : Nat, px : Prices])
        /\ \A i \in DOMAIN prints' : prints'[i].ts <= now'
    <3>1. [ts |-> now, px |-> px] \in [ts : Nat, px : Prices]
      BY <2>1, <2>2
    <3>2. prints \in Seq([ts : Nat, px : Prices])
      BY DEF MarketTypeOK
    <3>3. \A i \in 1 .. Len(prints) : prints[i].ts <= now
      BY <3>2 DEF MarketTypeOK
    <3>4. /\ prints' \in Seq([ts : Nat, px : Prices]) /\ Len(prints') = Len(prints) + 1
          /\ DOMAIN prints' = 1 .. Len(prints) + 1 /\ Len(prints) \in Nat
          /\ \A i \in 1 .. Len(prints) : prints'[i] = prints[i]
          /\ prints'[Len(prints) + 1].ts = now
      BY <2>1, <3>1, <3>2
    <3> QED  BY <2>2, <3>3, <3>4
  <2>4. CASE _cur_bar # None /\ _cur_bar.open_ms = MinuteOf(now)
    <3>1. _cur_bar \in Bar
      BY <2>4 DEF MarketTypeOK
    <3>2. Max({_cur_bar.h, px}) \in Prices /\ Min({_cur_bar.l, px}) \in Prices
      <4>0. _cur_bar.h \in Prices /\ _cur_bar.l \in Prices /\ px \in Prices
        BY <2>1, <3>1 DEF Bar
      <4>1. px \in Int /\ _cur_bar.h \in Int /\ _cur_bar.l \in Int
        BY <4>0, PricesAreNumbers
      <4> QED  BY <4>0, <4>1, MaxOfTwo
    <3>3. _cur_bar' = [_cur_bar EXCEPT !.h = Max({@, px}), !.l = Min({@, px}), !.c = px]
      BY <2>1, <2>4 DEF UpdateCandle
    <3>4. _cur_bar' \in Bar
      BY <3>1, <3>2, <3>3 DEF Bar
    <3>5. candles_1m' = candles_1m
      BY <2>1, <2>4 DEF UpdateCandle
    <3> QED  BY <2>2, <2>3, <3>4, <3>5 DEF MarketTypeOK
  <2>5. CASE ~(_cur_bar # None /\ _cur_bar.open_ms = MinuteOf(now))
    <3>1. MinuteOf(now) \in Nat
      BY <2>2, MinutesInOrder
    <3>2. _cur_bar' \in Bar
      BY <2>1, <2>5, <3>1 DEF UpdateCandle, Bar
    <3>3. candles_1m' \in Seq(Bar) /\ Len(candles_1m') <= CandleBuffer
      <4>1. CASE _cur_bar = None
        BY <2>1, <2>5, <4>1 DEF UpdateCandle, MarketTypeOK
      <4>2. CASE _cur_bar # None
        <5>1. candles_1m' = Kept(Append(candles_1m, _cur_bar))
          BY <2>1, <2>5, <4>2 DEF UpdateCandle
        <5>2. /\ Append(candles_1m, _cur_bar) \in Seq(Bar)
              /\ Len(Append(candles_1m, _cur_bar)) = Len(candles_1m) + 1
              /\ Len(candles_1m) \in Nat /\ Len(candles_1m) <= CandleBuffer
          BY <4>2 DEF MarketTypeOK
        <5> QED  BY <5>1, <5>2, Lengths DEF Kept
      <4> QED  BY <4>1, <4>2
    <3> QED  BY <2>2, <2>3, <3>2, <3>3 DEF MarketTypeOK
  <2> QED  BY <2>4, <2>5
<1>2. CASE Tick
  <2>1. now \in Nat /\ now' = now + 1 /\ UNCHANGED <<prints, _cur_bar, candles_1m>>
    BY <1>2 DEF Tick, MarketTypeOK
  <2>2. \A i \in DOMAIN prints : prints[i].ts \in Nat /\ prints[i].ts <= now
    <3>1. prints \in Seq([ts : Nat, px : Prices])
      BY DEF MarketTypeOK
    <3>2. \A i \in 1 .. Len(prints) : prints[i] \in [ts : Nat, px : Prices]
      BY <3>1, ElementOfSeq, Zenon
    <3>3. DOMAIN prints = 1 .. Len(prints)
      BY <3>1
    <3>4. \A i \in DOMAIN prints : prints[i].ts \in Nat
      BY <3>2, <3>3
    <3> QED  BY <3>4 DEF MarketTypeOK
  <2> QED  BY <2>1, <2>2 DEF MarketTypeOK
<1>3. CASE MarketRestart
  BY <1>3, Lengths DEF MarketRestart, MarketTypeOK
<1>4. CASE UNCHANGED marketVars
  BY <1>4 DEF marketVars, MarketTypeOK
<1> QED  BY <1>1, <1>2, <1>3, <1>4

----------------------------------------------------------------------------
(* The bars.                                                               *)

Extends(ts, us, t) ==
    /\ DOMAIN us = 1 .. Len(ts) + 1 /\ DOMAIN ts = 1 .. Len(ts) /\ Len(ts) \in Nat
    /\ \A i \in DOMAIN ts : us[i] = ts[i]
    /\ us[Len(ts) + 1] = t

\* A trade of another minute leaves a bar what it is.
LEMMA OtherMinute ==
  ASSUME NEW ts, NEW us, NEW t, NEW bar, Extends(ts, us, t),
         IsBarOfMinute(bar, ts), MinuteOf(t.ts) # bar.open_ms
  PROVE  IsBarOfMinute(bar, us)
<1> DEFINE S == {i \in DOMAIN ts : MinuteOf(ts[i].ts) = bar.open_ms}
           U == {i \in DOMAIN us : MinuteOf(us[i].ts) = bar.open_ms}
<1>1. U = S
  BY DEF Extends
<1>2. \A i \in S : us[i] = ts[i]
  BY DEF Extends
<1> QED  BY <1>1, <1>2 DEF IsBarOfMinute

\* The first trade of a minute makes its bar.
LEMMA FirstOfMinute ==
  ASSUME NEW ts, NEW us, NEW t, NEW bar, Extends(ts, us, t), t.px \in Prices,
         MinuteOf(t.ts) = bar.open_ms,
         \A i \in DOMAIN ts : MinuteOf(ts[i].ts) # bar.open_ms,
         bar.o = t.px, bar.h = t.px, bar.l = t.px, bar.c = t.px
  PROVE  IsBarOfMinute(bar, us)
<1>1. {i \in DOMAIN us : MinuteOf(us[i].ts) = bar.open_ms} = {Len(ts) + 1}
  BY DEF Extends
<1>2. us[Len(ts) + 1] = t /\ Len(ts) + 1 \in Nat /\ t.px \in Nat
  BY PricesAreNumbers DEF Extends
<1> QED  BY <1>1, <1>2 DEF IsBarOfMinute

\* A further trade of the minute is its last, and may be its highest or lowest.
LEMMA NextOfMinute ==
  ASSUME NEW ts, NEW us, NEW t, NEW bar, NEW new, Extends(ts, us, t),
         IsBarOfMinute(bar, ts), \A i \in DOMAIN ts : ts[i].px \in Int,
         t.px \in Int, bar.h \in Int, bar.l \in Int,
         MinuteOf(t.ts) = bar.open_ms, new.open_ms = bar.open_ms,
         new.o = bar.o, new.c = t.px,
         new.h = Max({bar.h, t.px}), new.l = Min({bar.l, t.px})
  PROVE  IsBarOfMinute(new, us)
<1> DEFINE S == {i \in DOMAIN ts : MinuteOf(ts[i].ts) = bar.open_ms}
           U == {i \in DOMAIN us : MinuteOf(us[i].ts) = bar.open_ms}
           n == Len(ts) + 1
<1>1. U = S \cup {n} /\ n \in Nat /\ \A i \in S : i \in Nat /\ i < n
  BY DEF Extends
<1>2. us[n] = t /\ \A i \in S : us[i] = ts[i] /\ ts[i].px \in Int
  BY DEF Extends
<1>3. /\ new.h \in {bar.h, t.px} /\ new.h >= bar.h /\ new.h >= t.px /\ new.h \in Int
      /\ new.l \in {bar.l, t.px} /\ new.l <= bar.l /\ new.l <= t.px /\ new.l \in Int
  <2>1. bar.h \in Int /\ bar.l \in Int /\ t.px \in Int
    OBVIOUS
  <2>2. \A a, b \in Int : /\ Max({a, b}) \in {a, b} /\ Max({a, b}) >= a /\ Max({a, b}) >= b
                         /\ Min({a, b}) \in {a, b} /\ Min({a, b}) <= a /\ Min({a, b}) <= b
    BY MaxOfTwo
  <2>3. Max({bar.h, t.px}) \in {bar.h, t.px} /\ Max({bar.h, t.px}) >= bar.h
        /\ Max({bar.h, t.px}) >= t.px
    BY <2>1, <2>2, Zenon
  <2>4. Min({bar.l, t.px}) \in {bar.l, t.px} /\ Min({bar.l, t.px}) <= bar.l
        /\ Min({bar.l, t.px}) <= t.px
    BY <2>1, <2>2, Zenon
  <2> QED  BY <2>1, <2>3, <2>4
<1>4. /\ \E i \in S : ts[i].px = bar.o /\ \A j \in S : i <= j
      /\ \E i \in S : ts[i].px = bar.h /\ \A j \in S : ts[j].px <= bar.h
      /\ \E i \in S : ts[i].px = bar.l /\ \A j \in S : bar.l <= ts[j].px
  BY DEF IsBarOfMinute
<1> HIDE DEF S, U, n
<1>5. \E i \in U : us[i].px = new.o /\ \A j \in U : i <= j
  BY <1>1, <1>2, <1>4
<1>6. \E i \in U : us[i].px = new.c /\ \A j \in U : j <= i
  BY <1>1, <1>2
<1>7. \E i \in U : us[i].px = new.h /\ \A j \in U : us[j].px <= new.h
  <2>1. \A j \in U : us[j].px <= new.h
    BY <1>1, <1>2, <1>3, <1>4
  <2>2. \E i \in U : us[i].px = new.h
    BY <1>1, <1>2, <1>3, <1>4
  <2> QED  BY <2>1, <2>2
<1>8. \E i \in U : us[i].px = new.l /\ \A j \in U : new.l <= us[j].px
  <2>1. \A j \in U : new.l <= us[j].px
    BY <1>1, <1>2, <1>3, <1>4
  <2>2. \E i \in U : us[i].px = new.l
    BY <1>1, <1>2, <1>3, <1>4
  <2> QED  BY <2>1, <2>2
<1>9. U = {i \in DOMAIN us : MinuteOf(us[i].ts) = new.open_ms}
  BY DEF U
<1> QED  BY <1>5, <1>6, <1>7, <1>8, <1>9 DEF IsBarOfMinute

\* What is known of the market when a trade is added.
LEMMA MarketFacts ==
  ASSUME MarketTypeOK, BarsAreTheTrades
  PROVE  /\ Bars \in Seq(Bar) /\ Len(Bars) \in Nat /\ DOMAIN Bars = 1 .. Len(Bars)
         /\ \A k \in DOMAIN Bars : Bars[k].open_ms \in Nat
         /\ \A i \in DOMAIN prints : /\ prints[i].ts \in Nat /\ prints[i].ts <= now
                                      /\ prints[i].px \in Prices
                                      /\ MinuteOf(prints[i].ts) \in Nat
                                      /\ MinuteOf(prints[i].ts) <= MinuteOf(now)
         /\ MinuteOf(now) \in Nat
         /\ \A k \in DOMAIN Bars : Bars[k].open_ms <= MinuteOf(now)
<1>1. Bars \in Seq(Bar)
  BY DEF MarketTypeOK, Bars
<1>2. /\ Len(Bars) \in Nat /\ DOMAIN Bars = 1 .. Len(Bars)
      /\ \A k \in DOMAIN Bars : Bars[k].open_ms \in Nat
  <2>1. Len(Bars) \in Nat /\ DOMAIN Bars = 1 .. Len(Bars)
    BY <1>1
  <2>2. \A k \in 1 .. Len(Bars) : Bars[k] \in Bar
    BY <1>1, ElementOfSeq, Zenon
  <2> QED  BY <2>1, <2>2 DEF Bar
<1>3. \A i \in DOMAIN prints : /\ prints[i].ts \in Nat /\ prints[i].ts <= now
                               /\ prints[i].px \in Prices
  <2>1. prints \in Seq([ts : Nat, px : Prices])
    BY DEF MarketTypeOK
  <2>2. \A i \in 1 .. Len(prints) : prints[i] \in [ts : Nat, px : Prices]
    BY <2>1, ElementOfSeq, Zenon
  <2>3. DOMAIN prints = 1 .. Len(prints)
    BY <2>1
  <2>4. \A i \in DOMAIN prints : prints[i].ts \in Nat /\ prints[i].px \in Prices
    BY <2>2, <2>3
  <2> QED  BY <2>4 DEF MarketTypeOK
<1>4. now \in Nat
  BY DEF MarketTypeOK
<1>5. \A i \in DOMAIN prints : /\ MinuteOf(prints[i].ts) \in Nat
                               /\ MinuteOf(prints[i].ts) <= MinuteOf(now)
  BY <1>3, <1>4, MinutesInOrder
<1>6. MinuteOf(now) \in Nat
  BY <1>4, MinutesInOrder
<1>7. \A k \in DOMAIN Bars : \E i \in DOMAIN prints : MinuteOf(prints[i].ts) = Bars[k].open_ms
  BY DEF BarsAreTheTrades, IsBarOfMinute
<1>8. \A k \in DOMAIN Bars : Bars[k].open_ms <= MinuteOf(now)
  BY <1>5, <1>7
<1> QED  BY <1>1, <1>2, <1>3, <1>5, <1>6, <1>8

LEMMA BarsStep ==
  ASSUME MarketTypeOK, BarsAreTheTrades, AddTrade \/ Tick \/ MarketRestart \/ UNCHANGED marketVars
  PROVE  BarsAreTheTrades'
<1> DEFINE M == MinuteOf(now)
           L == Len(Bars)
<1>1. CASE AddTrade
  <2>1. PICK px \in Prices :
           prints' = Append(prints, [ts |-> now, px |-> px]) /\ UpdateCandle(px)
    BY <1>1 DEF AddTrade
  <2>2. Extends(prints, prints', [ts |-> now, px |-> px])
    BY <2>1 DEF MarketTypeOK, Extends
  <2>3. prints' # <<>> /\ DOMAIN prints' = DOMAIN prints \cup {Len(prints) + 1}
    BY <2>2 DEF Extends
  <2>4. /\ \A i \in DOMAIN prints : prints'[i] = prints[i]
        /\ MinuteOf(prints'[Len(prints) + 1].ts) = M
    BY <2>2 DEF Extends
  <2>5. CASE _cur_bar # None /\ _cur_bar.open_ms = M
    <3>1. /\ _cur_bar \in Bar /\ candles_1m' = candles_1m
          /\ _cur_bar' = [_cur_bar EXCEPT !.h = Max({@, px}), !.l = Min({@, px}), !.c = px]
      BY <2>1, <2>5 DEF UpdateCandle, MarketTypeOK
    <3>2. /\ _cur_bar'.open_ms = M /\ _cur_bar'.o = _cur_bar.o /\ _cur_bar'.c = px
          /\ _cur_bar'.h = Max({_cur_bar.h, px}) /\ _cur_bar'.l = Min({_cur_bar.l, px})
      BY <2>5, <3>1 DEF Bar
    <3>3. _cur_bar' # None
      <4>1. MarketTypeOK' /\ DOMAIN _cur_bar' = {"open_ms", "o", "h", "l", "c"}
        BY <1>1, <3>1, MarketTypeStep DEF Bar
      <4>2. _cur_bar' \in Bar
        <5>1. _cur_bar.h \in Prices /\ _cur_bar.l \in Prices
          BY <3>1 DEF Bar
        <5>2. Max({_cur_bar.h, px}) \in Prices /\ Min({_cur_bar.l, px}) \in Prices
          <6>1. _cur_bar.h \in Int /\ _cur_bar.l \in Int /\ px \in Int
            BY <2>1, <5>1, PricesAreNumbers
          <6> QED  BY <2>1, <5>1, <6>1, MaxOfTwo
        <5> QED  BY <2>1, <3>1, <5>2 DEF Bar
      <4> QED  BY <4>2, PricesAreNumbers
    <3>4. Bars = Append(candles_1m, _cur_bar) /\ Bars' = Append(candles_1m, _cur_bar')
      BY <2>5, <3>1, <3>3 DEF Bars
    <3>5. /\ DOMAIN Bars' = DOMAIN Bars /\ Len(Bars') = L /\ L \in DOMAIN Bars /\ L \in Nat
          /\ \A k \in DOMAIN Bars : k < L => Bars'[k] = Bars[k]
          /\ Bars[L] = _cur_bar /\ Bars'[L] = _cur_bar' /\ DOMAIN Bars = 1 .. L
      BY <3>4 DEF MarketTypeOK
    <3>6. \A k \in DOMAIN Bars : Bars'[k].open_ms = Bars[k].open_ms
      BY <2>5, <3>2, <3>5
    <3>7. \A k \in DOMAIN Bars' : IsBarOfMinute(Bars'[k], prints')
      <4> SUFFICES ASSUME NEW k \in DOMAIN Bars PROVE IsBarOfMinute(Bars'[k], prints')
        BY <3>5
      <4>1. CASE k < L
        <5>1. Bars[k].open_ms # M /\ Bars[k].open_ms \in Nat
          BY <2>5, <3>5, <4>1, MarketFacts DEF BarsAreTheTrades
        <5>2. IsBarOfMinute(Bars[k], prints)
          BY DEF BarsAreTheTrades
        <5> QED  BY <2>2, <3>5, <4>1, <5>1, <5>2, OtherMinute
      <4>2. CASE k = L
        <5>1. IsBarOfMinute(_cur_bar, prints)
          BY <3>5 DEF BarsAreTheTrades
        <5>2. _cur_bar.h \in Int /\ _cur_bar.l \in Int /\ px \in Int
          BY <2>1, <3>1, PricesAreNumbers DEF Bar
        <5>3. \A i \in DOMAIN prints : prints[i].px \in Int
          BY MarketFacts, PricesAreNumbers
        <5> QED  BY <2>2, <2>5, <3>2, <3>5, <4>2, <5>1, <5>2, <5>3, NextOfMinute
      <4> QED  BY <3>5, <4>1, <4>2
    <3>8. \A j, k \in DOMAIN Bars' : j < k => Bars'[j].open_ms < Bars'[k].open_ms
      BY <3>5, <3>6 DEF BarsAreTheTrades
    <3>9. \A i \in DOMAIN prints' :
             \/ \E k \in DOMAIN Bars' : Bars'[k].open_ms = MinuteOf(prints'[i].ts)
             \/ Len(Bars') > CandleBuffer /\ MinuteOf(prints'[i].ts) < Bars'[1].open_ms
      <4>1. 1 \in DOMAIN Bars
        BY <3>5
      <4> QED  BY <2>3, <2>4, <2>5, <3>5, <3>6, <4>1 DEF BarsAreTheTrades
    <3> QED  BY <2>3, <3>3, <3>7, <3>8, <3>9 DEF BarsAreTheTrades
  <2>6. CASE ~(_cur_bar # None /\ _cur_bar.open_ms = M)
    <3> DEFINE new == [open_ms |-> M, o |-> px, h |-> px, l |-> px, c |-> px]
    <3>1. _cur_bar' = new /\ new \in Bar /\ new # None
      BY <2>1, <2>6, MarketFacts, PricesAreNumbers DEF UpdateCandle, Bar
    <3>2. \A k \in DOMAIN Bars : Bars[k].open_ms < M
      <4>1. CASE _cur_bar = None
        <5>1. prints = <<>>
          BY <4>1 DEF BarsAreTheTrades
        <5>2. DOMAIN prints = {}
          BY <5>1
        <5> QED  BY <5>2 DEF BarsAreTheTrades, IsBarOfMinute
      <4>2. CASE _cur_bar # None
        <5>1. Bars = Append(candles_1m, _cur_bar)
          BY <4>2 DEF Bars
        <5>2. L \in DOMAIN Bars /\ Bars[L] = _cur_bar /\ DOMAIN Bars = 1 .. L /\ L \in Nat
          BY <5>1 DEF MarketTypeOK
        <5>3. Bars[L].open_ms < M
          BY <2>6, <4>2, <5>2, MarketFacts
        <5> QED  BY <5>2, <5>3, MarketFacts DEF BarsAreTheTrades
      <4> QED  BY <4>1, <4>2
    <3>3. PICK d \in {0, 1} :
             /\ d = 1 => L > CandleBuffer
             /\ L - d \in Nat
             /\ DOMAIN Bars' = 1 .. L - d + 1 /\ Len(Bars') = L - d + 1
             /\ \A k \in 1 .. L - d : Bars'[k] = Bars[k + d]
             /\ Bars'[L - d + 1] = new
      <4>1. Bars' = Append(candles_1m', new)
        BY <3>1 DEF Bars
      <4>2. Bars \in Seq(Bar) /\ L \in Nat
        BY MarketFacts
      <4>3. CASE candles_1m' = Bars
        <5>1. /\ DOMAIN Bars' = 1 .. L + 1 /\ Len(Bars') = L + 1
              /\ \A k \in 1 .. L : Bars'[k] = Bars[k]
              /\ Bars'[L + 1] = new
          BY <4>1, <4>2, <4>3
        <5>2. L - 0 = L /\ \A k \in 1 .. L : k + 0 = k
          BY <4>2
        <5> WITNESS 0 \in {0, 1}
        <5> QED  BY <4>2, <5>1, <5>2
      <4>4. CASE L > CandleBuffer /\ candles_1m' = Tail(Bars)
        <5>1. L > 0 /\ L - 1 \in Nat
          BY <4>2, <4>4, Lengths
        <5>2. /\ Tail(Bars) \in Seq(Bar) /\ Len(Tail(Bars)) = L - 1
              /\ \A k \in 1 .. L - 1 : Tail(Bars)[k] = Bars[k + 1]
          BY <4>2, <5>1
        <5>3. /\ DOMAIN Bars' = 1 .. L - 1 + 1 /\ Len(Bars') = L - 1 + 1
              /\ \A k \in 1 .. L - 1 : Bars'[k] = Bars[k + 1]
              /\ Bars'[L - 1 + 1] = new
          BY <4>1, <4>4, <5>1, <5>2
        <5> WITNESS 1 \in {0, 1}
        <5> QED  BY <4>4, <5>1, <5>3
      <4>5. candles_1m' = Bars \/ (L > CandleBuffer /\ candles_1m' = Tail(Bars))
        BY <2>1, <2>6 DEF UpdateCandle, Kept, Bars
      <4> QED  BY <4>3, <4>4, <4>5
    <3>4. L \in Nat /\ M \in Nat /\ DOMAIN Bars = 1 .. L /\ \A k \in 1 .. L : Bars[k].open_ms \in Nat
      BY MarketFacts
    <3>5. \A k \in 1 .. L - d : k + d \in 1 .. L
      BY <3>3, <3>4
    <3>6. \A i \in DOMAIN prints : MinuteOf(prints[i].ts) # M
      <4> SUFFICES ASSUME NEW i \in DOMAIN prints PROVE MinuteOf(prints[i].ts) # M
        OBVIOUS
      <4>1. CASE \E k \in DOMAIN Bars : Bars[k].open_ms = MinuteOf(prints[i].ts)
        BY <3>2, <3>4, <4>1
      <4>2. CASE L > CandleBuffer /\ MinuteOf(prints[i].ts) < Bars[1].open_ms
        <5>1. 1 \in DOMAIN Bars
          BY <3>4, <4>2, Lengths
        <5>2. MinuteOf(prints[i].ts) \in Nat
          BY MarketFacts
        <5> QED  BY <3>2, <3>4, <4>2, <5>1, <5>2
      <4> QED  BY <4>1, <4>2 DEF BarsAreTheTrades
    <3>7. \A k \in DOMAIN Bars' : IsBarOfMinute(Bars'[k], prints')
      <4>1. \A k \in 1 .. L - d : IsBarOfMinute(Bars'[k], prints')
        <5> SUFFICES ASSUME NEW k \in 1 .. L - d PROVE IsBarOfMinute(Bars[k + d], prints')
          BY <3>3
        <5>1. IsBarOfMinute(Bars[k + d], prints) /\ Bars[k + d].open_ms < M
          BY <3>2, <3>4, <3>5 DEF BarsAreTheTrades
        <5>2. Bars[k + d].open_ms # M
          BY <3>4, <3>5, <5>1
        <5> QED  BY <2>2, <5>1, <5>2, OtherMinute
      <4>2. IsBarOfMinute(new, prints')
        BY <2>1, <2>2, <3>6, FirstOfMinute
      <4>3. \A k \in 1 .. L - d + 1 : k \in 1 .. L - d \/ k = L - d + 1
        BY <3>3
      <4> QED  BY <3>3, <4>1, <4>2, <4>3
    <3>8. \A j, k \in DOMAIN Bars' : j < k => Bars'[j].open_ms < Bars'[k].open_ms
      <4> SUFFICES ASSUME NEW j \in 1 .. L - d + 1, NEW k \in 1 .. L - d + 1, j < k
                   PROVE  Bars'[j].open_ms < Bars'[k].open_ms
        BY <3>3
      <4>1. j \in 1 .. L - d /\ j + d \in 1 .. L /\ Bars'[j] = Bars[j + d]
        BY <3>3, <3>4, <3>5
      <4>2. CASE k \in 1 .. L - d
        <5>1. k + d \in 1 .. L /\ Bars'[k] = Bars[k + d] /\ j + d < k + d
          BY <3>3, <3>4, <3>5, <4>2
        <5> QED  BY <3>4, <4>1, <5>1 DEF BarsAreTheTrades
      <4>3. CASE k = L - d + 1
        BY <3>2, <3>3, <3>4, <4>1, <4>3
      <4> QED  BY <3>3, <3>4, <4>2, <4>3
    <3>9. \A i \in DOMAIN prints' :
             \/ \E k \in DOMAIN Bars' : Bars'[k].open_ms = MinuteOf(prints'[i].ts)
             \/ Len(Bars') > CandleBuffer /\ MinuteOf(prints'[i].ts) < Bars'[1].open_ms
      <4> SUFFICES ASSUME NEW i \in DOMAIN prints
                   PROVE  \/ \E k \in DOMAIN Bars' : Bars'[k].open_ms = MinuteOf(prints[i].ts)
                          \/ Len(Bars') > CandleBuffer /\ MinuteOf(prints[i].ts) < Bars'[1].open_ms
        <5>1. L - d + 1 \in DOMAIN Bars' /\ Bars'[L - d + 1].open_ms = M
          BY <3>3
        <5> QED  BY <2>3, <2>4, <5>1
      <4>0. MinuteOf(prints[i].ts) \in Nat
        BY MarketFacts
      <4>1. d = 1 => 1 \in DOMAIN Bars /\ Bars[1].open_ms < Bars'[1].open_ms
        <5> SUFFICES ASSUME d = 1 PROVE 1 \in DOMAIN Bars /\ Bars[1].open_ms < Bars'[1].open_ms
          OBVIOUS
        <5>1. 1 \in DOMAIN Bars /\ L > 0
          BY <3>3, <3>4, Lengths
        <5>2. CASE L = 1
          BY <3>2, <3>3, <5>1, <5>2
        <5>3. CASE L > 1
          <6>1. Bars'[1] = Bars[2] /\ 2 \in 1 .. L
            BY <3>3, <3>4, <5>3
          <6> QED  BY <3>4, <5>1, <6>1 DEF BarsAreTheTrades
        <5> QED  BY <3>4, <5>1, <5>2, <5>3
      <4>2. CASE L > CandleBuffer /\ MinuteOf(prints[i].ts) < Bars[1].open_ms
        <5>1. 1 \in DOMAIN Bars /\ 1 \in DOMAIN Bars' /\ Len(Bars') > CandleBuffer
          BY <3>3, <3>4, <4>2, Lengths
        <5>2. CASE d = 1
          <6>1. Bars'[1].open_ms \in Nat
            BY <3>1, <3>3, <3>4, <3>5, <5>1 DEF Bar
          <6> QED  BY <3>4, <4>0, <4>1, <4>2, <5>1, <5>2, <6>1
        <5>3. CASE d = 0
          <6>1. Bars'[1] = Bars[1]
            BY <3>3, <3>4, <5>1, <5>3
          <6> QED  BY <4>2, <5>1, <6>1
        <5> QED  BY <5>2, <5>3
      <4>3. CASE \E k \in DOMAIN Bars : Bars[k].open_ms = MinuteOf(prints[i].ts)
        <5>1. PICK k \in 1 .. L : Bars[k].open_ms = MinuteOf(prints[i].ts)
          BY <3>4, <4>3
        <5>2. CASE k > d
          <6>0. k - d \in 1 .. L - d /\ (k - d) + d = k /\ k - d \in DOMAIN Bars'
            BY <3>3, <3>4, <5>2
          <6>1. Bars'[k - d] = Bars[k] /\ k - d \in DOMAIN Bars'
            BY <3>3, <6>0
          <6> QED  BY <5>1, <6>1
        <5>3. CASE ~(k > d)
          <6>1. d = 1 /\ k = 1 /\ L > CandleBuffer /\ Len(Bars') = L
            BY <3>3, <3>4, <5>3
          <6> QED  BY <4>1, <5>1, <6>1
        <5> QED  BY <5>2, <5>3
      <4> QED  BY <4>2, <4>3 DEF BarsAreTheTrades
    <3> QED  BY <2>3, <3>1, <3>7, <3>8, <3>9 DEF BarsAreTheTrades
  <2> QED  BY <2>5, <2>6
<1>2. CASE Tick \/ UNCHANGED marketVars
  BY <1>2 DEF Tick, marketVars, BarsAreTheTrades, Bars
<1>3. CASE MarketRestart
  BY <1>3 DEF MarketRestart, BarsAreTheTrades, Bars
<1> QED  BY <1>1, <1>2, <1>3

----------------------------------------------------------------------------
(* Slippage and size.                                                      *)

LEMMA Settings ==
  /\ SlipBase \in Nat /\ SlipPerVol \in Nat /\ FeeBps \in Nat /\ TimeStop \in Nat
  /\ (\A x \in Levels : x \in Int) /\ (\A x \in Equities : x \in Int)
  /\ RiskPct \in Nat /\ MaxPositionUsd \in Nat /\ MaxLeverage \in Nat
  /\ None \notin Signal /\ None \notin Reasons
BY FillsAssumption DEF FillsAssumption, Signal, Reasons, ManagerReasons

LEMMA LatestIsPrice ==
  ASSUME MarketTypeOK
  PROVE  LatestPrice \in Prices \cup {None} /\ (LatestPrice # None => LatestPrice \in Prices)
<1>1. CASE prints = <<>>
  BY <1>1 DEF LatestPrice
<1>2. CASE prints # <<>>
  <2>1. prints \in Seq([ts : Nat, px : Prices])
    BY DEF MarketTypeOK
  <2>2. Len(prints) \in 1 .. Len(prints)
    BY <1>2, <2>1
  <2>3. prints[Len(prints)] \in [ts : Nat, px : Prices]
    BY <2>1, <2>2, ElementOfSeq, Zenon
  <2> QED  BY <1>2, <2>3 DEF LatestPrice
<1> QED  BY <1>1, <1>2

\* The ATR is no less than nothing, because a bar's high is no less than its low.
LEMMA AtrsArePositive ==
  ASSUME MarketTypeOK, BarsAreTheTrades, HasAtr
  PROVE  Atrs \subseteq Nat
<1>1. /\ candles_1m \in Seq(Bar) /\ Len(candles_1m) \in Nat
      /\ Len(candles_1m) >= Period + 1
  BY DEF MarketTypeOK, HasAtr
<1>2. \A i \in 1 .. Len(candles_1m) : candles_1m[i] \in Bar
  BY <1>1, ElementOfSeq, Zenon
<1>3. \A i \in 1 .. Len(candles_1m) : candles_1m[i].h >= candles_1m[i].l
  <2> SUFFICES ASSUME NEW k \in 1 .. Len(candles_1m)
               PROVE  candles_1m[k].h >= candles_1m[k].l
    OBVIOUS
  <2>1. k \in DOMAIN Bars /\ Bars[k] = candles_1m[k]
    BY <1>1 DEF Bars
  <2>2. IsBarOfMinute(candles_1m[k], prints)
    BY <2>1 DEF BarsAreTheTrades
  <2>3. PICK i \in DOMAIN prints :
           candles_1m[k].l <= prints[i].px /\ prints[i].px <= candles_1m[k].h
    BY <2>2 DEF IsBarOfMinute
  <2>4. prints[i].px \in Int /\ candles_1m[k].l \in Int /\ candles_1m[k].h \in Int
    <3>1. prints[i].px \in Prices /\ candles_1m[k].l \in Prices /\ candles_1m[k].h \in Prices
      BY <1>2, MarketFacts DEF Bar
    <3> QED  BY <3>1, PricesAreNumbers
  <2> QED  BY <2>3, <2>4
<1>4. ASSUME NEW i \in Len(candles_1m) - Period + 1 .. Len(candles_1m)
      PROVE  TrueRange(candles_1m[i], candles_1m[i - 1].c) \in Nat
  <2>1. i \in 1 .. Len(candles_1m) /\ i - 1 \in 1 .. Len(candles_1m)
    BY <1>1, Lengths
  <2> DEFINE h == candles_1m[i].h
             l == candles_1m[i].l
             c == candles_1m[i - 1].c
  <2>2. h \in Prices /\ l \in Prices /\ c \in Prices /\ h >= l
    BY <1>2, <1>3, <2>1 DEF Bar
  <2>3. h \in Int /\ l \in Int /\ c \in Int
    BY <2>2, PricesAreNumbers
  <2> HIDE DEF h, l, c
  <2>4. h - l \in Int /\ h - l >= 0 /\ Distance(h, c) \in Int /\ Distance(l, c) \in Int
    BY <2>2, <2>3 DEF Distance
  <2>5. /\ Max({h - l, Distance(h, c), Distance(l, c)}) \in Int
        /\ Max({h - l, Distance(h, c), Distance(l, c)}) >= h - l
    BY <2>4, MaxOfThree
  <2>6. Max({h - l, Distance(h, c), Distance(l, c)}) \in Nat
    BY <2>4, <2>5
  <2> QED  BY <2>6 DEF TrueRange, h, l, c
<1> QED  BY <1>4 DEF Atrs

LEMMA Quotient ==
  ASSUME NEW a \in Nat, NEW b \in Nat, b > 0
  PROVE  a \div b \in Nat
<1> DEFINE q == a \div b
<1>1. q \in Int /\ b * q <= a /\ a < b * q + b
  OBVIOUS
<1> HIDE DEF q
<1>2. b * (q + 1) = b * q + b
  BY <1>1
<1>3. q + 1 > 0
  BY <1>1, <1>2
<1>4. q \in Nat
  BY <1>1, <1>3
<1> QED  BY <1>4 DEF q

LEMMA SlippagesArePositive ==
  ASSUME MarketTypeOK, BarsAreTheTrades
  PROVE  Slippages \subseteq Nat
<1>1. CASE HasAtr /\ LatestPrice # None
  <2>1. LatestPrice \in Nat /\ LatestPrice > 0
    BY <1>1, LatestIsPrice, PricesAreNumbers
  <2>2. ASSUME NEW atr \in Atrs
        PROVE  SlipBase + (100 * SlipPerVol * atr) \div LatestPrice \in Nat
    <3>1. atr \in Nat
      BY <1>1, AtrsArePositive
    <3>2. 100 * SlipPerVol * atr \in Nat
      BY <3>1, Settings
    <3>3. (100 * SlipPerVol * atr) \div LatestPrice \in Nat
      BY <2>1, <3>2, Quotient
    <3> QED  BY <3>3, Settings
  <2> QED  BY <1>1, <2>2 DEF Slippages
<1>2. CASE ~(HasAtr /\ LatestPrice # None)
  <2>1. SlipPerVol \div 2 \in Nat
    BY Settings, Quotient
  <2>2. SlipBase + SlipPerVol \div 2 \in Nat
    BY <2>1, Settings
  <2> QED  BY <1>2, <2>2 DEF Slippages
<1> QED  BY <1>1, <1>2

\* A fill is never better than the price asked for.
LEMMA AgainstUs ==
  ASSUME NEW px \in Int, NEW slip \in Nat
  PROVE  /\ ApplySlippage("long", px, slip) \in Int /\ ApplySlippage("short", px, slip) \in Int
         /\ px >= 0 => /\ ApplySlippage("long", px, slip) >= px
                       /\ ApplySlippage("short", px, slip) <= px
<1> DEFINE a == px * slip
<1>1. a \in Int /\ (px >= 0 => a >= 0)
  OBVIOUS
<1>2. px * (Bps + slip) = 10000 * px + a /\ px * (Bps - slip) = 10000 * px - a
  BY DEF Bps
<1> HIDE DEF a
<1>3. (10000 * px + a) \div 10000 \in Int /\ (10000 * px - a) \div 10000 \in Int
  BY <1>1
<1>4. px >= 0 => (10000 * px + a) \div 10000 >= px /\ (10000 * px - a) \div 10000 <= px
  BY <1>1
<1> QED  BY <1>2, <1>3, <1>4 DEF ApplySlippage, Bps

\* What compute_size_usd promises of every equity, entry and stop: the loss at the stop is within
\* RiskPct of the equity, and neither cap is exceeded.
THEOREM SizeIsBounded ==
  ASSUME NEW equity \in Int, NEW entry \in Nat, NEW stop \in Int,
         ComputeSizeUsd(equity, entry, stop) > 0
  PROVE  LET size == ComputeSizeUsd(equity, entry, stop)
         IN  /\ size \in Nat /\ size <= MaxPositionUsd /\ size <= equity * MaxLeverage
             /\ 100 * size * Distance(entry, stop) <= RiskPct * equity * entry
<1> DEFINE size == ComputeSizeUsd(equity, entry, stop)
           dist == Distance(entry, stop)
           risk == equity * RiskPct * entry
           byRisk == risk \div (100 * dist)
           byLeverage == equity * MaxLeverage
<1>1. equity > 0 /\ stop > 0 /\ entry # stop
  BY DEF ComputeSizeUsd
<1>2. dist \in Nat /\ dist > 0
  BY <1>1 DEF Distance
<1>3. risk \in Int /\ byLeverage \in Int /\ MaxPositionUsd \in Int
  BY Settings
<1>4. size = Min({byRisk, MaxPositionUsd, byLeverage})
  BY <1>1 DEF ComputeSizeUsd
<1>5. 100 * dist \in Nat /\ 100 * dist > 0
  BY <1>2
<1> HIDE DEF dist, risk, byLeverage
<1>6. byRisk \in Int /\ (100 * dist) * byRisk <= risk
  BY <1>3, <1>5
<1> HIDE DEF byRisk
<1>7. \E x \in {byRisk, MaxPositionUsd, byLeverage} :
         \A y \in {byRisk, MaxPositionUsd, byLeverage} : x =< y
  <2>1. CASE byRisk <= MaxPositionUsd /\ byRisk <= byLeverage
    BY <1>3, <1>6, <2>1
  <2>2. CASE MaxPositionUsd <= byRisk /\ MaxPositionUsd <= byLeverage
    BY <1>3, <1>6, <2>2
  <2>3. CASE byLeverage <= byRisk /\ byLeverage <= MaxPositionUsd
    BY <1>3, <1>6, <2>3
  <2> QED  BY <1>3, <1>6, <2>1, <2>2, <2>3
<1>8. /\ size \in {byRisk, MaxPositionUsd, byLeverage}
      /\ size <= byRisk /\ size <= MaxPositionUsd /\ size <= byLeverage
  BY <1>4, <1>7 DEF Min
<1>9. size \in Int /\ size > 0
  BY <1>3, <1>6, <1>8
<1> HIDE DEF size
<1>10. (100 * dist) * size <= (100 * dist) * byRisk
  BY <1>5, <1>6, <1>8, <1>9
<1>11. (100 * dist) * size = 100 * size * dist /\ (100 * dist) * size \in Int /\ (100 * dist) * byRisk \in Int
  BY <1>2, <1>6, <1>9
<1>12. 100 * size * dist <= risk
  BY <1>3, <1>6, <1>10, <1>11
<1>13. risk = RiskPct * equity * entry
  BY Settings DEF risk
<1> QED  BY <1>8, <1>9, <1>12, <1>13 DEF size, dist, byLeverage

----------------------------------------------------------------------------
(* Types.                                                                  *)

LEMMA RowsTyped ==
  ASSUME FillsTypeOK
  PROVE  /\ Len(rows) \in Nat /\ DOMAIN rows = 1 .. Len(rows)
         /\ \A i \in DOMAIN rows : rows[i] \in Row
<1>1. rows \in Seq(Row)
  BY DEF FillsTypeOK
<1>2. Len(rows) \in Nat /\ DOMAIN rows = 1 .. Len(rows)
  BY <1>1
<1>3. \A i \in 1 .. Len(rows) : rows[i] \in Row
  BY <1>1, ElementOfSeq, Zenon
<1> QED  BY <1>2, <1>3

LEMMA JobsTyped ==
  ASSUME FillsTypeOK, NEW p \in Closers, job[p] # None
  PROVE  /\ job[p] \in Job /\ job[p].id \in DOMAIN rows /\ rows[job[p].id] \in Row
         /\ job[p].px \in Int /\ job[p].fill_px \in Int
BY RowsTyped DEF FillsTypeOK, Job

\* The market moves only in its own steps and in a restart.
LEMMA MarketMoves ==
  ASSUME FillsTypeOK, BarsAreTheTrades, [FillsNext]_allVars
  PROVE  MarketTypeOK' /\ BarsAreTheTrades' /\ now \in Nat /\ now' \in Nat /\ now' >= now
<1>1. AddTrade \/ Tick \/ MarketRestart \/ UNCHANGED marketVars
  <2>1. CASE Market
    BY <2>1 DEF Market
  <2>2. CASE Orchestrator
    BY <2>2 DEF Orchestrator, Evaluate, OpenTrade, Dropped
  <2>3. CASE Manager \/ Emergency
    BY <2>3 DEF Manager, Emergency, ManagerTick, ManagerLooks, ManagerSkips, ManagerMarks,
                EmergencyCloseAll, EmergencyLooks
  <2>4. CASE FillsRestart
    BY <2>4 DEF FillsRestart
  <2>5. CASE \E p \in Closers : Close(p)
    BY <2>5 DEF Close, CloseReads, CloseSkips, CloseCommits, CloserError
  <2>6. CASE UNCHANGED allVars
    BY <2>6 DEF allVars
  <2> QED  BY <2>1, <2>2, <2>3, <2>4, <2>5, <2>6 DEF FillsNext
<1>2. MarketTypeOK
  BY DEF FillsTypeOK
<1>3. MarketTypeOK' /\ BarsAreTheTrades'
  BY <1>1, <1>2, MarketTypeStep, BarsStep
<1>4. now' = now \/ now' = now + 1
  BY <1>1 DEF AddTrade, Tick, MarketRestart, marketVars
<1> QED  BY <1>2, <1>3, <1>4 DEF MarketTypeOK

LEMMA OpenTradeTypes ==
  ASSUME FillsTypeOK, BarsAreTheTrades, OpenTrade
  PROVE  \E new \in Row :
           /\ rows' = Append(rows, new) /\ new.status = "open" /\ new.exit_reason = None
           /\ new.direction = sig.direction /\ new.entry_px = sig.entry_px
           /\ new.stop_px = sig.stop_px
           /\ new.direction = "long" => new.entry_fill_px >= new.entry_px
           /\ new.direction = "short" => new.entry_fill_px <= new.entry_px
           /\ new.size_usd <= MaxPositionUsd /\ new.size_usd <= new.equity * MaxLeverage
           /\ 100 * new.size_usd * Distance(new.entry_px, new.stop_px)
                <= RiskPct * new.equity * new.entry_px
<1>1. sig \in Signal
  BY DEF FillsTypeOK, OpenTrade
<1>2. /\ sig.direction \in {"long", "short"} /\ sig.entry_px \in Prices
      /\ sig.stop_px \in Levels /\ sig.target_px \in Levels
  BY <1>1 DEF Signal
<1>3. PICK equity \in Equities, slip \in Slippages :
        LET size == ComputeSizeUsd(equity, sig.entry_px, sig.stop_px)
        IN  /\ size > 0
            /\ rows' = Append(rows,
                 [direction |-> sig.direction, entry_px |-> sig.entry_px,
                  stop_px |-> sig.stop_px, target_px |-> sig.target_px,
                  equity |-> equity, size_usd |-> size,
                  entry_fill_px |-> ApplySlippage(sig.direction, sig.entry_px, slip),
                  opened_ms |-> now, mae_usd |-> 0, mfe_usd |-> 0, status |-> "open",
                  exit_px_intended |-> 0, exit_px |-> 0, exit_reason |-> None])
  BY DEF OpenTrade
<1> DEFINE size == ComputeSizeUsd(equity, sig.entry_px, sig.stop_px)
           fill == ApplySlippage(sig.direction, sig.entry_px, slip)
           new == [direction |-> sig.direction, entry_px |-> sig.entry_px,
                   stop_px |-> sig.stop_px, target_px |-> sig.target_px,
                   equity |-> equity, size_usd |-> size, entry_fill_px |-> fill,
                   opened_ms |-> now, mae_usd |-> 0, mfe_usd |-> 0, status |-> "open",
                   exit_px_intended |-> 0, exit_px |-> 0, exit_reason |-> None]
<1>4. equity \in Int /\ sig.entry_px \in Nat /\ sig.stop_px \in Int /\ now \in Nat
  BY <1>2, PricesAreNumbers, Settings DEF FillsTypeOK, MarketTypeOK
<1>5. /\ size \in Nat \ {0} /\ size <= MaxPositionUsd /\ size <= equity * MaxLeverage
      /\ 100 * size * Distance(sig.entry_px, sig.stop_px) <= RiskPct * equity * sig.entry_px
  BY <1>3, <1>4, SizeIsBounded
<1>6. slip \in Nat
  BY SlippagesArePositive DEF FillsTypeOK
<1>7. /\ fill \in Int
      /\ sig.direction = "long" => fill >= sig.entry_px
      /\ sig.direction = "short" => fill <= sig.entry_px
  <2>1. /\ ApplySlippage("long", sig.entry_px, slip) \in Int
        /\ ApplySlippage("short", sig.entry_px, slip) \in Int
        /\ ApplySlippage("long", sig.entry_px, slip) >= sig.entry_px
        /\ ApplySlippage("short", sig.entry_px, slip) <= sig.entry_px
    <3>1. sig.entry_px \in Int /\ sig.entry_px >= 0
      BY <1>4
    <3> QED  BY <1>6, <3>1, AgainstUs
  <2>2. CASE sig.direction = "long"
    BY <2>1, <2>2
  <2>3. CASE sig.direction = "short"
    BY <2>1, <2>3
  <2> QED  BY <1>2, <2>2, <2>3
<1> HIDE DEF size, fill
<1>8. new \in Row
  BY <1>2, <1>4, <1>5, <1>7 DEF Row
<1>9. rows' = Append(rows, new)
  BY <1>3 DEF size, fill
<1> QED  BY <1>5, <1>7, <1>8, <1>9

\* What a step does to the table: a trade is added, or one row is marked or closed.
RowMarked(i) ==
    /\ job["manager"] # None /\ job["manager"].at = "mark" /\ i = job["manager"].id
    /\ rows[i].status = "open"
    /\ rows' = [rows EXCEPT ![i] = [@ EXCEPT !.mae_usd = job["manager"].mae_usd,
                                             !.mfe_usd = job["manager"].mfe_usd]]
RowClosed(p) ==
    /\ job[p] # None /\ job[p].at = "commit"
    /\ rows' = [rows EXCEPT ![job[p].id] =
          [@ EXCEPT !.status = "closed", !.exit_px_intended = job[p].px,
                    !.exit_px = job[p].fill_px, !.exit_reason = job[p].reason]]

LEMMA TableMoves ==
  ASSUME [FillsNext]_allVars
  PROVE  \/ rows' = rows \/ OpenTrade \/ (\E i \in DOMAIN rows : RowMarked(i) /\ ManagerMarks)
         \/ (\E p \in Closers : RowClosed(p) /\ CloseCommits(p))
         \/ (job["manager"] # None /\ job["manager"].id \notin DOMAIN rows)
<1>1. CASE ManagerMarks
  <2> DEFINE j == job["manager"]
  <2>1. /\ j # None /\ j.at = "mark"
        /\ rows' = IF rows[j.id].status = "open"
                   THEN [rows EXCEPT ![j.id].mae_usd = j.mae_usd, ![j.id].mfe_usd = j.mfe_usd]
                   ELSE rows
    BY <1>1 DEF ManagerMarks
  <2>2. CASE j.id \in DOMAIN rows /\ rows[j.id].status = "open"
    <3>1. rows' = [rows EXCEPT ![j.id] = [@ EXCEPT !.mae_usd = j.mae_usd, !.mfe_usd = j.mfe_usd]]
      BY <2>1, <2>2
    <3> QED  BY <1>1, <2>1, <2>2, <3>1 DEF RowMarked
  <2> QED  BY <1>1, <2>1, <2>2
<1>2. ASSUME NEW p \in Closers, CloseCommits(p) PROVE RowClosed(p)
  BY <1>2 DEF CloseCommits, RowClosed
<1>3. CASE Market \/ (Orchestrator /\ ~OpenTrade)
  BY <1>3 DEF Market, Orchestrator, fillVars, Evaluate, Dropped
<1>4. CASE ManagerTick \/ ManagerLooks \/ ManagerSkips \/ Emergency
  BY <1>4 DEF ManagerTick, ManagerLooks, ManagerSkips, Emergency, EmergencyCloseAll, EmergencyLooks
<1>5. CASE FillsRestart \/ UNCHANGED allVars
  BY <1>5 DEF FillsRestart, allVars, fillVars
<1>6. ASSUME NEW p \in Closers, CloseReads(p) \/ CloseSkips(p) \/ CloserError(p) PROVE rows' = rows
  BY <1>6 DEF CloseReads, CloseSkips, CloserError
<1> QED  BY <1>1, <1>2, <1>3, <1>4, <1>5, <1>6 DEF FillsNext, Manager, Close

\* The trade of a row stays what it is, and a closed row stays closed.
SameTrade(r, t) ==
    /\ r.direction = t.direction /\ r.entry_px = t.entry_px /\ r.stop_px = t.stop_px
    /\ r.entry_fill_px = t.entry_fill_px /\ r.equity = t.equity /\ r.size_usd = t.size_usd

LEMMA RowsStay ==
  ASSUME FillsTypeOK, BarsAreTheTrades, [FillsNext]_allVars
  PROVE  /\ rows' \in Seq(Row) /\ DOMAIN rows \subseteq DOMAIN rows'
         /\ \A i \in DOMAIN rows : SameTrade(rows'[i], rows[i])
<1>1. CASE rows' = rows
  BY <1>1 DEF FillsTypeOK, SameTrade
<1>2. CASE OpenTrade
  <2>1. PICK new \in Row : rows' = Append(rows, new)
    BY <1>2, OpenTradeTypes
  <2>2. rows \in Seq(Row)
    BY DEF FillsTypeOK
  <2>3. /\ rows' \in Seq(Row) /\ DOMAIN rows \subseteq DOMAIN rows'
        /\ \A i \in DOMAIN rows : rows'[i] = rows[i]
    BY <2>1, <2>2
  <2> QED  BY <2>3 DEF SameTrade
<1>3. ASSUME NEW i \in DOMAIN rows, RowMarked(i)
      PROVE  /\ rows' \in Seq(Row) /\ DOMAIN rows \subseteq DOMAIN rows'
             /\ \A k \in DOMAIN rows : SameTrade(rows'[k], rows[k])
  <2> DEFINE j == job["manager"]
             new == [rows[i] EXCEPT !.mae_usd = j.mae_usd, !.mfe_usd = j.mfe_usd]
  <2>1. j \in Job /\ rows' = [rows EXCEPT ![i] = new]
    BY <1>3, JobsTyped DEF RowMarked, Closers
  <2>2. rows[i] \in Row /\ j.mae_usd \in Int /\ j.mfe_usd \in Int
    BY <2>1, RowsTyped DEF Job
  <2>3. new \in Row /\ SameTrade(new, rows[i])
    BY <2>2 DEF Row, SameTrade
  <2>4. rows \in Seq(Row)
    BY DEF FillsTypeOK
  <2> HIDE DEF new, j
  <2>5. rows' \in Seq(Row) /\ DOMAIN rows' = DOMAIN rows
    BY <2>1, <2>3, <2>4, ExceptSeq
  <2>6. \A k \in DOMAIN rows : rows'[k] = IF k = i THEN new ELSE rows[k]
    BY <2>1
  <2> QED  BY <2>3, <2>5, <2>6 DEF SameTrade
<1>4. ASSUME NEW p \in Closers, RowClosed(p)
      PROVE  /\ rows' \in Seq(Row) /\ DOMAIN rows \subseteq DOMAIN rows'
             /\ \A k \in DOMAIN rows : SameTrade(rows'[k], rows[k])
  <2> DEFINE j == job[p]
             i == job[p].id
             new == [rows[i] EXCEPT !.status = "closed", !.exit_px_intended = j.px,
                                    !.exit_px = j.fill_px, !.exit_reason = j.reason]
  <2>1. j \in Job /\ i \in DOMAIN rows /\ rows' = [rows EXCEPT ![i] = new]
    BY <1>4, JobsTyped DEF RowClosed
  <2>2. rows[i] \in Row /\ j.px \in Int /\ j.fill_px \in Int /\ j.reason \in Reasons \cup {None}
    BY <2>1, RowsTyped DEF Job
  <2>3. new \in Row /\ SameTrade(new, rows[i])
    BY <2>2 DEF Row, SameTrade
  <2>4. rows \in Seq(Row)
    BY DEF FillsTypeOK
  <2> HIDE DEF new, i, j
  <2>5. rows' \in Seq(Row) /\ DOMAIN rows' = DOMAIN rows
    BY <2>1, <2>3, <2>4, ExceptSeq
  <2>6. \A k \in DOMAIN rows : rows'[k] = IF k = i THEN new ELSE rows[k]
    BY <2>1
  <2> QED  BY <2>3, <2>5, <2>6 DEF SameTrade
<1>5. ~(job["manager"] # None /\ job["manager"].id \notin DOMAIN rows)
  BY JobsTyped DEF Closers
<1> QED  BY <1>1, <1>2, <1>3, <1>4, <1>5, TableMoves

\* What a list holds are rows as they were when they were listed.
LEMMA OpenRowsTyped ==
  ASSUME FillsTypeOK
  PROVE  DOMAIN OpenRows \subseteq DOMAIN rows /\ \A i \in DOMAIN OpenRows : OpenRows[i] = rows[i]
BY DEF OpenRows

LEMMA NoRowsIsEmpty == DOMAIN NoRows = {}
BY DEF NoRows

LEMMA WithoutOne ==
  ASSUME NEW f, NEW i
  PROVE  /\ DOMAIN Without(f, i) \subseteq DOMAIN f
         /\ \A j \in DOMAIN Without(f, i) : Without(f, i)[j] = f[j]
BY DEF Without

\* A list only loses rows, but when it is made.
LEMMA ListsMove ==
  ASSUME FillsTypeOK, [FillsNext]_allVars
  PROVE  /\ DOMAIN todo' = Closers
         /\ \A p \in Closers :
              \/ todo'[p] = OpenRows
              \/ /\ DOMAIN todo'[p] \subseteq DOMAIN todo[p]
                 /\ \A i \in DOMAIN todo'[p] : todo'[p][i] = todo[p][i]
<1>0. DOMAIN todo = Closers /\ "manager" \in Closers /\ "emergency" \in Closers
  BY DEF FillsTypeOK, Closers
<1>1. CASE todo' = todo
  BY <1>0, <1>1
<1>2. ASSUME NEW p \in Closers, todo' = [todo EXCEPT ![p] = OpenRows]
      PROVE  /\ DOMAIN todo' = Closers
             /\ \A q \in Closers : todo'[q] = OpenRows \/ todo'[q] = todo[q]
  BY <1>0, <1>2
<1>3. ASSUME NEW p \in Closers, NEW i, todo' = [todo EXCEPT ![p] = Without(@, i)]
      PROVE  /\ DOMAIN todo' = Closers
             /\ \A q \in Closers : /\ DOMAIN todo'[q] \subseteq DOMAIN todo[q]
                                   /\ \A k \in DOMAIN todo'[q] : todo'[q][k] = todo[q][k]
  <2>1. \A q \in Closers : todo'[q] = IF q = p THEN Without(todo[q], i) ELSE todo[q]
    BY <1>0, <1>3
  <2> QED  BY <1>0, <1>3, <2>1, WithoutOne
<1>4. ASSUME NEW p \in Closers, todo' = [todo EXCEPT ![p] = NoRows]
      PROVE  /\ DOMAIN todo' = Closers
             /\ \A q \in Closers : /\ DOMAIN todo'[q] \subseteq DOMAIN todo[q]
                                   /\ \A k \in DOMAIN todo'[q] : todo'[q][k] = todo[q][k]
  <2>1. \A q \in Closers : todo'[q] = IF q = p THEN NoRows ELSE todo[q]
    BY <1>0, <1>4
  <2> QED  BY <1>0, <1>4, <2>1, NoRowsIsEmpty
<1>5. CASE Market \/ Orchestrator \/ UNCHANGED allVars
  BY <1>1, <1>5 DEF Market, Orchestrator, Evaluate, OpenTrade, Dropped, allVars, fillVars
<1>6. CASE ManagerTick \/ EmergencyCloseAll
  BY <1>0, <1>2, <1>6 DEF ManagerTick, EmergencyCloseAll
<1>7. CASE ManagerLooks \/ ManagerSkips \/ EmergencyLooks
  <2>1. \E p \in Closers : \E i : todo' = [todo EXCEPT ![p] = Without(@, i)]
    BY <1>0, <1>7 DEF ManagerLooks, ManagerSkips, EmergencyLooks
  <2> QED  BY <1>3, <2>1
<1>8. CASE ManagerMarks
  BY <1>1, <1>8 DEF ManagerMarks
<1>9. CASE FillsRestart
  <2>1. todo' = [p \in Closers |-> NoRows]
    BY <1>9 DEF FillsRestart
  <2> QED  BY <2>1, NoRowsIsEmpty
<1>10. ASSUME NEW p \in Closers, Close(p)
       PROVE  /\ DOMAIN todo' = Closers
              /\ \A q \in Closers : /\ DOMAIN todo'[q] \subseteq DOMAIN todo[q]
                                    /\ \A k \in DOMAIN todo'[q] : todo'[q][k] = todo[q][k]
  <2>1. CASE CloseReads(p) \/ CloseSkips(p) \/ CloseCommits(p)
    BY <1>0, <2>1 DEF CloseReads, CloseSkips, CloseCommits
  <2>2. CASE CloserError(p)
    BY <1>4, <2>2 DEF CloserError
  <2> QED  BY <1>10, <2>1, <2>2 DEF Close
<1> QED  BY <1>5, <1>6, <1>7, <1>8, <1>9, <1>10 DEF FillsNext, Manager, Emergency

\* What a closer does next.
Looks(p) ==
    /\ job[p] = None
    /\ \E i \in DOMAIN todo[p] :
          LET r   == todo[p][i]
              pnl == Unrealized(r, LatestPrice)
          IN  job'[p] =
                IF p = "manager"
                THEN IF ~(pnl < r.mae_usd \/ pnl > r.mfe_usd) /\ CheckExit(r, LatestPrice) = None
                     THEN None
                     ELSE [id |-> i,
                           at |-> IF pnl < r.mae_usd \/ pnl > r.mfe_usd THEN "mark" ELSE "read",
                           px |-> LatestPrice, reason |-> CheckExit(r, LatestPrice),
                           mae_usd |-> Min({r.mae_usd, pnl}), mfe_usd |-> Max({r.mfe_usd, pnl}),
                           fill_px |-> 0]
                ELSE [id |-> i, at |-> "read", reason |-> "emergency_stop",
                      px |-> IF LatestPrice = None THEN r.entry_fill_px ELSE LatestPrice,
                      mae_usd |-> r.mae_usd, mfe_usd |-> r.mfe_usd, fill_px |-> 0]
    /\ p = "manager" => LatestPrice # None
    /\ UNCHANGED rows
Marked(p) ==
    /\ p = "manager" /\ job[p] # None /\ job[p].at = "mark" /\ job[p].reason # None
    /\ job'[p] = [job[p] EXCEPT !.at = "read"]
    /\ rows' = IF rows[job[p].id].status = "open"
               THEN [rows EXCEPT ![job[p].id].mae_usd = job[p].mae_usd,
                                 ![job[p].id].mfe_usd = job[p].mfe_usd]
               ELSE rows
Reads(p) ==
    /\ job[p] # None /\ job[p].at = "read" /\ rows[job[p].id].status = "open"
    /\ \E slip \in Slippages :
          job'[p] = [job[p] EXCEPT !.at = "commit",
                       !.fill_px = ApplySlippage(Opposite(rows[job[p].id].direction), job[p].px, slip)]
    /\ UNCHANGED rows

LEMMA MarkingMovesOn ==
  ASSUME FillsTypeOK, ManagerMarks
  PROVE  job'["manager"] # job["manager"]
<1>1. job["manager"] \in Job /\ job["manager"] # None /\ job["manager"].at = "mark"
  BY JobsTyped DEF ManagerMarks, Closers
<1>2. job'["manager"] = None \/ job'["manager"] = [job["manager"] EXCEPT !.at = "read"]
  BY DEF ManagerMarks, FillsTypeOK, Closers
<1>3. [job["manager"] EXCEPT !.at = "read"].at = "read"
  BY <1>1 DEF Job
<1> QED  BY <1>1, <1>2, <1>3

LEMMA JobsMove ==
  ASSUME FillsTypeOK, [FillsNext]_allVars, NEW p \in Closers
  PROVE  /\ DOMAIN job' = Closers
         /\ job'[p] = None \/ job'[p] = job[p] \/ Looks(p) \/ Marked(p) \/ Reads(p)
<1>0. /\ DOMAIN job = Closers /\ "manager" \in Closers /\ "emergency" \in Closers
      /\ p \in {"manager", "emergency"} /\ "manager" # "emergency"
  BY DEF FillsTypeOK, Closers
<1>2. CASE Market \/ Orchestrator \/ ManagerTick \/ ManagerSkips \/ EmergencyCloseAll \/ UNCHANGED allVars
  <2>1. job' = job
    BY <1>2 DEF Market, Orchestrator, Evaluate, OpenTrade, Dropped, ManagerTick, ManagerSkips,
                EmergencyCloseAll, allVars, fillVars
  <2> QED  BY <1>0, <2>1
<1>3. CASE ManagerLooks
  <2>1. p = "emergency" => job'[p] = job[p]
    BY <1>0, <1>3 DEF ManagerLooks
  <2>2. p = "manager" => Looks(p)
    <3> SUFFICES ASSUME p = "manager" PROVE Looks("manager")
      OBVIOUS
    <3> DEFINE pnl(i) == Unrealized(todo["manager"][i], LatestPrice)
               reason(i) == CheckExit(todo["manager"][i], LatestPrice)
               marks(i) == pnl(i) < todo["manager"][i].mae_usd \/ pnl(i) > todo["manager"][i].mfe_usd
               next(i) == IF ~marks(i) /\ reason(i) = None THEN None
                          ELSE [id |-> i, at |-> IF marks(i) THEN "mark" ELSE "read",
                                px |-> LatestPrice, reason |-> reason(i),
                                mae_usd |-> Min({todo["manager"][i].mae_usd, pnl(i)}),
                                mfe_usd |-> Max({todo["manager"][i].mfe_usd, pnl(i)}),
                                fill_px |-> 0]
    <3>1. PICK i \in DOMAIN todo["manager"] : job' = [job EXCEPT !["manager"] = next(i)]
      BY <1>3 DEF ManagerLooks
    <3>2. job'["manager"] = next(i)
      BY <1>0, <3>1
    <3>3. job["manager"] = None /\ LatestPrice # None /\ UNCHANGED rows
      BY <1>3 DEF ManagerLooks
    <3> QED  BY <3>2, <3>3 DEF Looks
  <2>3. DOMAIN job' = Closers
    BY <1>0, <1>3 DEF ManagerLooks
  <2> QED  BY <1>0, <2>1, <2>2, <2>3
<1>4. CASE EmergencyLooks
  <2>1. p = "manager" => job'[p] = job[p]
    BY <1>0, <1>4 DEF EmergencyLooks
  <2>2. p = "emergency" => Looks(p)
    BY <1>0, <1>4 DEF EmergencyLooks, Looks
  <2>3. DOMAIN job' = Closers
    BY <1>0, <1>4 DEF EmergencyLooks
  <2> QED  BY <1>0, <2>1, <2>2, <2>3
<1>5. CASE ManagerMarks
  <2>1. p = "emergency" => job'[p] = job[p]
    BY <1>0, <1>5 DEF ManagerMarks
  <2>2. p = "manager" => job'[p] = None \/ Marked(p)
    BY <1>0, <1>5 DEF ManagerMarks, Marked
  <2>3. DOMAIN job' = Closers
    BY <1>0, <1>5 DEF ManagerMarks
  <2> QED  BY <1>0, <2>1, <2>2, <2>3
<1>6. CASE FillsRestart
  <2>1. job' = [q \in Closers |-> None]
    BY <1>6 DEF FillsRestart
  <2> QED  BY <2>1
<1>7. ASSUME NEW q \in Closers, Close(q)
      PROVE  /\ DOMAIN job' = Closers
             /\ job'[p] = None \/ job'[p] = job[p] \/ Reads(p)
  <2>1. CASE CloseReads(q)
    BY <1>0, <2>1 DEF CloseReads, Reads
  <2>2. CASE CloseSkips(q) \/ CloseCommits(q) \/ CloserError(q)
    BY <1>0, <2>2 DEF CloseSkips, CloseCommits, CloserError
  <2> QED  BY <1>7, <2>1, <2>2 DEF Close
<1> QED  BY <1>2, <1>3, <1>4, <1>5, <1>6, <1>7 DEF FillsNext, Manager, Emergency

----------------------------------------------------------------------------
LEMMA LooksTyped ==
  ASSUME FillsTypeOK, NEW p \in Closers, Looks(p), NEW i \in DOMAIN todo[p]
  PROVE  /\ i \in DOMAIN rows /\ i \in Nat \ {0} /\ todo[p][i] \in Row
         /\ CheckExit(todo[p][i], LatestPrice) \in ManagerReasons \cup {None}
         /\ LatestPrice # None => /\ LatestPrice \in Prices /\ LatestPrice \in Int
                                  /\ Unrealized(todo[p][i], LatestPrice) \in Int
<1>1. i \in DOMAIN rows /\ todo[p][i] \in Row
  BY DEF FillsTypeOK
<1>2. i \in Nat \ {0}
  BY <1>1, RowsTyped
<1>3. CheckExit(todo[p][i], LatestPrice) \in ManagerReasons \cup {None}
  BY DEF CheckExit, ManagerReasons
<1>4. ASSUME LatestPrice # None
      PROVE  LatestPrice \in Prices /\ LatestPrice \in Int
  BY <1>4, LatestIsPrice, PricesAreNumbers DEF FillsTypeOK
<1>5. todo[p][i].entry_fill_px \in Int
  BY <1>1 DEF Row
<1>6. LatestPrice # None => Unrealized(todo[p][i], LatestPrice) \in Int
  BY <1>4, <1>5 DEF Unrealized
<1> QED  BY <1>1, <1>2, <1>3, <1>4, <1>6

LEMMA JobTypeStep ==
  ASSUME FillsTypeOK, BarsAreTheTrades, [FillsNext]_allVars, NEW p \in Closers
  PROVE  job'[p] = None \/ (job'[p] \in Job /\ job'[p].id \in DOMAIN rows')
<1>0. DOMAIN rows \subseteq DOMAIN rows'
  BY RowsStay
<1>1. CASE job'[p] = job[p]
  BY <1>0, <1>1 DEF FillsTypeOK
<1>2. CASE Looks(p)
  <2>1. PICK i \in DOMAIN todo[p] :
          LET r   == todo[p][i]
              pnl == Unrealized(r, LatestPrice)
          IN  job'[p] =
                IF p = "manager"
                THEN IF ~(pnl < r.mae_usd \/ pnl > r.mfe_usd) /\ CheckExit(r, LatestPrice) = None
                     THEN None
                     ELSE [id |-> i,
                           at |-> IF pnl < r.mae_usd \/ pnl > r.mfe_usd THEN "mark" ELSE "read",
                           px |-> LatestPrice, reason |-> CheckExit(r, LatestPrice),
                           mae_usd |-> Min({r.mae_usd, pnl}), mfe_usd |-> Max({r.mfe_usd, pnl}),
                           fill_px |-> 0]
                ELSE [id |-> i, at |-> "read", reason |-> "emergency_stop",
                      px |-> IF LatestPrice = None THEN r.entry_fill_px ELSE LatestPrice,
                      mae_usd |-> r.mae_usd, mfe_usd |-> r.mfe_usd, fill_px |-> 0]
    BY <1>2 DEF Looks
  <2>2. i \in DOMAIN rows' /\ i \in Nat \ {0} /\ todo[p][i] \in Row
    BY <1>0, <1>2, LooksTyped
  <2> DEFINE r == todo[p][i]
             pnl == Unrealized(r, LatestPrice)
             reason == CheckExit(r, LatestPrice)
  <2>3. r.mae_usd \in Int /\ r.mfe_usd \in Int /\ r.entry_fill_px \in Int
    BY <2>2 DEF Row
  <2>4. CASE p = "manager"
    <3>1. LatestPrice \in Int /\ pnl \in Int /\ reason \in Reasons \cup {None}
      BY <1>2, <2>4, LooksTyped DEF Looks, Reasons
    <3>2. Min({r.mae_usd, pnl}) \in Int /\ Max({r.mfe_usd, pnl}) \in Int
      BY <2>3, <3>1, MaxOfTwo
    <3> HIDE DEF r, pnl, reason
    <3>3. ~(job'[p] = None) =>
             job'[p] = [id |-> i, at |-> IF pnl < r.mae_usd \/ pnl > r.mfe_usd THEN "mark" ELSE "read",
                        px |-> LatestPrice, reason |-> reason,
                        mae_usd |-> Min({r.mae_usd, pnl}), mfe_usd |-> Max({r.mfe_usd, pnl}),
                        fill_px |-> 0]
      BY <2>1, <2>4 DEF r, pnl, reason
    <3>4. (IF pnl < r.mae_usd \/ pnl > r.mfe_usd THEN "mark" ELSE "read") \in {"mark", "read", "commit"}
      OBVIOUS
    <3>5. ~(job'[p] = None) => job'[p] \in Job /\ job'[p].id = i
      BY <2>2, <3>1, <3>2, <3>3, <3>4 DEF Job
    <3> QED  BY <2>2, <3>5
  <2>5. CASE p # "manager"
    <3>1. job'[p] = [id |-> i, at |-> "read", reason |-> "emergency_stop",
                     px |-> IF LatestPrice = None THEN r.entry_fill_px ELSE LatestPrice,
                     mae_usd |-> r.mae_usd, mfe_usd |-> r.mfe_usd, fill_px |-> 0]
      BY <2>1, <2>5
    <3>2. (IF LatestPrice = None THEN r.entry_fill_px ELSE LatestPrice) \in Int
      BY <1>2, <2>3, LooksTyped
    <3>3. "emergency_stop" \in Reasons \cup {None}
      BY DEF Reasons
    <3> HIDE DEF r
    <3>4. job'[p] \in Job /\ job'[p].id = i
      BY <2>2, <2>3, <3>1, <3>2, <3>3 DEF Job
    <3> QED  BY <2>2, <3>4
  <2> QED  BY <2>4, <2>5
<1>3. CASE Marked(p)
  <2>1. job[p] \in Job /\ job[p].id \in DOMAIN rows
    BY <1>3, JobsTyped DEF Marked
  <2> QED  BY <1>0, <1>3, <2>1 DEF Marked, Job
<1>4. CASE Reads(p)
  <2>1. job[p] \in Job /\ job[p].id \in DOMAIN rows /\ rows[job[p].id] \in Row /\ job[p].px \in Int
    BY <1>4, JobsTyped DEF Reads
  <2>2. PICK slip \in Slippages :
          job'[p] = [job[p] EXCEPT !.at = "commit",
                       !.fill_px = ApplySlippage(Opposite(rows[job[p].id].direction), job[p].px, slip)]
    BY <1>4 DEF Reads
  <2>3. slip \in Nat /\ Opposite(rows[job[p].id].direction) \in {"long", "short"}
    BY SlippagesArePositive DEF FillsTypeOK, Opposite
  <2>4. ApplySlippage(Opposite(rows[job[p].id].direction), job[p].px, slip) \in Int
    BY <2>1, <2>3, AgainstUs
  <2>5. job'[p] \in Job /\ job'[p].id = job[p].id
    BY <2>1, <2>2, <2>4 DEF Job
  <2> QED  BY <1>0, <2>1, <2>5
<1> QED  BY <1>1, <1>2, <1>3, <1>4, JobsMove

LEMMA FillsTypeStep ==
  ASSUME FillsTypeOK, BarsAreTheTrades, [FillsNext]_allVars
  PROVE  FillsTypeOK' /\ BarsAreTheTrades'
<1>1. MarketTypeOK' /\ BarsAreTheTrades' /\ now \in Nat /\ now' \in Nat /\ now' >= now
  BY MarketMoves
<1>2. rows' \in Seq(Row) /\ DOMAIN rows \subseteq DOMAIN rows'
  BY RowsStay
<1>3. sig' \in Signal \cup {None}
  <2>1. CASE Evaluate
    <3>1. LatestPrice \in Prices
      BY <2>1, LatestIsPrice DEF Evaluate, FillsTypeOK
    <3> QED  BY <2>1, <3>1 DEF Evaluate, Signal
  <2>2. CASE OpenTrade \/ Dropped \/ FillsRestart
    BY <2>2 DEF OpenTrade, Dropped, FillsRestart
  <2>3. CASE Market \/ Manager \/ Emergency \/ UNCHANGED allVars
    BY <2>3 DEF Market, Manager, Emergency, ManagerTick, ManagerLooks, ManagerSkips, ManagerMarks,
                EmergencyCloseAll, EmergencyLooks, allVars, fillVars, FillsTypeOK
  <2>4. CASE \E p \in Closers : Close(p)
    BY <2>4 DEF Close, CloseReads, CloseSkips, CloseCommits, CloserError, FillsTypeOK
  <2> QED  BY <2>1, <2>2, <2>3, <2>4 DEF FillsNext, Orchestrator
<1>4. tick_ms' \in 0 .. now'
  <2>1. tick_ms' \in {tick_ms, now, 0}
    <3>1. CASE Market \/ Orchestrator \/ UNCHANGED allVars
      BY <3>1 DEF Market, Orchestrator, Evaluate, OpenTrade, Dropped, allVars, fillVars
    <3>2. CASE Manager \/ Emergency \/ FillsRestart
      BY <3>2 DEF Manager, Emergency, ManagerTick, ManagerLooks, ManagerSkips, ManagerMarks,
                  EmergencyCloseAll, EmergencyLooks, FillsRestart
    <3>3. CASE \E p \in Closers : Close(p)
      BY <3>3 DEF Close, CloseReads, CloseSkips, CloseCommits, CloserError
    <3> QED  BY <3>1, <3>2, <3>3 DEF FillsNext
  <2> QED  BY <1>1, <2>1 DEF FillsTypeOK
<1>5. faults' \in Nat
  <2>1. CASE Market \/ Orchestrator \/ UNCHANGED allVars
    BY <2>1 DEF Market, Orchestrator, Evaluate, OpenTrade, Dropped, allVars, fillVars, FillsTypeOK
  <2>2. CASE Manager \/ Emergency \/ FillsRestart
    <3>1. faults \in Nat
      BY DEF FillsTypeOK
    <3>2. faults' \in {faults, faults + 1}
      BY <2>2 DEF Manager, Emergency, ManagerTick, ManagerLooks, ManagerSkips, ManagerMarks,
                  EmergencyCloseAll, EmergencyLooks, FillsRestart
    <3> QED  BY <3>1, <3>2
  <2>3. ASSUME NEW p \in Closers, Close(p) PROVE faults' \in Nat
    <3>1. faults \in Nat
      BY DEF FillsTypeOK
    <3>2. CASE CloserError(p)
      <4>1. faults' = faults + 1
        BY <3>2 DEF CloserError
      <4> QED  BY <3>1, <4>1
    <3>3. CASE CloseReads(p) \/ CloseSkips(p) \/ CloseCommits(p)
      BY <3>1, <3>3 DEF CloseReads, CloseSkips, CloseCommits
    <3> QED  BY <2>3, <3>2, <3>3 DEF Close
  <2> QED  BY <2>1, <2>2, <2>3 DEF FillsNext
<1>6. DOMAIN todo' = Closers /\ \A p \in Closers :
        /\ DOMAIN todo'[p] \subseteq DOMAIN rows'
        /\ \A i \in DOMAIN todo'[p] : todo'[p][i] \in Row
  <2> SUFFICES ASSUME NEW p \in Closers
               PROVE  /\ DOMAIN todo'[p] \subseteq DOMAIN rows
                      /\ \A i \in DOMAIN todo'[p] : todo'[p][i] \in Row
    BY <1>2, ListsMove
  <2>1. CASE todo'[p] = OpenRows
    BY <2>1, OpenRowsTyped, RowsTyped
  <2>2. CASE /\ DOMAIN todo'[p] \subseteq DOMAIN todo[p]
             /\ \A i \in DOMAIN todo'[p] : todo'[p][i] = todo[p][i]
    BY <2>2 DEF FillsTypeOK
  <2> QED  BY <2>1, <2>2, ListsMove
<1>7. DOMAIN job' = Closers
  BY JobsMove DEF Closers
<1>8. \A p \in Closers : job'[p] = None \/ (job'[p] \in Job /\ job'[p].id \in DOMAIN rows')
  BY JobTypeStep
<1> QED  BY <1>1, <1>2, <1>3, <1>4, <1>5, <1>6, <1>7, <1>8 DEF FillsTypeOK

\* Types of the market and of the table.
THEOREM FillsTypeCorrect == FillsSpec => [](FillsTypeOK /\ BarsAreTheTrades)
<1>1. FillsInit => FillsTypeOK /\ BarsAreTheTrades
  <2> SUFFICES ASSUME FillsInit PROVE FillsTypeOK /\ BarsAreTheTrades
    OBVIOUS
  <2>1. MarketTypeOK /\ BarsAreTheTrades
    BY Lengths DEF FillsInit, MarketInit, MarketTypeOK, BarsAreTheTrades, Bars
  <2>2. now = 0 /\ tick_ms = 0 /\ sig = None /\ rows = <<>> /\ faults = 0
    BY DEF FillsInit, MarketInit
  <2>3. /\ DOMAIN todo = Closers /\ DOMAIN job = Closers
        /\ \A p \in Closers : DOMAIN todo[p] = {} /\ job[p] = None
    BY NoRowsIsEmpty DEF FillsInit
  <2> QED  BY <2>1, <2>2, <2>3 DEF FillsTypeOK
<1>2. FillsTypeOK /\ BarsAreTheTrades /\ [FillsNext]_allVars => FillsTypeOK' /\ BarsAreTheTrades'
  BY FillsTypeStep
<1> QED  BY <1>1, <1>2, PTL DEF FillsSpec

\* The bars are those of the trades, on every market.
THEOREM BarsAreCorrect == FillsSpec => []BarsAreTheTrades
BY FillsTypeCorrect, PTL

----------------------------------------------------------------------------
(* What makes a stop a loss and an excursion cover its exit.               *)

\* The stop is behind the price of the signal.
StopBehind(direction, entry, stop) == IF direction = "long" THEN stop < entry ELSE entry < stop

Covers(r, px) == r.mae_usd <= Unrealized(r, px) /\ Unrealized(r, px) <= r.mfe_usd

\* What a row is opened with.
EntryInv(r) ==
    /\ StopBehind(r.direction, r.entry_px, r.stop_px)
    /\ r.direction = "long" => r.entry_fill_px >= r.entry_px
    /\ r.direction = "short" => r.entry_fill_px <= r.entry_px
    /\ r.size_usd <= MaxPositionUsd /\ r.size_usd <= r.equity * MaxLeverage
    /\ 100 * r.size_usd * Distance(r.entry_px, r.stop_px) <= RiskPct * r.equity * r.entry_px

\* What a row is closed with.
ExitInv(r) ==
    /\ r.status = "open" => r.exit_reason = None
    /\ r.exit_reason = "stop" => Beyond(Opposite(r.direction), r.exit_px, r.stop_px)
    /\ r.exit_reason \in ManagerReasons => Covers(r, r.exit_px_intended)

\* The list is what the table says, but for the rows that were closed since.
ListInv ==
    /\ \A i \in DOMAIN todo["manager"] :
          /\ SameTrade(rows[i], todo["manager"][i])
          /\ rows[i].mae_usd = todo["manager"][i].mae_usd
          /\ rows[i].mfe_usd = todo["manager"][i].mfe_usd
    /\ job["manager"] # None => job["manager"].id \notin DOMAIN todo["manager"]

\* What the manager is about to close with, of the row r.
CloseInv(j, r) ==
    /\ j.reason \in ManagerReasons \cup {None} /\ j.px \in Nat
    /\ j.at # "mark" => j.reason # None
    /\ j.reason = "stop" => Beyond(Opposite(r.direction), j.px, r.stop_px)
    /\ j.reason = "stop" /\ j.at = "commit" => Beyond(Opposite(r.direction), j.fill_px, r.stop_px)
    /\ j.at = "mark" => j.mae_usd <= Unrealized(r, j.px) /\ Unrealized(r, j.px) <= j.mfe_usd
    /\ j.at = "commit" \/ (j.at = "read" /\ r.status = "open") => Covers(r, j.px)

FillsInv ==
    /\ sig # None => StopBehind(sig.direction, sig.entry_px, sig.stop_px)
    /\ \A i \in DOMAIN rows : EntryInv(rows[i]) /\ ExitInv(rows[i])
    /\ ListInv
    /\ job["manager"] # None => CloseInv(job["manager"], rows[job["manager"].id])
    /\ job["emergency"] # None => job["emergency"].reason = "emergency_stop" /\ job["emergency"].at # "mark"

LEMMA SameTradeSameResult ==
  ASSUME NEW r, NEW t, SameTrade(r, t), NEW px
  PROVE  Unrealized(r, px) = Unrealized(t, px) /\ EntryInv(r) = EntryInv(t)
BY DEF SameTrade, Unrealized, EntryInv

LEMMA ResultsAreNumbers ==
  ASSUME NEW r \in Row, NEW px \in Int
  PROVE  /\ Unrealized(r, px) \in Int /\ r.mae_usd \in Int /\ r.mfe_usd \in Int
         /\ r.stop_px \in Int /\ r.entry_px \in Int /\ r.entry_fill_px \in Int
         /\ r.direction \in {"long", "short"} /\ r.exit_px \in Int /\ r.exit_px_intended \in Int
<1>1. r.entry_fill_px \in Int /\ r.mae_usd \in Int /\ r.mfe_usd \in Int /\ r.direction \in {"long", "short"}
  BY DEF Row
<1>2. r.stop_px \in Int /\ r.entry_px \in Int /\ r.exit_px \in Int /\ r.exit_px_intended \in Int
  BY PricesAreNumbers, Settings DEF Row
<1> QED  BY <1>1, <1>2 DEF Unrealized

\* A signal has its stop behind it.
LEMMA SigStep ==
  ASSUME FillsTypeOK, FillsInv, [FillsNext]_allVars, sig' # None
  PROVE  StopBehind(sig'.direction, sig'.entry_px, sig'.stop_px)
<1>1. CASE Evaluate
  <2>1. PICK direction \in {"long", "short"}, stop \in Levels, target \in Levels :
          /\ LatestPrice # stop /\ Beyond(direction, LatestPrice, stop)
          /\ sig' = [direction |-> direction, entry_px |-> LatestPrice,
                     stop_px |-> stop, target_px |-> target]
    BY <1>1 DEF Evaluate
  <2>2. LatestPrice \in Int /\ stop \in Int
    BY <1>1, LatestIsPrice, PricesAreNumbers, Settings DEF Evaluate, FillsTypeOK
  <2>3. StopBehind(direction, LatestPrice, stop)
    BY <2>1, <2>2 DEF Beyond, StopBehind
  <2> QED  BY <2>1, <2>3
<1>2. CASE OpenTrade \/ Dropped \/ FillsRestart
  BY <1>2 DEF OpenTrade, Dropped, FillsRestart
<1>3. CASE Market \/ Manager \/ Emergency \/ UNCHANGED allVars
  <2>1. sig' = sig
    BY <1>3 DEF Market, Manager, Emergency, ManagerTick, ManagerLooks, ManagerSkips, ManagerMarks,
                EmergencyCloseAll, EmergencyLooks, allVars, fillVars
  <2> QED  BY <2>1 DEF FillsInv
<1>4. ASSUME NEW p \in Closers, Close(p)
      PROVE  StopBehind(sig'.direction, sig'.entry_px, sig'.stop_px)
  <2>1. sig' = sig
    BY <1>4 DEF Close, CloseReads, CloseSkips, CloseCommits, CloserError
  <2> QED  BY <2>1 DEF FillsInv
<1> QED  BY <1>1, <1>2, <1>3, <1>4 DEF FillsNext, Orchestrator

\* Excursions are written by ManagerMarks alone, and a closed row stays closed.
LEMMA RowKept ==
  ASSUME FillsTypeOK, BarsAreTheTrades, [FillsNext]_allVars, NEW i \in DOMAIN rows
  PROVE  /\ \/ RowMarked(i) /\ ManagerMarks
            \/ rows'[i].mae_usd = rows[i].mae_usd /\ rows'[i].mfe_usd = rows[i].mfe_usd
         /\ rows'[i].status = "open" => rows[i].status = "open"
<1>0. rows[i] \in Row /\ DOMAIN rows = 1 .. Len(rows) /\ Len(rows) \in Nat
  BY RowsTyped
<1>1. CASE rows' = rows
  BY <1>1
<1>2. CASE OpenTrade
  <2>1. PICK new \in Row : rows' = Append(rows, new)
    BY <1>2, OpenTradeTypes
  <2>2. rows \in Seq(Row)
    BY DEF FillsTypeOK
  <2>3. rows'[i] = rows[i]
    BY <2>1, <2>2
  <2> QED  BY <2>3
<1>3. ASSUME NEW k \in DOMAIN rows, RowMarked(k) /\ ManagerMarks
      PROVE  (i = k /\ rows[i].status = "open") \/ rows'[i] = rows[i]
  BY <1>3 DEF RowMarked
<1>4. ASSUME NEW p \in Closers, RowClosed(p)
      PROVE  rows'[i] = rows[i] \/ rows'[i] = [rows[i] EXCEPT !.status = "closed",
               !.exit_px_intended = job[p].px, !.exit_px = job[p].fill_px, !.exit_reason = job[p].reason]
  BY <1>4 DEF RowClosed
<1>5. ASSUME NEW p \in Closers, RowClosed(p)
      PROVE  /\ rows'[i].mae_usd = rows[i].mae_usd /\ rows'[i].mfe_usd = rows[i].mfe_usd
             /\ rows'[i].status = "open" => rows[i].status = "open"
  <2>1. CASE rows'[i] = rows[i]
    BY <2>1
  <2>2. CASE rows'[i] = [rows[i] EXCEPT !.status = "closed",
               !.exit_px_intended = job[p].px, !.exit_px = job[p].fill_px, !.exit_reason = job[p].reason]
    BY <1>0, <2>2 DEF Row
  <2> QED  BY <1>4, <1>5, <2>1, <2>2
<1>6. ~(job["manager"] # None /\ job["manager"].id \notin DOMAIN rows)
  BY JobsTyped DEF Closers
<1> QED  BY <1>1, <1>2, <1>3, <1>5, <1>6, TableMoves

LEMMA RowStep ==
  ASSUME FillsTypeOK, BarsAreTheTrades, FillsInv, [FillsNext]_allVars, NEW i \in DOMAIN rows'
  PROVE  EntryInv(rows'[i]) /\ ExitInv(rows'[i])
<1>1. CASE rows' = rows
  BY <1>1 DEF FillsInv
<1>2. CASE OpenTrade
  <2>1. PICK new \in Row :
          /\ rows' = Append(rows, new) /\ new.status = "open" /\ new.exit_reason = None
          /\ new.direction = sig.direction /\ new.entry_px = sig.entry_px
          /\ new.stop_px = sig.stop_px
          /\ new.direction = "long" => new.entry_fill_px >= new.entry_px
          /\ new.direction = "short" => new.entry_fill_px <= new.entry_px
          /\ new.size_usd <= MaxPositionUsd /\ new.size_usd <= new.equity * MaxLeverage
          /\ 100 * new.size_usd * Distance(new.entry_px, new.stop_px)
               <= RiskPct * new.equity * new.entry_px
    BY <1>2, OpenTradeTypes
  <2>2. rows \in Seq(Row)
    BY DEF FillsTypeOK
  <2>3. rows'[i] = new \/ (i \in DOMAIN rows /\ rows'[i] = rows[i])
    BY <2>1, <2>2
  <2>4. EntryInv(new)
    BY <1>2, <2>1 DEF EntryInv, OpenTrade, FillsInv
  <2>5. None # "stop" /\ None \notin ManagerReasons
    BY FillsAssumption DEF FillsAssumption, ManagerReasons
  <2>6. ExitInv(new)
    BY <2>1, <2>5 DEF ExitInv
  <2> QED  BY <2>3, <2>4, <2>6 DEF FillsInv
<1>3. ASSUME NEW k \in DOMAIN rows, RowMarked(k)
      PROVE  EntryInv(rows'[i]) /\ ExitInv(rows'[i])
  <2>1. i \in DOMAIN rows /\ rows[k] \in Row
    BY <1>3, RowsTyped DEF RowMarked
  <2>2. EntryInv(rows'[i])
    BY <2>1, RowsStay, SameTradeSameResult DEF FillsInv
  <2>3. CASE i # k
    BY <1>3, <2>1, <2>2, <2>3 DEF RowMarked, FillsInv
  <2>4. CASE i = k
    <3>1. /\ rows'[i].status = "open" /\ rows'[i].exit_reason = rows[i].exit_reason
          /\ rows[i].status = "open"
      BY <1>3, <2>1, <2>4 DEF RowMarked, Row
    <3>2. rows'[i].exit_reason = None
      BY <2>1, <3>1 DEF FillsInv, ExitInv
    <3>3. None # "stop" /\ None \notin ManagerReasons
      BY FillsAssumption DEF FillsAssumption, ManagerReasons
    <3> QED  BY <2>2, <3>2, <3>3 DEF ExitInv
  <2> QED  BY <2>3, <2>4
<1>4. ASSUME NEW p \in Closers, RowClosed(p)
      PROVE  EntryInv(rows'[i]) /\ ExitInv(rows'[i])
  <2> DEFINE j == job[p]
             r == rows[j.id]
             new == [r EXCEPT !.status = "closed", !.exit_px_intended = j.px,
                              !.exit_px = j.fill_px, !.exit_reason = j.reason]
  <2>1. /\ j # None /\ j \in Job /\ j.at = "commit" /\ j.id \in DOMAIN rows /\ r \in Row
        /\ rows' = [rows EXCEPT ![j.id] = new]
    BY <1>4, JobsTyped DEF RowClosed
  <2>2. i \in DOMAIN rows
    BY <2>1
  <2>3. EntryInv(rows'[i])
    BY <2>2, RowsStay, SameTradeSameResult DEF FillsInv
  <2>4. CASE i # j.id
    BY <2>1, <2>2, <2>3, <2>4 DEF FillsInv
  <2>5. CASE i = j.id
    <3>1. /\ new.status = "closed" /\ new.exit_reason = j.reason /\ new.exit_px = j.fill_px
          /\ new.exit_px_intended = j.px /\ new.mae_usd = r.mae_usd /\ new.mfe_usd = r.mfe_usd
          /\ new.direction = r.direction /\ new.stop_px = r.stop_px
          /\ new.entry_fill_px = r.entry_fill_px
      BY <2>1 DEF Row
    <3>2. CASE p = "manager"
      <4>1. CloseInv(j, r)
        BY <2>1, <3>2 DEF FillsInv
      <4>2. j.reason = "stop" => Beyond(Opposite(r.direction), j.fill_px, r.stop_px)
        BY <2>1, <4>1 DEF CloseInv
      <4>3. Covers(r, j.px)
        BY <2>1, <4>1 DEF CloseInv
      <4> HIDE DEF new, r, j
      <4>4. Covers(new, new.exit_px_intended)
        BY <3>1, <4>3 DEF Covers, Unrealized
      <4>5. ExitInv(new)
        BY <3>1, <4>2, <4>4 DEF ExitInv
      <4> QED  BY <2>1, <2>3, <2>5, <4>5
    <3>3. CASE p = "emergency"
      <4>1. j.reason = "emergency_stop"
        BY <2>1, <3>3 DEF FillsInv
      <4> HIDE DEF new
      <4>2. ExitInv(new)
        BY <3>1, <4>1 DEF ExitInv, ManagerReasons
      <4> QED  BY <2>1, <2>3, <2>5, <4>2
    <3> QED  BY <3>2, <3>3 DEF Closers
  <2> QED  BY <2>4, <2>5
<1>5. ~(job["manager"] # None /\ job["manager"].id \notin DOMAIN rows)
  BY JobsTyped DEF Closers
<1> QED  BY <1>1, <1>2, <1>3, <1>4, <1>5, TableMoves

\* How the manager goes through its list: it makes one when it has no row at hand, and takes a row
\* off it to have it at hand.
LEMMA ManagerLists ==
  ASSUME FillsTypeOK, [FillsNext]_allVars
  PROVE  \/ todo'["manager"] = OpenRows /\ UNCHANGED rows /\ job'["manager"] = None
         \/ /\ DOMAIN todo'["manager"] \subseteq DOMAIN todo["manager"]
            /\ \A i \in DOMAIN todo'["manager"] : todo'["manager"][i] = todo["manager"][i]
            /\ \/ job'["manager"] = None
               \/ job["manager"] # None /\ job'["manager"].id = job["manager"].id
               \/ job'["manager"].id \notin DOMAIN todo'["manager"]
<1>0. /\ DOMAIN todo = Closers /\ DOMAIN job = Closers /\ "manager" \in Closers
      /\ "emergency" \in Closers /\ "manager" # "emergency"
  BY DEF FillsTypeOK, Closers
<1> DEFINE Same == todo'["manager"] = todo["manager"] /\ job'["manager"] = job["manager"]
           Done == todo'["manager"] = todo["manager"] /\ job'["manager"] = None
           Empty == DOMAIN todo'["manager"] = {} /\ job'["manager"] = None
<1>1. CASE Market \/ Orchestrator \/ UNCHANGED allVars
  <2>1. todo' = todo /\ job' = job
    BY <1>1 DEF Market, Orchestrator, Evaluate, OpenTrade, Dropped, allVars, fillVars
  <2> QED  BY <2>1
<1>2. CASE ManagerTick
  <2>1. todo'["manager"] = OpenRows
    BY <1>0, <1>2 DEF ManagerTick
  <2>2. UNCHANGED rows /\ job'["manager"] = None
    BY <1>2 DEF ManagerTick, Idle
  <2> QED  BY <2>1, <2>2
<1>3. CASE ManagerLooks
  <2>1. PICK i \in DOMAIN todo["manager"] :
          /\ todo' = [todo EXCEPT !["manager"] = Without(@, i)]
          /\ job'["manager"] = None \/ job'["manager"].id = i
    <3> DEFINE next(i) ==
          LET r      == todo["manager"][i]
              pnl    == Unrealized(r, LatestPrice)
              reason == CheckExit(r, LatestPrice)
              marks  == pnl < r.mae_usd \/ pnl > r.mfe_usd
          IN  IF ~marks /\ reason = None THEN None
              ELSE [id |-> i, at |-> IF marks THEN "mark" ELSE "read",
                    px |-> LatestPrice, reason |-> reason,
                    mae_usd |-> Min({r.mae_usd, pnl}), mfe_usd |-> Max({r.mfe_usd, pnl}),
                    fill_px |-> 0]
    <3>1. PICK i \in DOMAIN todo["manager"] :
            /\ todo' = [todo EXCEPT !["manager"] = Without(@, i)]
            /\ job' = [job EXCEPT !["manager"] = next(i)]
      BY <1>3 DEF ManagerLooks
    <3>2. job'["manager"] = next(i)
      BY <1>0, <3>1
    <3>3. next(i) = None \/ next(i).id = i
      OBVIOUS
    <3> QED  BY <3>1, <3>2, <3>3
  <2>2. todo'["manager"] = Without(todo["manager"], i)
    BY <1>0, <2>1
  <2>3. i \notin DOMAIN todo'["manager"]
    BY <2>2 DEF Without
  <2> QED  BY <2>1, <2>2, <2>3, WithoutOne
<1>4. CASE ManagerSkips
  <2>1. PICK i \in DOMAIN todo["manager"] : todo' = [todo EXCEPT !["manager"] = Without(@, i)]
    BY <1>4 DEF ManagerSkips
  <2>2. todo'["manager"] = Without(todo["manager"], i) /\ job'["manager"] = None
    BY <1>0, <1>4, <2>1 DEF ManagerSkips
  <2> QED  BY <2>2, WithoutOne
<1>5. CASE ManagerMarks
  <2>1. job["manager"] # None /\ todo' = todo
    BY <1>5 DEF ManagerMarks
  <2>2. job["manager"] \in Job
    BY <2>1, JobsTyped DEF Closers
  <2>3. job'["manager"] = None \/ job'["manager"] = [job["manager"] EXCEPT !.at = "read"]
    BY <1>0, <1>5 DEF ManagerMarks
  <2>4. [job["manager"] EXCEPT !.at = "read"].id = job["manager"].id
    BY <2>2 DEF Job
  <2> QED  BY <2>1, <2>3, <2>4
<1>6. CASE Emergency
  <2>1. Same
    BY <1>0, <1>6 DEF Emergency, EmergencyCloseAll, EmergencyLooks
  <2> QED  BY <2>1
<1>7. CASE FillsRestart
  <2>1. Empty
    BY <1>0, <1>7, NoRowsIsEmpty DEF FillsRestart
  <2> QED  BY <2>1
<1>8. ASSUME NEW p \in Closers, Close(p)
      PROVE  \/ Same \/ Done \/ Empty
             \/ /\ todo'["manager"] = todo["manager"] /\ job["manager"] # None
                /\ job'["manager"].id = job["manager"].id
  <2>1. CASE CloseReads(p)
    <3>1. todo' = todo /\ job[p] # None /\ job[p] \in Job
      BY <2>1, JobsTyped DEF CloseReads
    <3>2. PICK f : job' = [job EXCEPT ![p] = [job[p] EXCEPT !.at = "commit", !.fill_px = f]]
      BY <2>1 DEF CloseReads
    <3>3. [job[p] EXCEPT !.at = "commit", !.fill_px = f].id = job[p].id
      BY <3>1 DEF Job
    <3>4. CASE p = "manager"
      BY <1>0, <3>1, <3>2, <3>3, <3>4
    <3>5. CASE p = "emergency"
      BY <1>0, <3>1, <3>2, <3>5
    <3> QED  BY <3>4, <3>5 DEF Closers
  <2>2. CASE CloseSkips(p) \/ CloseCommits(p)
    <3>1. todo' = todo /\ job' = [job EXCEPT ![p] = None]
      BY <2>2 DEF CloseSkips, CloseCommits
    <3> QED  BY <1>0, <3>1 DEF Closers
  <2>3. CASE CloserError(p)
    <3>1. todo' = [todo EXCEPT ![p] = NoRows] /\ job' = [job EXCEPT ![p] = None]
      BY <2>3 DEF CloserError
    <3>2. CASE p = "manager"
      BY <1>0, <3>1, <3>2, NoRowsIsEmpty
    <3>3. CASE p = "emergency"
      BY <1>0, <3>1, <3>3
    <3> QED  BY <3>2, <3>3 DEF Closers
  <2> QED  BY <1>8, <2>1, <2>2, <2>3 DEF Close
<1> QED  BY <1>1, <1>2, <1>3, <1>4, <1>5, <1>6, <1>7, <1>8 DEF FillsNext, Manager

LEMMA ListStep ==
  ASSUME FillsTypeOK, BarsAreTheTrades, FillsInv, [FillsNext]_allVars
  PROVE  ListInv'
<1>1. CASE todo'["manager"] = OpenRows /\ UNCHANGED rows /\ job'["manager"] = None
  <2>1. \A i \in DOMAIN OpenRows : OpenRows[i] = rows[i]
    BY OpenRowsTyped
  <2> QED  BY <1>1, <2>1 DEF ListInv, SameTrade
<1>2. CASE /\ DOMAIN todo'["manager"] \subseteq DOMAIN todo["manager"]
           /\ \A i \in DOMAIN todo'["manager"] : todo'["manager"][i] = todo["manager"][i]
           /\ \/ job'["manager"] = None
              \/ job["manager"] # None /\ job'["manager"].id = job["manager"].id
              \/ job'["manager"].id \notin DOMAIN todo'["manager"]
  <2>1. job'["manager"] # None => job'["manager"].id \notin DOMAIN todo'["manager"]
    BY <1>2 DEF FillsInv, ListInv
  <2>2. ASSUME NEW i \in DOMAIN todo'["manager"]
        PROVE  /\ SameTrade(rows'[i], todo'["manager"][i])
               /\ rows'[i].mae_usd = todo'["manager"][i].mae_usd
               /\ rows'[i].mfe_usd = todo'["manager"][i].mfe_usd
    <3>1. i \in DOMAIN todo["manager"] /\ todo'["manager"][i] = todo["manager"][i]
      BY <1>2
    <3>2. i \in DOMAIN rows
      BY <3>1 DEF FillsTypeOK, Closers
    <3>3. SameTrade(rows'[i], rows[i]) /\ SameTrade(rows[i], todo["manager"][i])
      BY <3>1, <3>2, RowsStay DEF FillsInv, ListInv
    <3>4. ~RowMarked(i)
      BY <3>1 DEF RowMarked, FillsInv, ListInv
    <3>5. rows'[i].mae_usd = rows[i].mae_usd /\ rows'[i].mfe_usd = rows[i].mfe_usd
      BY <3>2, <3>4, RowKept
    <3> QED  BY <3>1, <3>3, <3>5 DEF SameTrade, FillsInv, ListInv
  <2> QED  BY <2>1, <2>2 DEF ListInv
<1> QED  BY <1>1, <1>2, ManagerLists

LEMMA LookStep ==
  ASSUME FillsTypeOK, FillsInv, Looks("manager"), job'["manager"] # None
  PROVE  CloseInv(job'["manager"], rows'[job'["manager"].id])
<1> DEFINE list == todo["manager"]
           pnl(i) == Unrealized(list[i], LatestPrice)
           reason(i) == CheckExit(list[i], LatestPrice)
           marks(i) == pnl(i) < list[i].mae_usd \/ pnl(i) > list[i].mfe_usd
<1>1. PICK i \in DOMAIN list :
        job'["manager"] =
          IF ~marks(i) /\ reason(i) = None THEN None
          ELSE [id |-> i, at |-> IF marks(i) THEN "mark" ELSE "read",
                px |-> LatestPrice, reason |-> reason(i),
                mae_usd |-> Min({list[i].mae_usd, pnl(i)}), mfe_usd |-> Max({list[i].mfe_usd, pnl(i)}),
                fill_px |-> 0]
  BY DEF Looks
<1> DEFINE r == list[i]
           new == [id |-> i, at |-> IF marks(i) THEN "mark" ELSE "read",
                   px |-> LatestPrice, reason |-> reason(i),
                   mae_usd |-> Min({r.mae_usd, pnl(i)}), mfe_usd |-> Max({r.mfe_usd, pnl(i)}),
                   fill_px |-> 0]
<1>2. job'["manager"] = new /\ (marks(i) \/ reason(i) # None)
  BY <1>1
<1>3. LatestPrice # None /\ UNCHANGED rows
  BY DEF Looks
<1>4. /\ i \in DOMAIN rows /\ r \in Row /\ LatestPrice \in Prices /\ LatestPrice \in Int
      /\ pnl(i) \in Int /\ reason(i) \in ManagerReasons \cup {None}
  BY <1>3, LooksTyped DEF Closers
<1>5. LatestPrice \in Nat
  BY <1>4, PricesAreNumbers
<1>6. /\ SameTrade(rows[i], r) /\ rows[i].mae_usd = r.mae_usd /\ rows[i].mfe_usd = r.mfe_usd
  BY DEF FillsInv, ListInv
<1>7. Unrealized(rows[i], LatestPrice) = pnl(i)
  BY <1>6, SameTradeSameResult
<1>8. reason(i) = "stop" => Beyond(Opposite(rows[i].direction), LatestPrice, rows[i].stop_px)
  <2>1. reason(i) = "stop" => Beyond(Opposite(r.direction), LatestPrice, r.stop_px)
    BY FillsAssumption DEF CheckExit, FillsAssumption
  <2> QED  BY <1>6, <2>1 DEF SameTrade
<1>9. r.mae_usd \in Int /\ r.mfe_usd \in Int
  BY <1>4, ResultsAreNumbers
<1>10. Min({r.mae_usd, pnl(i)}) <= pnl(i) /\ pnl(i) <= Max({r.mfe_usd, pnl(i)})
  BY <1>4, <1>9, MaxOfTwo
<1>11. ~marks(i) => Covers(rows[i], LatestPrice)
  BY <1>4, <1>6, <1>7, <1>9 DEF Covers
<1>12. /\ new.id = i /\ new.px = LatestPrice /\ new.reason = reason(i)
       /\ new.mae_usd = Min({r.mae_usd, pnl(i)}) /\ new.mfe_usd = Max({r.mfe_usd, pnl(i)})
       /\ new.at = IF marks(i) THEN "mark" ELSE "read"
  OBVIOUS
<1> HIDE DEF new, r, list, pnl, reason, marks
<1>13. CloseInv(new, rows[i])
  <2>1. new.reason \in ManagerReasons \cup {None} /\ new.px \in Nat
    BY <1>4, <1>5, <1>12
  <2>2. new.at # "commit" /\ (new.at # "mark" => ~marks(i) /\ new.reason # None)
    BY <1>2, <1>12
  <2>3. new.reason = "stop" => Beyond(Opposite(rows[i].direction), new.px, rows[i].stop_px)
    BY <1>8, <1>12
  <2>4. new.mae_usd <= Unrealized(rows[i], new.px) /\ Unrealized(rows[i], new.px) <= new.mfe_usd
    BY <1>7, <1>10, <1>12
  <2>5. ~marks(i) => Covers(rows[i], new.px)
    BY <1>11, <1>12
  <2> QED  BY <2>1, <2>2, <2>3, <2>4, <2>5 DEF CloseInv
<1> QED  BY <1>2, <1>3, <1>12, <1>13

LEMMA ManagerJobStep ==
  ASSUME FillsTypeOK, BarsAreTheTrades, FillsInv, [FillsNext]_allVars, job'["manager"] # None
  PROVE  CloseInv(job'["manager"], rows'[job'["manager"].id])
<1> DEFINE j == job["manager"]
           r == rows[j.id]
<1>0. "manager" \in Closers
  BY DEF Closers
<1>1. ASSUME j # None
      PROVE  /\ j \in Job /\ j.id \in DOMAIN rows /\ r \in Row /\ CloseInv(j, r)
             /\ SameTrade(rows'[j.id], r) /\ Unrealized(rows'[j.id], j.px) = Unrealized(r, j.px)
             /\ j.px \in Int
  <2>1. j \in Job /\ j.id \in DOMAIN rows /\ r \in Row /\ j.px \in Int
    BY <1>0, <1>1, JobsTyped
  <2>2. SameTrade(rows'[j.id], r)
    BY <2>1, RowsStay
  <2>3. Unrealized(rows'[j.id], j.px) = Unrealized(r, j.px)
    BY <2>2, SameTradeSameResult
  <2> QED  BY <1>1, <2>1, <2>2, <2>3 DEF FillsInv
<1>2. CASE job'["manager"] = j
  <2>1. ~ManagerMarks
    BY <1>2, MarkingMovesOn
  <2>2. /\ rows'[j.id].mae_usd = r.mae_usd /\ rows'[j.id].mfe_usd = r.mfe_usd
        /\ rows'[j.id].status = "open" => r.status = "open"
    BY <1>1, <1>2, <2>1, RowKept
  <2>3. CloseInv(j, r) /\ SameTrade(rows'[j.id], r)
    BY <1>1, <1>2
  <2>4. Unrealized(rows'[j.id], j.px) = Unrealized(r, j.px)
    BY <1>1, <1>2
  <2> HIDE DEF j, r
  <2>5. CloseInv(j, rows'[j.id])
    BY <2>2, <2>3, <2>4 DEF CloseInv, SameTrade, Covers
  <2> QED  BY <1>2, <2>5
<1>3. CASE Looks("manager")
  BY <1>3, LookStep
<1>4. CASE Marked("manager")
  <2>1. /\ j # None /\ j.at = "mark" /\ j.reason # None /\ job'["manager"] = [j EXCEPT !.at = "read"]
        /\ rows' = IF r.status = "open"
                   THEN [rows EXCEPT ![j.id].mae_usd = j.mae_usd, ![j.id].mfe_usd = j.mfe_usd]
                   ELSE rows
    BY <1>4 DEF Marked
  <2>2. /\ job'["manager"].id = j.id /\ job'["manager"].at = "read" /\ job'["manager"].px = j.px
        /\ job'["manager"].reason = j.reason
    BY <1>1, <2>1 DEF Job
  <2>3. rows'[j.id].status = "open" =>
           rows'[j.id].mae_usd = j.mae_usd /\ rows'[j.id].mfe_usd = j.mfe_usd
    BY <1>1, <2>1 DEF Row
  <2>4. /\ CloseInv(j, r) /\ SameTrade(rows'[j.id], r)
        /\ Unrealized(rows'[j.id], j.px) = Unrealized(r, j.px)
    BY <1>1, <2>1
  <2>5. rows'[j.id].status = "open" => Covers(rows'[j.id], j.px)
    BY <2>1, <2>3, <2>4 DEF CloseInv, Covers
  <2> QED  BY <2>1, <2>2, <2>4, <2>5 DEF CloseInv, SameTrade
<1>5. CASE Reads("manager")
  <2>1. j # None /\ j.at = "read" /\ r.status = "open" /\ UNCHANGED rows
    BY <1>5 DEF Reads
  <2>2. PICK slip \in Slippages :
          job'["manager"] = [j EXCEPT !.at = "commit",
                               !.fill_px = ApplySlippage(Opposite(r.direction), j.px, slip)]
    BY <1>5 DEF Reads
  <2> DEFINE fill == ApplySlippage(Opposite(r.direction), j.px, slip)
  <2>3. /\ job'["manager"].id = j.id /\ job'["manager"].at = "commit" /\ job'["manager"].px = j.px
        /\ job'["manager"].reason = j.reason /\ job'["manager"].fill_px = fill
    BY <1>1, <2>1, <2>2 DEF Job
  <2>4. CloseInv(j, r) /\ j.px \in Nat /\ r.stop_px \in Int /\ r.direction \in {"long", "short"}
    BY <1>1, <2>1, ResultsAreNumbers DEF CloseInv
  <2>5. slip \in Nat
    BY SlippagesArePositive DEF FillsTypeOK
  <2>6. /\ ApplySlippage("long", j.px, slip) \in Int /\ ApplySlippage("short", j.px, slip) \in Int
        /\ ApplySlippage("long", j.px, slip) >= j.px /\ ApplySlippage("short", j.px, slip) <= j.px
    BY <2>4, <2>5, AgainstUs
  <2>7. Beyond(Opposite(r.direction), j.px, r.stop_px) => Beyond(Opposite(r.direction), fill, r.stop_px)
    BY <2>4, <2>6 DEF Beyond, Opposite
  <2> HIDE DEF fill, j, r
  <2>8. CloseInv(job'["manager"], r)
    BY <2>1, <2>3, <2>4, <2>7 DEF CloseInv
  <2> QED  BY <2>1, <2>3, <2>8 DEF r
<1> QED  BY <1>0, <1>2, <1>3, <1>4, <1>5, JobsMove

LEMMA EmergencyJobStep ==
  ASSUME FillsTypeOK, FillsInv, [FillsNext]_allVars, job'["emergency"] # None
  PROVE  job'["emergency"].reason = "emergency_stop" /\ job'["emergency"].at # "mark"
<1> DEFINE j == job["emergency"]
<1>0. "emergency" \in Closers /\ "emergency" # "manager"
  BY DEF Closers
<1>1. CASE job'["emergency"] = j
  BY <1>1 DEF FillsInv
<1>2. CASE Looks("emergency")
  BY <1>0, <1>2 DEF Looks
<1>3. CASE Reads("emergency")
  <2>1. j \in Job /\ j.reason = "emergency_stop"
    BY <1>0, <1>3, JobsTyped DEF Reads, FillsInv
  <2>2. PICK f : job'["emergency"] = [j EXCEPT !.at = "commit", !.fill_px = f]
    BY <1>3 DEF Reads
  <2> QED  BY <2>1, <2>2 DEF Job
<1>4. ~Marked("emergency")
  BY <1>0 DEF Marked
<1> QED  BY <1>0, <1>1, <1>2, <1>3, <1>4, JobsMove

LEMMA FillsInvStep ==
  ASSUME FillsTypeOK, BarsAreTheTrades, FillsInv, [FillsNext]_allVars
  PROVE  FillsInv'
BY SigStep, RowStep, ListStep, ManagerJobStep, EmergencyJobStep DEF FillsInv

LEMMA FillsInvariant == FillsSpec => [](FillsTypeOK /\ BarsAreTheTrades /\ FillsInv)
<1>1. FillsInit => FillsInv
  BY NoRowsIsEmpty DEF FillsInit, FillsInv, ListInv, Closers
<1>2. FillsTypeOK /\ BarsAreTheTrades /\ FillsInv /\ [FillsNext]_allVars => FillsInv'
  BY FillsInvStep
<1> QED  BY <1>1, <1>2, FillsTypeCorrect, PTL DEF FillsSpec

\* No trade is larger than the caps or its risk, whatever the configuration.
THEOREM SizesWithinRisk == FillsSpec => []SizeWithinRisk
<1>1. FillsInv => SizeWithinRisk
  BY DEF FillsInv, EntryInv, SizeWithinRisk
<1> QED  BY <1>1, FillsInvariant, PTL

\* Every trade closed by its stop has lost money, on every market and however late it is closed.
THEOREM StopsLose == FillsSpec => []StopIsALoss
<1>1. FillsTypeOK /\ FillsInv => StopIsALoss
  <2> SUFFICES ASSUME FillsTypeOK, FillsInv, NEW i \in DOMAIN rows,
                      rows[i].exit_reason = "stop", rows[i].entry_fill_px > 0
               PROVE  IsLoss(rows[i])
    BY DEF StopIsALoss
  <2> DEFINE r == rows[i]
  <2>1. r \in Row
    BY RowsTyped
  <2>2. /\ r.stop_px \in Int /\ r.entry_px \in Int /\ r.entry_fill_px \in Int /\ r.exit_px \in Int
        /\ r.direction \in {"long", "short"}
    BY <2>1, ResultsAreNumbers
  <2>3. /\ StopBehind(r.direction, r.entry_px, r.stop_px)
        /\ r.direction = "long" => r.entry_fill_px >= r.entry_px
        /\ r.direction = "short" => r.entry_fill_px <= r.entry_px
        /\ Beyond(Opposite(r.direction), r.exit_px, r.stop_px)
    BY DEF FillsInv, EntryInv, ExitInv
  <2>4. Unrealized(r, r.exit_px) \in Int /\ Unrealized(r, r.exit_px) < 0
    BY <2>2, <2>3 DEF Unrealized, StopBehind, Beyond, Opposite
  <2>5. Bps * Unrealized(r, r.exit_px) < 0
    BY <2>4 DEF Bps
  <2>6. r.entry_fill_px >= 0 /\ FeeBps \in Nat
    BY <2>2, FillsAssumption DEF FillsAssumption
  <2>7. 2 * FeeBps * r.entry_fill_px >= 0
    BY <2>2, <2>6
  <2>8. Bps * Unrealized(r, r.exit_px) \in Int /\ 2 * FeeBps * r.entry_fill_px \in Int
    BY <2>2, <2>4, <2>6 DEF Bps
  <2> QED  BY <2>5, <2>7, <2>8 DEF IsLoss
<1> QED  BY <1>1, FillsInvariant, PTL

\* The excursions of every trade the manager closed cover its exit, in every interleaving of the
\* manager's transactions with an emergency stop.
THEOREM ExcursionsCover == FillsSpec => []ExcursionCoversExit
<1>1. FillsInv => ExcursionCoversExit
  BY DEF FillsInv, ExitInv, Covers, ExcursionCoversExit
<1> QED  BY <1>1, FillsInvariant, PTL

=============================================================================
