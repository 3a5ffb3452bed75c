------------------------ MODULE LiquidationFadeProofs ------------------------
(***************************************************************************)
(* The fade of a cascade, for every window, wait, gap, buffer and lag that *)
(* FadeAssumption admits, any tape and any number of faults: a cascade is  *)
(* faded once, out of a quiet market, and on the evidence of the tape.     *)
(***************************************************************************)
EXTENDS LiquidationFade, FiniteSetTheorems, SetSums, TLAPS

\* An earlier trade is as far from a later moment as the one after it.
LEMMA SpanChain ==
  ASSUME NEW x \in Nat, NEW y \in Nat, NEW z \in Nat, NEW d \in Nat, x <= y, y + d <= z
  PROVE  x + d <= z
  OBVIOUS

\* The types in the form the steps below use.
LEMMA Typed ==
  ASSUME FadeTypeOK
  PROVE  /\ Len(tape) \in Nat /\ DOMAIN tape = 1 .. Len(tape)
         /\ \A i \in 1 .. Len(tape) : tape[i] \in Printed /\ tape[i].ts \in Nat
         /\ handled \in Nat /\ handled <= Len(tape)
         /\ Len(trades) \in Nat /\ DOMAIN trades = 1 .. Len(trades)
         /\ \A k \in 1 .. Len(trades) : trades[k] \in 1 .. handled
         /\ now \in Nat /\ tick_ms \in Nat /\ tick_ms <= now
         /\ _last_signal_ms \in Nat /\ _last_signal_ms <= now
<1>1. tape \in Seq(Printed) /\ trades \in Seq(1 .. handled) /\ handled \in 0 .. Len(tape)
      /\ now \in Nat /\ tick_ms \in 0 .. now /\ _last_signal_ms \in 0 .. now
  BY DEF FadeTypeOK
<1>2. \A p \in Printed : p.ts \in Nat
  BY DEF Printed
<1> QED  BY <1>1, <1>2

\* What a step of the strategy leaves alone, and what it can do to the tick.
LEMMA EvaluateEffect ==
  ASSUME FadeTypeOK, Evaluate
  PROVE  /\ UNCHANGED <<exchangeVars, listenerVars, faults>>
         /\ tick_ms' = 0
         /\ \/ _last_signal_ms' = _last_signal_ms /\ signals' = signals
            \/ Fires
<1> USE DEF Reject
<1>1. CASE RejectCooling \/ RejectNoCascade \/ RejectWaiting \/ RejectStale \/ RejectUnconfirmed
  BY <1>1 DEF RejectCooling, RejectNoCascade, RejectWaiting, RejectStale, RejectUnconfirmed
<1>2. CASE Fires
  BY <1>2 DEF Fires
<1> QED  BY <1>1, <1>2 DEF Evaluate

\* A signal is made of liquidations the deque holds, of the window and before the wait.
LEMMA FiresEffect ==
  ASSUME FadeAssumption, FadeTypeOK, Fires
  PROVE  /\ tick_ms # 0 /\ tick_ms - _last_signal_ms >= Gap
         /\ tick_ms' = 0 /\ _last_signal_ms' = tick_ms
         /\ UNCHANGED <<exchangeVars, listenerVars, faults>>
         /\ signals' = signals \cup {[at |-> tick_ms, direction |-> Direction, liqs |-> Liqs]}
         /\ [at |-> tick_ms, direction |-> Direction, liqs |-> Liqs] \in Signals
         /\ \A i \in Liqs : /\ \E k \in DOMAIN trades : i = trades[k]
                            /\ i \in 1 .. handled /\ i \in DOMAIN tape
                            /\ tape[i].ts >= tick_ms - Window
                            /\ tape[i].ts <= tick_ms - Wait
         /\ Liqs # {}
<1>1. PICK i \in Range(trades) :
        /\ Ripe(i)
        /\ tick_ms' = 0 /\ _last_signal_ms' = tick_ms
        /\ signals' = signals \cup {[at |-> tick_ms, direction |-> Direction, liqs |-> Liqs]}
        /\ UNCHANGED <<exchangeVars, listenerVars, faults>>
  BY DEF Fires
<1>2. \A j \in Liqs : /\ \E k \in DOMAIN trades : j = trades[k]
                      /\ j \in 1 .. handled /\ j \in DOMAIN tape
                      /\ tape[j].ts >= tick_ms - Window
                      /\ tape[j].ts \in Nat
  <2>1. \A j \in Liqs : j \in Range(trades) /\ tape[j].ts >= tick_ms - Window
    BY DEF Liqs, InWindow
  <2>2. \A j \in Range(trades) : \E k \in DOMAIN trades : j = trades[k]
    BY DEF Range
  <2>3. \A j \in Range(trades) : j \in 1 .. handled /\ j \in DOMAIN tape /\ tape[j].ts \in Nat
    BY <2>2, Typed
  <2> QED  BY <2>1, <2>2, <2>3
<1>3. tick_ms # 0 /\ tick_ms - _last_signal_ms >= Gap
  BY <1>1 DEF Ripe, Cooling, FadeTypeOK, FadeAssumption
<1>4. i \in Liqs /\ \A j \in Liqs : tape[j].ts <= tape[i].ts
  BY <1>1 DEF Ripe, Last
<1>5. \A j \in Liqs : tape[j].ts <= tick_ms - Wait
  <2>1. tick_ms \in Nat /\ Wait \in Nat /\ tape[i].ts \in Nat /\ tick_ms - tape[i].ts >= Wait
    BY <1>1, <1>2, <1>4, Typed DEF Ripe, FadeAssumption
  <2>2. tape[i].ts <= tick_ms - Wait
    BY <2>1
  <2> SUFFICES ASSUME NEW j \in Liqs PROVE tape[j].ts <= tick_ms - Wait
    OBVIOUS
  <2>3. tape[j].ts \in Nat /\ tape[j].ts <= tape[i].ts
    BY <1>2, <1>4
  <2> QED  BY <2>1, <2>2, <2>3
<1>6. [at |-> tick_ms, direction |-> Direction, liqs |-> Liqs] \in Signals
  <2>1. Direction \in {"long", "short"}
    BY DEF Direction
  <2>2. tick_ms \in Nat /\ handled \in Nat
    BY DEF FadeTypeOK
  <2>3. Liqs \subseteq Nat \ {0}
    BY <1>2, <2>2
  <2> QED  BY <2>1, <2>2, <2>3 DEF Signals
<1> QED  BY <1>1, <1>2, <1>3, <1>4, <1>5, <1>6

\* The deque after one more trade: what it may lose is its oldest entry.
LEMMA DequeStep ==
  ASSUME FadeAssumption, FadeTypeOK, NEW i \in Nat \ {0}, AddTrade(i)
  PROVE  \/ Len(trades) < Buffer /\ trades' = Append(trades, i) /\ Len(trades') = Len(trades) + 1
         \/ /\ Len(trades) = Buffer /\ Len(trades') = Buffer
            /\ \A k \in 1 .. Buffer : trades'[k] = IF k < Buffer THEN trades[k + 1] ELSE i
<1> DEFINE full == Append(trades, i)
<1>1. full \in Seq(Nat) /\ Len(full) = Len(trades) + 1
      /\ \A k \in 1 .. Len(full) : full[k] = IF k <= Len(trades) THEN trades[k] ELSE i
  BY DEF FadeTypeOK
<1>2. CASE Len(trades) < Buffer
  BY <1>1, <1>2 DEF AddTrade
<1>3. CASE ~(Len(trades) < Buffer)
  <2>1. Len(trades) = Buffer /\ trades' = Tail(full)
    BY <1>3 DEF AddTrade, FadeTypeOK, FadeAssumption
  <2>2. Len(Tail(full)) = Buffer /\ \A k \in 1 .. Buffer : Tail(full)[k] = full[k + 1]
    BY <1>1, <2>1 DEF FadeAssumption
  <2> QED  BY <1>1, <2>1, <2>2 DEF FadeAssumption
<1> QED  BY <1>2, <1>3


\* The types are kept by every step.
LEMMA TypeStep ==
  ASSUME FadeAssumption, FadeTypeOK, [FadeNext]_fadeVars
  PROVE  FadeTypeOK'
<1> USE DEF exchangeVars, listenerVars, strategyVars
<1>1. CASE PrintTrade
  <2>1. PICK p \in Prints :
          tape' = Append(tape, [liquidation |-> p.liquidation, buy |-> p.buy,
                                usd |-> p.usd, ts |-> now])
    BY <1>1 DEF PrintTrade
  <2>2. [liquidation |-> p.liquidation, buy |-> p.buy, usd |-> p.usd, ts |-> now] \in Printed
    BY DEF FadeAssumption, FadeTypeOK, Printed
  <2>3. tape' \in Seq(Printed) /\ Len(tape') = Len(tape) + 1
    BY <2>1, <2>2 DEF FadeTypeOK
  <2>4. handled \in 0 .. Len(tape')
    BY <2>3, Typed
  <2> QED  BY <1>1, <2>3, <2>4 DEF PrintTrade, FadeTypeOK
<1>2. CASE Tick
  <2>1. now' \in Nat /\ tick_ms \in 0 .. now' /\ _last_signal_ms \in 0 .. now'
    BY <1>2, Typed DEF Tick
  <2> QED  BY <1>2, <2>1 DEF Tick, FadeTypeOK
<1>3. CASE HandleGarbled \/ HandleTrade \/ HandleLiquidation
  <2>1. /\ handled < Len(tape) /\ handled' = handled + 1 /\ saving' \in {saving, handled + 1}
        /\ trades' = trades \/ AddTrade(handled + 1)
        /\ UNCHANGED <<exchangeVars, missed, liquidation_events, strategyVars, faults>>
    BY <1>3 DEF HandleGarbled, HandleTrade, HandleLiquidation, FadeTypeOK
  <2>2. counters' \in [Counters -> Nat]
    <3>1. counters \in [Counters -> Nat]
      BY DEF FadeTypeOK
    <3>2. \A f \in [Counters -> Nat], c \in Counters : [f EXCEPT ![c] = @ + 1] \in [Counters -> Nat]
      OBVIOUS
    <3>3. CASE HandleGarbled
      BY <3>1, <3>2, <3>3 DEF HandleGarbled, Counters
    <3>4. CASE HandleTrade
      BY <3>1, <3>4 DEF HandleTrade
    <3>5. CASE HandleLiquidation
      <4>1. ShapeCounter(tape[handled + 1].liquidation) \in Counters
            /\ "with_liq_field" \in Counters
        BY DEF ShapeCounter, Counters
      <4> QED  BY <3>1, <3>2, <3>5, <4>1 DEF HandleLiquidation
    <3> QED  BY <1>3, <3>3, <3>4, <3>5
  <2>3. trades' \in Seq(1 .. handled') /\ Len(trades') <= Buffer
    <3>1. trades \in Seq(1 .. handled') /\ Len(trades) \in Nat /\ Len(trades) <= Buffer
      BY <2>1, Typed DEF FadeTypeOK
    <3>2. CASE AddTrade(handled + 1)
      <4>1. Append(trades, handled + 1) \in Seq(1 .. handled')
            /\ Append(trades, handled + 1) # <<>>
            /\ Len(Append(trades, handled + 1)) = Len(trades) + 1
        BY <2>1, <3>1, Typed
      <4>2. Tail(Append(trades, handled + 1)) \in Seq(1 .. handled')
            /\ Len(Tail(Append(trades, handled + 1))) = Len(trades)
        BY <3>1, <4>1
      <4>3. trades' = IF Len(trades) < Buffer THEN Append(trades, handled + 1)
                                              ELSE Tail(Append(trades, handled + 1))
        BY <3>2 DEF AddTrade
      <4>4. CASE Len(trades) < Buffer
        BY <3>1, <4>1, <4>3, <4>4 DEF FadeAssumption
      <4>5. CASE ~(Len(trades) < Buffer)
        BY <3>1, <4>2, <4>3, <4>5
      <4> QED  BY <4>4, <4>5
    <3>3. CASE trades' = trades
      BY <3>1, <3>3
    <3> QED  BY <2>1, <3>2, <3>3
  <2>4. handled' \in 0 .. Len(tape) /\ missed \subseteq 1 .. handled'
        /\ saving' \in 0 .. handled' /\ liquidation_events \subseteq 1 .. handled'
    BY <2>1, Typed DEF FadeTypeOK
  <2> QED  BY <2>1, <2>2, <2>3, <2>4 DEF FadeTypeOK
<1>4. CASE Save \/ SaveFails
  <2>1. /\ saving' \in 0 .. handled /\ faults' \in Nat
        /\ liquidation_events' \subseteq 1 .. handled
        /\ UNCHANGED <<exchangeVars, handled, missed, counters, trades, strategyVars>>
    <3>1. saving \in 0 .. handled /\ liquidation_events \subseteq 1 .. handled /\ faults \in Nat
          /\ handled \in Nat
      BY Typed DEF FadeTypeOK
    <3>2. CASE Save
      BY <3>1, <3>2 DEF Save
    <3>3. CASE SaveFails
      BY <3>1, <3>3 DEF SaveFails
    <3> QED  BY <1>4, <3>2, <3>3
  <2> QED  BY <2>1 DEF FadeTypeOK
<1>5. CASE LoseConnection \/ FadeRestart
  <2>1. /\ handled' = Len(tape) /\ missed' = missed \cup ((handled + 1) .. Len(tape))
        /\ saving' \in {0, saving} /\ trades' \in {trades, <<>>}
        /\ counters' \in {counters, NoCounts}
        /\ tick_ms' \in {0, tick_ms} /\ _last_signal_ms' \in {0, _last_signal_ms}
        /\ faults' = faults + 1
        /\ UNCHANGED <<exchangeVars, liquidation_events, signals>>
    BY <1>5 DEF LoseConnection, FadeRestart
  <2>2. counters' \in [Counters -> Nat]
    BY <2>1 DEF FadeTypeOK, NoCounts
  <2>3. trades' \in Seq(1 .. handled') /\ Len(trades') <= Buffer
    <3>1. trades \in Seq(1 .. handled') /\ Len(trades) <= Buffer
      BY <2>1, Typed DEF FadeTypeOK
    <3>2. <<>> \in Seq(1 .. handled') /\ Len(<<>>) <= Buffer
      BY DEF FadeAssumption
    <3> QED  BY <2>1, <3>1, <3>2
  <2>4. handled' \in 0 .. Len(tape) /\ missed' \subseteq 1 .. handled'
        /\ saving' \in 0 .. handled' /\ liquidation_events \subseteq 1 .. handled'
    <3>1. missed \subseteq 1 .. handled /\ saving \in 0 .. handled
          /\ liquidation_events \subseteq 1 .. handled
      BY DEF FadeTypeOK
    <3>2. handled \in Nat /\ handled <= handled' /\ handled' \in Nat
      BY <2>1, Typed
    <3>3. missed' \subseteq 1 .. handled'
      <4>1. missed' = missed \cup ((handled + 1) .. handled')
        BY <2>1
      <4>2. (handled + 1) .. handled' \subseteq 1 .. handled' /\ 1 .. handled \subseteq 1 .. handled'
        BY <3>2
      <4> QED  BY <3>1, <4>1, <4>2
    <3>4. saving' \in 0 .. handled' /\ liquidation_events \subseteq 1 .. handled'
          /\ handled' \in 0 .. Len(tape)
      BY <2>1, <3>1, <3>2
    <3> QED  BY <3>3, <3>4
  <2>5. tick_ms' \in 0 .. now /\ _last_signal_ms' \in 0 .. now /\ faults' \in Nat
    BY <2>1, Typed DEF FadeTypeOK
  <2> QED  BY <2>1, <2>2, <2>3, <2>4, <2>5 DEF FadeTypeOK
<1>6. CASE TickStarts
  BY <1>6 DEF TickStarts, FadeTypeOK
<1>7. CASE Evaluate
  <2>1. tick_ms' \in 0 .. now /\ _last_signal_ms' \in 0 .. now /\ signals' \subseteq Signals
    <3>1. CASE Fires
      <4>1. tick_ms' = 0 /\ _last_signal_ms' = tick_ms
            /\ signals' = signals \cup {[at |-> tick_ms, direction |-> Direction, liqs |-> Liqs]}
            /\ [at |-> tick_ms, direction |-> Direction, liqs |-> Liqs] \in Signals
        BY <3>1, FiresEffect
      <4>2. signals \subseteq Signals
        BY DEF FadeTypeOK
      <4> QED  BY <4>1, <4>2, Typed
    <3>2. CASE _last_signal_ms' = _last_signal_ms /\ signals' = signals
      <4>1. tick_ms' = 0
        BY <1>7, EvaluateEffect
      <4>2. _last_signal_ms \in 0 .. now /\ signals \subseteq Signals /\ now \in Nat
        BY DEF FadeTypeOK
      <4> QED  BY <3>2, <4>1, <4>2
    <3>3. Fires \/ (_last_signal_ms' = _last_signal_ms /\ signals' = signals)
      BY <1>7, EvaluateEffect
    <3> QED  BY <3>1, <3>2, <3>3
  <2>2. UNCHANGED <<now, tape, handled, missed, saving, liquidation_events, counters, trades, faults>>
    BY <1>7, EvaluateEffect
  <2> QED  BY <2>1, <2>2 DEF FadeTypeOK
<1>8. CASE UNCHANGED fadeVars
  BY <1>8 DEF fadeVars, FadeTypeOK
<1> QED  BY <1>1, <1>2, <1>3, <1>4, <1>5, <1>6, <1>7, <1>8 DEF FadeNext, Exchange, FadeListener

\* Whatever is printed, lost and restarted, the state of the fade has its types; among them the
\* bound of the deque, and that nothing is numbered beyond what has been handled.
THEOREM FadeTypeCorrect == FadeSpec => []FadeTypeOK
<1> USE FadeAssumption
<1>1. FadeInit => FadeTypeOK
  BY DEF FadeInit, FadeTypeOK, NoCounts, FadeAssumption
<1>2. FadeTypeOK /\ [FadeNext]_fadeVars => FadeTypeOK'
  BY TypeStep
<1> QED  BY <1>1, <1>2, PTL DEF FadeSpec

----------------------------------------------------------------------------
(* The strengthening.                                                      *)

\* The tape is in order of time, and no Buffer + 1 trades on it are closer than Span.
TapeInv ==
    /\ \A a \in DOMAIN tape : tape[a].ts <= now
    /\ \A a, b \in DOMAIN tape : a <= b => tape[a].ts <= tape[b].ts
    /\ \A a, b \in DOMAIN tape : b - a >= Buffer => tape[a].ts + Span <= tape[b].ts

\* Neither the listener nor the tick is further behind than Lag.
LagInv ==
    /\ handled < Len(tape) => now <= tape[handled + 1].ts + Lag
    /\ tick_ms # 0 => now <= tick_ms + Lag

\* The deque ends at the trade handled last or before it, and holds no trade twice; so its
\* oldest entry is as many trades back as it is long.
DequeInv == \A k \in DOMAIN trades : trades[k] <= handled - Len(trades) + k

\* A liquidation that was not missed is in the deque, or pushed out by Buffer later trades, or
\* older than everything in the deque: it was seen by an earlier process.
CoverInv ==
    \A i \in (1 .. handled) \ missed :
        Forced(i) => \/ \E k \in DOMAIN trades : trades[k] = i
                     \/ handled - i >= Buffer
                     \/ \A k \in DOMAIN trades : i < trades[k]

\* The liquidations behind a signal are older than its wait; and the deque has nothing but newer
\* trades, unless the signal is still on the strategy's mind.
SignalInv ==
    \A s \in signals :
        /\ s.at <= now
        /\ \A i \in s.liqs : i \in 1 .. handled /\ tape[i].ts <= s.at - Wait
        /\ \/ s.at <= _last_signal_ms
           \/ \A i \in s.liqs : \A k \in DOMAIN trades : i < trades[k]

FadeInv == TapeInv /\ LagInv /\ DequeInv /\ CoverInv /\ SignalInv

\* The steps of the listener that take a trade.
HandleStep == HandleGarbled \/ HandleTrade \/ HandleLiquidation

LEMMA HandleEffect ==
  ASSUME FadeTypeOK, HandleStep
  PROVE  /\ handled' = handled + 1 /\ handled < Len(tape)
         /\ \/ trades' = trades /\ ~Forced(handled + 1)
            \/ AddTrade(handled + 1)
         /\ UNCHANGED <<exchangeVars, missed, strategyVars, faults>>
BY DEF HandleStep, HandleGarbled, HandleTrade, HandleLiquidation, Forced, strategyVars

\* Every entry of the deque after a trade is an entry of before, or that trade.
LEMMA DequeAfter ==
  ASSUME FadeAssumption, FadeTypeOK, DequeInv, AddTrade(handled + 1)
  PROVE  /\ \A k \in 1 .. Len(trades') :
               /\ trades'[k] <= handled + 1 - Len(trades') + k
               /\ trades'[k] = handled + 1 \/ \E l \in 1 .. Len(trades) : trades'[k] = trades[l]
         /\ \A l \in 1 .. Len(trades) :
               handled + 1 - trades[l] >= Buffer \/ \E k \in 1 .. Len(trades') : trades'[k] = trades[l]
         /\ \E k \in 1 .. Len(trades') : trades'[k] = handled + 1
         /\ Len(trades') \in Nat /\ DOMAIN trades' = 1 .. Len(trades')
<1>0. handled + 1 \in Nat \ {0} /\ handled \in Nat
  BY Typed
<1>1. Len(trades) \in Nat /\ DOMAIN trades = 1 .. Len(trades) /\ handled \in Nat
      /\ \A l \in 1 .. Len(trades) : trades[l] \in Nat /\ trades[l] <= handled - Len(trades) + l
  BY Typed DEF DequeInv
<1>4. Len(trades') \in Nat /\ DOMAIN trades' = 1 .. Len(trades')
  <2>1. trades \in Seq(Nat) /\ handled + 1 \in Nat
    BY <1>0, Typed DEF FadeTypeOK
  <2>2. Append(trades, handled + 1) \in Seq(Nat) /\ Len(Append(trades, handled + 1)) = Len(trades) + 1
    BY <2>1
  <2>3. Append(trades, handled + 1) # <<>>
    BY <1>1, <2>2
  <2>4. Tail(Append(trades, handled + 1)) \in Seq(Nat)
    BY <2>2, <2>3
  <2>5. trades' \in Seq(Nat)
    BY <1>0, <2>2, <2>4 DEF AddTrade
  <2> QED  BY <2>5
<1>2. CASE /\ Len(trades) < Buffer /\ trades' = Append(trades, handled + 1)
           /\ Len(trades') = Len(trades) + 1
  <2>1. \A k \in 1 .. Len(trades') : trades'[k] = IF k <= Len(trades) THEN trades[k] ELSE handled + 1
    <3>1. trades \in Seq(1 .. handled)
      BY DEF FadeTypeOK
    <3> QED  BY <1>0, <1>1, <1>2, <3>1
  <2>2. \A k \in 1 .. Len(trades') :
               /\ trades'[k] <= handled + 1 - Len(trades') + k
               /\ trades'[k] = handled + 1 \/ \E l \in 1 .. Len(trades) : trades'[k] = trades[l]
    BY <1>0, <1>1, <1>2, <2>1
  <2>3. \A l \in 1 .. Len(trades) : l \in 1 .. Len(trades') /\ trades'[l] = trades[l]
    BY <1>0, <1>1, <1>2, <2>1
  <2>4. Len(trades') \in 1 .. Len(trades') /\ trades'[Len(trades')] = handled + 1
    BY <1>0, <1>1, <1>2, <2>1
  <2>5. \A l \in 1 .. Len(trades) : \E k \in 1 .. Len(trades') : trades'[k] = trades[l]
    BY <2>3
  <2>6. \E k \in 1 .. Len(trades') : trades'[k] = handled + 1
    BY <2>4
  <2> QED  BY <1>4, <2>2, <2>5, <2>6
<1>3. CASE /\ Len(trades) = Buffer /\ Len(trades') = Buffer
           /\ \A k \in 1 .. Buffer : trades'[k] = IF k < Buffer THEN trades[k + 1] ELSE handled + 1
  <2>1. Buffer \in Nat \ {0}
    BY DEF FadeAssumption
  <2>2. \A k \in 1 .. Len(trades') :
               /\ trades'[k] <= handled + 1 - Len(trades') + k
               /\ trades'[k] = handled + 1 \/ \E l \in 1 .. Len(trades) : trades'[k] = trades[l]
    <3> TAKE k \in 1 .. Len(trades')
    <3>1. CASE k < Buffer
      <4>1. k + 1 \in 1 .. Len(trades) /\ trades'[k] = trades[k + 1]
        BY <1>3, <2>1, <3>1
      <4> QED  BY <1>0, <1>1, <1>3, <2>1, <4>1
    <3>2. CASE ~(k < Buffer)
      BY <1>0, <1>1, <1>3, <2>1, <3>2
    <3> QED  BY <3>1, <3>2
  <2>3. ASSUME NEW l \in 1 .. Len(trades)
        PROVE  handled + 1 - trades[l] >= Buffer \/ \E k \in 1 .. Len(trades') : trades'[k] = trades[l]
    <3>1. CASE l = 1
      BY <1>0, <1>1, <1>3, <2>1, <3>1
    <3>2. CASE l # 1
      <4>1. l - 1 \in 1 .. Len(trades') /\ trades'[l - 1] = trades[l]
        BY <1>0, <1>1, <1>3, <2>1, <3>2
      <4> QED  BY <4>1
    <3> QED  BY <3>1, <3>2
  <2>4. Buffer \in 1 .. Len(trades') /\ trades'[Buffer] = handled + 1
    BY <1>3, <2>1
  <2>5. \E k \in 1 .. Len(trades') : trades'[k] = handled + 1
    BY <2>4
  <2> QED  BY <1>4, <2>2, <2>3, <2>5
<1> QED  BY <1>0, <1>2, <1>3, DequeStep

\* The exchange prints in order of time and no faster than Span allows.
LEMMA TapeStep ==
  ASSUME FadeAssumption, FadeTypeOK, TapeInv, [FadeNext]_fadeVars
  PROVE  /\ TapeInv'
         /\ Len(tape') >= Len(tape) /\ \A i \in 1 .. Len(tape) : tape'[i] = tape[i]
         /\ now' >= now
<1> USE DEF exchangeVars, listenerVars, strategyVars
<1>1. CASE PrintTrade
  <2>1. PICK p \in Prints :
          tape' = Append(tape, [liquidation |-> p.liquidation, buy |-> p.buy,
                                usd |-> p.usd, ts |-> now])
    BY <1>1 DEF PrintTrade
  <2> DEFINE n == Len(tape) + 1
  <2>2. /\ Len(tape') = n /\ DOMAIN tape' = 1 .. n /\ n \in Nat
        /\ tape'[n].ts = now /\ \A i \in 1 .. Len(tape) : tape'[i] = tape[i]
    BY <2>1, Typed DEF FadeTypeOK
  <2>3. now' = now /\ (Len(tape) >= Buffer => tape[n - Buffer].ts + Span <= now)
    BY <1>1 DEF PrintTrade
  <2>0. /\ \A a \in 1 .. Len(tape) : tape[a].ts \in Nat /\ tape[a].ts <= now
        /\ \A a, b \in 1 .. Len(tape) : a <= b => tape[a].ts <= tape[b].ts
        /\ Len(tape) \in Nat /\ now \in Nat
    BY Typed DEF TapeInv
  <2>4. \A a \in 1 .. n :
           /\ tape'[a].ts = IF a = n THEN now ELSE tape[a].ts
           /\ a # n => a \in 1 .. Len(tape)
    BY <2>0, <2>2
  <2>5. /\ \A a \in DOMAIN tape' : tape'[a].ts <= now' /\ tape'[a].ts \in Nat
        /\ \A a, b \in DOMAIN tape' : a <= b => tape'[a].ts <= tape'[b].ts
    <3>1. ASSUME NEW a \in 1 .. n, NEW b \in 1 .. n, a <= b
          PROVE  tape'[a].ts <= tape'[b].ts
      <4>1. CASE b = n
        BY <2>0, <2>4, <4>1
      <4>2. CASE b # n
        <5>1. a # n
          BY <2>2, <3>1, <4>2
        <5> QED  BY <2>0, <2>4, <3>1, <4>2, <5>1
      <4> QED  BY <4>1, <4>2
    <3> QED  BY <2>0, <2>2, <2>3, <2>4, <3>1
  <2>6. ASSUME NEW a \in DOMAIN tape', NEW b \in DOMAIN tape', b - a >= Buffer
        PROVE  tape'[a].ts + Span <= tape'[b].ts
    <3>1. Buffer \in Nat \ {0} /\ Span \in Nat
      BY DEF FadeAssumption
    <3>2. a \in 1 .. Len(tape) /\ tape'[a] = tape[a]
      BY <2>2, <2>6, <3>1
    <3>3. CASE b = n
      <4>1. n - Buffer \in 1 .. Len(tape) /\ a <= n - Buffer
        BY <2>2, <2>6, <3>1, <3>2, <3>3, Typed
      <4>2. tape[a].ts <= tape[n - Buffer].ts
        BY <2>0, <3>2, <4>1
      <4>3. tape[n - Buffer].ts + Span <= now
        BY <2>2, <2>3, <3>1, <4>1, Typed
      <4>4. tape[a].ts \in Nat /\ tape[n - Buffer].ts \in Nat /\ now \in Nat
        BY <3>2, <4>1, Typed
      <4>5. tape[a].ts + Span <= now
        BY <3>1, <4>2, <4>3, <4>4, SpanChain, SMTT(30)
      <4>6. tape'[b].ts = now /\ tape'[a].ts = tape[a].ts
        BY <2>2, <3>2, <3>3
      <4> QED  BY <4>5, <4>6
    <3>4. CASE b # n
      <4>1. b \in 1 .. Len(tape) /\ tape'[b] = tape[b]
        BY <2>2, <3>4
      <4> QED  BY <2>6, <3>2, <4>1, Typed DEF TapeInv
    <3> QED  BY <3>3, <3>4
  <2> QED  BY <2>2, <2>3, <2>4, <2>5, <2>6, Typed DEF TapeInv
<1>2. CASE Tick
  <2>1. tape' = tape /\ now' = now + 1
    BY <1>2 DEF Tick
  <2> QED  BY <2>1, Typed DEF TapeInv
<1>3. CASE UNCHANGED exchangeVars
  BY <1>3, Typed DEF TapeInv
<1>4. PrintTrade \/ Tick \/ UNCHANGED exchangeVars
  <2>1. Evaluate => UNCHANGED exchangeVars
    BY EvaluateEffect
  <2> QED  BY <2>1 DEF FadeNext, Exchange, FadeListener, HandleGarbled, HandleTrade,
         HandleLiquidation, Save, SaveFails, LoseConnection, TickStarts, FadeRestart, fadeVars
<1> QED  BY <1>1, <1>2, <1>3, <1>4

\* The clock waits for the listener and for the tick.
LEMMA LagStep ==
  ASSUME FadeAssumption, FadeTypeOK, TapeInv, LagInv, [FadeNext]_fadeVars
  PROVE  LagInv'
<1> USE DEF exchangeVars, listenerVars, strategyVars
<1>0. Lag \in Nat
  BY DEF FadeAssumption
<1>1. CASE PrintTrade
  <2>1. PICK p \in Prints :
          tape' = Append(tape, [liquidation |-> p.liquidation, buy |-> p.buy,
                                usd |-> p.usd, ts |-> now])
    BY <1>1 DEF PrintTrade
  <2>2. /\ Len(tape') = Len(tape) + 1 /\ tape'[Len(tape) + 1].ts = now
        /\ \A i \in 1 .. Len(tape) : tape'[i] = tape[i]
    BY <2>1, Typed DEF FadeTypeOK
  <2>3. UNCHANGED <<now, handled, tick_ms>>
    BY <1>1 DEF PrintTrade
  <2>4. now <= tape'[handled + 1].ts + Lag
    <3>1. CASE handled = Len(tape)
      <4>1. tape'[handled + 1].ts = now /\ now \in Nat
        BY <2>2, <3>1, Typed
      <4> QED  BY <1>0, <4>1
    <3>2. CASE handled < Len(tape)
      BY <2>2, <3>2, Typed DEF LagInv
    <3> QED  BY <3>1, <3>2, Typed
  <2> QED  BY <2>3, <2>4 DEF LagInv
<1>2. CASE Tick
  <2>1. /\ now' = now + 1 /\ UNCHANGED <<tape, handled, tick_ms>>
        /\ handled < Len(tape) => now < tape[handled + 1].ts + Lag
        /\ tick_ms # 0 => now < tick_ms + Lag
    BY <1>2 DEF Tick
  <2>2. handled < Len(tape) => tape[handled + 1].ts \in Nat
    BY Typed
  <2>3. now \in Nat /\ tick_ms \in Nat
    BY Typed
  <2>4. handled < Len(tape) => now + 1 <= tape[handled + 1].ts + Lag
    BY <1>0, <2>1, <2>2, <2>3
  <2>5. tick_ms # 0 => now + 1 <= tick_ms + Lag
    BY <1>0, <2>1, <2>3
  <2> QED  BY <2>1, <2>4, <2>5 DEF LagInv
<1>3. CASE HandleStep
  <2>1. /\ handled' = handled + 1 /\ handled < Len(tape)
        /\ UNCHANGED <<now, tape, tick_ms>>
    BY <1>3, HandleEffect
  <2>2. handled + 1 < Len(tape) => tape[handled + 1].ts <= tape[handled + 2].ts
    <3>1. /\ \A a, b \in 1 .. Len(tape) : a <= b => tape[a].ts <= tape[b].ts
          /\ handled \in Nat /\ Len(tape) \in Nat
      BY Typed DEF TapeInv
    <3> QED  BY <3>1
  <2>3. handled + 1 < Len(tape) =>
           now <= tape[handled + 1].ts + Lag /\ handled + 1 \in 1 .. Len(tape)
           /\ handled + 2 \in 1 .. Len(tape)
    BY <2>1, Typed DEF LagInv
  <2>4. handled + 1 < Len(tape) => now <= tape[handled + 2].ts + Lag
    <3>1. handled + 1 < Len(tape) =>
             tape[handled + 1].ts \in Nat /\ tape[handled + 2].ts \in Nat
      BY <2>3, Typed
    <3>2. ASSUME NEW a \in Nat, NEW b \in Nat, NEW n \in Nat, NEW l \in Nat, a <= b, n <= a + l
          PROVE  n <= b + l
      BY <3>2
    <3>3. now \in Nat
      BY Typed
    <3>4. ASSUME handled + 1 < Len(tape) PROVE now <= tape[handled + 2].ts + Lag
      <4>1. /\ tape[handled + 1].ts \in Nat /\ tape[handled + 2].ts \in Nat
            /\ tape[handled + 1].ts <= tape[handled + 2].ts
            /\ now <= tape[handled + 1].ts + Lag
        BY <2>2, <2>3, <3>1, <3>4
      <4> QED  BY <1>0, <3>2, <3>3, <4>1
    <3> QED  BY <3>4
  <2>5. handled + 1 + 1 = handled + 2
    BY Typed
  <2> QED  BY <2>1, <2>4, <2>5 DEF LagInv
<1>4. CASE LoseConnection \/ FadeRestart
  BY <1>4, Typed DEF LoseConnection, FadeRestart, LagInv
<1>5. CASE TickStarts
  BY <1>0, <1>5, Typed DEF TickStarts, LagInv
<1>6. CASE Evaluate
  BY <1>6, EvaluateEffect DEF LagInv
<1>7. CASE Save \/ SaveFails \/ UNCHANGED fadeVars
  BY <1>7 DEF Save, SaveFails, fadeVars, LagInv
<1> QED  BY <1>1, <1>2, <1>3, <1>4, <1>5, <1>6, <1>7
         DEF FadeNext, Exchange, FadeListener, HandleStep

\* The steps that are not the listener's taking or losing a trade leave the deque as it is.
LEMMA DequeKept ==
  ASSUME FadeTypeOK, [FadeNext]_fadeVars
  PROVE  \/ HandleStep \/ LoseConnection \/ FadeRestart
         \/ UNCHANGED <<handled, missed, trades>>
<1>1. Evaluate => UNCHANGED <<handled, missed, trades>>
  BY EvaluateEffect DEF listenerVars
<1> QED  BY <1>1 DEF FadeNext, Exchange, FadeListener, HandleStep, PrintTrade, Tick, Save, SaveFails,
          TickStarts, fadeVars, listenerVars

LEMMA DequeInvStep ==
  ASSUME FadeAssumption, FadeTypeOK, DequeInv, CoverInv, TapeInv, [FadeNext]_fadeVars
  PROVE  DequeInv' /\ CoverInv'
<1>1. Len(tape) \in Nat /\ handled \in Nat /\ handled <= Len(tape) /\ Len(trades) \in Nat
      /\ DOMAIN trades = 1 .. Len(trades) /\ \A k \in 1 .. Len(trades) : trades[k] \in 1 .. handled
  BY Typed
<1>2. \A i \in 1 .. Len(tape) : Forced(i)' = Forced(i)
  BY TapeStep DEF Forced
<1>3. CASE HandleStep
  <2>1. /\ handled' = handled + 1 /\ missed' = missed /\ handled + 1 \in 1 .. Len(tape)
        /\ \/ trades' = trades /\ ~Forced(handled + 1)
           \/ AddTrade(handled + 1)
    BY <1>1, <1>3, HandleEffect
  <2>2. CASE trades' = trades /\ ~Forced(handled + 1)
    <3>1. DequeInv'
      BY <1>1, <2>1, <2>2 DEF DequeInv
    <3>2. ASSUME NEW i \in (1 .. handled') \ missed', Forced(i)'
          PROVE  \/ \E k \in DOMAIN trades' : trades'[k] = i
                 \/ handled' - i >= Buffer
                 \/ \A k \in DOMAIN trades' : i < trades'[k]
      <4>1. i \in (1 .. handled) \ missed /\ Forced(i)
        BY <1>1, <1>2, <2>1, <2>2, <3>2
      <4> QED  BY <1>1, <2>1, <2>2, <4>1 DEF CoverInv, FadeAssumption
    <3> QED  BY <3>1, <3>2 DEF CoverInv
  <2>3. CASE AddTrade(handled + 1)
    <3>1. /\ Len(trades') \in Nat /\ DOMAIN trades' = 1 .. Len(trades')
          /\ \A k \in 1 .. Len(trades') : trades'[k] \in Nat
      <4>1. trades' \in Seq(1 .. handled') /\ handled' \in Nat
        BY <1>1, <2>1, TypeStep DEF FadeTypeOK
      <4> QED  BY <4>1
    <3>2. /\ \A k \in 1 .. Len(trades') :
               /\ trades'[k] <= handled + 1 - Len(trades') + k
               /\ trades'[k] = handled + 1 \/ \E l \in 1 .. Len(trades) : trades'[k] = trades[l]
          /\ \A l \in 1 .. Len(trades) :
               handled + 1 - trades[l] >= Buffer \/ \E k \in 1 .. Len(trades') : trades'[k] = trades[l]
          /\ \E k \in 1 .. Len(trades') : trades'[k] = handled + 1
      BY <2>3, DequeAfter
    <3>3. DequeInv'
      <4>1. \A k \in 1 .. Len(trades') : trades'[k] <= handled' - Len(trades') + k
        <5>1. \A k \in 1 .. Len(trades') : trades'[k] <= handled + 1 - Len(trades') + k
          BY <3>2
        <5> QED  BY <1>1, <2>1, <3>1, <5>1
      <4> QED  BY <3>1, <4>1 DEF DequeInv
    <3>4. ASSUME NEW i \in (1 .. handled') \ missed', Forced(i)'
          PROVE  \/ \E k \in DOMAIN trades' : trades'[k] = i
                 \/ handled' - i >= Buffer
                 \/ \A k \in DOMAIN trades' : i < trades'[k]
      <4>1. CASE i = handled + 1
        BY <3>1, <3>2, <4>1
      <4>2. CASE i # handled + 1
        <5>1. i \in (1 .. handled) \ missed /\ Forced(i)
          BY <1>1, <1>2, <2>1, <3>4, <4>2
        <5>2. CASE \E l \in 1 .. Len(trades) : trades[l] = i
          <6>1. PICK l \in 1 .. Len(trades) : trades[l] = i
            BY <5>2
          <6>2. handled + 1 - i >= Buffer \/ \E k \in 1 .. Len(trades') : trades'[k] = i
            BY <3>2, <6>1
          <6>3. handled' - i = handled + 1 - i
            BY <1>1, <2>1
          <6> QED  BY <3>1, <6>2, <6>3
        <5>3. CASE handled - i >= Buffer
          BY <1>1, <2>1, <5>1, <5>3 DEF FadeAssumption
        <5>4. CASE \A l \in 1 .. Len(trades) : i < trades[l]
          <6>1. \A k \in 1 .. Len(trades') :
                  trades'[k] = handled + 1 \/ \E l \in 1 .. Len(trades) : trades'[k] = trades[l]
            BY <3>2
          <6>2. i < handled + 1
            BY <1>1, <5>1
          <6> QED  BY <3>1, <5>4, <6>1, <6>2
        <5> QED  BY <1>1, <5>1, <5>2, <5>3, <5>4 DEF CoverInv
      <4> QED  BY <4>1, <4>2
    <3> QED  BY <3>3, <3>4 DEF CoverInv
  <2> QED  BY <2>1, <2>2, <2>3
<1>4. CASE LoseConnection
  <2>1. /\ handled' = Len(tape) /\ missed' = missed \cup ((handled + 1) .. Len(tape))
        /\ trades' = trades
    BY <1>4 DEF LoseConnection
  <2>2. DequeInv'
    BY <1>1, <2>1 DEF DequeInv
  <2>3. ASSUME NEW i \in (1 .. handled') \ missed', Forced(i)'
        PROVE  \/ \E k \in DOMAIN trades' : trades'[k] = i
               \/ handled' - i >= Buffer
               \/ \A k \in DOMAIN trades' : i < trades'[k]
    <3>1. i \in (1 .. handled) \ missed /\ Forced(i)
      BY <1>1, <1>2, <2>1, <2>3
    <3> QED  BY <1>1, <2>1, <3>1 DEF CoverInv, FadeAssumption
  <2> QED  BY <2>2, <2>3 DEF CoverInv
<1>5. CASE FadeRestart
  <2>1. DOMAIN trades' = {}
    BY <1>5 DEF FadeRestart
  <2> QED  BY <2>1 DEF DequeInv, CoverInv
<1>6. CASE UNCHANGED <<handled, missed, trades>>
  <2>1. DequeInv'
    BY <1>6 DEF DequeInv
  <2>2. \A i \in 1 .. handled : Forced(i)' = Forced(i)
    BY <1>1, <1>2
  <2> QED  BY <1>6, <2>1, <2>2 DEF CoverInv
<1> QED  BY <1>3, <1>4, <1>5, <1>6, DequeKept

\* What a step does to the signals: Fires adds one, the others none; the strategy forgets only
\* with the process, and then the deque is empty; the deque takes nothing but newer trades.
LEMMA SignalInvStep ==
  ASSUME FadeAssumption, FadeTypeOK, TapeInv, DequeInv, SignalInv, [FadeNext]_fadeVars
  PROVE  SignalInv'
<1>1. /\ Len(tape) \in Nat /\ handled \in Nat /\ handled <= Len(tape) /\ now \in Nat
      /\ _last_signal_ms \in Nat /\ tick_ms \in Nat /\ tick_ms <= now
      /\ DOMAIN trades = 1 .. Len(trades) /\ \A k \in 1 .. Len(trades) : trades[k] \in 1 .. handled
      /\ \A i \in 1 .. Len(tape) : tape[i].ts \in Nat
  BY Typed
<1>2. /\ \A i \in 1 .. Len(tape) : tape'[i] = tape[i]
      /\ now' >= now /\ now' \in Nat
  <2>1. FadeTypeOK'
    BY TypeStep
  <2> QED  BY <2>1, TapeStep DEF FadeTypeOK
<1>3. \A s \in signals : s.at \in Nat /\ s.liqs \subseteq Nat
  BY DEF FadeTypeOK, Signals
<1>4. /\ \A i \in 1 .. handled : tape'[i].ts = tape[i].ts
      /\ \A s \in signals : /\ s.at <= now'
                            /\ \A i \in s.liqs : /\ i \in 1 .. handled
                                                 /\ tape'[i].ts <= s.at - Wait
  <2>1. \A i \in 1 .. handled : tape'[i].ts = tape[i].ts
    BY <1>1, <1>2
  <2>2. \A s \in signals : s.at <= now'
    <3>1. \A s \in signals : s.at <= now
      BY DEF SignalInv
    <3> QED  BY <1>1, <1>2, <1>3, <3>1
  <2>3. \A s \in signals : \A i \in s.liqs : i \in 1 .. handled /\ tape[i].ts <= s.at - Wait
    BY DEF SignalInv
  <2> QED  BY <2>1, <2>2, <2>3
<1>5. CASE HandleStep
  <2>1. /\ handled' = handled + 1 /\ UNCHANGED <<signals, _last_signal_ms>>
        /\ trades' = trades \/ AddTrade(handled + 1)
    BY <1>5, HandleEffect DEF strategyVars
  <2>2. \A k \in DOMAIN trades' :
          trades'[k] = handled + 1 \/ \E l \in DOMAIN trades : trades'[k] = trades[l]
    <3>1. CASE AddTrade(handled + 1)
      <4>1. /\ DOMAIN trades' = 1 .. Len(trades')
            /\ \A k \in 1 .. Len(trades') :
                 trades'[k] = handled + 1 \/ \E l \in 1 .. Len(trades) : trades'[k] = trades[l]
        BY <3>1, DequeAfter
      <4> QED  BY <1>1, <4>1
    <3> QED  BY <2>1, <3>1
  <2>3. ASSUME NEW s \in signals
        PROVE  \/ s.at <= _last_signal_ms
               \/ \A i \in s.liqs : \A k \in DOMAIN trades' : i < trades'[k]
    <3>1. CASE \A i \in s.liqs : \A l \in DOMAIN trades : i < trades[l]
      <4>1. \A i \in s.liqs : i < handled + 1
        BY <1>1, <1>4
      <4> QED  BY <2>2, <3>1, <4>1
    <3> QED  BY <3>1 DEF SignalInv
  <2>4. \A i \in 1 .. handled : i \in 1 .. handled'
    BY <1>1, <2>1
  <2> QED  BY <1>4, <2>1, <2>3, <2>4 DEF SignalInv
<1>6. CASE FadeRestart
  <2>1. DOMAIN trades' = {} /\ handled' = Len(tape) /\ signals' = signals
    BY <1>6 DEF FadeRestart
  <2>2. \A i \in 1 .. handled : i \in 1 .. handled'
    BY <1>1, <2>1
  <2> QED  BY <1>4, <2>1, <2>2 DEF SignalInv
<1>7. CASE Fires
  <2> DEFINE new == [at |-> tick_ms, direction |-> Direction, liqs |-> Liqs]
  <2>1. /\ _last_signal_ms' = tick_ms /\ tick_ms - _last_signal_ms >= Gap
        /\ UNCHANGED <<now, tape, handled, trades>>
        /\ signals' = signals \cup {new}
        /\ \A i \in Liqs : i \in 1 .. handled /\ tape[i].ts <= tick_ms - Wait
    BY <1>7, FiresEffect DEF exchangeVars, listenerVars
  <2>2. tick_ms >= _last_signal_ms
    BY <1>1, <2>1 DEF FadeAssumption
  <2>3. ASSUME NEW s \in signals
        PROVE  \/ s.at <= tick_ms
               \/ \A i \in s.liqs : \A k \in DOMAIN trades : i < trades[k]
    <3>1. s.at <= _last_signal_ms => s.at <= tick_ms
      BY <1>1, <1>3, <2>2
    <3> QED  BY <3>1 DEF SignalInv
  <2>4. new.at = tick_ms /\ new.liqs = Liqs
    OBVIOUS
  <2> HIDE DEF new
  <2>5. ASSUME NEW s \in signals'
        PROVE  /\ s.at <= now'
               /\ \A i \in s.liqs : i \in 1 .. handled' /\ tape'[i].ts <= s.at - Wait
               /\ \/ s.at <= _last_signal_ms'
                  \/ \A i \in s.liqs : \A k \in DOMAIN trades' : i < trades'[k]
    <3>1. CASE s \in signals
      BY <1>4, <2>1, <2>3, <3>1
    <3>2. CASE s = new
      BY <1>1, <2>1, <2>4, <3>2
    <3> QED  BY <2>1, <3>1, <3>2
  <2> QED  BY <2>5 DEF SignalInv
<1>8. CASE /\ UNCHANGED <<trades, signals, _last_signal_ms>>
           /\ handled' \in {handled, Len(tape)}
  <2>1. \A i \in 1 .. handled : i \in 1 .. handled'
    BY <1>1, <1>8
  <2> QED  BY <1>4, <1>8, <2>1 DEF SignalInv
<1>9. \/ HandleStep \/ FadeRestart \/ Fires
      \/ /\ UNCHANGED <<trades, signals, _last_signal_ms>>
         /\ handled' \in {handled, Len(tape)}
  <2>1. Evaluate => \/ Fires
                    \/ UNCHANGED <<trades, signals, _last_signal_ms>> /\ handled' = handled
    BY EvaluateEffect DEF listenerVars
  <2>2. PrintTrade \/ Tick \/ Save \/ SaveFails \/ TickStarts \/ UNCHANGED fadeVars
          => UNCHANGED <<trades, signals, _last_signal_ms>> /\ handled' = handled
    BY DEF PrintTrade, Tick, Save, SaveFails, TickStarts, fadeVars, listenerVars, strategyVars
  <2>3. LoseConnection => UNCHANGED <<trades, signals, _last_signal_ms>> /\ handled' = Len(tape)
    BY DEF LoseConnection, strategyVars
  <2> QED  BY <2>1, <2>2, <2>3 DEF FadeNext, Exchange, FadeListener, HandleStep
<1> QED  BY <1>5, <1>6, <1>7, <1>8, <1>9

THEOREM FadeInvariant == FadeSpec => []FadeInv
<1> USE FadeAssumption
<1>1. FadeInit => FadeInv
  BY DEF FadeInit, FadeInv, TapeInv, LagInv, DequeInv, CoverInv, SignalInv
<1>2. FadeTypeOK /\ FadeInv /\ [FadeNext]_fadeVars => FadeInv'
  BY TapeStep, LagStep, DequeInvStep, SignalInvStep DEF FadeInv
<1> QED  BY <1>1, <1>2, FadeTypeCorrect, PTL DEF FadeSpec

----------------------------------------------------------------------------

LEMMA OneSignalStep ==
  ASSUME FadeAssumption, FadeTypeOK, FadeInv, OneSignalPerCascade, [FadeNext]_fadeVars
  PROVE  OneSignalPerCascade'
<1>1. CASE Fires
  <2> DEFINE new == [at |-> tick_ms, direction |-> Direction, liqs |-> Liqs]
  <2>1. /\ tick_ms - _last_signal_ms >= Gap
        /\ signals' = signals \cup {new} /\ new.liqs = Liqs
        /\ \A i \in Liqs : /\ \E k \in DOMAIN trades : i = trades[k]
                           /\ i \in DOMAIN tape
                           /\ tape[i].ts >= tick_ms - Window
    BY <1>1, FiresEffect
  <2> HIDE DEF new
  <2>2. ASSUME NEW s \in signals, NEW i \in Liqs, i \in s.liqs
        PROVE  FALSE
    <3>1. /\ s.at \in Nat /\ i \in 1 .. handled /\ tape[i].ts <= s.at - Wait
          /\ \/ s.at <= _last_signal_ms
             \/ \A k \in DOMAIN trades : i < trades[k]
      BY <2>2 DEF FadeInv, SignalInv, FadeTypeOK, Signals
    <3>2. CASE s.at <= _last_signal_ms
      <4>1. tape[i].ts \in Nat /\ tick_ms \in Nat /\ _last_signal_ms \in Nat
        BY <2>1, Typed
      <4> QED  BY <2>1, <3>1, <3>2, <4>1 DEF FadeAssumption
    <3>3. CASE \A k \in DOMAIN trades : i < trades[k]
      BY <2>1, <3>1, <3>3
    <3> QED  BY <3>1, <3>2, <3>3
  <2>3. \A s \in signals : s.liqs \cap new.liqs = {}
    BY <2>1, <2>2
  <2> QED  BY <2>1, <2>3 DEF OneSignalPerCascade
<1>2. CASE UNCHANGED signals
  BY <1>2 DEF OneSignalPerCascade
<1>3. Fires \/ UNCHANGED signals
  <2>1. Evaluate => Fires \/ UNCHANGED signals
    BY EvaluateEffect
  <2> QED  BY <2>1 DEF FadeNext, Exchange, FadeListener, HandleGarbled, HandleTrade,
        HandleLiquidation, PrintTrade, Tick, Save, SaveFails, LoseConnection, TickStarts, FadeRestart,
        fadeVars, strategyVars
<1> QED  BY <1>1, <1>2, <1>3

\* A cascade is faded at most once: no liquidation counts towards two signals, across reconnects
\* and restarts, as long as Gap + Wait > Window.
THEOREM FadedOnce == FadeSpec => []OneSignalPerCascade
<1> USE FadeAssumption
<1>1. FadeInit => OneSignalPerCascade
  BY DEF FadeInit, OneSignalPerCascade
<1>2. FadeTypeOK /\ FadeInv /\ OneSignalPerCascade /\ [FadeNext]_fadeVars => OneSignalPerCascade'
  BY OneSignalStep
<1> QED  BY <1>1, <1>2, FadeTypeCorrect, FadeInvariant, PTL DEF FadeSpec

\* When a signal is given, every liquidation younger than the wait is beyond the listener's reach.
LEMMA FiresInQuiet ==
  ASSUME FadeAssumption, FadeTypeOK, FadeInv, Fires,
         NEW i \in DOMAIN tape \ missed, Forced(i), tape[i].ts > tick_ms - Wait
  PROVE  tape[i].ts >= tick_ms - Lag
<1>1. /\ Len(tape) \in Nat /\ DOMAIN tape = 1 .. Len(tape) /\ handled \in Nat
      /\ handled <= Len(tape) /\ now \in Nat /\ tick_ms \in Nat /\ tick_ms <= now
      /\ \A a \in 1 .. Len(tape) : tape[a].ts \in Nat
      /\ DOMAIN trades = 1 .. Len(trades) /\ \A k \in 1 .. Len(trades) : trades[k] \in 1 .. handled
  BY Typed
<1>2. Lag \in Nat /\ Span \in Nat /\ Wait \in Nat /\ Window \in Nat /\ Span >= Wait + Lag
      /\ Buffer \in Nat \ {0}
  BY DEF FadeAssumption
<1>3. /\ \A a, b \in 1 .. Len(tape) : a <= b => tape[a].ts <= tape[b].ts
      /\ \A a, b \in 1 .. Len(tape) : b - a >= Buffer => tape[a].ts + Span <= tape[b].ts
      /\ \A a \in 1 .. Len(tape) : tape[a].ts <= now
      /\ handled < Len(tape) => now <= tape[handled + 1].ts + Lag
      /\ tick_ms # 0 => now <= tick_ms + Lag
  BY <1>1 DEF FadeInv, TapeInv, LagInv
<1>4. PICK l \in Range(trades) : Ripe(l)
  BY DEF Fires
<1>5. /\ l \in 1 .. handled /\ tape[l].ts >= tick_ms - Window /\ tape[l].ts <= tick_ms - Wait
      /\ l \in Range(trades) /\ tick_ms # 0
      /\ \A j \in Liqs : tape[j].ts <= tape[l].ts
  <2>1. l \in Liqs
    BY <1>4 DEF Ripe, Last
  <2> QED  BY <1>4, <2>1, FiresEffect DEF Ripe, Last
<1>6. CASE i > handled
  <2>1. handled + 1 \in 1 .. Len(tape) /\ handled + 1 <= i /\ i \in 1 .. Len(tape)
    BY <1>1, <1>6
  <2>2. tape[handled + 1].ts <= tape[i].ts /\ now <= tape[handled + 1].ts + Lag
    BY <1>1, <1>3, <2>1
  <2> QED  BY <1>1, <1>2, <2>1, <2>2
<1>7. CASE i <= handled
  <2>1. i \in (1 .. handled) \ missed
    BY <1>1, <1>7
  <2>2. CASE \E k \in DOMAIN trades : trades[k] = i
    <3>1. tape[i].ts >= tick_ms - Window
      BY <1>1, <1>2, <1>5
    <3>2. i \in Liqs
      BY <2>2, <3>1 DEF Liqs, InWindow, Range, Forced, Detect
    <3> QED  BY <1>1, <1>2, <1>5, <3>2
  <2>3. CASE handled - i >= Buffer
    <3>1. tape[i].ts + Span <= tape[handled].ts /\ tape[handled].ts <= now /\ tape[handled].ts \in Nat
      BY <1>1, <1>2, <1>3, <2>1, <2>3
    <3>2. tape[i].ts \in Nat /\ now <= tick_ms + Lag
      BY <1>1, <1>3, <1>5
    <3>3. tick_ms \in Nat /\ now \in Nat
      BY <1>1
    <3>4. tape[i].ts + Span <= tick_ms + Lag
      BY <1>2, <3>1, <3>2, <3>3
    <3>5. ~(tape[i].ts > tick_ms - Wait)
      BY <1>2, <3>2, <3>3, <3>4
    <3> QED  BY <3>5
  <2>4. CASE \A k \in DOMAIN trades : i < trades[k]
    <3>1. i < l
      BY <1>5, <2>4 DEF Range
    <3>2. tape[i].ts <= tape[l].ts
      <4>1. i \in 1 .. Len(tape) /\ l \in 1 .. Len(tape) /\ i <= l
        BY <1>1, <1>5, <1>7, <3>1
      <4> QED  BY <1>3, <4>1
    <3> QED  BY <1>1, <1>2, <1>5, <3>2
  <2> QED  BY <2>1, <2>2, <2>3, <2>4 DEF FadeInv, CoverInv
<1> QED  BY <1>1, <1>6, <1>7

LEMMA QuietStep ==
  ASSUME FadeAssumption, FadeTypeOK, FadeInv, QuietBeforeSignal, [FadeNext]_fadeVars
  PROVE  QuietBeforeSignal'
<1> USE DEF exchangeVars, listenerVars, strategyVars
<1>1. CASE Fires
  <2> DEFINE new == [at |-> tick_ms, direction |-> Direction, liqs |-> Liqs]
  <2>1. /\ signals' = signals \cup {new} /\ new.at = tick_ms
        /\ tape' = tape /\ missed' = missed
    BY <1>1, FiresEffect
  <2> HIDE DEF new
  <2>2. \A i \in DOMAIN tape \ missed :
          Forced(i) /\ tape[i].ts > tick_ms - Wait => tape[i].ts >= tick_ms - Lag
    BY <1>1, FiresInQuiet
  <2>3. \A i : Forced(i)' = Forced(i)
    BY <2>1 DEF Forced
  <2> QED  BY <2>1, <2>2, <2>3 DEF QuietBeforeSignal
<1>2. CASE PrintTrade
  <2>1. PICK p \in Prints :
          tape' = Append(tape, [liquidation |-> p.liquidation, buy |-> p.buy,
                                usd |-> p.usd, ts |-> now])
    BY <1>2 DEF PrintTrade
  <2>2. /\ DOMAIN tape' = 1 .. (Len(tape) + 1) /\ DOMAIN tape = 1 .. Len(tape)
        /\ tape'[Len(tape) + 1].ts = now /\ \A i \in 1 .. Len(tape) : tape'[i] = tape[i]
        /\ Len(tape) \in Nat
    BY <2>1, Typed DEF FadeTypeOK
  <2>3. signals' = signals /\ missed' = missed
    BY <1>2 DEF PrintTrade
  <2>4. ASSUME NEW s \in signals, NEW i \in DOMAIN tape' \ missed,
               Forced(i)', tape'[i].ts > s.at - Wait
        PROVE  tape'[i].ts >= s.at - Lag
    <3>1. CASE i = Len(tape) + 1
      <4>1. s.at \in Nat /\ s.at <= now /\ now \in Nat /\ Lag \in Nat
        BY Typed DEF FadeInv, SignalInv, FadeTypeOK, Signals, FadeAssumption
      <4> QED  BY <2>2, <3>1, <4>1
    <3>2. CASE i # Len(tape) + 1
      <4>1. i \in DOMAIN tape \ missed /\ tape'[i] = tape[i]
        BY <2>2, <2>4, <3>2
      <4> QED  BY <2>4, <4>1 DEF QuietBeforeSignal, Forced
    <3> QED  BY <3>1, <3>2
  <2> QED  BY <2>3, <2>4 DEF QuietBeforeSignal
<1>3. CASE UNCHANGED <<tape, signals>> /\ missed \subseteq missed'
  <2>1. \A i : Forced(i)' = Forced(i)
    BY <1>3 DEF Forced
  <2> QED  BY <1>3, <2>1 DEF QuietBeforeSignal
<1>4. Fires \/ PrintTrade \/ (UNCHANGED <<tape, signals>> /\ missed \subseteq missed')
  <2>1. Evaluate => Fires \/ (UNCHANGED <<tape, signals>> /\ missed' = missed)
    BY EvaluateEffect
  <2>2. LoseConnection \/ FadeRestart => UNCHANGED <<tape, signals>> /\ missed \subseteq missed'
    BY DEF LoseConnection, FadeRestart
  <2>3. Tick \/ HandleStep \/ Save \/ SaveFails \/ TickStarts \/ UNCHANGED fadeVars
          => UNCHANGED <<tape, signals>> /\ missed' = missed
    BY DEF Tick, HandleStep, HandleGarbled, HandleTrade, HandleLiquidation, Save, SaveFails,
       TickStarts, fadeVars
  <2> QED  BY <2>1, <2>2, <2>3 DEF FadeNext, Exchange, FadeListener, HandleStep
<1> QED  BY <1>1, <1>2, <1>3, <1>4

\* A signal comes out of a quiet market, for every wait and lag, as long as the deque covers the
\* wait and the lag together.
THEOREM FadedInQuiet == FadeSpec => []QuietBeforeSignal
<1> USE FadeAssumption
<1>1. FadeInit => QuietBeforeSignal
  BY DEF FadeInit, QuietBeforeSignal
<1>2. FadeTypeOK /\ FadeInv /\ QuietBeforeSignal /\ [FadeNext]_fadeVars => QuietBeforeSignal'
  BY QuietStep
<1> QED  BY <1>1, <1>2, FadeTypeCorrect, FadeInvariant, PTL DEF FadeSpec

\* liq_max_post_cascade_age_s has no effect unless it is shorter than the window: a cascade is out
\* of the window before it is too old.
THEOREM StaleNeverRefused ==
  ASSUME Window <= MaxAge
  PROVE  FadeSpec => [][~RejectStale]_fadeVars
<1> USE FadeAssumption
<1>1. FadeTypeOK => ~RejectStale
  <2> SUFFICES ASSUME FadeTypeOK, RejectStale PROVE FALSE
    OBVIOUS
  <2>1. PICK i \in Range(trades) : Last(i) /\ tick_ms - tape[i].ts > MaxAge
    BY DEF RejectStale
  <2>2. tape[i].ts >= tick_ms - Window /\ i \in Range(trades)
    BY <2>1 DEF Last, Liqs, InWindow
  <2>3. tape[i].ts \in Nat /\ tick_ms \in Nat
    BY <2>2, Typed DEF Range
  <2> QED  BY <2>1, <2>2, <2>3 DEF FadeAssumption
<1> QED  BY <1>1, FadeTypeCorrect, PTL DEF FadeSpec

\* The liquidation being inserted is real and has no row yet.
CountersInv ==
    /\ CountersAgree
    /\ saving # 0 => Forced(saving) /\ saving \notin liquidation_events

LEMMA CountersStep ==
  ASSUME FadeAssumption, FadeTypeOK, TapeInv, CountersInv, [FadeNext]_fadeVars
  PROVE  CountersInv'
<1> USE DEF exchangeVars, listenerVars, strategyVars
<1>1. /\ Len(tape) \in Nat /\ handled \in Nat /\ handled <= Len(tape)
      /\ saving \in 0 .. handled /\ liquidation_events \subseteq 1 .. handled
      /\ counters \in [Counters -> Nat]
  BY Typed DEF FadeTypeOK
<1>2. \A i \in 1 .. handled : Forced(i)' = Forced(i)
  <2>1. \A i \in 1 .. Len(tape) : tape'[i] = tape[i]
    BY TapeStep
  <2>2. \A i \in 1 .. handled : i \in 1 .. Len(tape)
    BY <1>1
  <2> QED  BY <2>1, <2>2 DEF Forced
<1>3. CASE UNCHANGED <<saving, liquidation_events, faults>>
           /\ \A c \in Counters \ {"parse_errors"} : counters'[c] = counters[c]
  BY <1>1, <1>2, <1>3 DEF CountersInv, CountersAgree, Counters
<1>4. CASE HandleLiquidation
  <2>1. /\ saving = 0 /\ saving' = handled + 1 /\ handled + 1 \in 1 .. Len(tape)
        /\ UNCHANGED <<liquidation_events, faults, tape>>
        /\ Detect(tape[handled + 1].liquidation)
    BY <1>1, <1>4 DEF HandleLiquidation
  <2>2. PICK c \in {"shape_dict", "shape_bool", "shape_other"} :
          counters' = [counters EXCEPT !["with_liq_field"] = @ + 1, ![c] = @ + 1]
    <3>1. ShapeCounter(tape[handled + 1].liquidation) \in {"shape_dict", "shape_bool", "shape_other"}
      BY DEF ShapeCounter
    <3> QED  BY <1>4, <3>1 DEF HandleLiquidation
  <2>3. /\ counters["with_liq_field"] \in Nat /\ counters["shape_dict"] \in Nat
        /\ counters["shape_bool"] \in Nat /\ counters["shape_other"] \in Nat
    BY <1>1 DEF Counters
  <2>5. counters'["with_liq_field"] = counters["with_liq_field"] + 1
    BY <1>1, <2>2 DEF Counters
  <2>6. \A k \in {"shape_dict", "shape_bool", "shape_other"} :
           counters'[k] = IF k = c THEN counters[k] + 1 ELSE counters[k]
    BY <1>1, <2>2 DEF Counters
  <2>7. counters["with_liq_field"] =
             counters["shape_dict"] + counters["shape_bool"] + counters["shape_other"]
    BY DEF CountersInv, CountersAgree
  <2>8. counters'["with_liq_field"] =
             counters'["shape_dict"] + counters'["shape_bool"] + counters'["shape_other"]
    BY <2>3, <2>5, <2>6, <2>7
  <2>9. tape'[handled + 1].liquidation \in {"dict", "true", "string"}
    BY <2>1 DEF Detect
  <2>10. saving' # 0 => tape'[saving'].liquidation \in {"dict", "true", "string"}
    BY <2>1, <2>9
  <2>11. handled + 1 \notin liquidation_events /\ handled + 1 # 0
    BY <1>1
  <2>12. Cardinality(liquidation_events \cup {handled + 1}) = Cardinality(liquidation_events) + 1
    <3>1. IsFiniteSet(1 .. handled)
      BY <1>1, FS_Interval
    <3>2. IsFiniteSet(liquidation_events)
      BY <1>1, <3>1, FS_Subset
    <3> QED  BY <2>11, <3>2, FS_AddElement
  <2>13. /\ liquidation_events \cup ({saving} \ {0}) = liquidation_events
         /\ liquidation_events' \cup ({saving'} \ {0}) = liquidation_events \cup {handled + 1}
    BY <2>1, <2>11
  <2>14. \A j \in liquidation_events' : Forced(j)'
    BY <1>1, <1>2, <2>1 DEF CountersInv, CountersAgree
  <2>15. faults = 0 => counters["with_liq_field"] = Cardinality(liquidation_events)
    BY <2>13 DEF CountersInv, CountersAgree
  <2>16. faults' = 0 =>
           counters'["with_liq_field"] = Cardinality(liquidation_events' \cup ({saving'} \ {0}))
    BY <2>1, <2>5, <2>12, <2>13, <2>15
  <2>17. saving' \notin liquidation_events'
    BY <2>1, <2>11
  <2>18. CountersAgree'
    BY <2>8, <2>14, <2>16 DEF CountersAgree
  <2> QED  BY <2>10, <2>17, <2>18 DEF CountersInv, Forced
<1>5. CASE Save
  <2>1. /\ saving # 0 /\ saving' = 0 /\ liquidation_events' = liquidation_events \cup {saving}
        /\ UNCHANGED <<counters, faults>>
    BY <1>5 DEF Save
  <2>2. liquidation_events' \cup ({saving'} \ {0}) = liquidation_events \cup ({saving} \ {0})
    BY <2>1
  <2>3. Forced(saving) /\ saving \in 1 .. handled
    BY <1>1, <2>1 DEF CountersInv
  <2>4. \A j \in liquidation_events : Forced(j)
    BY DEF CountersInv, CountersAgree
  <2>5. \A j \in liquidation_events' : j \in 1 .. handled /\ Forced(j)
    BY <1>1, <2>1, <2>3, <2>4
  <2>6. \A j \in liquidation_events' : Forced(j)'
    BY <1>2, <2>5
  <2> QED  BY <2>1, <2>2, <2>6 DEF CountersInv, CountersAgree
<1>6. CASE SaveFails \/ LoseConnection \/ FadeRestart
  <2>1. /\ saving' \in {0, saving} /\ faults' = faults + 1 /\ UNCHANGED liquidation_events
        /\ counters' = counters \/ counters' = NoCounts
    BY <1>6 DEF SaveFails, LoseConnection, FadeRestart
  <2>2. faults' # 0
    BY <2>1 DEF FadeTypeOK
  <2>3. \A j \in liquidation_events' : Forced(j)'
    BY <1>1, <1>2, <2>1 DEF CountersInv, CountersAgree
  <2>4. saving' # 0 => Forced(saving)' /\ saving' \notin liquidation_events'
    <3>1. CASE saving' = 0
      BY <3>1
    <3>2. CASE saving' # 0
      <4>1. saving' = saving /\ saving \in 1 .. handled /\ Forced(saving) /\ saving \notin liquidation_events
        BY <1>1, <2>1, <3>2 DEF CountersInv
      <4>2. \A i \in 1 .. handled : tape'[i] = tape[i]
        <5>1. \A i \in 1 .. Len(tape) : tape'[i] = tape[i]
          BY TapeStep
        <5> QED  BY <1>1, <5>1
      <4>3. tape'[saving'] = tape[saving]
        BY <4>1, <4>2
      <4> QED  BY <2>1, <4>1, <4>3 DEF Forced
    <3> QED  BY <3>1, <3>2
  <2>5. counters'["with_liq_field"] =
             counters'["shape_dict"] + counters'["shape_bool"] + counters'["shape_other"]
    <3>1. CASE counters' = counters
      BY <3>1 DEF CountersInv, CountersAgree
    <3>2. CASE counters' = NoCounts
      BY <3>2 DEF NoCounts, Counters
    <3> QED  BY <2>1, <3>1, <3>2
  <2> QED  BY <2>2, <2>3, <2>4, <2>5 DEF CountersInv, CountersAgree
<1>7. \/ UNCHANGED <<saving, liquidation_events, faults>>
         /\ \A c \in Counters \ {"parse_errors"} : counters'[c] = counters[c]
      \/ HandleLiquidation \/ Save \/ SaveFails \/ LoseConnection \/ FadeRestart
  <2>1. Evaluate => UNCHANGED <<saving, liquidation_events, faults, counters>>
    BY EvaluateEffect
  <2>2. HandleGarbled =>
           /\ UNCHANGED <<saving, liquidation_events, faults>>
           /\ \A c \in Counters \ {"parse_errors"} : counters'[c] = counters[c]
    BY <1>1 DEF HandleGarbled
  <2>3. PrintTrade \/ Tick \/ HandleTrade \/ TickStarts \/ UNCHANGED fadeVars
          => UNCHANGED <<saving, liquidation_events, faults, counters>>
    BY DEF PrintTrade, Tick, HandleTrade, TickStarts, fadeVars
  <2> QED  BY <2>1, <2>2, <2>3 DEF FadeNext, Exchange, FadeListener
<1> QED  BY <1>3, <1>4, <1>5, <1>6, <1>7

\* The counters shown to the operator and the table of liquidations tell the same story.
THEOREM CountersTellTheTable == FadeSpec => []CountersAgree
<1> USE FadeAssumption
<1>1. FadeInit => CountersInv
  <2> SUFFICES ASSUME FadeInit PROVE CountersInv
    OBVIOUS
  <2>1. liquidation_events = {} /\ saving = 0 /\ liquidation_events \cup ({saving} \ {0}) = {}
    BY DEF FadeInit
  <2>2. \A c \in Counters : counters[c] = 0
    BY DEF FadeInit, NoCounts
  <2>3. Cardinality(liquidation_events \cup ({saving} \ {0})) = 0
    BY <2>1, FS_EmptySet
  <2>4. /\ counters["with_liq_field"] = 0 /\ counters["shape_dict"] = 0
        /\ counters["shape_bool"] = 0 /\ counters["shape_other"] = 0
    BY <2>2 DEF Counters
  <2>5. \A i \in liquidation_events : Forced(i)
    BY <2>1
  <2>6. CountersAgree
    BY <2>3, <2>4, <2>5 DEF CountersAgree
  <2> QED  BY <2>1, <2>6 DEF CountersInv
<1>2. FadeTypeOK /\ FadeInv /\ CountersInv /\ [FadeNext]_fadeVars => CountersInv'
  BY CountersStep DEF FadeInv
<1>3. CountersInv => CountersAgree
  BY DEF CountersInv
<1> QED  BY <1>1, <1>2, <1>3, FadeTypeCorrect, FadeInvariant, PTL DEF FadeSpec

----------------------------------------------------------------------------
(* The evidence of a signal.                                               *)

Evidence(s) ==
    {i \in DOMAIN tape :
        /\ Forced(i) /\ tape[i].buy = (s.direction = "short")
        /\ s.at - Window <= tape[i].ts /\ tape[i].ts <= s.at - Wait}

Amounts == [i \in DOMAIN tape |-> tape[i].usd]

LEMMA AmountsTyped == FadeTypeOK => IsFiniteSet(DOMAIN tape) /\ \A i \in DOMAIN tape : Amounts[i] \in Nat
<1> SUFFICES ASSUME FadeTypeOK
             PROVE  IsFiniteSet(DOMAIN tape) /\ \A i \in DOMAIN tape : Amounts[i] \in Nat
  OBVIOUS
<1>1. DOMAIN tape = 1 .. Len(tape) /\ Len(tape) \in Nat /\ \A i \in 1 .. Len(tape) : tape[i] \in Printed
  BY Typed
<1>2. IsFiniteSet(1 .. Len(tape))
  BY <1>1, FS_Interval
<1> QED  BY <1>1, <1>2 DEF Printed, Amounts

LEMMA UsdIsTotal ==
  ASSUME FadeTypeOK, NEW S, S \subseteq DOMAIN tape
  PROVE  Usd(S) = Total(Amounts, S)
<1> DEFINE Solves(g) ==
      g = [s \in SUBSET S |->
              IF s = {} THEN 0 ELSE tape[Chosen(s)].usd + g[s \ {Chosen(s)}]]
<1>1. \A g : Solves(g) <=> Sums(g, Amounts, S)
  <2>1. \A s \in SUBSET S : s # {} => tape[Chosen(s)].usd = Amounts[Chosen(s)]
    BY ChosenIn DEF Amounts
  <2> QED  BY <2>1 DEF Sums
<1>2. PICK g : g = CHOOSE h : Solves(h)
  OBVIOUS
<1>3. Usd(S) = g[S]
  BY <1>2 DEF Usd, MapThenSumSet, MapThenFoldSet, Chosen
<1>4. IsFiniteSet(S)
  BY AmountsTyped, FS_Subset
<1>5. Sums(g, Amounts, S)
  <2> HIDE DEF Solves
  <2> QED  BY <1>1, <1>2, <1>4, SumsExist
<1> QED  BY <1>3, <1>4, <1>5, SolutionIsTotal

\* The property, in these terms.
LEMMA OnEvidence ==
  FadeTypeOK => (SignalOnEvidence <=> \A s \in signals : Threshold <= Total(Amounts, Evidence(s)))
<1> SUFFICES ASSUME FadeTypeOK
             PROVE  SignalOnEvidence <=> \A s \in signals : Threshold <= Total(Amounts, Evidence(s))
  OBVIOUS
<1>1. \A s : Usd(Evidence(s)) = Total(Amounts, Evidence(s))
  BY UsdIsTotal DEF Evidence
<1>2. SignalOnEvidence <=> \A s \in signals : Threshold <= Usd(Evidence(s))
  BY DEF SignalOnEvidence, Evidence
<1> QED  BY <1>1, <1>2

LEMMA OnEvidenceNext ==
  FadeTypeOK' =>
    (SignalOnEvidence' <=> \A s \in signals' : Threshold <= Total(Amounts', Evidence(s)'))
<1>1. (FadeTypeOK =>
         (SignalOnEvidence <=> \A s \in signals : Threshold <= Total(Amounts, Evidence(s))))'
  BY OnEvidence, PTL
<1> QED  BY <1>1

LEMMA AmountsTypedNext ==
  FadeTypeOK' => IsFiniteSet(DOMAIN tape') /\ \A i \in DOMAIN tape' : Amounts'[i] \in Nat
<1>1. (FadeTypeOK => IsFiniteSet(DOMAIN tape) /\ \A i \in DOMAIN tape : Amounts[i] \in Nat)'
  BY AmountsTyped, PTL
<1> QED  BY <1>1

\* When a signal is given, the liquidations of the side it bets against reach the threshold.
LEMMA FiresOnEvidence ==
  ASSUME FadeAssumption, FadeTypeOK, Fires,
         NEW s, s = [at |-> tick_ms, direction |-> Direction, liqs |-> Liqs]
  PROVE  Threshold <= Total(Amounts, Evidence(s))
<1> DEFINE side == IF Direction = "long" THEN Longs ELSE Shorts
<1>1. /\ \A i \in Liqs : /\ i \in DOMAIN tape
                         /\ tape[i].ts >= tick_ms - Window /\ tape[i].ts <= tick_ms - Wait
      /\ s.at = tick_ms /\ s.direction = Direction
  BY FiresEffect
<1>2. side \subseteq DOMAIN tape
  BY <1>1 DEF Longs, Shorts
<1>3. side \subseteq Evidence(s)
  <2>1. \A i \in Liqs : Forced(i) /\ i \in DOMAIN tape /\ tape[i].ts \in Nat /\ tape[i].buy \in BOOLEAN
    BY <1>1, Typed DEF Liqs, Detect, Forced, Printed
  <2>2. tick_ms - Window \in Int /\ tick_ms - Wait \in Int
    BY DEF FadeTypeOK, FadeAssumption
  <2>3. \A i \in Liqs : tape[i].buy = (s.direction = "short") => i \in Evidence(s)
    BY <1>1, <2>1, <2>2 DEF Evidence
  <2>4. Direction \in {"long", "short"}
    BY DEF Direction
  <2>5. \A i \in side : i \in Liqs /\ tape[i].buy = (s.direction = "short")
    BY <1>1, <2>1, <2>4 DEF Longs, Shorts
  <2> QED  BY <2>3, <2>5
<1>4. Threshold <= Usd(side)
  <2>1. IsCascade
    BY DEF Fires, Ripe
  <2>2. Longs \subseteq DOMAIN tape /\ Shorts \subseteq DOMAIN tape
    BY <1>1 DEF Longs, Shorts
  <2>3. Usd(Longs) \in Int /\ Usd(Shorts) \in Int
    <3>1. ASSUME NEW S, S \subseteq DOMAIN tape PROVE Total(Amounts, S) \in Int
      <4>1. IsFiniteSet(S) /\ \A i \in S : Amounts[i] \in Int
        BY <3>1, AmountsTyped, FS_Subset
      <4> QED  BY <4>1, TotalAny
    <3> QED  BY <2>2, <3>1, UsdIsTotal
  <2>4. CASE Usd(Longs) >= Usd(Shorts)
    BY <2>1, <2>3, <2>4 DEF IsCascade, Direction, FadeAssumption
  <2>5. CASE ~(Usd(Longs) >= Usd(Shorts))
    BY <2>1, <2>3, <2>5 DEF IsCascade, Direction, FadeAssumption
  <2> QED  BY <2>4, <2>5
<1>5. Usd(side) = Total(Amounts, side)
  BY <1>2, UsdIsTotal
<1> HIDE DEF side
<1>6. Evidence(s) \subseteq DOMAIN tape
  BY DEF Evidence
<1>7. /\ IsFiniteSet(Evidence(s)) /\ IsFiniteSet(side)
      /\ \A i \in Evidence(s) : Amounts[i] \in Nat /\ Amounts[i] \in Int
  BY <1>2, <1>6, AmountsTyped, FS_Subset
<1>8. Total(Amounts, side) <= Total(Amounts, Evidence(s))
  BY <1>3, <1>7, TotalIncludes
<1>9. Total(Amounts, side) \in Int /\ Total(Amounts, Evidence(s)) \in Int /\ Threshold \in Int
  BY <1>3, <1>7, TotalAny DEF FadeAssumption
<1> QED  BY <1>4, <1>5, <1>8, <1>9

\* The tape only grows, so evidence is never lost.
LEMMA EvidenceKept ==
  ASSUME FadeAssumption, FadeTypeOK, FadeTypeOK', TapeInv, [FadeNext]_fadeVars, NEW s,
         Threshold <= Total(Amounts, Evidence(s))
  PROVE  Threshold <= Total(Amounts', Evidence(s)')
<1>1. Len(tape') >= Len(tape) /\ \A i \in 1 .. Len(tape) : tape'[i] = tape[i]
  BY TapeStep
<1>2. /\ DOMAIN tape = 1 .. Len(tape) /\ DOMAIN tape' = 1 .. Len(tape')
      /\ Len(tape) \in Nat /\ Len(tape') \in Nat
  <2>1. tape' \in Seq(Printed)
    BY DEF FadeTypeOK
  <2> QED  BY <2>1, Typed
<1>3. DOMAIN tape \subseteq DOMAIN tape'
  BY <1>1, <1>2
<1>4. Evidence(s) \subseteq Evidence(s)' /\ Evidence(s) \subseteq DOMAIN tape
      /\ Evidence(s)' \subseteq DOMAIN tape'
  BY <1>1, <1>2, <1>3 DEF Evidence, Forced
<1>5. \A i \in Evidence(s) : Amounts'[i] = Amounts[i]
  BY <1>1, <1>2, <1>3, <1>4 DEF Amounts
<1>6. PICK E : E = Evidence(s)
  OBVIOUS
<1>7. PICK F : F = Evidence(s)'
  OBVIOUS
<1>8. PICK f : f = Amounts
  OBVIOUS
<1>9. PICK h : h = Amounts'
  OBVIOUS
<1>10. /\ IsFiniteSet(F) /\ IsFiniteSet(E) /\ E \subseteq F
       /\ \A i \in F : h[i] \in Nat /\ h[i] \in Int
       /\ \A i \in E : f[i] = h[i]
  BY <1>4, <1>5, <1>6, <1>7, <1>8, <1>9, AmountsTypedNext, FS_Subset
<1>11. Total(f, E) = Total(h, E)
  BY <1>10, TotalSame
<1>12. Total(h, E) <= Total(h, F)
  BY <1>10, TotalIncludes
<1>13. Total(h, E) \in Int /\ Total(h, F) \in Int /\ Threshold \in Int
  BY <1>10, TotalAny DEF FadeAssumption
<1>14. Threshold <= Total(h, E)
  BY <1>6, <1>8, <1>11
<1>15. Threshold <= Total(h, F)
  BY <1>12, <1>13, <1>14
<1> QED  BY <1>7, <1>9, <1>15

LEMMA EvidenceStep ==
  ASSUME FadeAssumption, FadeTypeOK, TapeInv, SignalOnEvidence, [FadeNext]_fadeVars
  PROVE  SignalOnEvidence'
<1>1. FadeTypeOK'
  BY TypeStep
<1>2. \A s \in signals : Threshold <= Total(Amounts, Evidence(s))
  BY OnEvidence
<1>3. \A s \in signals : Threshold <= Total(Amounts', Evidence(s)')
  BY <1>1, <1>2, EvidenceKept
<1>4. CASE signals' = signals
  BY <1>1, <1>3, <1>4, OnEvidenceNext
<1>5. CASE Fires
  <2>1. PICK s : s = [at |-> tick_ms, direction |-> Direction, liqs |-> Liqs]
    OBVIOUS
  <2>2. signals' = signals \cup {s}
    BY <1>5, <2>1, FiresEffect
  <2>3. Threshold <= Total(Amounts, Evidence(s))
    BY <1>5, <2>1, FiresOnEvidence
  <2>4. Threshold <= Total(Amounts', Evidence(s)')
    BY <1>1, <2>3, EvidenceKept
  <2> QED  BY <1>1, <1>3, <2>2, <2>4, OnEvidenceNext
<1>6. signals' = signals \/ Fires
  <2>1. Evaluate => signals' = signals \/ Fires
    BY EvaluateEffect
  <2> QED  BY <2>1 DEF FadeNext, Exchange, PrintTrade, Tick, FadeListener, HandleGarbled, HandleTrade,
         HandleLiquidation, Save, SaveFails, LoseConnection, TickStarts, FadeRestart, fadeVars,
         strategyVars
<1> QED  BY <1>4, <1>5, <1>6

\* Every signal has its evidence on the tape: liquidations of the side it bets against worth the
\* threshold, all of them before the wait, whatever was lost and however late the tick came.
THEOREM FadedOnEvidence == FadeSpec => []SignalOnEvidence
<1> USE FadeAssumption
<1>1. FadeInit => SignalOnEvidence
  BY DEF FadeInit, SignalOnEvidence
<1>2. FadeTypeOK /\ FadeInv /\ SignalOnEvidence /\ [FadeNext]_fadeVars => SignalOnEvidence'
  BY EvidenceStep DEF FadeInv
<1> QED  BY <1>1, <1>2, FadeTypeCorrect, FadeInvariant, PTL DEF FadeSpec

----------------------------------------------------------------------------
(* No cascade is overlooked.                                               *)

\* While nothing has failed, every liquidation the listener has taken is in the deque or was pushed
\* out by Buffer later trades.
CompleteInv ==
    faults = 0 =>
        \A i \in 1 .. handled :
            Forced(i) => (\E k \in DOMAIN trades : trades[k] = i) \/ handled - i >= Buffer

LEMMA CompleteStep ==
  ASSUME FadeAssumption, FadeTypeOK, FadeInv, CompleteInv, [FadeNext]_fadeVars
  PROVE  CompleteInv'
<1>1. /\ Len(tape) \in Nat /\ handled \in Nat /\ handled <= Len(tape)
      /\ DOMAIN trades = 1 .. Len(trades) /\ Buffer \in Nat /\ faults \in Nat
  BY Typed DEF FadeAssumption, FadeTypeOK
<1>2. \A i \in 1 .. Len(tape) : Forced(i)' = Forced(i)
  BY TapeStep DEF FadeInv, Forced
<1>3. CASE HandleStep
  <2>1. /\ handled' = handled + 1 /\ faults' = faults /\ handled + 1 \in 1 .. Len(tape)
        /\ \/ trades' = trades /\ ~Forced(handled + 1)
           \/ AddTrade(handled + 1)
    BY <1>1, <1>3, HandleEffect
  <2> SUFFICES ASSUME faults' = 0, NEW i \in 1 .. handled', Forced(i)'
               PROVE  (\E k \in DOMAIN trades' : trades'[k] = i) \/ handled' - i >= Buffer
    BY DEF CompleteInv
  <2>2. CASE i = handled + 1
    <3>1. AddTrade(handled + 1)
      BY <1>2, <2>1, <2>2
    <3>2. \E k \in DOMAIN trades' : trades'[k] = handled + 1
      BY <3>1, DequeAfter DEF FadeInv
    <3> QED  BY <2>2, <3>2
  <2>3. CASE i # handled + 1
    <3>1. i \in 1 .. handled /\ Forced(i)
      BY <1>1, <1>2, <2>1, <2>3
    <3>2. CASE handled - i >= Buffer
      BY <1>1, <2>1, <3>1, <3>2
    <3>3. CASE \E l \in DOMAIN trades : trades[l] = i
      <4>1. PICK l \in 1 .. Len(trades) : trades[l] = i
        BY <1>1, <3>3
      <4>2. CASE trades' = trades
        BY <3>3, <4>2
      <4>3. CASE AddTrade(handled + 1)
        <5>1. handled + 1 - trades[l] >= Buffer \/ \E k \in 1 .. Len(trades') : trades'[k] = trades[l]
          BY <4>1, <4>3, DequeAfter DEF FadeInv
        <5>2. handled + 1 - i >= Buffer \/ \E k \in 1 .. Len(trades') : trades'[k] = i
          BY <4>1, <5>1
        <5>3. DOMAIN trades' = 1 .. Len(trades')
          BY <4>3, DequeAfter DEF FadeInv
        <5>4. handled' - i = handled + 1 - i
          BY <1>1, <2>1
        <5> QED  BY <5>2, <5>3, <5>4
      <4> QED  BY <2>1, <4>2, <4>3
    <3> QED  BY <2>1, <3>1, <3>2, <3>3 DEF CompleteInv
  <2> QED  BY <2>2, <2>3
<1>4. CASE LoseConnection \/ FadeRestart
  <2>1. faults' # 0
    BY <1>1, <1>4 DEF LoseConnection, FadeRestart
  <2> QED  BY <2>1 DEF CompleteInv
<1>5. CASE UNCHANGED <<handled, missed, trades>>
  <2>1. faults' = 0 => faults = 0
    <3>1. Evaluate => faults' = faults
      BY EvaluateEffect
    <3>2. SaveFails \/ LoseConnection \/ FadeRestart => faults' # 0
      BY <1>1 DEF SaveFails, LoseConnection, FadeRestart
    <3> QED  BY <3>1, <3>2 DEF FadeNext, Exchange, PrintTrade, Tick, FadeListener, HandleGarbled,
           HandleTrade, HandleLiquidation, Save, TickStarts, fadeVars
  <2>2. \A i \in 1 .. handled : Forced(i)' = Forced(i)
    BY <1>1, <1>2
  <2> QED  BY <1>5, <2>1, <2>2 DEF CompleteInv
<1> QED  BY <1>3, <1>4, <1>5, DequeKept

\* What the property speaks of is among the liquidations the strategy has counted.
LEMMA InView ==
  ASSUME FadeAssumption, FadeTypeOK, FadeInv, CompleteInv, faults = 0, tick_ms # 0,
         Span >= Window + Lag, NEW i \in DOMAIN tape, Forced(i),
         tick_ms - Window < tape[i].ts, tape[i].ts < tick_ms - Lag
  PROVE  i \in Liqs
<1>1. /\ Len(tape) \in Nat /\ DOMAIN tape = 1 .. Len(tape) /\ handled \in Nat
      /\ handled <= Len(tape) /\ now \in Nat /\ tick_ms \in Nat /\ tick_ms <= now
      /\ \A a \in 1 .. Len(tape) : tape[a].ts \in Nat
      /\ Lag \in Nat /\ Span \in Nat /\ Window \in Nat /\ Buffer \in Nat \ {0}
  BY Typed DEF FadeAssumption
<1>2. /\ \A a, b \in 1 .. Len(tape) : a <= b => tape[a].ts <= tape[b].ts
      /\ \A a, b \in 1 .. Len(tape) : b - a >= Buffer => tape[a].ts + Span <= tape[b].ts
      /\ \A a \in 1 .. Len(tape) : tape[a].ts <= now
      /\ handled < Len(tape) => now <= tape[handled + 1].ts + Lag
      /\ now <= tick_ms + Lag
  BY <1>1 DEF FadeInv, TapeInv, LagInv
<1>3. i <= handled
  <2> SUFFICES ASSUME i > handled PROVE FALSE
    BY <1>1
  <2>1. handled + 1 \in 1 .. Len(tape) /\ handled + 1 <= i /\ i \in 1 .. Len(tape) /\ handled < Len(tape)
    BY <1>1
  <2>2. tape[handled + 1].ts <= tape[i].ts /\ now <= tape[handled + 1].ts + Lag
    BY <1>2, <2>1
  <2>3. tape[handled + 1].ts \in Nat /\ tape[i].ts \in Nat
    BY <1>1, <2>1
  <2>4. tape[i].ts < tick_ms - Lag /\ tick_ms <= now /\ now \in Nat /\ tick_ms \in Nat /\ Lag \in Nat
    BY <1>1
  <2> QED  BY <2>2, <2>3, <2>4
<1>4. ~(handled - i >= Buffer)
  <2> SUFFICES ASSUME handled - i >= Buffer PROVE FALSE
    OBVIOUS
  <2>1. i \in 1 .. Len(tape) /\ handled \in 1 .. Len(tape)
    BY <1>1, <1>3
  <2>2. tape[i].ts + Span <= tape[handled].ts /\ tape[handled].ts <= now
    BY <1>2, <2>1
  <2>3. tape[handled].ts \in Nat /\ tape[i].ts \in Nat
    BY <1>1, <2>1
  <2> QED  BY <1>1, <1>2, <2>2, <2>3
<1>5. i \in 1 .. handled
  BY <1>1, <1>3
<1>6. \E k \in DOMAIN trades : trades[k] = i
  BY <1>4, <1>5 DEF CompleteInv
<1>7. tape[i].ts >= tick_ms - Window
  BY <1>1
<1> QED  BY <1>6, <1>7 DEF Liqs, InWindow, Range, Forced, Detect

\* A tick that finds no cascade has none in view.
LEMMA NoneInView ==
  ASSUME FadeAssumption, FadeTypeOK, FadeInv, CompleteInv, faults = 0, RejectNoCascade,
         Span >= Window + Lag, NEW buy \in BOOLEAN
  PROVE  Usd({i \in DOMAIN tape :
                /\ Forced(i) /\ tape[i].buy = buy
                /\ tick_ms - Window < tape[i].ts /\ tape[i].ts < tick_ms - Lag}) < Threshold
<1>1. PICK S : S = {i \in DOMAIN tape :
                      /\ Forced(i) /\ tape[i].buy = buy
                      /\ tick_ms - Window < tape[i].ts /\ tape[i].ts < tick_ms - Lag}
  OBVIOUS
<1>2. tick_ms # 0 /\ ~IsCascade
  BY DEF RejectNoCascade
<1>3. PICK T : T = IF buy THEN Shorts ELSE Longs
  OBVIOUS
<1>4. S \subseteq Liqs
  BY <1>1, <1>2, InView
<1>5. \A i \in Liqs : i \in DOMAIN tape /\ tape[i].buy \in BOOLEAN
  <2>1. \A i \in Range(trades) : i \in DOMAIN tape
    <3>1. /\ Len(tape) \in Nat /\ DOMAIN tape = 1 .. Len(tape)
          /\ handled \in Nat /\ handled <= Len(tape)
          /\ \A k \in DOMAIN trades : trades[k] \in 1 .. handled
      BY Typed
    <3> QED  BY <3>1 DEF Range
  <2>2. \A i \in DOMAIN tape : tape[i].buy \in BOOLEAN
    BY Typed DEF Printed
  <2> QED  BY <2>1, <2>2 DEF Liqs, InWindow
<1>6. S \subseteq T /\ T \subseteq DOMAIN tape
  BY <1>1, <1>3, <1>4, <1>5 DEF Longs, Shorts
<1>7. /\ IsFiniteSet(T) /\ IsFiniteSet(S)
      /\ \A i \in T : Amounts[i] \in Nat /\ Amounts[i] \in Int
  BY <1>6, AmountsTyped, FS_Subset
<1>8. Total(Amounts, S) <= Total(Amounts, T)
  BY <1>6, <1>7, TotalIncludes
<1>9. Total(Amounts, S) \in Int /\ Total(Amounts, T) \in Int /\ Threshold \in Int
  BY <1>6, <1>7, TotalAny DEF FadeAssumption
<1>10. Usd(S) = Total(Amounts, S) /\ Usd(T) = Total(Amounts, T)
  BY <1>6, UsdIsTotal
<1>11. ~(Usd(T) >= Threshold)
  BY <1>2, <1>3 DEF IsCascade
<1>12. Usd(S) < Threshold
  BY <1>8, <1>9, <1>10, <1>11
<1> QED  BY <1>1, <1>12

\* Where the deque reaches back over the window and the lag, a tick of a bot that nothing has failed
\* never passes over a cascade: it finds none only if neither side's liquidations on the tape, up to
\* the lag, reach the threshold within the window.
THEOREM CascadesAreSeen ==
  ASSUME Span >= Window + Lag
  PROVE  FadeSpec => NoCascadeOverlooked
<1> USE FadeAssumption
<1>1. FadeInit => CompleteInv
  BY DEF FadeInit, CompleteInv
<1>2. FadeTypeOK /\ FadeInv /\ CompleteInv /\ [FadeNext]_fadeVars =>
        /\ CompleteInv'
        /\ [RejectNoCascade /\ faults = 0 =>
              \A buy \in BOOLEAN :
                 Usd({i \in DOMAIN tape :
                        /\ Forced(i) /\ tape[i].buy = buy
                        /\ tick_ms - Window < tape[i].ts /\ tape[i].ts < tick_ms - Lag})
                   < Threshold]_fadeVars
  BY CompleteStep, NoneInView
<1> QED  BY <1>1, <1>2, FadeTypeCorrect, FadeInvariant, PTL DEF FadeSpec, NoCascadeOverlooked

=============================================================================
