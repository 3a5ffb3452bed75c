------------------------- MODULE PaperTradingProofs -------------------------
(* Proofs about PaperTrading and its histories, for all values of the      *)
(* constants: the types and the safety properties; a pause lets at most    *)
(* one more trade through; with the manager as the only closer the books   *)
(* are those of Ledger; with any number of closers the account is that of  *)
(* some of the results posted.                                             *)
EXTENDS PaperLedger, PaperAccount, FiniteSetTheorems, SequenceTheorems, SetSums, TLAPS

\* Inserting a trade keeps the table a sequence of trades and touches no other row.
LEMMA OpenTradeTable ==
    ASSUME NEW s \in Seq(Trades), NEW tr \in Trades
    PROVE  /\ Append(s, tr) \in Seq(Trades)
           /\ DOMAIN Append(s, tr) = DOMAIN s \cup {Len(s) + 1}
           /\ Len(s) + 1 \notin DOMAIN s
           /\ \A t \in DOMAIN s : Append(s, tr)[t] = s[t]
           /\ Append(s, tr)[Len(s) + 1] = tr
<1>1. Len(s) \in Nat /\ DOMAIN s = 1..Len(s)
  BY LenProperties
<1>2. QED
  BY <1>1, AppendProperties

\* Closing a trade rewrites its row only, and keeps its coin and strategy.
LEMMA CloseTradeTable ==
    ASSUME NEW s \in Seq(Trades), NEW i \in DOMAIN s, NEW pnl \in Int,
           NEW r, r = [s EXCEPT ![i] = ClosedWith(s[i], pnl)]
    PROVE  /\ r \in Seq(Trades)
           /\ DOMAIN r = DOMAIN s
           /\ \A t \in DOMAIN s \ {i} : r[t] = s[t]
           /\ r[i].status = "closed"
<1>0. Len(s) \in Nat /\ DOMAIN s = 1..Len(s)
  BY LenProperties
<1>1. s[i] \in Trades
  BY <1>0, ElementOfSeq
<1>2. ClosedWith(s[i], pnl) \in Trades /\ ClosedWith(s[i], pnl).status = "closed"
  BY <1>1 DEF Trades, ClosedWith
<1>3. r \in Seq(Trades)
  BY <1>0, <1>2, ExceptSeq
<1>4. QED
  BY <1>2, <1>3

----------------------------------------------------------------------------

\* The types hold at the start.
LEMMA InitTypeOK == Init => TypeOK
<1> SUFFICES ASSUME Init PROVE TypeOK
  OBVIOUS
<1> USE DEF Init
<1>1. InitAccount \in Accounts
  BY MoneyAssumption DEF InitAccount, Accounts
<1>2. paper_trades \in Seq(Trades) /\ overdue \subseteq DOMAIN paper_trades
  BY EmptySeq
<1>3. job \in [Closers -> [trade : Nat, pnl : Int, account : Accounts]]
  BY <1>1 DEF NoJob
<1>4. QED
  BY <1>1, <1>2, <1>3 DEF TypeOK

\* The orchestrator's steps keep the types.
LEMMA OrchestratorTypeOK == TypeOK /\ Orchestrator => TypeOK'
<1> SUFFICES ASSUME TypeOK, Orchestrator PROVE TypeOK'
  OBVIOUS
<1> USE DEF TypeOK, orchVars, closerVars, botVars, tradeVars, worldVars, Goto
<1>1. CASE RefreshState
  BY <1>1 DEF RefreshState
<1>2. CASE Evaluate
  BY <1>2 DEF Evaluate
<1>3. CASE CheckRefuses
  BY <1>3 DEF CheckRefuses
<1>4. CASE CheckTrips
  BY <1>4 DEF CheckTrips
<1>5. CASE CheckPasses
  BY <1>5 DEF CheckPasses
<1>6. CASE AutoPause
  BY <1>6 DEF AutoPause
<1>7. CASE CountRefuses
  BY <1>7 DEF CountRefuses
<1>8. CASE CountPasses
  BY <1>8 DEF CountPasses
<1>9. CASE SizeIsZero
  BY <1>9 DEF SizeIsZero
<1>10. CASE OpenTrade
  <2> DEFINE row == [coin |-> signal[1], strategy |-> signal[2], status |-> "open", pnl |-> 0]
  <2>1. signal[1] \in Coins /\ signal[2] \in Strategies
    BY <1>10, PairsAssumption DEF OpenTrade
  <2>2. row \in Trades
    BY <2>1 DEF Trades
  <2>3. paper_trades' = Append(paper_trades, row)
    BY <1>10 DEF OpenTrade
  <2> HIDE DEF row
  <2>4. paper_trades' \in Seq(Trades) /\ DOMAIN paper_trades \subseteq DOMAIN paper_trades'
    BY <2>2, <2>3, OpenTradeTable
  <2>5. QED
    BY <1>10, <2>4 DEF OpenTrade
<1>11. CASE TickError
  BY <1>11 DEF TickError
<1>12. QED
  BY <1>1, <1>2, <1>3, <1>4, <1>5, <1>6, <1>7, <1>8, <1>9, <1>10, <1>11 DEF Orchestrator

\* The statistics booked for a close are well typed.
LEMMA BookedType ==
    ASSUME NEW a \in Accounts, NEW pnl \in Int, today \in Nat
    PROVE  Booked(a, pnl) \in Accounts
BY DEF Accounts, Booked

\* The closers' steps keep the types.
LEMMA CloserTypeOK ==
    ASSUME TypeOK, NEW p \in Closers, Closer(p) \/ CloserError(p)
    PROVE  TypeOK'
<1> USE DEF TypeOK, orchVars, closerVars, botVars, tradeVars, worldVars
<1>0. InitAccount \in Accounts /\ NoJob \in [trade : Nat, pnl : Int, account : Accounts]
  BY MoneyAssumption DEF InitAccount, Accounts, NoJob
<1>1. DOMAIN paper_trades \subseteq Nat
  BY LenProperties
<1>2. CASE Snapshot(p)
  BY <1>2 DEF Snapshot, OpenIds
<1>3. ASSUME NEW t \in todo[p], CloseReads(p, t)
      PROVE  TypeOK'
  <2>1. t \in DOMAIN paper_trades /\ t \in Nat
    BY <1>1
  <2>2. PICK pnl \in Pnls :
           job' = [job EXCEPT ![p] = [trade |-> t, pnl |-> pnl, account |-> InitAccount]]
    BY <1>3 DEF CloseReads
  <2>3. pnl \in Int
    BY MoneyAssumption
  <2>4. job' \in [Closers -> [trade : Nat, pnl : Int, account : Accounts]]
    BY <1>0, <2>1, <2>2, <2>3
  <2>5. QED
    BY <1>3, <2>1, <2>2, <2>4 DEF CloseReads
<1>4. ASSUME NEW t \in todo[p], CloseSkips(p, t)
      PROVE  TypeOK'
  BY <1>4 DEF CloseSkips
<1>5. CASE CloseCommits(p)
  <2> DEFINE i == job[p].trade
  <2>1. i \in DOMAIN paper_trades /\ job[p].pnl \in Int
    BY <1>5 DEF CloseCommits
  <2>2. paper_trades' = [paper_trades EXCEPT ![i] = ClosedWith(paper_trades[i], job[p].pnl)]
    BY <1>5 DEF CloseCommits
  <2>3. paper_trades' \in Seq(Trades) /\ DOMAIN paper_trades' = DOMAIN paper_trades
    BY <2>1, <2>2, CloseTradeTable
  <2>4. QED
    BY <1>5, <2>3 DEF CloseCommits
<1>6. CASE GetState(p)
  <2>1. Booked(account, job[p].pnl) \in Accounts
    BY BookedType
  <2>2. QED
    BY <1>6, <2>1 DEF GetState
<1>7. CASE UpdateState(p)
  BY <1>7 DEF UpdateState
<1>8. CASE CloseReturns(p)
  <2>1. paper_trades[job[p].trade].coin \in Coins
    <3>1. job[p].trade \in 1..Len(paper_trades)
      BY <1>8, LenProperties DEF CloseReturns
    <3>2. paper_trades[job[p].trade] \in Trades
      BY <3>1, ElementOfSeq
    <3>3. QED
      BY <3>2 DEF Trades
  <2>2. cooling' \subseteq Coins
    BY <1>8, <2>1 DEF CloseReturns
  <2>3. QED
    BY <1>0, <1>8, <2>2 DEF CloseReturns
<1>9. CASE LoopEnds(p)
  BY <1>9 DEF LoopEnds
<1>10. CASE p = Manager /\ \E t \in todo[p] : Hold(t)
  BY <1>10 DEF Hold
<1>11. CASE CloserError(p)
  BY <1>0, <1>11 DEF CloserError
<1>12. QED
  BY <1>2, <1>3, <1>4, <1>5, <1>6, <1>7, <1>8, <1>9, <1>10, <1>11 DEF Closer, CloserStep

\* The operator's requests keep the types.
LEMMA OperatorTypeOK == TypeOK /\ Operator => TypeOK'
<1> SUFFICES ASSUME TypeOK, Operator PROVE TypeOK'
  OBVIOUS
<1> USE DEF TypeOK, orchVars, closerVars, botVars, tradeVars, worldVars
<1>1. CASE Pause
  BY <1>1 DEF Pause
<1>2. CASE Resume
  BY <1>2 DEF Resume, Accounts
<1>3. ASSUME NEW s \in Strategies, Toggle(s) PROVE TypeOK'
  BY <1>3 DEF Toggle
<1>4. ASSUME NEW h \in Handlers, EmergencyStop(h) PROVE TypeOK'
  BY <1>4 DEF EmergencyStop, Closers
<1>5. QED
  BY <1>1, <1>2, <1>3, <1>4 DEF Operator

\* The clock, the feed and a restart keep the types.
LEMMA EnvironmentTypeOK == TypeOK /\ Environment => TypeOK'
<1> SUFFICES ASSUME TypeOK, Environment PROVE TypeOK'
  OBVIOUS
<1> USE DEF TypeOK, orchVars, closerVars, botVars, tradeVars, worldVars
<1>1. CASE NewDay
  BY <1>1 DEF NewDay
<1>2. CASE Restart
  <2>1. NoJob \in [trade : Nat, pnl : Int, account : Accounts]
    BY MoneyAssumption DEF InitAccount, Accounts, NoJob
  <2>2. QED
    BY <1>2, <2>1 DEF Restart
<1>3. ASSUME NEW c \in Coins, MarketTrade(c) \/ CooldownExpires(c) PROVE TypeOK'
  BY <1>3 DEF MarketTrade, CooldownExpires
<1>4. ASSUME NEW t \in DOMAIN paper_trades, TimeStop(t) PROVE TypeOK'
  BY <1>4 DEF TimeStop
<1>5. QED
  BY <1>1, <1>2, <1>3, <1>4 DEF Environment

\* Every step keeps the types.
LEMMA TypeStep == TypeOK /\ [Next]_vars => TypeOK'
<1>1. TypeOK /\ UNCHANGED vars => TypeOK'
  BY DEF TypeOK, vars, orchVars, closerVars, botVars, tradeVars, worldVars
<1>2. QED
  BY <1>1, OrchestratorTypeOK, CloserTypeOK, OperatorTypeOK, EnvironmentTypeOK DEF Next

\* Every state of the paper-trading core has the types the tables and objects promise.
THEOREM TypeCorrect == Spec => []TypeOK
BY InitTypeOK, TypeStep, PTL DEF Spec

----------------------------------------------------------------------------
(* The position limits.                                                    *)

\* The sets the limits count are finite.
LEMMA OpenSetsFinite ==
    ASSUME TypeOK
    PROVE  /\ IsFiniteSet(OpenIds)
           /\ \A s : IsFiniteSet(OpenByStrategy(s))
           /\ \A c : IsFiniteSet(OpenByCoin(c))
<1>1. Len(paper_trades) \in Nat /\ DOMAIN paper_trades = 1..Len(paper_trades)
  BY LenProperties DEF TypeOK
<1>2. IsFiniteSet(DOMAIN paper_trades)
  BY <1>1, FS_Interval
<1>3. IsFiniteSet(OpenIds)
  BY <1>2, FS_Subset DEF OpenIds
<1>4. QED
  BY <1>3, FS_Subset DEF OpenByStrategy, OpenByCoin

\* A step that opens no trade either leaves the table alone or closes one trade in it.
LEMMA TableStep ==
    ASSUME TypeOK, [Next]_vars, ~OpenTrade
    PROVE  \/ paper_trades' = paper_trades
           \/ \E p \in Closers : CloseCommits(p)
<1> USE DEF orchVars, closerVars, botVars, tradeVars, worldVars
<1>1. CASE UNCHANGED vars
  BY <1>1 DEF vars
<1>2. CASE Orchestrator
  BY <1>2 DEF Orchestrator, RefreshState, Evaluate, CheckRefuses, CheckTrips, CheckPasses,
              AutoPause, CountRefuses, CountPasses, SizeIsZero, TickError
<1>3. ASSUME NEW p \in Closers, Closer(p), ~CloseCommits(p)
      PROVE  paper_trades' = paper_trades
  BY <1>3 DEF Closer, CloserStep, Snapshot, CloseReads, CloseSkips, GetState, UpdateState,
              CloseReturns, LoopEnds, Hold
<1>4. ASSUME NEW p \in Closers, CloserError(p) PROVE paper_trades' = paper_trades
  BY <1>4 DEF CloserError
<1>5. CASE Operator
  BY <1>5 DEF Operator, Pause, Resume, Toggle, EmergencyStop
<1>6. CASE Environment
  BY <1>6 DEF Environment, NewDay, Restart, MarketTrade, CooldownExpires, TimeStop
<1>7. QED
  BY <1>1, <1>2, <1>3, <1>4, <1>5, <1>6 DEF Next

\* Such a step opens nothing, in total, for a strategy or on a coin.
LEMMA OpenSetsShrink ==
    ASSUME TypeOK, [Next]_vars, ~OpenTrade
    PROVE  /\ OpenIds' \subseteq OpenIds
           /\ \A s : OpenByStrategy(s)' \subseteq OpenByStrategy(s)
           /\ \A c : OpenByCoin(c)' \subseteq OpenByCoin(c)
<1> USE DEF OpenIds, OpenByStrategy, OpenByCoin
<1>1. CASE paper_trades' = paper_trades
  BY <1>1
<1>2. ASSUME NEW p \in Closers, CloseCommits(p)
      PROVE  /\ DOMAIN paper_trades' = DOMAIN paper_trades
             /\ \A t \in DOMAIN paper_trades \ {job[p].trade} : paper_trades'[t] = paper_trades[t]
             /\ paper_trades'[job[p].trade].status = "closed"
  <2>1. job[p].trade \in DOMAIN paper_trades /\ job[p].pnl \in Int
    BY <1>2 DEF CloseCommits, TypeOK
  <2>2. paper_trades \in Seq(Trades)
    BY DEF TypeOK
  <2>3. paper_trades' = [paper_trades EXCEPT ![job[p].trade] =
                           ClosedWith(paper_trades[job[p].trade], job[p].pnl)]
    BY <1>2 DEF CloseCommits
  <2>4. QED
    BY <2>1, <2>2, <2>3, CloseTradeTable
<1>3. CASE \E p \in Closers : CloseCommits(p)
  BY <1>2, <1>3
<1>4. QED
  BY <1>1, <1>3, TableStep

\* OpenTrade adds one trade, of the signal's strategy and coin, to the open ones.
LEMMA OpenTradeAddsOne ==
    ASSUME TypeOK, OpenTrade
    PROVE  \E n :
             /\ OpenIds' = OpenIds \cup {n}
             /\ \A s : OpenByStrategy(s)' = OpenByStrategy(s) \cup (IF s = signal[2] THEN {n} ELSE {})
             /\ \A c : OpenByCoin(c)' = OpenByCoin(c) \cup (IF c = signal[1] THEN {n} ELSE {})
<1> DEFINE n == Len(paper_trades) + 1
           row == [coin |-> signal[1], strategy |-> signal[2], status |-> "open", pnl |-> 0]
<1>1. row \in Trades
  BY PairsAssumption DEF OpenTrade, TypeOK, Trades
<1>2. paper_trades' = Append(paper_trades, row) /\ paper_trades \in Seq(Trades)
  BY DEF OpenTrade, TypeOK
<1>3. row.status = "open" /\ row.coin = signal[1] /\ row.strategy = signal[2]
  OBVIOUS
<1> HIDE DEF row
<1>4. /\ DOMAIN paper_trades' = DOMAIN paper_trades \cup {n}
      /\ n \notin DOMAIN paper_trades
      /\ \A t \in DOMAIN paper_trades : paper_trades'[t] = paper_trades[t]
      /\ paper_trades'[n] = row
  BY <1>1, <1>2, OpenTradeTable
<1> HIDE DEF n
<1>5. OpenIds' = OpenIds \cup {n}
  BY <1>3, <1>4 DEF OpenIds
<1>6. \A s : OpenByStrategy(s)' = OpenByStrategy(s) \cup (IF s = signal[2] THEN {n} ELSE {})
  BY <1>3, <1>4, <1>5 DEF OpenByStrategy, OpenIds
<1>7. \A c : OpenByCoin(c)' = OpenByCoin(c) \cup (IF c = signal[1] THEN {n} ELSE {})
  BY <1>3, <1>4, <1>5 DEF OpenByCoin, OpenIds
<1>8. QED
  BY <1>5, <1>6, <1>7

\* A finite set that gained at most one element has gained at most one in size.
LEMMA OneMore ==
    ASSUME NEW S, IsFiniteSet(S), NEW n, NEW T, T \subseteq S \cup {n}
    PROVE  Cardinality(T) \in Int /\ Cardinality(S) \in Int
           /\ Cardinality(T) <= Cardinality(S) + 1
<1>1. Cardinality(S) \in Nat
  BY FS_CardinalityType
<1>2. IsFiniteSet(S \cup {n})
  BY FS_AddElement
<1>3. Cardinality(S \cup {n}) = IF n \in S THEN Cardinality(S) ELSE Cardinality(S) + 1
  BY FS_AddElement, Zenon
<1>4. Cardinality(S \cup {n}) <= Cardinality(S) + 1
  BY <1>1, <1>3
<1>5. Cardinality(T) \in Nat /\ Cardinality(T) <= Cardinality(S \cup {n})
  BY <1>2, FS_Subset, FS_CardinalityType
<1>6. Cardinality(S \cup {n}) \in Nat
  BY <1>2, FS_CardinalityType
<1>7. QED
  BY <1>1, <1>4, <1>5, <1>6

\* A subset of a finite set is no larger.
LEMMA NoMore ==
    ASSUME NEW S, IsFiniteSet(S), NEW T, T \subseteq S
    PROVE  Cardinality(T) \in Int /\ Cardinality(S) \in Int /\ Cardinality(T) <= Cardinality(S)
BY FS_Subset, FS_CardinalityType

\* The inductive step for the limits: opening spends the room that the counts found; every
\* other step leaves at least as much.
LEMMA LimitsStep ==
    ASSUME TypeOK, LimitsInv, [Next]_vars
    PROVE  LimitsInv'
<1>1. CASE OpenTrade
  <2>1. PICK n :
          /\ OpenIds' = OpenIds \cup {n}
          /\ \A s : OpenByStrategy(s)' = OpenByStrategy(s) \cup (IF s = signal[2] THEN {n} ELSE {})
          /\ \A c : OpenByCoin(c)' = OpenByCoin(c) \cup (IF c = signal[1] THEN {n} ELSE {})
    BY <1>1, OpenTradeAddsOne
  <2>2. Room(signal[1], signal[2])
    BY <1>1 DEF LimitsInv, OpenTrade
  <2>3. Cardinality(OpenIds)' <= MaxPos
    BY <2>1, <2>2, OpenSetsFinite, OneMore, LimitsAssumption, SMTT(30) DEF Room
  <2>4. ASSUME NEW s \in Strategies PROVE Cardinality(OpenByStrategy(s))' <= MaxPosStrat
    <3>1. CASE s = signal[2]
      <4>1. Cardinality(OpenByStrategy(s)) < MaxPosStrat
        BY <2>2, <3>1 DEF Room
      <4>2. OpenByStrategy(s)' \subseteq OpenByStrategy(s) \cup {n}
        BY <2>1
      <4>3. /\ Cardinality(OpenByStrategy(s))' \in Int /\ Cardinality(OpenByStrategy(s)) \in Int
            /\ Cardinality(OpenByStrategy(s))' <= Cardinality(OpenByStrategy(s)) + 1
        BY <4>2, OpenSetsFinite, OneMore
      <4>4. QED
        BY <4>1, <4>3, LimitsAssumption
    <3>2. CASE s # signal[2]
      <4>1. OpenByStrategy(s)' = OpenByStrategy(s)
        BY <2>1, <3>2
      <4>2. QED
        BY <4>1 DEF LimitsInv, PositionLimits
    <3>3. QED
      BY <3>1, <3>2
  <2>5. ASSUME NEW c \in Coins PROVE Cardinality(OpenByCoin(c))' <= MaxPosCoin
    <3>1. CASE c = signal[1]
      <4>1. Cardinality(OpenByCoin(c)) < MaxPosCoin
        BY <2>2, <3>1 DEF Room
      <4>2. OpenByCoin(c)' \subseteq OpenByCoin(c) \cup {n}
        BY <2>1
      <4>3. /\ Cardinality(OpenByCoin(c))' \in Int /\ Cardinality(OpenByCoin(c)) \in Int
            /\ Cardinality(OpenByCoin(c))' <= Cardinality(OpenByCoin(c)) + 1
        BY <4>2, OpenSetsFinite, OneMore
      <4>4. QED
        BY <4>1, <4>3, LimitsAssumption
    <3>2. CASE c # signal[1]
      <4>1. OpenByCoin(c)' = OpenByCoin(c)
        BY <2>1, <3>2
      <4>2. QED
        BY <4>1 DEF LimitsInv, PositionLimits
    <3>3. QED
      BY <3>1, <3>2
  <2>6. opc' # "open"
    BY <1>1 DEF OpenTrade, Goto
  <2>7. QED
    BY <2>3, <2>4, <2>5, <2>6 DEF LimitsInv, PositionLimits
<1>2. CASE ~OpenTrade
  <2>1. /\ OpenIds' \subseteq OpenIds
        /\ \A s : OpenByStrategy(s)' \subseteq OpenByStrategy(s)
        /\ \A c : OpenByCoin(c)' \subseteq OpenByCoin(c)
    BY <1>2, OpenSetsShrink
  <2>2. /\ Cardinality(OpenIds)' \in Int /\ Cardinality(OpenIds) \in Int
        /\ Cardinality(OpenIds)' <= Cardinality(OpenIds)
    BY <2>1, OpenSetsFinite, NoMore
  <2>3. \A s : /\ Cardinality(OpenByStrategy(s))' \in Int /\ Cardinality(OpenByStrategy(s)) \in Int
              /\ Cardinality(OpenByStrategy(s))' <= Cardinality(OpenByStrategy(s))
    BY <2>1, OpenSetsFinite, NoMore
  <2>4. \A c : /\ Cardinality(OpenByCoin(c))' \in Int /\ Cardinality(OpenByCoin(c)) \in Int
              /\ Cardinality(OpenByCoin(c))' <= Cardinality(OpenByCoin(c))
    BY <2>1, OpenSetsFinite, NoMore
  <2>5. PositionLimits'
    BY <2>2, <2>3, <2>4, LimitsAssumption DEF LimitsInv, PositionLimits
  <2>6. ASSUME opc' = "open" PROVE Room(signal[1], signal[2])'
    <3>1. \/ CountPasses
          \/ opc = "open" /\ signal' = signal
      BY <1>2, <2>6 DEF Next, vars, orchVars, closerVars, botVars, tradeVars, worldVars, Goto,
           Orchestrator, RefreshState, Evaluate, CheckRefuses, CheckTrips, CheckPasses,
           AutoPause, CountRefuses, SizeIsZero, TickError,
           Closer, CloserError, CloserStep, Snapshot, CloseReads, CloseSkips, CloseCommits,
           GetState, UpdateState, CloseReturns, LoopEnds, Hold,
           Operator, Pause, Resume, Toggle, EmergencyStop,
           Environment, NewDay, Restart, MarketTrade, CooldownExpires, TimeStop
    <3>2. Room(signal[1], signal[2]) /\ signal' = signal
      BY <3>1 DEF CountPasses, LimitsInv, Goto
    <3>3. QED
      BY <2>2, <2>3, <2>4, <3>2, LimitsAssumption DEF Room
  <2>7. QED
    BY <2>5, <2>6 DEF LimitsInv
<1>3. QED
  BY <1>1, <1>2

\* A signal that passed the counts keeps its room until its trade is inserted, however the closers
\* run in between.
THEOREM RoomIsKept == Spec => []LimitsInv
<1>1. Init => LimitsInv
  <2> SUFFICES ASSUME Init PROVE LimitsInv
    OBVIOUS
  <2>1. OpenIds = {} /\ (\A s : OpenByStrategy(s) = {}) /\ (\A c : OpenByCoin(c) = {})
    BY DEF Init, OpenIds, OpenByStrategy, OpenByCoin
  <2>2. Cardinality({}) = 0
    BY FS_EmptySet
  <2>3. PositionLimits
    BY <2>1, <2>2, LimitsAssumption DEF PositionLimits
  <2>4. QED
    BY <2>3 DEF Init, LimitsInv
<1>2. TypeOK /\ LimitsInv /\ [Next]_vars => LimitsInv'
  BY LimitsStep
<1>3. QED
  BY <1>1, <1>2, TypeCorrect, PTL DEF Spec

\* However the tasks interleave, the table never holds more open trades than the configured
\* limits: in total, per strategy and per coin.
THEOREM LimitsHold == Spec => []PositionLimits
<1>1. LimitsInv => PositionLimits
  BY DEF LimitsInv
<1>2. QED
  BY <1>1, RoomIsKept, PTL

----------------------------------------------------------------------------
(* The emergency stop.                                                     *)

\* The open trades an emergency request will not get to: those it neither has on its list nor is
\* about to close.
Missed(h) == OpenIds \ (todo[h] \cup (IF at[h] = "closing" THEN {job[h].trade} ELSE {}))

\* From the request on the bot stays paused, so the one signal that was past the check when the
\* request listed the trades is the only one that can still open a trade.
Stopped(h) ==
    /\ at[h] # "idle" => is_paused
    /\ at[h] = "done" => todo[h] = {}
    /\ at[h] \in {"loop", "closing", "booking", "updating", "returning", "done"} =>
          /\ opc \in {"count", "open"} => Missed(h) = {}
          /\ \E x : Missed(h) \subseteq {x}

\* A pause is only lifted by a resume, and a request never goes back to the state before its pause.
LEMMA PauseLasts ==
    ASSUME TypeOK, [Next]_vars, "resume" \notin Requests, NEW h \in Handlers,
           at[h] # "idle" => is_paused
    PROVE  /\ at'[h] # "idle" => is_paused'
           /\ is_paused => is_paused'
<1> USE DEF orchVars, closerVars, botVars, tradeVars, worldVars
<1>0. h \in Closers /\ h # Manager
  BY ManagerAssumption DEF Closers
<1>00. DOMAIN at = Closers
  BY DEF TypeOK
<1>1. CASE Orchestrator
  BY <1>1 DEF Orchestrator, RefreshState, Evaluate, CheckRefuses, CheckTrips, CheckPasses, AutoPause,
              CountRefuses, CountPasses, SizeIsZero, OpenTrade, TickError
<1>2. ASSUME NEW p \in Closers, Closer(p) \/ CloserError(p)
      PROVE  at'[h] # "idle" => is_paused'
  <2>1. is_paused' = is_paused
    BY <1>2 DEF Closer, CloserStep, Snapshot, CloseReads, CloseSkips, CloseCommits,
                GetState, UpdateState, CloseReturns, LoopEnds, Hold, CloserError
  <2>2. CASE p # h
    <3>1. at'[h] = at[h]
      BY <1>0, <1>00, <1>2, <2>2 DEF Closer, CloserStep, Snapshot, CloseReads, CloseSkips,
         CloseCommits, GetState, UpdateState, CloseReturns, LoopEnds, Hold, CloserError
    <3>2. QED
      BY <2>1, <3>1
  <2>3. CASE p = h
    <3>1. at[h] # "idle"
      BY <1>0, <1>2, <2>3 DEF Closer, CloserStep, Snapshot, CloseReads, CloseSkips,
         CloseCommits, GetState, UpdateState, CloseReturns, LoopEnds, Hold, CloserError
    <3>2. QED
      BY <2>1, <3>1
  <2>4. QED
    BY <2>2, <2>3
<1>3. ASSUME NEW p \in Closers, Closer(p) \/ CloserError(p) PROVE is_paused' = is_paused
  BY <1>3 DEF Closer, CloserStep, Snapshot, CloseReads, CloseSkips, CloseCommits,
              GetState, UpdateState, CloseReturns, LoopEnds, Hold, CloserError
<1>4. CASE Operator
  BY <1>0, <1>00, <1>4 DEF Operator, Pause, Resume, Toggle, EmergencyStop
<1>5. CASE Environment
  BY <1>0, <1>5 DEF Environment, NewDay, Restart, MarketTrade, CooldownExpires, TimeStop
<1>6. CASE UNCHANGED vars
  BY <1>6 DEF vars
<1>7. QED
  BY <1>1, <1>2, <1>3, <1>4, <1>5, <1>6 DEF Next

\* What another task does to a request's list: nothing, and it only closes trades.
LEMMA MissedShrinks ==
    ASSUME TypeOK, NEW h \in Handlers, Stopped(h), OpenIds' \subseteq OpenIds,
           at'[h] = at[h], todo'[h] = todo[h], job'[h] = job[h],
           opc' \in {"count", "open"} => opc \in {"count", "open"},
           at'[h] # "idle" => is_paused'
    PROVE  Stopped(h)'
<1>1. Missed(h)' \subseteq Missed(h)
  BY DEF Missed
<1>2. QED
  BY <1>1 DEF Stopped

\* The request's own steps: what leaves its list is closed or about to be.
LEMMA HandlerStep ==
    ASSUME TypeOK, [Next]_vars, NEW h \in Handlers, Stopped(h), Closer(h) \/ CloserError(h),
           at'[h] # "idle" => is_paused'
    PROVE  Stopped(h)'
<1> USE DEF orchVars, tradeVars
<1>0. /\ h \in Closers /\ h # Manager
      /\ DOMAIN at = Closers /\ DOMAIN todo = Closers /\ DOMAIN job = Closers
  BY ManagerAssumption DEF Closers, TypeOK
<1>1. CASE Snapshot(h)
  <2>1. at'[h] = "loop" /\ todo'[h] = OpenIds /\ OpenIds' = OpenIds
    BY <1>0, <1>1 DEF Snapshot, OpenIds
  <2>2. Missed(h)' = {}
    BY <2>1 DEF Missed
  <2>3. QED
    BY <2>1, <2>2 DEF Stopped
<1>2. ASSUME NEW t \in todo[h], CloseReads(h, t) PROVE Stopped(h)'
  <2>1. /\ at[h] = "loop" /\ at'[h] = "closing" /\ todo'[h] = todo[h] \ {t} /\ opc' = opc
        /\ OpenIds' = OpenIds /\ job'[h].trade = t
    BY <1>0, <1>2 DEF CloseReads, OpenIds
  <2>2. Missed(h)' \subseteq Missed(h)
    BY <2>1 DEF Missed
  <2>3. QED
    BY <2>1, <2>2 DEF Stopped
<1>3. ASSUME NEW t \in todo[h], CloseSkips(h, t) PROVE Stopped(h)'
  <2>1. /\ at[h] = "loop" /\ at'[h] = "loop" /\ todo'[h] = todo[h] \ {t} /\ opc' = opc
        /\ OpenIds' = OpenIds /\ t \notin OpenIds
    BY <1>0, <1>3 DEF CloseSkips, MayClose, OpenIds
  <2>2. Missed(h)' \subseteq Missed(h)
    BY <2>1 DEF Missed
  <2>3. QED
    BY <2>1, <2>2 DEF Stopped
<1>4. CASE CloseCommits(h)
  <2>1. at[h] = "closing" /\ at'[h] = "booking" /\ todo'[h] = todo[h] /\ opc' = opc
    BY <1>0, <1>4 DEF CloseCommits
  <2>2. ~OpenTrade
    BY <1>4 DEF CloseCommits, OpenTrade, closerVars
  <2>3. OpenIds' \subseteq OpenIds
    BY <2>2, OpenSetsShrink
  <2>4. job[h].trade \in DOMAIN paper_trades /\ job[h].pnl \in Int /\ paper_trades \in Seq(Trades)
    BY <1>0, <2>1 DEF TypeOK
  <2>5. paper_trades'[job[h].trade].status = "closed"
    BY <1>4, <2>4, CloseTradeTable DEF CloseCommits
  <2>6. Missed(h)' \subseteq Missed(h)
    BY <2>1, <2>3, <2>5 DEF Missed, OpenIds
  <2>7. QED
    BY <2>1, <2>6 DEF Stopped
<1>5. CASE GetState(h) \/ UpdateState(h) \/ CloseReturns(h)
  <2>1. /\ at[h] \in {"booking", "updating", "returning"} /\ at'[h] \in {"updating", "returning", "loop"}
        /\ todo'[h] = todo[h] /\ opc' = opc /\ OpenIds' = OpenIds
    BY <1>0, <1>5 DEF GetState, UpdateState, CloseReturns, OpenIds
  <2>2. Missed(h)' = Missed(h)
    BY <2>1 DEF Missed
  <2>3. QED
    BY <2>1, <2>2 DEF Stopped
<1>6. CASE LoopEnds(h)
  <2>1. /\ at[h] = "loop" /\ at'[h] = "done" /\ todo[h] = {} /\ todo'[h] = {} /\ opc' = opc
        /\ OpenIds' = OpenIds
    BY <1>0, <1>6 DEF LoopEnds, OpenIds
  <2>2. Missed(h)' = Missed(h)
    BY <2>1 DEF Missed
  <2>3. QED
    BY <2>1, <2>2 DEF Stopped
<1>7. CASE CloserError(h)
  <2>1. at'[h] = "failed"
    BY <1>0, <1>7 DEF CloserError
  <2>2. QED
    BY <2>1 DEF Stopped
<1>8. QED
  BY <1>0, <1>1, <1>2, <1>3, <1>4, <1>5, <1>6, <1>7 DEF Closer, CloserStep

\* Every step keeps what a request has achieved.
LEMMA StoppedStep ==
    ASSUME TypeOK, [Next]_vars, "resume" \notin Requests, NEW h \in Handlers, Stopped(h)
    PROVE  Stopped(h)'
<1> USE DEF orchVars, closerVars, botVars, tradeVars, worldVars
<1>0. at'[h] # "idle" => is_paused'
  BY PauseLasts DEF Stopped
<1>00. /\ h \in Closers /\ h # Manager
       /\ DOMAIN at = Closers /\ DOMAIN todo = Closers /\ DOMAIN job = Closers
  BY ManagerAssumption DEF Closers, TypeOK
<1>1. CASE OpenTrade
  <2>1. PICK n : OpenIds' = OpenIds \cup {n}
    BY <1>1, OpenTradeAddsOne
  <2>2. opc = "open" /\ opc' = "idle" /\ at' = at /\ todo' = todo /\ job' = job
    BY <1>1 DEF OpenTrade, Goto
  <2>3. Missed(h) = {} => Missed(h)' \subseteq {n}
    BY <2>1, <2>2 DEF Missed
  <2>4. QED
    BY <1>0, <2>2, <2>3 DEF Stopped
<1>2. CASE CheckPasses
  <2>1. ~is_paused /\ at' = at
    BY <1>2 DEF CheckPasses, NotStopped
  <2>2. QED
    BY <1>0, <2>1 DEF Stopped
<1>3. CASE Orchestrator /\ ~OpenTrade /\ ~CheckPasses
  <2>1. /\ paper_trades' = paper_trades /\ at' = at /\ todo' = todo /\ job' = job
        /\ opc' \in {"count", "open"} => opc \in {"count", "open"}
    BY <1>3 DEF Orchestrator, RefreshState, Evaluate, CheckRefuses, CheckTrips, AutoPause,
                CountRefuses, CountPasses, SizeIsZero, TickError, Goto
  <2>2. OpenIds' = OpenIds
    BY <2>1 DEF OpenIds
  <2>3. QED
    BY <1>0, <2>1, <2>2, MissedShrinks
<1>4. ASSUME NEW p \in Closers, Closer(p) \/ CloserError(p), p # h PROVE Stopped(h)'
  <2>1. /\ at'[h] = at[h] /\ todo'[h] = todo[h] /\ job'[h] = job[h] /\ opc' = opc /\ signal' = signal
    BY <1>00, <1>4 DEF Closer, CloserStep, Snapshot, CloseReads, CloseSkips, CloseCommits,
                       GetState, UpdateState, CloseReturns, LoopEnds, Hold, CloserError
  <2>2. ~OpenTrade
    BY <2>1 DEF OpenTrade, Goto
  <2>3. OpenIds' \subseteq OpenIds
    BY <2>2, OpenSetsShrink
  <2>4. QED
    BY <1>0, <2>1, <2>3, MissedShrinks
<1>5. ASSUME NEW g \in Handlers, EmergencyStop(g) PROVE Stopped(h)'
  <2>1. OpenIds' = OpenIds /\ todo' = todo /\ job' = job /\ opc' = opc
    BY <1>5 DEF EmergencyStop, OpenIds
  <2>2. CASE g = h
    <3>1. at'[h] = "listing"
      BY <1>00, <1>5, <2>2 DEF EmergencyStop
    <3>2. QED
      BY <1>0, <3>1 DEF Stopped
  <2>3. CASE g # h
    <3>1. at'[h] = at[h]
      BY <1>00, <1>5, <2>3 DEF EmergencyStop
    <3>2. QED
      BY <1>0, <2>1, <3>1, MissedShrinks
  <2>4. QED
    BY <2>2, <2>3
<1>6. CASE Pause \/ Resume \/ \E s \in Strategies : Toggle(s)
  <2>1. OpenIds' = OpenIds /\ at' = at /\ todo' = todo /\ job' = job /\ opc' = opc
    BY <1>6 DEF Pause, Resume, Toggle, OpenIds
  <2>2. QED
    BY <1>0, <2>1, MissedShrinks
<1>7. CASE Restart
  <2>1. at'[h] \in {"idle", "done", "failed"} /\ (at'[h] = "done" => at[h] = "done")
    BY <1>00, <1>7 DEF Restart
  <2>2. opc' = "idle" /\ OpenIds' = OpenIds /\ todo'[h] = {}
    BY <1>00, <1>7 DEF Restart, OpenIds
  <2>3. at[h] = "done" /\ at'[h] = "done" => Missed(h)' = Missed(h)
    BY <2>2 DEF Missed, Stopped
  <2>4. QED
    BY <1>0, <2>1, <2>2, <2>3 DEF Stopped
<1>8. CASE Environment /\ ~Restart
  <2>1. OpenIds' = OpenIds /\ at' = at /\ todo' = todo /\ job' = job /\ opc' = opc
    BY <1>8 DEF Environment, NewDay, MarketTrade, CooldownExpires, TimeStop, OpenIds
  <2>2. QED
    BY <1>0, <2>1, MissedShrinks
<1>9. CASE UNCHANGED vars
  <2>1. OpenIds' = OpenIds /\ at' = at /\ todo' = todo /\ job' = job /\ opc' = opc
    BY <1>9 DEF vars, OpenIds
  <2>2. QED
    BY <1>0, <2>1, MissedShrinks
<1>10. ASSUME NEW p \in Closers, Closer(p) \/ CloserError(p) PROVE Stopped(h)'
  BY <1>0, <1>4, <1>10, HandlerStep
<1>11. CASE Orchestrator
  BY <1>1, <1>2, <1>3, <1>11
<1>12. CASE Operator
  BY <1>5, <1>6, <1>12 DEF Operator
<1>13. QED
  BY <1>7, <1>8, <1>9, <1>10, <1>11, <1>12 DEF Next

\* Without a resume, an emergency stop that was answered has left at most one trade open, for any
\* number of requests, trades, restarts and errors.
THEOREM EmergencyLeavesOne ==
    ASSUME "resume" \notin Requests
    PROVE  Spec => []EmergencyLeavesAtMostOne
<1> DEFINE I == \A h \in Handlers : Stopped(h)
<1>1. Init => I
  <2> SUFFICES ASSUME Init, NEW h \in Handlers PROVE Stopped(h)
    OBVIOUS
  <2>1. at[h] = "idle"
    BY DEF Init, Closers
  <2>2. QED
    BY <2>1 DEF Stopped
<1>2. TypeOK /\ I /\ [Next]_vars => I'
  <2> SUFFICES ASSUME TypeOK, I, [Next]_vars, NEW h \in Handlers PROVE Stopped(h)'
    OBVIOUS
  <2>1. QED
    BY StoppedStep
<1>3. TypeOK /\ I => EmergencyLeavesAtMostOne
  <2> SUFFICES ASSUME TypeOK, I, NEW h \in Handlers, at[h] = "done"
               PROVE  Cardinality(OpenIds) <= 1
    BY DEF EmergencyLeavesAtMostOne
  <2>1. PICK x : OpenIds \subseteq {} \cup {x}
    BY DEF Stopped, Missed
  <2>2. IsFiniteSet({}) /\ Cardinality({}) = 0
    BY FS_EmptySet
  <2>3. Cardinality(OpenIds) \in Int /\ Cardinality(OpenIds) <= Cardinality({}) + 1
    BY <2>1, <2>2, OneMore, Zenon
  <2>4. QED
    BY <2>2, <2>3
<1>4. QED
  BY <1>1, <1>2, <1>3, TypeCorrect, PTL DEF Spec

----------------------------------------------------------------------------
(* The drawdown circuit.                                                   *)

\* Once latched, every step keeps the circuit latched: the only way to open a trade goes through
\* CheckPasses, which the broken circuit disables; the only way to change the equity goes through
\* a close, and there is nothing to close.
LEMMA LatchedStep ==
    ASSUME TypeOK, Latched, [Next]_vars
    PROVE  Latched'
<1> USE DEF orchVars, closerVars, botVars, tradeVars, worldVars
<1>1. ~OpenTrade /\ ~CheckPasses /\ ~CountPasses
  BY DEF Latched, OpenTrade, CheckPasses, CountPasses, Tripped
<1>2. \A p \in Closers : ~CloseCommits(p) /\ ~GetState(p) /\ ~UpdateState(p)
  BY DEF Latched, CloseCommits, GetState, UpdateState
<1>3. \A p \in Closers : \A t \in todo[p] : ~CloseReads(p, t)
  BY DEF TypeOK, Latched, OpenIds, CloseReads, MayClose
<1>4. OpenIds' = {}
  BY <1>1, OpenSetsShrink DEF Latched
<1>5. account' = account \/ account' = [account EXCEPT !.consec = 0]
  <2>1. CASE UNCHANGED vars
    BY <2>1 DEF vars
  <2>2. CASE Orchestrator
    BY <2>2 DEF Orchestrator, RefreshState, Evaluate, CheckRefuses, CheckTrips, CheckPasses,
                AutoPause, CountRefuses, CountPasses, SizeIsZero, OpenTrade, TickError
  <2>3. ASSUME NEW p \in Closers, Closer(p) \/ CloserError(p) PROVE account' = account
    BY <1>2, <2>3 DEF Closer, CloserStep, Snapshot, CloseReads, CloseSkips, CloseCommits,
                GetState, CloseReturns, LoopEnds, Hold, CloserError
  <2>4. CASE Operator
    BY <2>4 DEF Operator, Pause, Resume, Toggle, EmergencyStop
  <2>5. CASE Environment
    BY <2>5 DEF Environment, NewDay, Restart, MarketTrade, CooldownExpires, TimeStop
  <2>6. QED
    BY <2>1, <2>2, <2>3, <2>4, <2>5 DEF Next
<1>6. DrawdownHit(account)'
  <2>1. account'.peak = account.peak /\ account'.equity = account.equity
    BY <1>5 DEF TypeOK, Accounts
  <2>2. QED
    BY <2>1 DEF Latched, DrawdownHit
<1>7. opc' \notin {"count", "open"}
  <2>1. CASE UNCHANGED vars
    BY <2>1 DEF vars, Latched
  <2>2. CASE Orchestrator
    BY <1>1, <2>2 DEF Latched, Goto, Orchestrator, RefreshState, Evaluate, CheckRefuses,
                CheckTrips, AutoPause, CountRefuses, SizeIsZero, TickError
  <2>3. ASSUME NEW p \in Closers, Closer(p) \/ CloserError(p) PROVE opc' = opc
    BY <2>3 DEF Closer, CloserStep, Snapshot, CloseReads, CloseSkips, CloseCommits,
                GetState, UpdateState, CloseReturns, LoopEnds, Hold, CloserError
  <2>4. CASE Operator
    BY <2>4 DEF Latched, Operator, Pause, Resume, Toggle, EmergencyStop
  <2>5. CASE Environment
    BY <2>5 DEF Latched, Environment, NewDay, Restart, MarketTrade, CooldownExpires, TimeStop
  <2>6. QED
    BY <2>1, <2>2, <2>3, <2>4, <2>5 DEF Next, Latched
<1>8. \A p \in Closers : at'[p] \notin {"closing", "booking", "updating"}
  <2>1. CASE UNCHANGED vars
    BY <2>1 DEF vars, Latched
  <2>2. CASE Orchestrator
    BY <2>2 DEF Latched, Orchestrator, RefreshState, Evaluate, CheckRefuses, CheckTrips,
                CheckPasses, AutoPause, CountRefuses, CountPasses, SizeIsZero, OpenTrade, TickError
  <2>3. ASSUME NEW p \in Closers, Closer(p) \/ CloserError(p)
        PROVE  \E pc \in {"idle", "listing", "loop", "returning", "done", "failed"} :
                 at' = [at EXCEPT ![p] = pc] \/ at' = at
    BY <1>2, <1>3, <2>3 DEF Closer, CloserStep, Snapshot, CloseSkips, CloseReads,
                CloseReturns, LoopEnds, Hold, CloserError
  <2>4. CASE Operator
    BY <2>4 DEF Latched, TypeOK, Operator, Pause, Resume, Toggle, EmergencyStop
  <2>5. CASE Environment
    BY <2>5 DEF Latched, Environment, NewDay, Restart, MarketTrade, CooldownExpires, TimeStop
  <2>6. QED
    BY <2>1, <2>2, <2>3, <2>4, <2>5 DEF Next, Latched, TypeOK
<1>9. QED
  BY <1>4, <1>6, <1>7, <1>8 DEF Latched

\* A broken drawdown circuit with nothing open is final: no request, day or restart undoes it.
THEOREM CircuitIsFinal == Spec => CircuitLatches
<1>1. TypeOK /\ [Next]_vars => [Latched => Latched']_vars
  BY LatchedStep
<1>2. QED
  BY <1>1, TypeCorrect, PTL DEF Spec, CircuitLatches

----------------------------------------------------------------------------
(* The history of HaltLeak.                                                *)

\* A step that opens no trade leaves the number of rows alone.
LEMMA SameLength ==
    ASSUME TypeOK, [Next]_vars, ~OpenTrade
    PROVE  Len(paper_trades') = Len(paper_trades)
<1>1. CASE paper_trades' = paper_trades
  BY <1>1
<1>2. ASSUME NEW p \in Closers, CloseCommits(p) PROVE Len(paper_trades') = Len(paper_trades)
  <2>1. job[p].trade \in 1..Len(paper_trades) /\ job[p].pnl \in Int
    BY <1>2, LenProperties DEF CloseCommits, TypeOK
  <2>2. paper_trades[job[p].trade] \in Trades
    BY <2>1, ElementOfSeq DEF TypeOK
  <2>3. ClosedWith(paper_trades[job[p].trade], job[p].pnl) \in Trades
    BY <2>1, <2>2 DEF Trades, ClosedWith
  <2>4. QED
    BY <1>2, <2>1, <2>3, ExceptSeq DEF CloseCommits, TypeOK
<1>3. QED
  BY <1>1, <1>2, TableStep

\* A signal gets past the check only in a step taken while the bot is not paused.
LEMMA PastTheCheck ==
    ASSUME [Next]_vars, opc' \in {"count", "open"}
    PROVE  opc \in {"count", "open"} \/ ~is_paused
<1> USE DEF orchVars, closerVars, botVars, tradeVars, worldVars, Goto
<1>1. CASE Orchestrator
  BY <1>1 DEF Orchestrator, RefreshState, Evaluate, CheckRefuses, CheckTrips, CheckPasses, AutoPause,
              CountRefuses, CountPasses, SizeIsZero, OpenTrade, TickError, NotStopped
<1>2. ASSUME NEW p \in Closers, Closer(p) \/ CloserError(p) PROVE opc' = opc
  BY <1>2 DEF Closer, CloserStep, Snapshot, CloseReads, CloseSkips, CloseCommits,
              GetState, UpdateState, CloseReturns, LoopEnds, Hold, CloserError
<1>3. CASE Operator
  BY <1>3 DEF Operator, Pause, Resume, Toggle, EmergencyStop
<1>4. CASE Environment
  BY <1>4 DEF Environment, NewDay, Restart, MarketTrade, CooldownExpires, TimeStop
<1>5. CASE UNCHANGED vars
  BY <1>5 DEF vars
<1>6. QED
  BY <1>1, <1>2, <1>3, <1>4, <1>5 DEF Next

\* Every step keeps the account of what a pause let through.
LEMMA HaltStep ==
    ASSUME TypeOK, HaltInv, [HaltNext]_haltVars
    PROVE  HaltInv'
<1>1. CASE UNCHANGED haltVars
  BY <1>1 DEF haltVars, vars, orchVars, botVars, HaltInv
<1>2. CASE HaltNext /\ OpenTrade
  <2>1. /\ opc = "open" /\ opc' = "idle" /\ is_paused' = is_paused
        /\ \E row : paper_trades' = Append(paper_trades, row)
    BY <1>2 DEF OpenTrade, Goto, botVars
  <2>2. Len(paper_trades) \in Nat /\ Len(paper_trades') = Len(paper_trades) + 1
    BY <2>1, LenProperties DEF TypeOK
  <2>3. Len(paper_trades') - Len(paper_trades) = 1
    BY <2>2
  <2>4. QED
    BY <1>2, <2>1, <2>3 DEF HaltNext, HaltInv
<1>3. CASE HaltNext /\ ~OpenTrade
  <2>1. Len(paper_trades') - Len(paper_trades) = 0
    <3>1. Len(paper_trades') = Len(paper_trades) /\ Len(paper_trades) \in Nat
      BY <1>3, SameLength, LenProperties DEF HaltNext, TypeOK
    <3>2. QED
      BY <3>1
  <2>2. leaked' = IF is_paused /\ is_paused' THEN leaked ELSE 0
    BY <1>3, <2>1 DEF HaltNext, HaltInv
  <2>3. opc' \in {"count", "open"} => opc \in {"count", "open"} \/ ~is_paused
    BY <1>3, PastTheCheck DEF HaltNext
  <2>4. QED
    BY <2>2, <2>3 DEF HaltInv
<1>4. QED
  BY <1>1, <1>2, <1>3

\* While the bot is paused, a signal past the check is the first of this pause: it has not been
\* joined by another.
THEOREM HaltAccountHolds == HaltSpec => []HaltInv
<1>1. HaltInit => TypeOK /\ HaltInv
  BY InitTypeOK DEF HaltInit, HaltInv
<1>2. TypeOK /\ HaltInv /\ [HaltNext]_haltVars => TypeOK' /\ HaltInv'
  <2>1. ASSUME TypeOK, [HaltNext]_haltVars PROVE TypeOK'
    <3>1. [Next]_vars
      BY <2>1 DEF HaltNext, haltVars
    <3>2. QED
      BY <2>1, <3>1, TypeStep
  <2>2. QED
    BY <2>1, HaltStep
<1>3. QED
  BY <1>1, <1>2, PTL DEF HaltSpec

\* Whoever paused and however the tasks interleave, a pause that lasts lets at most one more
\* trade through.
THEOREM HaltLeaksAtMostOne == HaltSpec => []LeakAtMostOne
<1>1. HaltInv => LeakAtMostOne
  BY DEF HaltInv, LeakAtMostOne
<1>2. QED
  BY <1>1, HaltAccountHolds, PTL

----------------------------------------------------------------------------
(* The ledger.                                                             *)

\* The trade whose result is under way, and those whose result was lost.
Settling == IF at[Manager] \in {"booking", "updating"} THEN {job[Manager].trade} ELSE {}
Lost == DOMAIN paper_trades \ (OpenIds \cup booked \cup Settling)

\* The one close under way is of a trade that was open when it began and that nobody else closes;
\* what it is about to write is the account and the trade's result.
JobInv ==
    /\ at[Manager] = "closing" => job[Manager].trade \in OpenIds
    /\ at[Manager] \in {"closing", "booking", "updating"} => job[Manager].pnl \in Pnls
    /\ \A t \in Settling : paper_trades[t].pnl = job[Manager].pnl
    /\ at[Manager] = "updating" =>
         LET equity == account.equity + job[Manager].pnl
         IN  /\ job[Manager].account.equity = equity
             /\ job[Manager].account.peak = IF equity > account.peak THEN equity ELSE account.peak

\* Besides, no result is booked twice or before its trade is closed, and every lost one had its
\* fault.
BookInv ==
    /\ Len(paper_trades) <= MaxTrades
    /\ opc # "idle" => Len(paper_trades) < MaxTrades
    /\ booked \subseteq DOMAIN paper_trades \ OpenIds
    /\ Settling \subseteq DOMAIN paper_trades \ (OpenIds \cup booked)
    /\ Cardinality(Lost) <= faults
    /\ JobInv

\* Where a trade is in the ledger.
Place(t) ==
    IF t \notin DOMAIN paper_trades THEN "none"
    ELSE IF t \in booked THEN "settled"
    ELSE IF t \in OpenIds \cup Settling THEN "open" ELSE "forfeited"

LEMMA PositionIsPlace == BookInv => \A t : Position(t) = Place(t)
<1> SUFFICES ASSUME BookInv, NEW t PROVE Position(t) = Place(t)
  OBVIOUS
<1>0. /\ OpenIds \cup booked \cup Settling \subseteq DOMAIN paper_trades
      /\ Settling \cap (OpenIds \cup booked) = {} /\ booked \cap OpenIds = {}
  BY DEF BookInv, OpenIds
<1>1. (job[Manager].trade = t /\ at[Manager] \in {"booking", "updating"}) = (t \in Settling)
  BY DEF Settling
<1>2. CASE t \notin DOMAIN paper_trades
  BY <1>0, <1>1, <1>2 DEF Position, Place
<1>3. CASE t \in booked
  BY <1>0, <1>1, <1>3 DEF Position, Place
<1>4. CASE t \in OpenIds \cup Settling
  BY <1>0, <1>1, <1>4 DEF Position, Place
<1>5. CASE t \in DOMAIN paper_trades \ (booked \cup OpenIds \cup Settling)
  BY <1>0, <1>1, <1>5 DEF Position, Place
<1>6. QED
  BY <1>2, <1>3, <1>4, <1>5

LEMMA PositionIsPlaceNext == BookInv' => \A t : Position(t)' = Place(t)'
<1>1. BookInv' => (\A t : Position(t) = Place(t))'
  BY PositionIsPlace, PTL
<1>2. QED
  BY <1>1

\* The ledger, in these terms.
LEMMA LedgerStutters ==
    ASSUME BookInv, BookInv', \A t : Place(t)' = Place(t), booked' = booked,
           \A t \in booked : paper_trades'[t].pnl = paper_trades[t].pnl,
           account'.equity = account.equity, account'.peak = account.peak
    PROVE  UNCHANGED Books!ledgerVars
<1>1. \A t : Position(t)' = Position(t)
  BY PositionIsPlace, PositionIsPlaceNext
<1>2. QED
  BY <1>1 DEF Books!ledgerVars

LEMMA LedgerEnters ==
    ASSUME BookInv, BookInv', NEW n \in 1..MaxTrades, Place(n) = "none", Place(n)' = "open",
           \A t : t # n => Place(t)' = Place(t), booked' = booked,
           \A t \in booked : paper_trades'[t].pnl = paper_trades[t].pnl,
           account'.equity = account.equity, account'.peak = account.peak
    PROVE  Books!Enter(n)
<1>1. \A t : Position(t) = Place(t) /\ Position(t)' = Place(t)'
  BY PositionIsPlace, PositionIsPlaceNext
<1>2. QED
  BY <1>1 DEF Books!Enter

\* Ledger counts with the same operator, under its own name for it.
LEMMA SameCardinality == \A S : Books!Cardinality(S) = Cardinality(S)
BY DEF Books!Cardinality, Cardinality

\* What a typed table says of the sets the ledger is about.
LEMMA Finite ==
    ASSUME TypeOK, Len(paper_trades) <= MaxTrades
    PROVE  /\ Len(paper_trades) \in Nat /\ DOMAIN paper_trades = 1..Len(paper_trades)
           /\ DOMAIN paper_trades \subseteq 1..MaxTrades
           /\ IsFiniteSet(Lost) /\ Cardinality(Lost) \in Nat
<1>1. Len(paper_trades) \in Nat /\ DOMAIN paper_trades = 1..Len(paper_trades)
  BY LenProperties DEF TypeOK
<1>2. DOMAIN paper_trades \subseteq 1..MaxTrades
  BY <1>1, BoundsAssumption
<1>3. IsFiniteSet(DOMAIN paper_trades)
  BY <1>1, FS_Interval
<1>4. IsFiniteSet(Lost)
  BY <1>3, FS_Subset DEF Lost
<1>5. QED
  BY <1>1, <1>2, <1>4, FS_CardinalityType

LEMMA FiniteNext ==
    TypeOK' /\ Len(paper_trades') <= MaxTrades =>
        DOMAIN paper_trades' = 1..Len(paper_trades') /\ DOMAIN paper_trades' \subseteq 1..MaxTrades
<1>1. (TypeOK /\ Len(paper_trades) <= MaxTrades =>
         DOMAIN paper_trades = 1..Len(paper_trades) /\ DOMAIN paper_trades \subseteq 1..MaxTrades)'
  BY Finite, PTL
<1>2. QED
  BY <1>1

LEMMA LedgerForfeits ==
    ASSUME BookInv, BookInv', NEW n \in 1..MaxTrades, Place(n) = "open", Place(n)' = "forfeited",
           \A t : t # n => Place(t)' = Place(t), booked' = booked,
           \A t \in booked : paper_trades'[t].pnl = paper_trades[t].pnl,
           account'.equity = account.equity, account'.peak = account.peak,
           TypeOK, faults < MaxFaults
    PROVE  Books!Forfeit(n)
<1>1. \A t : Position(t) = Place(t) /\ Position(t)' = Place(t)'
  BY PositionIsPlace, PositionIsPlaceNext
<1>2. Len(paper_trades) <= MaxTrades /\ Cardinality(Lost) <= faults
  BY DEF BookInv
<1>3. {u \in 1..MaxTrades : Position(u) = "forfeited"} = Lost
  <2>1. {u \in 1..MaxTrades : Place(u) = "forfeited"} = Lost
    BY <1>2, Finite DEF Lost, Place
  <2>2. QED
    BY <1>1, <2>1
<1>4. Cardinality(Lost) < MaxFaults
  BY <1>2, Finite, BoundsAssumption DEF TypeOK
<1>5. Books!Cardinality({u \in 1..MaxTrades : Position(u) = "forfeited"}) < MaxFaults
  BY <1>3, <1>4, SameCardinality
<1>6. {u \in 1..MaxTrades : [t \in 1..MaxTrades |-> Position(t)][u] = "forfeited"}
        = {u \in 1..MaxTrades : Position(u) = "forfeited"}
  OBVIOUS
<1>7. [t \in 1..MaxTrades |-> Position(t)]' =
        [[t \in 1..MaxTrades |-> Position(t)] EXCEPT ![n] = "forfeited"]
  BY <1>1
<1>8. QED
  BY <1>1, <1>5, <1>6, <1>7 DEF Books!Forfeit

LEMMA LedgerSettles ==
    ASSUME BookInv, BookInv', NEW n \in 1..MaxTrades, Place(n) = "open", Place(n)' = "settled",
           \A t : t # n => Place(t)' = Place(t), booked' = booked \cup {n},
           paper_trades' = paper_trades, paper_trades[n].pnl \in Pnls,
           account'.equity = account.equity + paper_trades[n].pnl,
           account'.peak = IF account'.equity > account.peak THEN account'.equity ELSE account.peak
    PROVE  Books!Settle(n)
<1>1. \A t : Position(t) = Place(t) /\ Position(t)' = Place(t)'
  BY PositionIsPlace, PositionIsPlaceNext
<1>2. [t \in 1..MaxTrades |-> Position(t)][n] = "open"
  BY <1>1
<1>3. [t \in 1..MaxTrades |-> Position(t)]' =
        [[t \in 1..MaxTrades |-> Position(t)] EXCEPT ![n] = "settled"]
  BY <1>1
<1>4. [t \in 1..MaxTrades |-> IF t \in booked THEN paper_trades[t].pnl ELSE 0]' =
        [[t \in 1..MaxTrades |-> IF t \in booked THEN paper_trades[t].pnl ELSE 0]
            EXCEPT ![n] = paper_trades[n].pnl]
  OBVIOUS
<1>5. QED
  BY <1>2, <1>3, <1>4 DEF Books!Settle

\* A step that changes neither the table nor the books, and whose close under way, if any, is of
\* the same trade.
LEMMA QuietStep ==
    ASSUME TypeOK, BookInv, paper_trades' = paper_trades, booked' = booked, Settling' = Settling,
           account'.equity = account.equity, account'.peak = account.peak,
           opc' # "idle" => opc # "idle" \/ Len(paper_trades) < MaxTrades,
           faults' \in {faults, faults + 1}, JobInv'
    PROVE  BookInv' /\ UNCHANGED Books!ledgerVars
<1>1. OpenIds' = OpenIds /\ Lost' = Lost
  BY DEF OpenIds, Lost
<1>2. Cardinality(Lost) <= faults'
  BY Finite DEF BookInv, TypeOK
<1>3. BookInv'
  BY <1>1, <1>2 DEF BookInv
<1>4. \A t : Place(t)' = Place(t)
  BY <1>1 DEF Place
<1>5. QED
  BY <1>3, <1>4, LedgerStutters

\* The manager's own steps that leave the table and the account alone.
LEMMA ManagerQuiet ==
    ASSUME TypeOK, BookInv, booked' = booked,
           \/ Snapshot(Manager) \/ GetState(Manager) \/ CloseReturns(Manager) \/ LoopEnds(Manager)
           \/ \E t \in todo[Manager] :
                 CloseReads(Manager, t) \/ CloseSkips(Manager, t) \/ Hold(t)
    PROVE  BookInv' /\ UNCHANGED Books!ledgerVars
<1> USE DEF orchVars, closerVars, botVars, tradeVars, worldVars
<1>0. Manager \in DOMAIN at /\ Manager \in DOMAIN job
  BY DEF TypeOK, Closers
<1>1. /\ paper_trades' = paper_trades /\ account' = account /\ opc' = opc /\ faults' = faults
  BY DEF Snapshot, GetState, CloseReturns, LoopEnds, CloseReads, CloseSkips, Hold
<1>2. ASSUME NEW t \in todo[Manager], CloseReads(Manager, t)
      PROVE  Settling' = Settling /\ JobInv'
  <2>1. PICK pnl \in Pnls :
           job' = [job EXCEPT ![Manager] = [trade |-> t, pnl |-> pnl, account |-> InitAccount]]
    BY <1>2 DEF CloseReads
  <2>2. /\ at[Manager] = "loop" /\ at'[Manager] = "closing"
        /\ job'[Manager].trade = t /\ job'[Manager].pnl = pnl
    BY <1>0, <1>2, <2>1 DEF CloseReads
  <2>3. t \in OpenIds'
    BY <1>1, <1>2 DEF CloseReads, MayClose, OpenIds, TypeOK, Closers
  <2>4. QED
    BY <2>2, <2>3 DEF Settling, JobInv
<1>3. CASE GetState(Manager)
  <2>1. /\ at[Manager] = "booking" /\ at'[Manager] = "updating"
        /\ job'[Manager].trade = job[Manager].trade /\ job'[Manager].pnl = job[Manager].pnl
        /\ job'[Manager].account = Booked(account, job[Manager].pnl)
    BY <1>0, <1>3 DEF GetState, TypeOK
  <2>2. Settling' = Settling
    BY <2>1 DEF Settling
  <2>3. JobInv'
    BY <1>1, <2>1, <2>2 DEF JobInv, BookInv, Booked
  <2>4. QED
    BY <1>1, <2>2, <2>3, QuietStep
<1>4. CASE \/ Snapshot(Manager) \/ CloseReturns(Manager) \/ LoopEnds(Manager)
           \/ \E t \in todo[Manager] : CloseSkips(Manager, t) \/ Hold(t)
  <2>1. at[Manager] \in {"idle", "returning", "loop"} /\ at'[Manager] \in {"idle", "loop"}
    BY <1>0, <1>4 DEF Snapshot, CloseReturns, LoopEnds, CloseSkips, Hold
  <2>2. Settling' = Settling /\ JobInv'
    BY <2>1 DEF Settling, JobInv
  <2>3. QED
    BY <1>1, <2>2, QuietStep
<1>5. QED
  BY <1>1, <1>2, <1>3, <1>4, QuietStep

\* The first commit closes the trade in the table; in the ledger it is open still.
LEMMA CommitStep ==
    ASSUME TypeOK, BookInv, CloseCommits(Manager), booked' = booked
    PROVE  BookInv' /\ UNCHANGED Books!ledgerVars
<1> USE DEF botVars, orchVars, worldVars
<1> DEFINE i == job[Manager].trade
<1>0. /\ at[Manager] = "closing" /\ at'[Manager] = "booking" /\ job' = job
      /\ account' = account /\ opc' = opc /\ faults' = faults
      /\ i \in OpenIds /\ job[Manager].pnl \in Pnls
  BY DEF CloseCommits, TypeOK, Closers, BookInv, JobInv
<1>1. paper_trades \in Seq(Trades) /\ job[Manager].pnl \in Int /\ i \in DOMAIN paper_trades
  BY <1>0, MoneyAssumption DEF TypeOK, OpenIds
<1>2. paper_trades' = [paper_trades EXCEPT ![i] = ClosedWith(paper_trades[i], job[Manager].pnl)]
  BY DEF CloseCommits
<1>3. /\ DOMAIN paper_trades' = DOMAIN paper_trades
      /\ \A t \in DOMAIN paper_trades \ {i} : paper_trades'[t] = paper_trades[t]
      /\ paper_trades'[i].status = "closed" /\ paper_trades' \in Seq(Trades)
  BY <1>1, <1>2, CloseTradeTable
<1>4. paper_trades'[i].pnl = job[Manager].pnl
  <2>1. paper_trades[i] \in Trades
    BY <1>1, ElementOfSeq, LenProperties
  <2>2. ClosedWith(paper_trades[i], job[Manager].pnl).pnl = job[Manager].pnl
    BY <2>1 DEF ClosedWith, Trades
  <2>3. QED
    BY <1>1, <1>2, <2>2
<1>5. OpenIds' = OpenIds \ {i} /\ Settling = {} /\ Settling' = {i}
  BY <1>0, <1>1, <1>3 DEF OpenIds, Settling
<1>6. Lost' = Lost /\ i \notin booked
  BY <1>0, <1>1, <1>3, <1>5 DEF Lost, BookInv
<1>7. Len(paper_trades') = Len(paper_trades)
  BY <1>1, <1>3, LenProperties
<1>8. JobInv'
  BY <1>0, <1>4, <1>5 DEF JobInv
<1>9. BookInv'
  BY <1>0, <1>1, <1>3, <1>5, <1>6, <1>7, <1>8 DEF BookInv
<1>10. \A t : Place(t)' = Place(t)
  BY <1>0, <1>3, <1>5, <1>6 DEF Place
<1>11. \A t \in booked : paper_trades'[t].pnl = paper_trades[t].pnl
  BY <1>3, <1>6 DEF BookInv
<1>12. QED
  BY <1>0, <1>9, <1>10, <1>11, LedgerStutters

\* The last commit books the result: the ledger settles.
LEMMA SettleStep ==
    ASSUME TypeOK, BookInv, UpdateState(Manager), booked' = booked \cup {job[Manager].trade}
    PROVE  BookInv' /\ Books!Step
<1> USE DEF tradeVars, orchVars, worldVars
<1>00. PICK i : i = job[Manager].trade
  OBVIOUS
<1>0. /\ at[Manager] = "updating" /\ at'[Manager] = "returning" /\ paper_trades' = paper_trades
      /\ account' = job[Manager].account /\ opc' = opc /\ faults' = faults
  BY DEF UpdateState, TypeOK, Closers
<1>1. Settling = {i} /\ Settling' = {} /\ OpenIds' = OpenIds
  BY <1>0, <1>00 DEF Settling, OpenIds
<1>2. i \in DOMAIN paper_trades \ (OpenIds \cup booked)
  BY <1>1 DEF BookInv
<1>3. Lost' = Lost
  BY <1>0, <1>00, <1>1, <1>2 DEF Lost
<1>4. JobInv'
  BY <1>0, <1>1 DEF JobInv
<1>5. BookInv'
  BY <1>0, <1>00, <1>1, <1>2, <1>3, <1>4 DEF BookInv
<1>6. /\ Place(i) = "open" /\ Place(i)' = "settled"
      /\ \A t : t # i => Place(t)' = Place(t)
  BY <1>0, <1>00, <1>1, <1>2 DEF Place
<1>7. /\ paper_trades[i].pnl = job[Manager].pnl /\ job[Manager].pnl \in Pnls
      /\ account'.equity = account.equity + paper_trades[i].pnl
      /\ account'.peak = IF account'.equity > account.peak THEN account'.equity ELSE account.peak
  BY <1>0, <1>1 DEF BookInv, JobInv
<1>8. i \in 1..MaxTrades
  BY <1>2, Finite DEF BookInv
<1>9. Books!Settle(i)
  BY <1>0, <1>00, <1>5, <1>6, <1>7, <1>8, LedgerSettles
<1>10. QED
  BY <1>5, <1>8, <1>9 DEF Books!Step

\* A fault that hits between the two commits forfeits the result, and no other does.
LEMMA FaultStep ==
    ASSUME TypeOK, BookInv, booked' = booked, paper_trades' = paper_trades, account' = account,
           at'[Manager] = "idle", opc' # "idle" => opc # "idle",
           faults < MaxFaults, faults' = faults + 1
    PROVE  BookInv' /\ [Books!Step]_Books!ledgerVars
<1>1. Settling' = {} /\ JobInv' /\ OpenIds' = OpenIds
  BY DEF Settling, JobInv, OpenIds
<1>2. CASE Settling = {}
  BY <1>1, <1>2, QuietStep
<1>3. ASSUME NEW i, Settling = {i}
      PROVE  BookInv' /\ Books!Step
  <2>1. i \in DOMAIN paper_trades \ (OpenIds \cup booked)
    BY <1>3 DEF BookInv
  <2>2. Lost' = Lost \cup {i} /\ i \notin Lost
    BY <1>1, <1>3, <2>1 DEF Lost
  <2>3. Len(paper_trades) <= MaxTrades /\ Cardinality(Lost) <= faults
    BY DEF BookInv
  <2>4. Cardinality(Lost') = Cardinality(Lost) + 1
    BY <2>2, <2>3, Finite, FS_AddElement
  <2>5. Cardinality(Lost') <= faults'
    BY <2>3, <2>4, Finite DEF TypeOK
  <2>6. BookInv'
    BY <1>1, <2>5 DEF BookInv
  <2>7. /\ Place(i) = "open" /\ Place(i)' = "forfeited"
        /\ \A t : t # i => Place(t)' = Place(t)
    BY <1>1, <1>3, <2>1 DEF Place
  <2>8. i \in 1..MaxTrades
    BY <2>1, <2>3, Finite
  <2>9. Books!Forfeit(i)
    BY <2>6, <2>7, <2>8, LedgerForfeits
  <2>10. QED
    BY <2>6, <2>8, <2>9 DEF Books!Step
<1>4. QED
  BY <1>2, <1>3 DEF Settling

\* A new trade enters the ledger.
LEMMA EnterStep ==
    ASSUME TypeOK, BookInv, OpenTrade, booked' = booked
    PROVE  BookInv' /\ Books!Step
<1> USE DEF closerVars, botVars, worldVars
<1>0. PICK n : n = Len(paper_trades) + 1
  OBVIOUS
<1> DEFINE row == [coin |-> signal[1], strategy |-> signal[2], status |-> "open", pnl |-> 0]
<1>1. row \in Trades
  BY PairsAssumption DEF OpenTrade, TypeOK, Trades
<1>2. row.status = "open"
  OBVIOUS
<1>3. paper_trades' = Append(paper_trades, row) /\ paper_trades \in Seq(Trades)
  BY DEF OpenTrade, TypeOK
<1> HIDE DEF row
<1>4. /\ DOMAIN paper_trades' = DOMAIN paper_trades \cup {n} /\ n \notin DOMAIN paper_trades
      /\ \A t \in DOMAIN paper_trades : paper_trades'[t] = paper_trades[t]
      /\ paper_trades'[n] = row /\ Len(paper_trades') = n
  BY <1>0, <1>1, <1>3, OpenTradeTable, AppendProperties
<1>5. OpenIds' = OpenIds \cup {n}
  BY <1>2, <1>4 DEF OpenIds
<1>6. /\ at' = at /\ job' = job /\ account' = account /\ faults' = faults
      /\ opc # "idle" /\ opc' = "idle"
  BY DEF OpenTrade, Goto
<1>7. Settling' = Settling
  BY <1>6 DEF Settling
<1>8. Lost' = Lost
  BY <1>4, <1>5, <1>7 DEF Lost
<1>9. n \in 1..MaxTrades /\ n <= MaxTrades
  BY <1>0, <1>6, Finite, BoundsAssumption DEF BookInv
<1>10. JobInv'
  BY <1>4, <1>5, <1>6, <1>7 DEF JobInv, BookInv
<1>11. BookInv'
  BY <1>4, <1>5, <1>6, <1>7, <1>8, <1>9, <1>10 DEF BookInv
<1>12. /\ Place(n) = "none" /\ Place(n)' = "open"
       /\ \A t : t # n => Place(t)' = Place(t)
  BY <1>4, <1>5, <1>7 DEF Place, BookInv
<1>13. \A t \in booked : paper_trades'[t].pnl = paper_trades[t].pnl
  BY <1>4 DEF BookInv
<1>14. Books!Enter(n)
  BY <1>6, <1>9, <1>11, <1>12, <1>13, LedgerEnters
<1>15. QED
  BY <1>9, <1>11, <1>14 DEF Books!Step

\* Every step of the books keeps the invariant and is a step, or no step, of the ledger.
LEMMA BookStep ==
    ASSUME TypeOK, BookInv, Handlers = {}, [BookNext]_bookVars
    PROVE  BookInv' /\ [Books!Step]_Books!ledgerVars
<1> USE DEF orchVars, closerVars, botVars, tradeVars, worldVars
<1>0. Closers = {Manager}
  BY DEF Closers
<1>1. CASE UNCHANGED bookVars
  <2>1. UNCHANGED vars /\ booked' = booked
    BY <1>1 DEF bookVars, haltVars
  <2>2. /\ paper_trades' = paper_trades /\ account' = account /\ opc' = opc /\ faults' = faults
        /\ Settling' = Settling /\ JobInv'
    BY <2>1 DEF vars, Settling, JobInv, BookInv, OpenIds
  <2>3. QED
    BY <2>1, <2>2, QuietStep
<1>2. CASE BookNext /\ OpenTrade
  <2>1. booked' = booked
    BY <1>2 DEF BookNext, OpenTrade
  <2>2. QED
    BY <1>2, <2>1, EnterStep
<1>3. CASE BookNext /\ \/ Orchestrator /\ ~OpenTrade /\ ~TickError
                       \/ Operator \/ (Environment /\ ~Restart)
  <2>1. /\ paper_trades' = paper_trades /\ at' = at /\ job' = job /\ faults' = faults
        /\ account'.equity = account.equity /\ account'.peak = account.peak
    BY <1>3 DEF Orchestrator, RefreshState, Evaluate, CheckRefuses, CheckTrips, CheckPasses, AutoPause,
                CountRefuses, CountPasses, SizeIsZero, Operator, Pause, Resume, Toggle,
                Environment, NewDay, MarketTrade, CooldownExpires, TimeStop, TypeOK, Accounts
  <2>2. opc' # "idle" => opc # "idle" \/ Len(paper_trades) < MaxTrades
    BY <1>3 DEF Orchestrator, RefreshState, Evaluate, CheckRefuses, CheckTrips, CheckPasses, AutoPause,
                CountRefuses, CountPasses, SizeIsZero, Goto, Operator, Pause, Resume, Toggle,
                Environment, NewDay, MarketTrade, CooldownExpires, TimeStop
  <2>3. booked' = booked
    BY <1>3, <2>1 DEF BookNext
  <2>4. Settling' = Settling /\ JobInv'
    BY <2>1 DEF Settling, JobInv, BookInv, OpenIds
  <2>5. QED
    BY <2>1, <2>2, <2>3, <2>4, QuietStep
<1>4. CASE BookNext /\ TickError
  <2>1. /\ paper_trades' = paper_trades /\ at' = at /\ job' = job /\ account' = account
        /\ faults' = faults + 1 /\ opc' = "idle"
    BY <1>4 DEF TickError, Goto
  <2>2. booked' = booked
    BY <1>4, <2>1 DEF BookNext
  <2>3. Settling' = Settling /\ JobInv'
    BY <2>1 DEF Settling, JobInv, BookInv, OpenIds
  <2>4. QED
    BY <2>1, <2>2, <2>3, QuietStep
<1>5. CASE BookNext /\ UpdateState(Manager)
  <2>1. at[Manager] = "updating" /\ at'[Manager] = "returning"
    BY <1>0, <1>5 DEF UpdateState, TypeOK
  <2>2. booked' = booked \cup {job[Manager].trade}
    BY <1>5, <2>1 DEF BookNext
  <2>3. QED
    BY <1>5, <2>2, SettleStep
<1>6. CASE BookNext /\ CloseCommits(Manager)
  <2>1. booked' = booked
    BY <1>6 DEF BookNext, CloseCommits
  <2>2. QED
    BY <1>6, <2>1, CommitStep
<1>7. CASE BookNext /\ Closer(Manager) /\ ~UpdateState(Manager) /\ ~CloseCommits(Manager)
  <2>1. \/ Snapshot(Manager) \/ GetState(Manager) \/ CloseReturns(Manager) \/ LoopEnds(Manager)
        \/ \E t \in todo[Manager] :
              CloseReads(Manager, t) \/ CloseSkips(Manager, t) \/ Hold(t)
    BY <1>7 DEF Closer, CloserStep
  <2>2. ~(at[Manager] = "updating" /\ at'[Manager] = "returning")
    BY <1>0, <2>1 DEF Snapshot, GetState, CloseReturns, LoopEnds, CloseReads, CloseSkips, Hold, TypeOK
  <2>3. booked' = booked
    BY <1>7, <2>2 DEF BookNext
  <2>4. QED
    BY <2>1, <2>3, ManagerQuiet
<1>8. CASE BookNext /\ (CloserError(Manager) \/ Restart)
  <2>1. /\ paper_trades' = paper_trades /\ account' = account /\ at'[Manager] = "idle"
        /\ faults < MaxFaults /\ faults' = faults + 1
        /\ opc' # "idle" => opc # "idle"
    BY <1>0, <1>8 DEF CloserError, Restart, TypeOK
  <2>2. booked' = booked
    BY <1>8, <2>1 DEF BookNext
  <2>3. QED
    BY <2>1, <2>2, FaultStep
<1>9. QED
  BY <1>0, <1>1, <1>2, <1>3, <1>4, <1>5, <1>6, <1>7, <1>8
     DEF BookNext, HaltNext, Next, Orchestrator, Environment

LEMMA BookStart == BookInit => TypeOK /\ BookInv
<1> SUFFICES ASSUME BookInit PROVE TypeOK /\ BookInv
  OBVIOUS
<1> USE DEF BookInit, HaltInit
<1>1. TypeOK
  BY InitTypeOK
<1>2. /\ paper_trades = <<>> /\ booked = {} /\ at[Manager] = "idle" /\ opc = "idle" /\ faults = 0
  BY DEF Init, Closers
<1>3. Settling = {} /\ JobInv
  BY <1>2 DEF Settling, JobInv
<1>4. DOMAIN paper_trades = {} /\ Len(paper_trades) = 0
  BY <1>2
<1>5. Lost = {} /\ Cardinality(Lost) = 0
  BY <1>4, FS_EmptySet DEF Lost
<1>6. BookInv
  BY <1>2, <1>3, <1>4, <1>5, BoundsAssumption DEF BookInv
<1>7. QED
  BY <1>1, <1>6

LEMMA BookTypeStep == TypeOK /\ [BookNext]_bookVars => TypeOK'
<1>1. [BookNext]_bookVars => [Next]_vars
  BY DEF BookNext, HaltNext, bookVars, haltVars
<1>2. QED
  BY <1>1, TypeStep

\* With the manager as the only closer, closing a trade in several transactions, between which
\* anything may happen and any of which may fail, implements a ledger that settles it in one step
\* or forfeits its result, one per fault.
THEOREM LedgerImplemented ==
    ASSUME Handlers = {}
    PROVE  BookSpec => ImplementsLedger
<1>1. BookInit => TypeOK /\ BookInv
  BY BookStart
<1>2. BookInit => Books!Start
  <2> SUFFICES ASSUME BookInit PROVE Books!Start
    OBVIOUS
  <2>1. /\ paper_trades = <<>> /\ booked = {} /\ BookInv
        /\ account.equity = StartBalance /\ account.peak = StartBalance
    BY <1>1 DEF BookInit, HaltInit, Init, InitAccount
  <2>2. \A t : Place(t) = "none"
    BY <2>1 DEF Place
  <2>3. \A t : Position(t) = "none"
    BY <2>1, <2>2, PositionIsPlace
  <2>4. QED
    BY <2>1, <2>3 DEF Books!Start
<1>3. TypeOK /\ [BookNext]_bookVars => TypeOK'
  BY BookTypeStep
<1>4. TypeOK /\ BookInv /\ [BookNext]_bookVars => BookInv' /\ [Books!Step]_Books!ledgerVars
  BY BookStep
<1>5. QED
  BY <1>1, <1>2, <1>3, <1>4, PTL DEF BookSpec, ImplementsLedger, Books!LedgerSpec

\* The types and the books, together.
THEOREM BooksHold ==
    ASSUME Handlers = {}
    PROVE  BookSpec => [](TypeOK /\ BookInv)
<1>1. BookInit => TypeOK /\ BookInv
  BY BookStart
<1>2. TypeOK /\ [BookNext]_bookVars => TypeOK'
  BY BookTypeStep
<1>3. TypeOK /\ BookInv /\ [BookNext]_bookVars => BookInv'
  BY BookStep
<1>4. QED
  BY <1>1, <1>2, <1>3, PTL DEF BookSpec

\* What EquityIsSum sums, as the total of a function.
Gains == [t \in booked |-> paper_trades[t].pnl]

LEMMA GainsTyped ==
    TypeOK /\ BookInv => IsFiniteSet(booked) /\ \A t \in booked : Gains[t] \in Int
<1> SUFFICES ASSUME TypeOK, BookInv
             PROVE  IsFiniteSet(booked) /\ \A t \in booked : Gains[t] \in Int
  OBVIOUS
<1>1. booked \subseteq 1..Len(paper_trades) /\ Len(paper_trades) \in Nat
  BY Finite DEF BookInv
<1>2. IsFiniteSet(booked)
  <2>1. IsFiniteSet(1..Len(paper_trades))
    BY <1>1, FS_Interval
  <2>2. QED
    BY <1>1, <2>1, FS_Subset
<1>3. \A t \in 1..Len(paper_trades) : paper_trades[t] \in Trades
  BY <1>1, ElementOfSeq DEF TypeOK
<1>4. \A t \in booked : paper_trades[t].pnl \in Int
  BY <1>1, <1>3 DEF Trades
<1>5. QED
  BY <1>2, <1>4 DEF Gains

LEMMA GainsTypedNext ==
    TypeOK' /\ BookInv' => IsFiniteSet(booked') /\ \A t \in booked' : Gains'[t] \in Int
<1>1. (TypeOK /\ BookInv => IsFiniteSet(booked) /\ \A t \in booked : Gains[t] \in Int)'
  BY GainsTyped, PTL
<1>2. QED
  BY <1>1

LEMMA SumIsTotal ==
    IsFiniteSet(booked) =>
        MapThenSumSet(LAMBDA t : paper_trades[t].pnl, booked) = Total(Gains, booked)
<1> SUFFICES ASSUME IsFiniteSet(booked)
             PROVE  MapThenSumSet(LAMBDA t : paper_trades[t].pnl, booked) = Total(Gains, booked)
  OBVIOUS
<1> DEFINE Solves(g) ==
      g = [s \in SUBSET booked |->
              IF s = {} THEN 0 ELSE paper_trades[Chosen(s)].pnl + g[s \ {Chosen(s)}]]
<1>1. \A g : Solves(g) <=> Sums(g, Gains, booked)
  <2>1. \A s \in SUBSET booked : s # {} => paper_trades[Chosen(s)].pnl = Gains[Chosen(s)]
    BY ChosenIn DEF Gains
  <2>2. QED
    BY <2>1 DEF Sums
<1>2. PICK g : g = CHOOSE h : Solves(h)
  OBVIOUS
<1>3. MapThenSumSet(LAMBDA t : paper_trades[t].pnl, booked) = g[booked]
  BY <1>2 DEF MapThenSumSet, MapThenFoldSet, Chosen
<1>4. Sums(g, Gains, booked)
  <2> HIDE DEF Solves
  <2>1. QED
    BY <1>1, <1>2, SumsExist
<1>5. QED
  BY <1>3, <1>4, SolutionIsTotal

LEMMA SumIsTotalNext ==
    IsFiniteSet(booked') =>
        MapThenSumSet(LAMBDA t : paper_trades[t].pnl, booked)' = Total(Gains', booked')
<1>1. (IsFiniteSet(booked) =>
          MapThenSumSet(LAMBDA t : paper_trades[t].pnl, booked) = Total(Gains, booked))'
  BY SumIsTotal, PTL
<1>2. QED
  BY <1>1

\* A step of the ledger adds to the equity what it adds to the results, and nothing else does.
LEMMA EquityStep ==
    ASSUME TypeOK, BookInv, EquityIsSum, Handlers = {}, [BookNext]_bookVars
    PROVE  EquityIsSum'
<1>1. TypeOK' /\ BookInv' /\ [Books!Step]_Books!ledgerVars
  BY BookTypeStep, BookStep
<1>2. /\ IsFiniteSet(booked) /\ \A t \in booked : Gains[t] \in Int
      /\ IsFiniteSet(booked') /\ \A t \in booked' : Gains'[t] \in Int
  BY <1>1, GainsTyped, GainsTypedNext
<1>3. account.equity = StartBalance + Total(Gains, booked)
  BY <1>2, SumIsTotal DEF EquityIsSum
<1>4. \A t : Position(t) = Place(t) /\ Position(t)' = Place(t)'
  BY <1>1, PositionIsPlace, PositionIsPlaceNext
<1>5. /\ booked = {t \in 1..MaxTrades : Position(t) = "settled"}
      /\ booked' = {t \in 1..MaxTrades : Position(t)' = "settled"}
      /\ booked \subseteq booked'
  <2>1. booked \subseteq DOMAIN paper_trades /\ DOMAIN paper_trades \subseteq 1..MaxTrades
    BY Finite DEF BookInv
  <2>2. booked' \subseteq DOMAIN paper_trades' /\ DOMAIN paper_trades' \subseteq 1..MaxTrades
    BY <1>1, FiniteNext DEF BookInv
  <2>3. booked \subseteq booked'
    BY DEF BookNext, bookVars
  <2>4. QED
    BY <1>4, <2>1, <2>2, <2>3 DEF Place
<1> DEFINE result == [t \in 1..MaxTrades |-> IF t \in booked THEN paper_trades[t].pnl ELSE 0]
           after == [t \in 1..MaxTrades |-> IF t \in booked' THEN paper_trades'[t].pnl ELSE 0]
<1>6. CASE /\ account'.equity = account.equity /\ after = result
           /\ \A t \in 1..MaxTrades : Position(t)' = "settled" => Position(t) = "settled"
  <2>1. booked' = booked
    BY <1>5, <1>6
  <2>2. \A t \in booked : Gains'[t] = Gains[t]
    <3>1. \A t \in booked : after[t] = Gains'[t] /\ result[t] = Gains[t]
      BY <1>5, <2>1 DEF Gains
    <3>2. QED
      BY <1>6, <3>1
  <2>3. Total(Gains', booked) = Total(Gains, booked)
    BY <1>2, <2>2, TotalSame
  <2>4. QED
    BY <1>2, <1>3, <1>6, <2>1, <2>3, SumIsTotalNext DEF EquityIsSum
<1>7. ASSUME NEW n \in 1..MaxTrades, NEW r \in Pnls,
             Position(n) = "open", Position(n)' = "settled",
             \A t \in 1..MaxTrades \ {n} : Position(t)' = Position(t),
             after = [result EXCEPT ![n] = r], account'.equity = account.equity + r
      PROVE  EquityIsSum'
  <2>1. booked' = booked \cup {n} /\ n \notin booked
    BY <1>5, <1>7
  <2>2. Gains'[n] = r /\ \A t \in booked : Gains'[t] = Gains[t]
    <3>1. \A t \in booked' : after[t] = Gains'[t]
      BY <1>5 DEF Gains
    <3>2. \A t \in booked : result[t] = Gains[t]
      BY <1>5 DEF Gains
    <3>3. QED
      BY <1>5, <1>7, <2>1, <3>1, <3>2
  <2>3. Total(Gains', booked') = Total(Gains', booked) + r
    BY <1>2, <2>1, <2>2, TotalAdd
  <2>4. Total(Gains', booked) = Total(Gains, booked) /\ Total(Gains, booked) \in Int
    BY <1>2, <2>2, TotalSame, TotalAny
  <2>5. account'.equity = StartBalance + Total(Gains', booked')
    BY <1>3, <1>7, <2>3, <2>4, MoneyAssumption
  <2>6. QED
    BY <1>2, <2>5, SumIsTotalNext DEF EquityIsSum
<1>8. QED
  <2>1. CASE UNCHANGED Books!ledgerVars
    BY <1>6, <2>1 DEF Books!ledgerVars
  <2>2. ASSUME NEW n \in 1..MaxTrades, Books!Enter(n) \/ Books!Forfeit(n) PROVE EquityIsSum'
    BY <1>6, <2>2 DEF Books!Enter, Books!Forfeit
  <2>3. ASSUME NEW n \in 1..MaxTrades, Books!Settle(n) PROVE EquityIsSum'
    <3>1. PICK r \in Pnls : after = [result EXCEPT ![n] = r] /\ account'.equity = account.equity + r
      BY <2>3 DEF Books!Settle
    <3>2. /\ Position(n) = "open" /\ Position(n)' = "settled"
          /\ \A t \in 1..MaxTrades \ {n} : Position(t)' = Position(t)
      BY <2>3 DEF Books!Settle
    <3>3. QED
      BY <1>7, <3>1, <3>2
  <2>4. QED
    BY <1>1, <2>1, <2>2, <2>3 DEF Books!Step

\* With the manager as the only closer, whatever fails and whenever the process ends, the equity is
\* the starting balance and the results booked: none is added twice, none is added in part, and
\* nothing else moves the equity.
THEOREM EquityIsTheSum ==
    ASSUME Handlers = {}
    PROVE  BookSpec => []EquityIsSum
<1>1. BookInit => EquityIsSum
  <2> SUFFICES ASSUME BookInit PROVE EquityIsSum
    OBVIOUS
  <2>1. booked = {} /\ account.equity = StartBalance
    BY DEF BookInit, HaltInit, Init, InitAccount
  <2>2. IsFiniteSet(booked) /\ Total(Gains, booked) = 0
    BY <2>1, FS_EmptySet, TotalEmpty
  <2>3. QED
    BY <2>1, <2>2, SumIsTotal, MoneyAssumption DEF EquityIsSum
<1>2. TypeOK /\ BookInv /\ EquityIsSum /\ [BookNext]_bookVars => EquityIsSum'
  BY EquityStep
<1>3. QED
  BY <1>1, <1>2, BooksHold, PTL DEF BookSpec

----------------------------------------------------------------------------
(* What the account is worth when several closers post to it.              *)

Postings == [pnl : Int, date : Nat]
Pnl(ps) == [n \in DOMAIN ps |-> ps[n].pnl]
OfDay(ps, S, d) == {n \in S : ps[n].date = d}
Losses(ps, S) == {n \in S : ps[n].pnl < 0}

\* Account a is that of the postings in S and of one more, of x; the next definition is without.
Ahead(ps, S, a, x) ==
    /\ a.equity = StartBalance + Total(Pnl(ps), S) + x
    /\ a.daily = Total(Pnl(ps), OfDay(ps, S, a.date)) + x
    /\ a.consec <= Cardinality(Losses(ps, S)) + (IF x < 0 THEN 1 ELSE 0)
    /\ a.peak >= a.equity
    /\ \A n \in S : ps[n].date <= a.date

Fits(ps, S, a) == Ahead(ps, S, a, 0)

\* A closer about to write holds an account that is right about what it read.
AccountInv ==
    /\ posted \in Seq(Postings)
    /\ kept \subseteq DOMAIN posted
    /\ read \in [Closers -> SUBSET DOMAIN posted]
    /\ account.date <= today /\ Fits(posted, kept, account)
    /\ \A p \in Closers :
          at[p] = "updating" => /\ job[p].account.date <= today
                                /\ Ahead(posted, read[p], job[p].account, job[p].pnl)

\* The sets of postings are finite and what they sum to are integers.
LEMMA PostingsTyped ==
    ASSUME NEW ps \in Seq(Postings), NEW S \in SUBSET DOMAIN ps
    PROVE  /\ IsFiniteSet(S)
           /\ \A n \in S : Pnl(ps)[n] \in Int /\ Pnl(ps)[n] = ps[n].pnl /\ ps[n].date \in Nat
           /\ Total(Pnl(ps), S) \in Int
           /\ Cardinality(S) \in Nat
<1>1. Len(ps) \in Nat /\ DOMAIN ps = 1..Len(ps)
  BY LenProperties
<1>2. IsFiniteSet(S)
  <2>1. IsFiniteSet(1..Len(ps))
    BY <1>1, FS_Interval
  <2>2. QED
    BY <1>1, <2>1, FS_Subset
<1>3. \A n \in DOMAIN ps : ps[n] \in Postings
  BY <1>1, ElementOfSeq
<1>4. \A n \in S : Pnl(ps)[n] \in Int /\ Pnl(ps)[n] = ps[n].pnl /\ ps[n].date \in Nat
  BY <1>3 DEF Pnl, Postings
<1>5. QED
  BY <1>2, <1>4, TotalAny, FS_CardinalityType

\* Later postings change nothing about those there were.
LEMMA AheadLasts ==
    ASSUME NEW ps \in Seq(Postings), NEW S \in SUBSET DOMAIN ps, NEW r \in Postings,
           NEW a, NEW x, Ahead(ps, S, a, x)
    PROVE  Ahead(Append(ps, r), S, a, x)
<1>1. PICK qs : qs = Append(ps, r)
  OBVIOUS
<1>2. /\ qs \in Seq(Postings) /\ DOMAIN ps \subseteq DOMAIN qs
      /\ \A n \in S : qs[n] = ps[n]
  <2>1. Len(ps) \in Nat /\ DOMAIN ps = 1..Len(ps)
    BY LenProperties
  <2>2. QED
    BY <1>1, <2>1, AppendProperties
<1>3. OfDay(qs, S, a.date) = OfDay(ps, S, a.date) /\ Losses(qs, S) = Losses(ps, S)
  BY <1>2 DEF OfDay, Losses
<1>4. ASSUME NEW T \in SUBSET S PROVE Total(Pnl(qs), T) = Total(Pnl(ps), T)
  <2>1. IsFiniteSet(T) /\ \A n \in T : Pnl(ps)[n] = ps[n].pnl
    BY PostingsTyped
  <2>2. \A n \in T : Pnl(qs)[n] = qs[n].pnl
    BY <1>2, PostingsTyped
  <2>3. \A n \in T : Pnl(qs)[n] = Pnl(ps)[n]
    BY <1>2, <2>1, <2>2
  <2>4. QED
    BY <2>1, <2>3, TotalSame
<1>5. OfDay(ps, S, a.date) \in SUBSET S
  BY DEF OfDay
<1>6. QED
  BY <1>1, <1>2, <1>3, <1>4, <1>5 DEF Ahead

\* Booking a result reads an account that is right and computes one that is ahead by the result;
\* on a new day nothing that was kept is of that day.
LEMMA BookedIsAhead ==
    ASSUME NEW ps \in Seq(Postings), NEW S \in SUBSET DOMAIN ps, NEW a \in Accounts, NEW x \in Int,
           today \in Nat, a.date <= today, Fits(ps, S, a)
    PROVE  Ahead(ps, S, Booked(a, x), x)
<1> DEFINE b == Booked(a, x)
<1>1. /\ a.equity \in Int /\ a.peak \in Int /\ a.daily \in Int /\ a.date \in Nat /\ a.consec \in Nat
  BY DEF Accounts
<1>2. /\ Total(Pnl(ps), S) \in Int
      /\ \A n \in S : ps[n].date \in Nat /\ ps[n].date <= a.date
  BY PostingsTyped DEF Fits, Ahead
<1>3. a.equity = StartBalance + Total(Pnl(ps), S)
  BY <1>2, MoneyAssumption DEF Fits, Ahead
<1>4. b.equity = StartBalance + Total(Pnl(ps), S) + x
  BY <1>3 DEF Booked
<1>5. b.peak >= b.equity
  BY <1>1 DEF Booked
<1>6. \A n \in S : ps[n].date <= b.date
  BY <1>1, <1>2 DEF Booked
<1>7. b.daily = Total(Pnl(ps), OfDay(ps, S, b.date)) + x
  <2>1. CASE a.date = today
    <3>1. OfDay(ps, S, b.date) = OfDay(ps, S, a.date)
      BY <2>1 DEF Booked
    <3>2. OfDay(ps, S, a.date) \in SUBSET DOMAIN ps
      BY DEF OfDay
    <3>3. a.daily = Total(Pnl(ps), OfDay(ps, S, a.date))
      BY <3>2, PostingsTyped DEF Fits, Ahead
    <3>4. QED
      BY <2>1, <3>1, <3>3 DEF Booked
  <2>2. CASE a.date # today
    <3>1. OfDay(ps, S, b.date) = {}
      BY <1>1, <1>2, <2>2 DEF OfDay, Booked
    <3>2. Total(Pnl(ps), OfDay(ps, S, b.date)) = 0
      BY <3>1, TotalEmpty
    <3>3. QED
      BY <2>2, <3>2 DEF Booked
  <2>3. QED
    BY <2>1, <2>2
<1>8. b.consec <= Cardinality(Losses(ps, S)) + (IF x < 0 THEN 1 ELSE 0)
  <2>1. Losses(ps, S) \in SUBSET DOMAIN ps
    BY DEF Losses
  <2>2. Cardinality(Losses(ps, S)) \in Nat
    BY <2>1, PostingsTyped
  <2>3. a.consec <= Cardinality(Losses(ps, S))
    BY <2>2 DEF Fits, Ahead
  <2>4. QED
    BY <1>1, <2>2, <2>3 DEF Booked
<1>9. QED
  BY <1>4, <1>5, <1>6, <1>7, <1>8 DEF Ahead

\* Posting the result makes good what the account was ahead by.
LEMMA PostingFits ==
    ASSUME NEW ps \in Seq(Postings), NEW S \in SUBSET DOMAIN ps, NEW a \in Accounts, NEW x \in Int,
           NEW n, n = Len(ps) + 1, NEW qs, qs = Append(ps, [pnl |-> x, date |-> a.date]),
           Ahead(ps, S, a, x)
    PROVE  Fits(qs, S \cup {n}, a)
<1>0. [pnl |-> x, date |-> a.date] \in Postings
  BY DEF Postings, Accounts
<1>1. /\ qs \in Seq(Postings) /\ DOMAIN qs = DOMAIN ps \cup {n} /\ n \notin S
      /\ qs[n].pnl = x /\ qs[n].date = a.date
  <2>1. Len(ps) \in Nat /\ DOMAIN ps = 1..Len(ps)
    BY LenProperties
  <2>2. QED
    BY <1>0, <2>1, AppendProperties
<1>2. Ahead(qs, S, a, x)
  BY <1>0, AheadLasts
<1>3. S \cup {n} \in SUBSET DOMAIN qs
  BY <1>1
<1>4. a.date \in Nat /\ a.consec \in Nat
  BY DEF Accounts
<1>5. ASSUME NEW T \in SUBSET S
      PROVE  Total(Pnl(qs), T \cup {n}) = Total(Pnl(qs), T) + x /\ Total(Pnl(qs), T) \in Int
  <2>0. PICK U : U = T \cup {n}
    OBVIOUS
  <2>1. T \in SUBSET DOMAIN qs /\ U \in SUBSET DOMAIN qs /\ n \notin T
    BY <1>1, <1>3, <2>0
  <2>2. IsFiniteSet(T) /\ Total(Pnl(qs), T) \in Int
    BY <1>1, <2>1, PostingsTyped
  <2>3. \A m \in T \cup {n} : Pnl(qs)[m] \in Int /\ Pnl(qs)[m] = qs[m].pnl
    <3>1. qs \in Seq(Postings)
      BY <1>1
    <3>2. \A m \in U : Pnl(qs)[m] \in Int /\ Pnl(qs)[m] = qs[m].pnl
      BY <2>1, <3>1, PostingsTyped
    <3>3. QED
      BY <2>0, <3>2
  <2>4. Total(Pnl(qs), T \cup {n}) = Total(Pnl(qs), T) + Pnl(qs)[n]
    <3>1. PICK f : f = Pnl(qs)
      OBVIOUS
    <3>2. IsFiniteSet(T) /\ n \notin T /\ \A m \in T \cup {n} : f[m] \in Int
      BY <2>1, <2>2, <2>3, <3>1
    <3>3. QED
      BY <3>1, <3>2, TotalAdd
  <2>5. QED
    BY <1>1, <2>2, <2>3, <2>4
<1>6. a.equity = StartBalance + Total(Pnl(qs), S \cup {n}) + 0
  <2>1. a.equity = StartBalance + Total(Pnl(qs), S) + x
    BY <1>2 DEF Ahead
  <2>2. Total(Pnl(qs), S \cup {n}) = Total(Pnl(qs), S) + x /\ Total(Pnl(qs), S) \in Int
    BY <1>5
  <2>3. StartBalance \in Int
    BY MoneyAssumption
  <2>4. QED
    BY <2>1, <2>2, <2>3
<1>7. a.daily = Total(Pnl(qs), OfDay(qs, S \cup {n}, a.date)) + 0
  <2>1. OfDay(qs, S \cup {n}, a.date) = OfDay(qs, S, a.date) \cup {n}
    BY <1>1 DEF OfDay
  <2>2. OfDay(qs, S, a.date) \in SUBSET S
    BY DEF OfDay
  <2>3. PICK T \in SUBSET S : T = OfDay(qs, S, a.date)
    BY <2>2
  <2>4. a.daily = Total(Pnl(qs), T) + x
    BY <1>2, <2>3 DEF Ahead
  <2>5. Total(Pnl(qs), T \cup {n}) = Total(Pnl(qs), T) + x /\ Total(Pnl(qs), T) \in Int
    BY <1>5
  <2>6. PICK U : U = OfDay(qs, S \cup {n}, a.date)
    OBVIOUS
  <2>7. U = T \cup {n}
    BY <2>1, <2>3, <2>6
  <2>8. a.daily = Total(Pnl(qs), U) + 0
    BY <2>4, <2>5, <2>7
  <2>9. QED
    BY <2>6, <2>8
<1>8. a.consec <= Cardinality(Losses(qs, S \cup {n})) + 0
  <2>1. PICK T : T = Losses(qs, S)
    OBVIOUS
  <2>2. T \in SUBSET DOMAIN qs /\ n \notin T
    BY <1>1, <1>3, <2>1 DEF Losses
  <2>3. IsFiniteSet(T) /\ Cardinality(T) \in Nat
    BY <1>1, <2>2, PostingsTyped
  <2>4. Cardinality(T \cup {n}) = Cardinality(T) + 1
    BY <2>2, <2>3, FS_AddElement
  <2>5. Losses(qs, S \cup {n}) = IF x < 0 THEN T \cup {n} ELSE T
    BY <1>1, <2>1 DEF Losses
  <2>6. a.consec <= Cardinality(T) + (IF x < 0 THEN 1 ELSE 0)
    BY <1>2, <2>1 DEF Ahead
  <2>7. QED
    BY <1>4, <2>3, <2>4, <2>5, <2>6
<1>9. \A m \in S \cup {n} : qs[m].date <= a.date
  BY <1>1, <1>2, <1>4 DEF Ahead
<1>10. QED
  BY <1>2, <1>6, <1>7, <1>8, <1>9 DEF Fits, Ahead

\* Every other step than reading and posting an account: the account is as it was, but for the
\* losses in a row that an operator forgives, and no closer comes to have one it would post.
LEMMA OtherSteps ==
    ASSUME TypeOK, [Next]_vars, ~\E p \in Closers : GetState(p) \/ UpdateState(p)
    PROVE  /\ account' = account \/ (Resume /\ account' = [account EXCEPT !.consec = 0])
           /\ today' \in Nat /\ today <= today'
           /\ \A q \in Closers : /\ at'[q] = "updating" => at[q] = "updating" /\ job'[q] = job[q]
                                 /\ ~Posts(q)
<1> USE DEF orchVars, closerVars, botVars, tradeVars, worldVars, Posts
<1>1. CASE UNCHANGED vars
  BY <1>1 DEF vars, TypeOK
<1>2. CASE Orchestrator
  BY <1>2 DEF Orchestrator, RefreshState, Evaluate, CheckRefuses, CheckTrips, CheckPasses, AutoPause,
              CountRefuses, CountPasses, SizeIsZero, OpenTrade, TickError, TypeOK
<1>3. ASSUME NEW p \in Closers, Closer(p) \/ CloserError(p)
      PROVE  /\ account' = account /\ today' = today
             /\ \A q \in Closers : /\ at'[q] = "updating" => at[q] = "updating" /\ job'[q] = job[q]
                                   /\ ~Posts(q)
  <2>1. \/ Snapshot(p) \/ CloseCommits(p) \/ CloseReturns(p) \/ LoopEnds(p) \/ CloserError(p)
        \/ \E t \in todo[p] : CloseReads(p, t) \/ CloseSkips(p, t) \/ (p = Manager /\ Hold(t))
    BY <1>3 DEF Closer, CloserStep
  <2>2. account' = account /\ today' = today
    BY <2>1 DEF Snapshot, CloseCommits, CloseReturns, LoopEnds, CloserError, CloseReads, CloseSkips, Hold
  <2>3. \A q \in Closers \ {p} : at'[q] = at[q] /\ job'[q] = job[q]
    BY <2>1 DEF Snapshot, CloseCommits, CloseReturns, LoopEnds, CloserError, CloseReads, CloseSkips,
                Hold, TypeOK
  <2>4. at'[p] = "updating" => at[p] = "updating" /\ job'[p] = job[p]
    BY <2>1 DEF Snapshot, CloseCommits, CloseReturns, LoopEnds, CloserError, CloseReads, CloseSkips,
                Hold, TypeOK
  <2>5. ~Posts(p)
    BY <2>1 DEF Snapshot, CloseCommits, CloseReturns, LoopEnds, CloserError, CloseReads, CloseSkips,
                Hold, TypeOK
  <2>6. QED
    BY <2>2, <2>3, <2>4, <2>5
<1>4. CASE Operator
  BY <1>4 DEF Operator, Pause, Resume, Toggle, EmergencyStop, TypeOK
<1>5. CASE Environment /\ ~Restart
  BY <1>5 DEF Environment, NewDay, MarketTrade, CooldownExpires, TimeStop, TypeOK
<1>6. CASE Restart
  <2>1. account' = account /\ today' = today
    BY <1>6 DEF Restart
  <2>2. \A q \in Closers : at'[q] \in {"idle", "done", "failed"}
    BY <1>6 DEF Restart
  <2>3. today' \in Nat /\ today <= today'
    BY <2>1 DEF TypeOK
  <2>4. QED
    BY <2>1, <2>2, <2>3
<1>7. QED
  BY <1>1, <1>2, <1>3, <1>4, <1>5, <1>6 DEF Next, Environment, TypeOK

\* A closer that goes on to write has what it read; one that does not forgets it.
LEMMA ReadStep ==
    ASSUME TypeOK, AccountInv, AccountNext
    PROVE  /\ read' \in [Closers -> SUBSET DOMAIN posted]
           /\ \A q \in Closers : at[q] = "updating" /\ at'[q] = "updating" => read'[q] = read[q]
BY DEF AccountNext, AccountInv

LEMMA AccountStep ==
    ASSUME TypeOK, AccountInv, [AccountNext]_accountVars
    PROVE  AccountInv'
<1>1. [Next]_vars
  BY DEF AccountNext, accountVars
<1>2. TypeOK'
  BY <1>1, TypeStep
<1>3. /\ posted \in Seq(Postings) /\ kept \in SUBSET DOMAIN posted
      /\ account \in Accounts /\ today \in Nat /\ account.date \in Nat /\ account.date <= today
      /\ \A q \in Closers : /\ read[q] \in SUBSET DOMAIN posted
                            /\ job[q].account \in Accounts /\ job[q].account.date \in Nat
                            /\ job[q].pnl \in Int
  BY DEF TypeOK, AccountInv, Accounts
<1>4. CASE UNCHANGED accountVars
  BY <1>4 DEF AccountInv, accountVars, vars, botVars, closerVars, worldVars
<1>5. ASSUME NEW p \in Closers, UpdateState(p), AccountNext PROVE AccountInv'
  <2>1. /\ at[p] = "updating" /\ at' = [at EXCEPT ![p] = "returning"]
        /\ account' = job[p].account /\ job' = job /\ today' = today
    BY <1>5 DEF UpdateState, worldVars
  <2>2. \A q \in Closers : Posts(q) <=> q = p
    BY <2>1 DEF Posts, TypeOK
  <2> DEFINE n == Len(posted) + 1
             r == [pnl |-> job[p].pnl, date |-> job[p].account.date]
  <2>3. posted' = Append(posted, r) /\ kept' = read[p] \cup {n}
    BY <1>5, <2>2 DEF AccountNext
  <2>4. r \in Postings
    BY <1>3 DEF Postings
  <2>5. Ahead(posted, read[p], job[p].account, job[p].pnl) /\ job[p].account.date <= today
    BY <2>1 DEF AccountInv
  <2>6. /\ posted' \in Seq(Postings) /\ kept' \in SUBSET DOMAIN posted'
        /\ Fits(posted', kept', account')
    <3>1. /\ posted' \in Seq(Postings) /\ read[p] \cup {n} \in SUBSET DOMAIN posted'
          /\ Fits(posted', read[p] \cup {n}, job[p].account)
      <4>1. /\ read[p] \in SUBSET DOMAIN posted /\ job[p].account \in Accounts
            /\ job[p].pnl \in Int /\ posted \in Seq(Postings)
        BY <1>3
      <4>2. PICK m : m = n
        OBVIOUS
      <4>3. Fits(posted', read[p] \cup {m}, job[p].account)
        BY <2>3, <2>5, <4>1, <4>2, PostingFits
      <4>4. posted' \in Seq(Postings) /\ read[p] \cup {m} \in SUBSET DOMAIN posted'
        BY <2>3, <2>4, <4>1, <4>2, AppendProperties, LenProperties
      <4>5. QED
        BY <4>2, <4>3, <4>4
    <3>2. QED
      BY <2>1, <2>3, <3>1
  <2>7. DOMAIN posted \subseteq DOMAIN posted'
    BY <1>3, <2>3, <2>4, AppendProperties, LenProperties
  <2>8. read' \in [Closers -> SUBSET DOMAIN posted']
    BY <1>5, <2>7, ReadStep
  <2>9. ASSUME NEW q \in Closers, at'[q] = "updating"
        PROVE  job'[q].account.date <= today' /\ Ahead(posted', read'[q], job'[q].account, job'[q].pnl)
    <3>1. at[q] = "updating" /\ job'[q] = job[q] /\ read'[q] = read[q]
      BY <1>5, <2>1, <2>9, ReadStep DEF TypeOK
    <3>2. job[q].account.date <= today /\ Ahead(posted, read[q], job[q].account, job[q].pnl)
      BY <3>1 DEF AccountInv
    <3> HIDE DEF r
    <3>3. Ahead(posted', read[q], job[q].account, job[q].pnl)
      BY <1>3, <2>3, <2>4, <3>2, AheadLasts
    <3>4. QED
      BY <2>1, <3>1, <3>2, <3>3
  <2>10. account'.date <= today'
    BY <2>1, <2>5
  <2>11. QED
    BY <2>6, <2>8, <2>9, <2>10 DEF AccountInv
<1>6. ASSUME NEW p \in Closers, GetState(p), AccountNext PROVE AccountInv'
  <2>1. /\ at[p] = "booking" /\ at' = [at EXCEPT ![p] = "updating"]
        /\ job' = [job EXCEPT ![p].account = Booked(account, job[p].pnl)]
        /\ account' = account /\ today' = today
    BY <1>6 DEF GetState, botVars, worldVars
  <2>2. \A q \in Closers : ~Posts(q)
    BY <2>1 DEF Posts, TypeOK
  <2>3. posted' = posted /\ kept' = kept
    BY <1>6, <2>2 DEF AccountNext
  <2>4. read'[p] = kept
    BY <1>6, <2>1 DEF AccountNext, TypeOK
  <2>5. /\ job'[p].account = Booked(account, job[p].pnl) /\ job'[p].pnl = job[p].pnl
        /\ \A q \in Closers \ {p} : job'[q] = job[q] /\ at'[q] = at[q]
    BY <2>1 DEF TypeOK
  <2>6. Ahead(posted, kept, Booked(account, job[p].pnl), job[p].pnl)
    BY <1>3, BookedIsAhead DEF AccountInv
  <2>7. ASSUME NEW q \in Closers, at'[q] = "updating"
        PROVE  job'[q].account.date <= today' /\ Ahead(posted', read'[q], job'[q].account, job'[q].pnl)
    <3>1. CASE q = p
      <4>1. job'[p].account.date = today
        BY <2>5 DEF Booked
      <4>2. QED
        BY <1>3, <2>1, <2>3, <2>4, <2>5, <2>6, <3>1, <4>1
    <3>2. CASE q # p
      <4>1. at[q] = "updating" /\ read'[q] = read[q] /\ job'[q] = job[q]
        BY <1>6, <2>5, <2>7, <3>2, ReadStep
      <4>2. QED
        BY <2>1, <2>3, <4>1 DEF AccountInv
    <3>3. QED
      BY <3>1, <3>2
  <2>8. QED
    BY <1>6, <2>1, <2>3, <2>7, ReadStep DEF AccountInv
<1>7. CASE AccountNext /\ ~\E p \in Closers : GetState(p) \/ UpdateState(p)
  <2>1. /\ account' = account \/ account' = [account EXCEPT !.consec = 0]
        /\ today' \in Nat /\ today <= today'
        /\ \A q \in Closers : /\ at'[q] = "updating" => at[q] = "updating" /\ job'[q] = job[q]
                              /\ ~Posts(q)
    BY <1>1, <1>7, OtherSteps
  <2>2. posted' = posted /\ kept' = kept
    BY <1>7, <2>1 DEF AccountNext
  <2>3. ASSUME NEW q \in Closers, at'[q] = "updating"
        PROVE  job'[q].account.date <= today' /\ Ahead(posted', read'[q], job'[q].account, job'[q].pnl)
    <3>1. at[q] = "updating" /\ job'[q] = job[q] /\ read'[q] = read[q]
      BY <1>7, <2>1, <2>3, ReadStep
    <3>2. job[q].account.date <= today /\ Ahead(posted, read[q], job[q].account, job[q].pnl)
      BY <3>1 DEF AccountInv
    <3>3. QED
      BY <1>3, <2>1, <2>2, <3>1, <3>2
  <2>4. /\ account'.equity = account.equity /\ account'.peak = account.peak
        /\ account'.daily = account.daily /\ account'.date = account.date
        /\ account'.consec = account.consec \/ account'.consec = 0
    BY <1>3, <2>1 DEF Accounts
  <2>5. Fits(posted, kept, account')
    <3>1. Losses(posted, kept) \in SUBSET DOMAIN posted
      BY <1>3 DEF Losses
    <3>2. Cardinality(Losses(posted, kept)) \in Nat
      BY <1>3, <3>1, PostingsTyped
    <3>3. Fits(posted, kept, account)
      BY DEF AccountInv
    <3>4. QED
      BY <2>4, <3>2, <3>3 DEF Fits, Ahead
  <2>6. account'.date <= today'
    BY <1>3, <2>1, <2>4
  <2>7. QED
    BY <1>7, <2>2, <2>3, <2>5, <2>6, ReadStep DEF AccountInv
<1>8. QED
  BY <1>4, <1>5, <1>6, <1>7

\* The sums of the property are totals of what was posted.
LEMMA SumIsPnl ==
    ASSUME posted \in Seq(Postings), NEW S \in SUBSET DOMAIN posted
    PROVE  Sum(S) = Total(Pnl(posted), S)
<1>0. IsFiniteSet(S)
  BY PostingsTyped
<1> DEFINE Solves(g) ==
      g = [s \in SUBSET S |-> IF s = {} THEN 0 ELSE posted[Chosen(s)].pnl + g[s \ {Chosen(s)}]]
<1>1. \A g : Solves(g) <=> Sums(g, Pnl(posted), S)
  <2>1. \A s \in SUBSET S : s # {} => posted[Chosen(s)].pnl = Pnl(posted)[Chosen(s)]
    BY ChosenIn DEF Pnl
  <2>2. QED
    BY <2>1 DEF Sums
<1>2. PICK g : g = CHOOSE h : Solves(h)
  OBVIOUS
<1>3. Sum(S) = g[S]
  BY <1>2 DEF Sum, MapThenSumSet, MapThenFoldSet, Chosen
<1>4. Sums(g, Pnl(posted), S)
  <2> HIDE DEF Solves
  <2>1. QED
    BY <1>0, <1>1, <1>2, SumsExist
<1>5. QED
  BY <1>0, <1>3, <1>4, SolutionIsTotal

\* At the start nothing has been posted.
LEMMA AccountStart == AccountInit => TypeOK /\ AccountInv
<1> SUFFICES ASSUME AccountInit PROVE TypeOK /\ AccountInv
  OBVIOUS
<1>1. /\ Init /\ posted = <<>> /\ kept = {} /\ read = [p \in Closers |-> {}]
      /\ account = InitAccount /\ today = 1 /\ \A p \in Closers : at[p] = "idle"
  BY DEF AccountInit, Init
<1>2. posted \in Seq(Postings)
  BY <1>1
<1>3. OfDay(posted, kept, account.date) = {} /\ Losses(posted, kept) = {}
  BY <1>1 DEF OfDay, Losses
<1>4. Total(Pnl(posted), kept) = 0 /\ Total(Pnl(posted), OfDay(posted, kept, account.date)) = 0
  BY <1>1, <1>3, TotalEmpty
<1>5. Cardinality(Losses(posted, kept)) = 0
  BY <1>3, FS_EmptySet
<1>6. Fits(posted, kept, account)
  BY <1>1, <1>4, <1>5, MoneyAssumption DEF Fits, Ahead, InitAccount
<1>7. AccountInv
  BY <1>1, <1>2, <1>6 DEF AccountInv, InitAccount
<1>8. QED
  BY <1>1, <1>7, InitTypeOK

LEMMA AccountTypeStep == [AccountNext]_accountVars => [Next]_vars
BY DEF AccountNext, accountVars

LEMMA KeptFollows == AccountInv => AccountOfKept
<1> SUFFICES ASSUME AccountInv PROVE AccountOfKept
  OBVIOUS
<1>1. posted \in Seq(Postings) /\ kept \in SUBSET DOMAIN posted /\ Fits(posted, kept, account)
  BY DEF AccountInv
<1>2. PICK T : T = {n \in kept : posted[n].date = account.date}
  OBVIOUS
<1>3. PICK L : L = {n \in kept : posted[n].pnl < 0}
  OBVIOUS
<1>4. T = OfDay(posted, kept, account.date) /\ L = Losses(posted, kept)
  BY <1>2, <1>3 DEF OfDay, Losses
<1>5. T \in SUBSET DOMAIN posted /\ L \in SUBSET DOMAIN posted
  BY <1>1, <1>2, <1>3
<1>6. /\ Sum(kept) = Total(Pnl(posted), kept) /\ Sum(kept) \in Int
      /\ Sum(T) = Total(Pnl(posted), T) /\ Sum(T) \in Int
      /\ Cardinality(L) \in Nat
  BY <1>1, <1>5, SumIsPnl, PostingsTyped
<1>7. account.equity = StartBalance + Sum(kept)
  BY <1>1, <1>6, MoneyAssumption DEF Fits, Ahead
<1>8. account.daily = Sum(T)
  BY <1>1, <1>4, <1>6 DEF Fits, Ahead
<1>9. account.consec <= Cardinality(L)
  BY <1>1, <1>4, <1>6 DEF Fits, Ahead
<1>10. account.peak >= account.equity
  BY <1>1 DEF Fits, Ahead
<1>11. QED
  BY <1>2, <1>3, <1>7, <1>8, <1>9, <1>10 DEF AccountOfKept

\* The types and what the account and the closers' copies of it stand for, together.
LEMMA AccountHolds == AccountSpec => [](TypeOK /\ AccountInv)
<1>1. AccountInit => TypeOK /\ AccountInv
  BY AccountStart
<1>2. TypeOK /\ AccountInv /\ [AccountNext]_accountVars => TypeOK' /\ AccountInv'
  BY AccountTypeStep, TypeStep, AccountStep
<1>3. QED
  BY <1>1, <1>2, PTL DEF AccountSpec

\* However many closers there are and however their transactions interleave, overtake or fail: the
\* account is that of some of the results posted, each of them in it once.  A posting can be lost,
\* but none is counted twice, counted in part or counted for another day.
THEOREM AccountIsOfKept == AccountSpec => []AccountOfKept
BY AccountHolds, KeptFollows, PTL

\* Nothing has been lost so far, and what the manager is about to write misses nothing.
ReadIsCurrent ==
    /\ kept = DOMAIN posted
    /\ at[Manager] = "updating" => read[Manager] = DOMAIN posted

\* With the manager as the only closer no posting is lost: the row it writes back is still the one
\* it read, whatever the operator, the orchestrator and the clock do in between. With the theorem
\* before, the equity is that of all results posted, and the daily loss limit rests on all those
\* of the day.
THEOREM NothingIsLost ==
    ASSUME Handlers = {}
    PROVE  AccountSpec => []NothingLost
<1>0. Closers = {Manager}
  BY DEF Closers
<1>1. AccountInit => ReadIsCurrent
  BY <1>0 DEF AccountInit, Init, ReadIsCurrent
<1>2. TypeOK /\ AccountInv /\ ReadIsCurrent /\ [AccountNext]_accountVars => ReadIsCurrent'
  <2> SUFFICES ASSUME TypeOK, AccountInv, ReadIsCurrent, [AccountNext]_accountVars
               PROVE  ReadIsCurrent'
    OBVIOUS
  <2>1. CASE UNCHANGED accountVars
    BY <2>1 DEF ReadIsCurrent, accountVars, vars, closerVars
  <2>2. CASE AccountNext /\ Posts(Manager)
    <3> DEFINE r == [pnl |-> job[Manager].pnl, date |-> job[Manager].account.date]
    <3>1. posted' = Append(posted, r) /\ kept' = read[Manager] \cup {Len(posted) + 1}
      BY <1>0, <2>2 DEF AccountNext
    <3>2. r \in Postings /\ posted \in Seq(Postings)
      BY <1>0 DEF Postings, TypeOK, Accounts, AccountInv
    <3> HIDE DEF r
    <3>3. DOMAIN posted' = DOMAIN posted \cup {Len(posted) + 1}
      BY <3>1, <3>2, AppendProperties, LenProperties
    <3>4. QED
      BY <2>2, <3>1, <3>3 DEF ReadIsCurrent, Posts
  <2>3. CASE AccountNext /\ ~Posts(Manager)
    <3>1. posted' = posted /\ kept' = kept
      BY <1>0, <2>3 DEF AccountNext
    <3>2. at'[Manager] = "updating" => read'[Manager] = kept
      BY <1>0, <2>3 DEF AccountNext, ReadIsCurrent
    <3>3. QED
      BY <3>1, <3>2 DEF ReadIsCurrent
  <2>4. QED
    BY <1>0, <2>1, <2>2, <2>3
<1>3. ReadIsCurrent => NothingLost
  BY DEF ReadIsCurrent, NothingLost
<1>4. QED
  BY <1>1, <1>2, <1>3, AccountHolds, PTL DEF AccountSpec

\* The trades that are closed, and whether a result is under way to the account.
ClosedIds == DOMAIN paper_trades \ OpenIds
Booking == at[Manager] \in {"booking", "updating"}

\* The losses in a row that the manager is about to write follow those of the row, the close under
\* way is of a trade nobody else has closed, and its result is all the account has yet to count.
CountInv ==
    /\ at[Manager] = "closing" => job[Manager].trade \in OpenIds
    /\ Booking => /\ job[Manager].trade \in ClosedIds
                  /\ paper_trades[job[Manager].trade].pnl = job[Manager].pnl
    /\ at[Manager] = "updating" =>
          job[Manager].account.consec = IF job[Manager].pnl < 0 THEN account.consec + 1 ELSE 0
    /\ faults = 0 /\ (\A t \in ClosedIds : paper_trades[t].pnl < 0) =>
          account.consec + (IF Booking THEN 1 ELSE 0) >= Cardinality(ClosedIds)

\* A typed table has finitely many closed trades.
LEMMA ClosedFinite ==
    ASSUME TypeOK
    PROVE  /\ IsFiniteSet(ClosedIds) /\ Cardinality(ClosedIds) \in Nat
           /\ ClosedIds \subseteq DOMAIN paper_trades
<1>1. Len(paper_trades) \in Nat /\ DOMAIN paper_trades = 1..Len(paper_trades)
  BY LenProperties DEF TypeOK
<1>2. IsFiniteSet(DOMAIN paper_trades)
  BY <1>1, FS_Interval
<1>3. ClosedIds \subseteq DOMAIN paper_trades
  BY DEF ClosedIds
<1>4. QED
  BY <1>2, <1>3, FS_Subset, FS_CardinalityType

\* Steps that close nothing and leave count and close under way as they were, or were cut by a fault.
LEMMA CountLasts ==
    ASSUME TypeOK, CountInv, account'.consec = account.consec,
           ClosedIds' = ClosedIds, OpenIds \subseteq OpenIds',
           \A t \in ClosedIds : paper_trades'[t].pnl = paper_trades[t].pnl,
           \/ /\ at'[Manager] = at[Manager] /\ job'[Manager] = job[Manager] /\ faults' = faults
           \/ /\ at'[Manager] \notin {"closing", "booking", "updating"}
              /\ ~Booking /\ faults' = faults
           \/ /\ at'[Manager] \in {at[Manager], "idle"}
              /\ at'[Manager] = at[Manager] => job'[Manager] = job[Manager]
              /\ faults' = faults + 1
    PROVE  CountInv'
<1>1. faults \in Nat
  BY DEF TypeOK
<1>2. CASE at'[Manager] = at[Manager] /\ job'[Manager] = job[Manager]
           /\ (faults' = faults \/ faults' = faults + 1)
  BY <1>1, <1>2 DEF CountInv, Booking
<1>3. CASE at'[Manager] \notin {"closing", "booking", "updating"} /\ ~Booking /\ faults' = faults
  BY <1>3 DEF CountInv, Booking
<1>4. CASE at'[Manager] = "idle" /\ faults' = faults + 1
  BY <1>1, <1>4 DEF CountInv, Booking
<1>5. QED
  BY <1>2, <1>3, <1>4

LEMMA CountStep ==
    ASSUME TypeOK, CountInv, [Next]_vars, Handlers = {}, "resume" \notin Requests
    PROVE  CountInv'
<1> USE DEF orchVars, closerVars, botVars, tradeVars, worldVars
<1>0. /\ Closers = {Manager} /\ Manager \in DOMAIN at /\ Manager \in DOMAIN job
      /\ account.consec \in Nat /\ faults \in Nat
  BY DEF Closers, TypeOK, Accounts
<1>1. ASSUME paper_trades' = paper_trades
      PROVE  /\ ClosedIds' = ClosedIds /\ OpenIds' = OpenIds
             /\ \A t \in ClosedIds : paper_trades'[t].pnl = paper_trades[t].pnl
  BY <1>1 DEF ClosedIds, OpenIds
<1>2. CASE \/ UNCHANGED vars \/ (Orchestrator /\ ~OpenTrade)
           \/ Operator \/ (Environment /\ ~Restart)
  <2>1. /\ paper_trades' = paper_trades /\ at' = at /\ job' = job /\ account' = account
        /\ faults' = faults \/ faults' = faults + 1
    BY <1>0, <1>2 DEF vars, Orchestrator, RefreshState, Evaluate, CheckRefuses, CheckTrips, CheckPasses,
           AutoPause, CountRefuses, CountPasses, SizeIsZero, TickError, Operator, Pause, Resume, Toggle,
           Environment, NewDay, MarketTrade, CooldownExpires, TimeStop
  <2>2. QED
    BY <1>1, <2>1, CountLasts
<1>3. CASE OpenTrade
  <2>0. signal[1] \in Coins /\ signal[2] \in Strategies
    BY <1>3, PairsAssumption DEF OpenTrade, TypeOK
  <2>00. PICK tr : tr = [coin |-> signal[1], strategy |-> signal[2], status |-> "open", pnl |-> 0]
    OBVIOUS
  <2>1. tr \in Trades /\ paper_trades' = Append(paper_trades, tr) /\ tr.status = "open"
    BY <1>3, <2>0, <2>00 DEF OpenTrade, Trades
  <2>2. paper_trades \in Seq(Trades)
    BY DEF TypeOK
  <2>3. /\ DOMAIN paper_trades' = DOMAIN paper_trades \cup {Len(paper_trades) + 1}
        /\ \A t \in DOMAIN paper_trades : paper_trades'[t] = paper_trades[t]
        /\ paper_trades'[Len(paper_trades) + 1].status = "open"
    BY <2>1, <2>2, OpenTradeTable
  <2>4. /\ ClosedIds' = ClosedIds /\ OpenIds \subseteq OpenIds'
        /\ \A t \in ClosedIds : paper_trades'[t].pnl = paper_trades[t].pnl
    BY <2>3 DEF ClosedIds, OpenIds
  <2>5. at' = at /\ job' = job /\ account' = account /\ faults' = faults
    BY <1>3 DEF OpenTrade
  <2>6. QED
    BY <2>4, <2>5, CountLasts
<1>4. CASE CloserError(Manager) \/ Restart
  <2>1. /\ paper_trades' = paper_trades /\ account' = account
        /\ at'[Manager] = "idle" /\ faults' = faults + 1
    BY <1>0, <1>4 DEF CloserError, Restart
  <2>2. CountInv'
    BY <1>0, <1>1, <2>1 DEF CountInv, Booking
  <2>3. QED
    BY <2>2
<1>5. CASE \/ Snapshot(Manager) \/ CloseReturns(Manager) \/ LoopEnds(Manager)
           \/ \E t \in todo[Manager] : CloseSkips(Manager, t) \/ Hold(t)
  <2>1. /\ paper_trades' = paper_trades /\ account' = account /\ faults' = faults
        /\ at[Manager] \in {"idle", "returning", "loop"} /\ at'[Manager] \in {"idle", "loop"}
    BY <1>0, <1>5 DEF Snapshot, CloseReturns, LoopEnds, CloseSkips, Hold
  <2>2. QED
    BY <1>1, <2>1, CountLasts DEF Booking
<1>6. ASSUME NEW t \in todo[Manager], CloseReads(Manager, t)
      PROVE  CountInv'
  <2>1. /\ paper_trades' = paper_trades /\ account' = account /\ faults' = faults
        /\ at[Manager] = "loop" /\ at'[Manager] = "closing" /\ job'[Manager].trade = t
    BY <1>0, <1>6 DEF CloseReads
  <2>2. t \in OpenIds'
    BY <1>0, <1>1, <1>6, <2>1 DEF CloseReads, MayClose, OpenIds, TypeOK
  <2>3. QED
    BY <1>1, <2>1, <2>2 DEF CountInv, Booking
<1>7. CASE CloseCommits(Manager)
  <2>00. PICK i : i = job[Manager].trade
    OBVIOUS
  <2>0. PICK pnl : pnl = job[Manager].pnl
    OBVIOUS
  <2>1. /\ at[Manager] = "closing" /\ at'[Manager] = "booking" /\ job' = job
        /\ account' = account /\ faults' = faults /\ i \in OpenIds /\ pnl \in Int
        /\ paper_trades' = [paper_trades EXCEPT ![i] = ClosedWith(paper_trades[i], pnl)]
    BY <1>0, <1>7, <2>00, <2>0 DEF CloseCommits, CountInv, TypeOK
  <2>2. paper_trades \in Seq(Trades) /\ i \in DOMAIN paper_trades
    BY <2>1 DEF TypeOK, OpenIds
  <2>3. /\ DOMAIN paper_trades' = DOMAIN paper_trades
        /\ \A t \in DOMAIN paper_trades \ {i} : paper_trades'[t] = paper_trades[t]
        /\ paper_trades'[i].status = "closed"
    BY <2>1, <2>2, CloseTradeTable
  <2>4. paper_trades'[i].pnl = pnl
    <3>1. paper_trades[i] \in Trades
      BY <2>2, ElementOfSeq, LenProperties
    <3>2. ClosedWith(paper_trades[i], pnl).pnl = pnl
      BY <3>1 DEF ClosedWith, Trades
    <3>3. QED
      BY <2>1, <2>2, <3>2
  <2>5. ClosedIds' = ClosedIds \cup {i} /\ i \notin ClosedIds
    BY <2>1, <2>2, <2>3 DEF ClosedIds, OpenIds
  <2>6. Cardinality(ClosedIds') = Cardinality(ClosedIds) + 1 /\ Cardinality(ClosedIds) \in Nat
    BY <2>5, ClosedFinite, FS_AddElement
  <2>7. ASSUME faults' = 0, \A t \in ClosedIds' : paper_trades'[t].pnl < 0
        PROVE  account.consec >= Cardinality(ClosedIds)
    <3>1. \A t \in ClosedIds : t \in DOMAIN paper_trades \ {i}
      BY <2>5, ClosedFinite
    <3>2. \A t \in ClosedIds : paper_trades[t].pnl < 0
      BY <2>3, <2>5, <2>7, <3>1
    <3>3. ~Booking
      BY <2>1 DEF Booking
    <3>4. account.consec + 0 >= Cardinality(ClosedIds)
      BY <2>1, <2>7, <3>2, <3>3 DEF CountInv
    <3>5. QED
      BY <1>0, <2>6, <3>4
  <2>8. Booking' /\ at'[Manager] # "closing" /\ at'[Manager] # "updating"
    BY <2>1 DEF Booking
  <2>9. faults' = 0 /\ (\A t \in ClosedIds' : paper_trades'[t].pnl < 0) =>
           account'.consec + 1 >= Cardinality(ClosedIds')
    BY <1>0, <2>1, <2>6, <2>7
  <2>10. job'[Manager].trade \in ClosedIds' /\ paper_trades'[job'[Manager].trade].pnl = job'[Manager].pnl
    BY <2>00, <2>0, <2>1, <2>4, <2>5
  <2>11. QED
    BY <2>8, <2>9, <2>10 DEF CountInv
<1>8. CASE GetState(Manager)
  <2>1. /\ at[Manager] = "booking" /\ at'[Manager] = "updating"
        /\ paper_trades' = paper_trades /\ account' = account /\ faults' = faults
        /\ job'[Manager].account = Booked(account, job[Manager].pnl)
        /\ job'[Manager].pnl = job[Manager].pnl /\ job'[Manager].trade = job[Manager].trade
    BY <1>0, <1>8 DEF GetState, TypeOK
  <2>2. job'[Manager].account.consec = IF job[Manager].pnl < 0 THEN account.consec + 1 ELSE 0
    BY <2>1 DEF Booked
  <2>3. QED
    BY <1>1, <2>1, <2>2 DEF CountInv, Booking
<1>9. CASE UpdateState(Manager)
  <2>1. /\ at[Manager] = "updating" /\ at'[Manager] = "returning"
        /\ paper_trades' = paper_trades /\ account' = job[Manager].account /\ faults' = faults
    BY <1>0, <1>9 DEF UpdateState
  <2>2. ASSUME faults = 0, \A t \in ClosedIds : paper_trades[t].pnl < 0
        PROVE  account'.consec >= Cardinality(ClosedIds)
    <3>1. account'.consec = account.consec + 1
      BY <2>1, <2>2 DEF CountInv, Booking
    <3>2. account.consec + 1 >= Cardinality(ClosedIds)
      BY <2>1, <2>2 DEF CountInv, Booking
    <3>3. QED
      BY <3>1, <3>2
  <2>3. account'.consec \in Nat
    BY <1>0, <2>1 DEF TypeOK, Accounts
  <2>4. ~Booking' /\ at'[Manager] # "closing" /\ at'[Manager] # "updating"
    BY <2>1 DEF Booking
  <2>5. faults' = 0 /\ (\A t \in ClosedIds' : paper_trades'[t].pnl < 0) =>
           account'.consec + 0 >= Cardinality(ClosedIds')
    BY <1>1, <2>1, <2>2, <2>3
  <2>6. QED
    BY <2>4, <2>5 DEF CountInv
<1>10. QED
  BY <1>0, <1>2, <1>3, <1>4, <1>5, <1>6, <1>7, <1>8, <1>9
     DEF Next, Closer, CloserStep, Orchestrator, Environment

\* Each result counts for the circuit on consecutive losses where nothing else than the manager
\* writes the count: no emergency stop and no resume. The run EveryResultCounts shows that it need
\* not where an emergency stop closes a second trade.
THEOREM ResultsCountAlone ==
    ASSUME Handlers = {}, "resume" \notin Requests
    PROVE  Spec => []EveryResultCounts
<1>1. Init => CountInv
  <2> SUFFICES ASSUME Init PROVE CountInv
    OBVIOUS
  <2>1. /\ paper_trades = <<>> /\ at[Manager] = "idle" /\ account.consec = 0
    BY DEF Init, Closers, InitAccount
  <2>2. ClosedIds = {} /\ Cardinality(ClosedIds) = 0
    <3>1. ClosedIds = {}
      BY <2>1 DEF ClosedIds
    <3>2. QED
      BY <3>1, FS_EmptySet
  <2>3. QED
    BY <2>1, <2>2 DEF CountInv, Booking
<1>2. TypeOK /\ CountInv /\ [Next]_vars => CountInv'
  BY CountStep
<1>3. TypeOK /\ CountInv => EveryResultCounts
  <2> SUFFICES ASSUME TypeOK, CountInv, faults = 0,
                      \A p \in Closers : at[p] \notin {"booking", "updating"},
                      \A t \in ClosedIds : paper_trades[t].pnl < 0
               PROVE  account.consec >= Cardinality(ClosedIds)
    BY DEF EveryResultCounts, ClosedIds
  <2>1. ~Booking
    BY DEF Booking, Closers
  <2>2. account.consec + 0 >= Cardinality(ClosedIds)
    BY <2>1 DEF CountInv
  <2>3. QED
    BY <2>2, ClosedFinite DEF TypeOK, Accounts
<1>4. QED
  BY <1>1, <1>2, <1>3, TypeCorrect, PTL DEF Spec

=============================================================================
