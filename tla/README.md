# Formal model of the BTC microstructure bot

TLA+ specifications of the trading bot in `src/`, model-checked with TLC and, for
the invariants that matter most, proved with TLAPS. Paths below are relative to
the repository's Python package, `src/src/`.

The bot is one asyncio process. It listens to an exchange's websocket, evaluates
two strategies every half second, opens simulated ("paper") trades for every
accepted signal, and sends real orders behind a three-stage gate. All durable
state is in one database; every module below is about the order in which the
process's tasks and the operator's HTTP requests read and write it.

## 1. Inventory

| Component | Source | State | Operations | What makes it correct |
|---|---|---|---|---|
| Orchestrator, signal path | `orchestrator.py` | per tick: the signal; cached toggles | `_tick`, `_tick_strategy` | a signal passes the risk check before it becomes a trade, and what was checked still holds |
| RiskManager | `risk/limits.py` | state cache, loss cooldowns (memory); `is_paused`, equity, loss counts (row) | `check_can_trade`, `get_state`, `record_loss` | limits hold of the table; circuits stop the bot and stay stopped |
| PaperExecutor | `execution/paper_executor.py` | `paper_trades`, statistics in `bot_state` | `open`, `close` | each trade is closed once, each result booked once |
| TradeManager | `execution/manager.py` | none of its own | `_tick`, `emergency_close_all` | every trade closes; an emergency stop closes all |
| LiveExecutor | `execution/live_executor.py` | `live_trades`, positions at the exchange, `live_armed` | `open`, `close`, `reconcile_with_exchange` | no order without all gates; no unnoticed position |
| Feed validation | `orchestrator.py`, `ws/hl_listener.py` | `liq_feed_status`, `liq_fade_enabled`, counters | loop, first-liquidation mark, override | no validation without evidence; a dead feed is refused |
| Websocket connection | `ws/hl_listener.py` | message clock; `ws_connected`, `last_ws_msg_ms` | `run`, `_connect_once`, `_heartbeat_watcher` | silence is noticed and the link replaced |
| Wall tracker, persistence | `strategies/liquidity_wall.py`, `orchestrator.py` | walls (memory), `wall_events`, cache of persisted states | `on_l2`, `evaluate`, `_persist_walls_once` | the table tells each wall's lifecycle |
| Operator controls | `api/server.py` | columns of `bot_state` | toggle, pause, resume, clear pause, override, emergency stop | a request that was answered has its effect |
| Startup | `db/session.py`, `main.py`, `config.py` | settings, `bot_state` | settings checks, `init_db`, shutdown | a restart never resumes live trading; who can trade live can be stopped |
| Liquidation fade | `strategies/liquidation_fade.py` | time of the last signal | `evaluate` | one signal per cascade, on evidence, in a quiet market |
| Market state | `ws/market_state.py`, `strategies/math_utils.py` | trade and candle buffers | `add_trade`, candles, ATR | windows and candles are those of the trades |
| Sizing | `risk/sizing.py` | none | `compute_size_usd` | never more than the caps |
| Parser | `ws/parsers.py` | diagnostic counters (in the listener) | liquidation field parsing | a shape is not mistaken for another; counters and table agree |
| Read endpoints, dashboard | `api/server.py`, `frontend/` | none | queries | out of scope |

**Interaction.** Tasks share the single `bot_state` row and the tables through
short transactions (`session_scope`), and in-memory objects through callbacks. No
lock is held between two transactions. Every `await` is therefore a point at which
another task or request may change what was just read. This, with restarts and
database errors between two commits, is where the hard behaviour is; `PROJECT.json`
lists each such place as a hazard at its line.

## 2. Modules

Each action is the code between two awaits that another task could observe; its
guard is the code's condition, and a whole handler with its trailing writes is one
action when nothing can be observed inside it.

| Module | Models | Built on |
|---|---|---|
| `PaperTrading` | tick, risk check, paper executor, manager, emergency stop, controls, restart | |
| `HaltLeak` | `PaperTrading` with a count of the trades opened during one pause | `PaperTrading` |
| `Ledger` | abstract: positions entered once, settled once in one step, or forfeited to a fault | |
| `PaperLedger` | `PaperTrading` with the history of booked results; refinement mapping to `Ledger` | `HaltLeak`, `Ledger` |
| `PaperAccount` | `PaperTrading` with the history of the results posted, and of those the account has kept | `PaperTrading` |
| `Candles` | latest price, one-minute bars, true ranges and ATR of one coin's trades | |
| `PaperFills` | sizing, slippage, exit conditions, excursions and fills of a paper trade on that market | `Candles` |
| `LiquidationFade` | the tape, the listener's handling of each trade, parser and counters, the trade deque, `evaluate` | |
| `FeedStatus` | validation loop, listener's mark, toggle, force and override requests | |
| `Startup` | settings, the checks at the start, the SDK's conditions, the token, the life of a process | |
| `LiveGate` | arming, `LiveExecutor.open`, the exchange, reconciliation, pause reasons, emergency stop | `Startup` |
| `WsListener` | connection, message clock, heartbeat watcher, the freshness columns | |
| `WallTracker` | wall lifecycles, the persistence pass, its cache, `wall_events` | |
| `MCInstances`, `MC...` | values of the constants for TLC | |
| `SetSums` | lemmas about sums over finite sets | |
| `...Proofs` | theorems | the module each is named for; `PaperTradingProofs` has those of `HaltLeak`, `PaperLedger` and `PaperAccount` too |

### PaperTrading

`paper_trades` is the table; `is_paused`, `enabled` and `account` are columns of
`bot_state` (`account` gathers equity, peak, the day's PnL and its date, and
consecutive losses). `opc` says where the orchestrator is: in the `check`, about to
write an automatic `pause`, at the `count` of open positions, or about to `open`.
`check_can_trade` is split where it awaits: it reads the pause flag once
(`CheckPasses`, `CheckRefuses`, `CheckTrips`), counts the positions in a later
transaction (`CountPasses`, `CountRefuses`), and the trade is inserted several
awaits after that (`OpenTrade`).

A closer is the manager's task or one emergency request. `Snapshot` lists the open
trades; `CloseReads` reads a trade's status; `CloseCommits` writes the exit
without looking again; `GetState` reads the row and computes the new statistics;
`UpdateState` writes these computed values over whatever the row holds by then.
`CloserError` and `TickError` are database errors; `Restart` keeps the tables and
drops everything else.

In `PaperAccount`, `posted` lists what `UpdateState` wrote back, result by result;
`kept` are those of them the row still holds, and `read[p]` those it held when the
closer `p` read it. A write keeps what was read and adds one: what another closer
posted in between is no longer kept.

Two faithful details carry several properties. `emergency_close_all` and the
manager call the same `close`, with no exclusion between them. And the manager
skips a trade whose coin has no price in this process, before it looks at the time
stop.

Which signal a strategy gives, and the net result of a close, are free choices; so
is the outcome of the freshness tests of `check_can_trade`. `LiquidationFade`,
`PaperFills` and `WsListener` are about what is chosen here.

### Candles and PaperFills

`AddTrade` is `MarketState.add_trade`: the latest price, and `_update_candle`, which
closes a bar only when a trade of another minute comes (`UpdateCandle`) and keeps
the last `CandleBuffer` of them. The ATR, a mean, is any number between the
smallest and the largest true range of its period: nothing else of it is used.

`Evaluate` leaves a signal with its levels on their sides of the entry, as both
strategies do. `OpenTrade` takes size and fill: the entry price is the signal's,
the volatility that slips it is the market's by then. `ManagerLooks` reads the
price once; `ManagerMarks` writes the excursion, in a transaction of its own and
from the row as it was listed; `CloseReads` and `CloseCommits` are `close`.
`EmergencyLooks` takes the latest price, or the entry fill when there is none.
Prices are whole numbers and a profit is counted per dollar of the position in
units of 1/entry fill, so that gains and fees compare without division;
`_apply_slippage` and `compute_size_usd` round down.

### LiquidationFade

A trade is its index on the `tape`. The listener takes the trades in order
(`HandleTrade`, `HandleLiquidation`, `HandleGarbled`) and is held up by the insert
of each liquidation (`Save`, `SaveFails`); the deque `trades` keeps the last
`Buffer`. `TickStarts` reads the clock, as `_tick` does once, and the evaluation
follows when the awaits in between allow, on the deque as it is by then: the
actions `Reject...` and `Fires` are its exits. `missed` holds what was in flight
when a connection or the process ended: nothing is replayed after a reconnect.

### Startup and LiveGate

`Settings` are the answers the checks look for. `Start` needs `validate_config` and
`_startup_safety_checks` to pass; `ComesUp` may or may not get the SDK, where the
settings ask for it; `ShutDown` stops the loops while requests still go on; `Ends`
is the end of a shutdown or a crash. Between two processes the settings may
change. One process runs at a time.

`_place_protected_exits` always raises. An entry that the exchange confirms is
closed at once and the bot is paused and disarmed, and its row stays `pending`: no
row is ever `open`. `close` and the manager's live loop therefore have nothing to
work on, and every position at the exchange is a mismatch for the reconciliation.
`MarketOpen` is the external order: filled, rejected, filled although the call
raised, or answered as if it had been filled when it was not. `small` holds the
orders within the reconciliation's tolerance of 0.01 coin. `pause_reason` is
reduced to whether one is set. `armed_here`, `confirmed` and `leaked` are history
variables: armed since this process came up, and entries confirmed and orders sent
disarmed since the last arming.

### FeedStatus

`with_liq` and `trades_total` are the local copies of the counters which the loop
takes before an await and decides on after it. The toggle request reads
`liq_feed_status` in one transaction and writes in another (`ToggleReads`,
`ToggleWrites`, `ForceWrites`). Counters are reduced to the comparisons the code
makes.

### WsListener

`msg_age` is the age of `_last_msg_ms`, in memory; `stamp_age` that of
`last_ws_msg_ms`, in the row. The listener writes the row when it connects and
never again. Both clocks start with the connect, so a connection counts as a message
(`SilenceIsRefused`). The watcher measures (`WatcherTrips`), writes to the activity log, and
then closes (`WatcherCloses`). A failed send happens before the `try` whose
`finally` clears `ws_connected`, so `SubscribeFails` leaves the flag set.

### WallTracker

A wall is `<<id, n>>`, the n-th at a level; the code's key is `wall_id` and
`detected_ms`. `OnL2` is the whole handler of one snapshot: updates, new walls,
expiry and collection of finished ones. A pass lists the walls, then for each
compares with the cache, selects the row, stages the state, and after the commit
fills the cache with the state the wall has *by then*. The state `consumed`, which
comments mention, is never assigned. A finished wall is collected half an hour after it
was seen, by when a pass has been through (`Collectable`). `flush_persistence` is never called and is
not modelled.

## 3. What is checked

Runs that pass:

| Run | Properties | Instance |
|---|---|---|
| `Limits` | `TypeOK`, `PositionLimits`, `EmergencyLeavesAtMostOne`, `AccountOfKept` | two coins, the three pairs the code ticks, the manager and one emergency request, three trades that lose, two days, no fault; nobody resumes |
| `Circuit` | `CircuitLatches`, `EveryTradeCloses` | one pair, wins and losses, pause, resume and toggle, three trades, two days, one fault |
| `Ledger` | `EquityIsSum`, `ImplementsLedger`, `LeakAtMostOne` | the manager as only closer, wins and losses, pause, resume and toggle, three trades, two faults |
| `Fills` | `FillsTypeOK`, `BarsAreTheTrades`, `StopIsALoss`, `ExcursionCoversExit`, `SizeWithinRisk` | three prices, four market trades over four minutes, two bars kept, an ATR of one range, one paper trade, manager and emergency requests, one fault |
| `Cascade` | `FadeTypeOK`, `OneSignalPerCascade`, `QuietBeforeSignal`, `SignalOnEvidence`, `CountersAgree`, `NoCascadeOverlooked` | five kinds of trades, four of them on the tape, a deque of three, a window of 4 s, a wait of 3 s, a gap of 2 s, a delay of 1 s, one fault |
| `Feed` | `FeedTypeOK`, `ValidatedOnEvidence`, `RefusalStands`, `DeadFeedIsRefused` | all requests, three faults |
| `Live` | `LiveTypeOK`, `OrderIsLegitimate`, `GateInv`, `PositionsAreRecorded`, `CapableIsControlled`, `ReasonMeansPaused`, `DisarmLeaksAtMostOne`, `OneExitPerArming`, `OrphanPausesBot` | nine settings, all requests, three orders, two faults |
| `Listener` | `ListenerTypeOK`, `SilenceIsRefused`, `NeverStuck` | timeout of three ticks, two faults |
| `Walls` | `WallTypeOK`, `PersistInv`, `RowsOnlyAdvance`, `FirstIsRecorded` | three walls in a row at one level, two faults |

The largest are `Cascade` (3.7 million states), `Fills` (2.8 million), `Limits`
(2.6 million) and `Live` (1.4 million); each takes about two minutes.

Runs in which the code departs from what its documents or comments say; each is
expected to be violated:

| Run | Statement | What happens |
|---|---|---|
| `EveryResultCounts` | each loss is one more consecutive loss | the manager closes one trade and an emergency request another, both book from the same row; two trades have lost and one loss is counted |
| `StaleMeansSilent` | "WS stale (..s since last message)" | the stamp is the time of the connection; messages do not renew it |
| `DeclaredIsFaded` | a total beyond the threshold declares a cascade, which is then waited for | after the wait the total is taken again over a window of which the wait is a part: with the defaults only the last 2 s of a cascade count |

The modules state more such sentences, under a heading of their own. They are
refuted too, by naming them in a configuration with the specification and
constants given here; they are not kept as runs:

| Statement | Module, specification | What happens |
|---|---|---|
| `EmergencyClosesAll` (emergency stop closes all) | `PaperTrading`, `Spec`, constants of `Limits` | a signal past its check is opened after the request read the list of trades |
| `DailyPauseEnds` (the new day resets the daily pause) | `PaperTrading`, `BusySpec`, one pair, only losses, no requests or faults, the other circuits out of reach | `is_paused` stays set, and every later check returns at it |
| `ExcursionCoversEveryExit` (comment: worst loss during the trade) | `PaperFills`, constants of `Fills` | the price of an emergency stop is not among those the manager has seen |
| `SizeCappedAtBalance` (warning: sizing will be capped at balance) | `PaperFills`, constants of `Fills` but `RiskPct = 100`, `Equities = {2}` | it is capped at the balance times the leverage |
| `NoKeysRefused` (comment: live code without keys is refused) | `LiveGate`, constants of `Live` | it starts, unless `ENABLE_LIVE` is set as well |
| `ClearPauseClears` (clear pause flag) | `LiveGate`, `LiveSpec`, constants of `Live` | the reason is cleared and the flag left |
| `OrderNeedsArming` (all three stages are true when an order is sent) | `LiveGate`, `LiveSpec`, constants of `Live` | disarmed between the check and the order |
| `MismatchPausesBot` (mismatches pause the bot) | `LiveGate`, `LiveFairSpec`, constants of `Live` | positions up to 0.01 coin are within the tolerance |
| `OnlyOperatorClears` (test: refused until the operator clears it) | `FeedSpec`, no faults | a late liquidation clears the status |
| `OverrideReenables` (comment: the operator can re-enable by the override) | `FeedSpec`, no faults | the refusal also switched the toggle off, the override leaves it off |
| `SeenMeansValidated` (column comment) | `FeedSpec`, no faults | the loop decides on an old count and overwrites the mark |
| `ClosesOnlySilent` (the watchdog closes if there was no message for the timeout) | `ListenerSpec`, timeout 2 | a message arrives during the log write before the close |
| `CacheIsPersisted` (the cache is the last persisted state) | `WallSpec`, one wall | the wall changed during the commit |
| `EveryWallIsRecorded` (from detection to final state) | `WallFairSpec`, two walls, no faults | a second wall at a level ends as the cached first one |

Every property of a passing run is accompanied by a mutant, an operator marked
*Faulty variant* in the modules: the definition as a plausible bug would have it,
under which TLC finds the property violated.

**Bounds.** `MaxTrades`, `MaxOrders` and `MaxWalls` bound tables that only grow.
In `Limits` three trades exceed every limit of the instance by one and let two
closers hold one trade each while a third is opened, so that one result can overwrite
another before, at or after midnight; errors and restarts are met in `Circuit` and
`Ledger`. In `Circuit` one
loss of half the balance breaks the circuit and leaves trades to open; in `Ledger`
a pause could leak three. An emergency request pauses by the same write as the
operator, so `LeakAtMostOne` is explored with the latter and proved with both. Two faults allow an error in the middle of a
write and a restart after it. Two days give one change of date. In `WsListener`
ages saturate one past the timeout, so time itself is unbounded. Two levels of
walls in one pass meet the same steps as one, with a failed upsert giving up the
rest of the pass.
In `Fills` four trades fill the two bars and one in progress, which drops the
oldest bar; the levels are two of the prices, so every order of entry, stop, target
and exit occurs, and of the equities one is sized by its risk and one by the maximum
position. With stops as wide as these the leverage is never the smallest cap; that it
holds is `SizeIsBounded`, for every stop and equity. In `Cascade` a tape of four overflows the deque,
and three seconds after the wait leave room for a second signal; a process that
has ended and the clock at `MaxTime` stop, so deadlock is not looked for in these
two. The nine settings of `Live` are two that can trade live, three that start
without the SDK, and one refusal for each of the checks.

**Fairness.**
`Circuit` (`EveryTradeCloses`): the manager's loop runs (it is a task of the event
loop that sleeps a fixed time and survives any exception), a subscribed coin trades
again after a restart, and the clock reaches a time stop. Nothing is assumed of the
orchestrator or the operator. `DailyPauseEnds` assumes in addition a market that
keeps giving signals, and that days pass.
`Feed`: the hour passes and the awaits of the loop return; faults are excepted in
the property, since one error ends that loop for good.
`Live`: the reconciliation loop keeps running; a failed attempt is logged and
repeated. It promises nothing to a process that is stopping or has no SDK.
`Listener`: the awaits return, time passes, and the exchange accepts a connection
and its subscriptions again and again (strong fairness of `Subscribe`, because a
failed send sends the listener back to connecting).
`Walls`: the persistence loop runs.
The properties of `Fills` and `Cascade` are safety properties.

## 4. What is proved

For every value of the constants that the text does not restrict, any number of tasks,
trades and faults:

* `PaperTradingProofs`. `TypeCorrect`. `LimitsHold`: `PositionLimits` alone is not
  inductive, since the count and the insertion are apart. `LimitsInv` (`RoomIsKept`)
  adds that a signal about to be opened still has room. It is preserved because only
  the orchestrator opens trades and it carries one signal; closers only make room
  (`OpenSetsShrink`), and opening adds one trade (`OpenTradeAddsOne`).
  `CircuitIsFinal`: with the circuit broken, nothing open and nothing under way,
  `CheckPasses` is disabled and no step changes the equity or lowers the peak.
  `EmergencyLeavesOne`, where nobody resumes: `Stopped(h)` says that from the request
  on the bot is paused, and that of the trades the request will not get to
  (`Missed(h)`) there is none while a signal is past the check, and one at most after.
  `HaltLeaksAtMostOne`: `HaltInv` (`HaltAccountHolds`) says that
  while the bot is paused and a signal is past the check, nothing has leaked yet; a
  second signal cannot get past the check during the same pause (`PastTheCheck`).
* The account, in the same module. With the manager as the only closer: `BookInv`
  (`BooksHold`) says of the close under way that its trade was open and is not booked,
  that what it will write is the account plus the trade's result, and that there are no
  more lost results than faults. From it `LedgerImplemented` (opening enters, the last
  commit of a close settles, an error or a restart between the two commits forfeits, and
  every other step stutters) and `EquityIsTheSum`. With any number of closers: `AccountIsOfKept`.
  Here a closer's write may undo another's, and what makes the property inductive is
  that every closer about to write holds an account that is right about the postings
  *it* read, with its own result on top (`Ahead`, in `AccountInv`), and of no later day
  than today. So the worst that interleaved closes do is to forget results whole: the
  equity and the day's result the loss limit rests on are never of different
  results, and none counts twice or for another day. `NothingIsLost`: without emergency
  stops nothing is forgotten either. `ResultsCountAlone`: the sentence that the run
  `EveryResultCounts` refutes is true where neither an emergency stop nor a resume
  writes beside the manager; `CountInv` says that the account and the close under way
  together count every closed trade.
* `SetSums`. The community modules' sum over a set is a recursive function over its
  subsets that takes one element after the other. Its recursion is shown to have one
  solution, and the sum to grow by `f[x]` with any new `x`. An induction theorem over
  sets cannot be cited here; a set of counterexamples has a smallest one instead
  (`SmallestSubset`), from the well-foundedness of strict inclusion. The sums of
  `EquityIsSum`, `AccountOfKept`, `SignalOnEvidence` and `NoCascadeOverlooked` rest on it.
* `PaperFillsProofs`. `BarsAreCorrect`: `BarsAreTheTrades` is inductive given the types.
  `SizeIsBounded` is about `ComputeSizeUsd` alone, `SizesWithinRisk` about the table.
  `StopsLose` and `ExcursionsCover` rest on `FillsInv`: entries are filled on the far side
  of the signal's price and the stop lies behind it (`EntryInv`); what the manager
  carries is at or beyond the stop and, once the excursion has been written, covered by
  it (`CloseInv`); its list agrees with the table except for rows closed since
  (`ListInv`), which is why an excursion computed from an old row is not written over a
  wider one; and a closed row keeps all that (`ExitInv`).
* `LiquidationFadeProofs`. `FadeTypeCorrect`, with the bound of the deque. `FadedOnce` and
  `FadedInQuiet` rest on `FadeInv`: the tape is in the order of time and not denser than
  `Span` (`TapeInv`); listener and tick are at most `Lag` behind (`LagInv`); the deque's
  oldest entry is as many trades back as it is long (`DequeInv`); a liquidation is in the
  deque, pushed out by `Buffer` later ones, or of an earlier process (`CoverInv`); and the
  liquidations behind a signal are older than its wait, and gone from the deque if the
  signal is forgotten (`SignalInv`). With `Gap + Wait > Window` the next signal's window
  begins after them. `FadedOnEvidence`: what the deque holds of a side within the window
  is part of what the tape has, so its worth is no more. `CascadesAreSeen` is the other
  direction: while nothing has failed, each liquidation the listener has taken is in the
  deque or was pushed out by `Buffer` later trades (`CompleteInv`), and if the deque spans
  the window and the lag (`Span >= Window + Lag`, a hypothesis of the theorem) none of
  those was in the window. The deque is bounded by trades, not by time: nothing in the
  code checks the hypothesis. `CountersTellTheTable`. `StaleNeverRefused`: with a maximum
  age not below the window, as in the defaults, the test for a stale cascade is dead code.
* `FeedStatusProofs`. `FeedTypeCorrect`; `NoValidationWithoutEvidence`, `RefusalIsKept`:
  `EvidenceInv` (`EvidenceHolds`) adds what each party is about to write.
* `LiveGateProofs`. `StartedInv`: a process that is not down has passed the checks, and the
  SDK is there only where its conditions held; `CapableProcessIsControlled` follows.
  `LiveTypeCorrect` (no row is ever open). `OrdersAreLegitimate`: `GateInv` (`GateHolds`)
  says that the flag of a serving process is itself legitimate, since arming tests the
  settings, which change only while no order is on its way (`NothingSentBeforeUp`), and
  `init_db` disarms. `ReasonsArePauses` needs it: the one writer that gives a reason
  without pausing is never reached. `PositionsHaveRows` (the intent is committed before
  the order). `DisarmLeaks`: after an order that went out disarmed nothing is past the
  check of the flag (`LeakInv`). `OneExit`: until the halt is through, or where the flag
  still lets an order pass, the faults account for all entries before (`ConfirmInv`).
* `WsListenerProofs`. `ListenerTypeCorrect`; `SilenceRefused`, from `StampInv`
  (`StampIsOld`): the stamp is never younger than the last message.
* `WallTrackerProofs`. `WallTypeCorrect`; `RowsFollowWalls`, `RowsAdvance`: `PersistInv` says
  that what is staged lies, in the order of the lifecycle, between the row and the wall,
  which moves on while the commit is awaited.

The assumptions are those the modules name. Bounds and limits are naturals, the
starting balance is positive, pairs are pairs of a coin and a strategy, the manager
is not a request. `FadeAssumption` has two of substance: the gap and the wait together
exceed the window (60 s and 3 s against 5 s by default), and `Buffer` + 1 trades are
never printed within wait and delay, which nothing in the code checks. The models
themselves assume that exchange and process have the same clock, that the exchange
sends the trades of a coin in the order of their times, that nothing waits longer than
`Lag` in `LiquidationFade`, and that a token which is not the default is one the operator
can send.

Only model-checked: liveness (`EveryTradeCloses`, `DeadFeedIsRefused`,
`OrphanPausesBot`, `NeverStuck`, `FirstIsRecorded`), which needs fairness and
`ENABLED` and is out of the prover's reach. Every other property of a passing run is a
theorem. Conversely the invariants behind the theorems (`LimitsInv`, `AccountInv`,
`BookInv`, `FadeInv`, `StampInv` and the like) are proved, and are named as properties of
a run only where they say something a reader would ask for. What the code does not
meet is refuted by TLC on the instances named above.

## 5. Not modelled, and why

Read endpoints, the daily report and the dashboard change nothing. Reject
statistics, raw samples, pruning and the activity log are best-effort writes that
no decision reads. Signal rows and `paper_realized_pnl_usd` (always written with the
equity) are read by no guard. The parsing of environment variables and the warnings of
`validate_config` are left out; its errors are modelled. The lengths of the back-off, of
cooldowns and of intervals are left out where only their order matters. Volumes of
bars are read by nothing. Floating point is replaced by whole numbers: rounding of
amounts is not modelled. `LiveExecutor.close` and the manager's live loop are
unreachable while `_place_protected_exits` raises. The order of two trades of one
time, and how the reconciliation nets opposite positions in a coin, are left out.
Concurrent database access within one transaction is the database's. That `ws.close`
raises, in which case the watcher ends all the same, is left to the library's own
keepalive.

## 6. Plan

Done: paper trading and its ledger, fills and bars, the live gate and the life of the
process, the feed's status, the fade from tape to signal, the connection, the walls;
theorems for every safety property that a passing run checks, and for the refinement
of the ledger. What would come next:

1. **Composition**: `PaperTrading` with `WsListener`'s freshness and `FeedStatus`'s toggles
   in place of free choices; paper and live on one pause flag.
2. **Walls**: sizes, distances and the cooldown of a level, from which the next state is
   now a free choice.
3. **How much is lost**: `AccountIsOfKept` says that two closers can lose results only
   whole; how many, in terms of the closes that overlap, is not stated.
