----------------------------- MODULE FeedStatus -----------------------------
(***************************************************************************)
(* The validation of the liquidation feed.  Three parties write the same   *)
(* two columns of bot_state, liq_feed_status and liq_fade_enabled: the     *)
(* websocket listener when it sees the first liquidation, the validation   *)
(* loop after its first hour, and the operator.  The validation loop and   *)
(* the toggle request both decide on values read before an await.          *)
(***************************************************************************)
EXTENDS Integers

CONSTANTS
    Requests,    \* operator requests in use: "off", "on", "force", "override"
    MaxFaults    \* bound: restarts and database errors

ASSUME FeedAssumption ==
    Requests \subseteq {"off", "on", "force", "override"} /\ MaxFaults \in Nat

VARIABLES
    liq_feed_status, liq_fade_enabled,     \* bot_state columns
    liq_seen,         \* counters["trades_with_liq_field"] > 0
    hundred_trades,   \* counters["trades_total"] >= 100
    _feed_validated_marked, listening,     \* the listener
    validation, with_liq, trades_total,    \* the validation loop and its two local copies
    toggling,         \* the toggle request: what it is about to write
    cleared,          \* history: the operator cleared the status since the start
    faults

dbVars == <<liq_feed_status, liq_fade_enabled>>
listenerVars == <<liq_seen, hundred_trades, _feed_validated_marked, listening>>
loopVars == <<validation, with_liq, trades_total>>
feedVars == <<dbVars, listenerVars, loopVars, toggling, cleared, faults>>

Verdicts == {"inconclusive", "refused", "passed"}

FeedTypeOK ==
    /\ liq_feed_status \in {"unknown", "validated", "unavailable"}
    /\ liq_fade_enabled \in BOOLEAN
    /\ liq_seen \in BOOLEAN /\ hundred_trades \in BOOLEAN /\ _feed_validated_marked \in BOOLEAN
    /\ listening \in {"idle", "sampling", "marking"}
    /\ validation \in {"waiting", "stamping", "dead"} \cup Verdicts
    /\ with_liq \in BOOLEAN /\ trades_total \in BOOLEAN
    /\ toggling \in {"idle", "enable", "force"}
    /\ cleared \in BOOLEAN
    /\ faults \in Nat

FeedInit ==
    /\ liq_feed_status = "unknown" /\ liq_fade_enabled = TRUE
    /\ liq_seen = FALSE /\ hundred_trades = FALSE
    /\ _feed_validated_marked = FALSE /\ listening = "idle"
    /\ validation = "waiting" /\ with_liq = FALSE /\ trades_total = FALSE
    /\ toggling = "idle" /\ cleared = FALSE /\ faults = 0

\* Both gates on the strategy, the tick's and the risk check's.
LiqCanRun == liq_fade_enabled /\ liq_feed_status # "unavailable"

----------------------------------------------------------------------------
(* The listener handles one trade at a time.                               *)

HundredTrades ==
    /\ listening = "idle" /\ ~hundred_trades
    /\ hundred_trades' = TRUE
    /\ UNCHANGED <<dbVars, liq_seen, _feed_validated_marked, listening, loopVars,
                   toggling, cleared, faults>>

\* A liquidation is counted; with RAW_WS_LOG it is sampled into the database before anything else.
LiquidationArrives ==
    /\ listening = "idle" /\ ~_feed_validated_marked
    /\ liq_seen' = TRUE /\ listening' = "sampling"
    /\ UNCHANGED <<dbVars, hundred_trades, _feed_validated_marked, loopVars,
                   toggling, cleared, faults>>

\* The guard is set before the write, so the write is attempted once per process.
FirstLiquidation ==
    /\ listening = "sampling"
    /\ _feed_validated_marked' = TRUE /\ listening' = "marking"
    /\ UNCHANGED <<dbVars, liq_seen, hundred_trades, loopVars, toggling, cleared, faults>>

ListenerMarks ==
    /\ listening = "marking"
    /\ liq_feed_status' = "validated"
    /\ listening' = "idle"
    /\ UNCHANGED <<liq_fade_enabled, liq_seen, hundred_trades, _feed_validated_marked, loopVars,
                   toggling, cleared, faults>>

\* The update failed; the error is logged and the mark stays set.
ListenerMarkFails ==
    /\ listening = "marking" /\ faults < MaxFaults
    /\ faults' = faults + 1 /\ listening' = "idle"
    /\ UNCHANGED <<dbVars, liq_seen, hundred_trades, _feed_validated_marked, loopVars,
                   toggling, cleared>>

----------------------------------------------------------------------------
(* The validation loop, once per process.                                  *)

\* Faulty variant: the two counters are mixed up.
ReadCountersSwapped ==
    /\ validation = "waiting"
    /\ with_liq' = hundred_trades /\ trades_total' = liq_seen
    /\ validation' = "stamping"
    /\ UNCHANGED <<dbVars, listenerVars, toggling, cleared, faults>>

ReadCounters ==
    /\ validation = "waiting"
    /\ with_liq' = liq_seen /\ trades_total' = hundred_trades
    /\ validation' = "stamping"
    /\ UNCHANGED <<dbVars, listenerVars, toggling, cleared, faults>>

Inconclusive ==
    /\ validation = "stamping" /\ ~trades_total
    /\ validation' = "inconclusive"
    /\ UNCHANGED <<dbVars, listenerVars, with_liq, trades_total, toggling, cleared, faults>>

\* Faulty variant: the refusal only switches the toggle off.
RefuseByToggle ==
    /\ validation = "stamping" /\ trades_total /\ ~with_liq
    /\ liq_fade_enabled' = FALSE
    /\ validation' = "refused"
    /\ UNCHANGED <<liq_feed_status, listenerVars, with_liq, trades_total, toggling, cleared, faults>>

Refuse ==
    /\ validation = "stamping" /\ trades_total /\ ~with_liq
    /\ liq_feed_status' = "unavailable" /\ liq_fade_enabled' = FALSE
    /\ validation' = "refused"
    /\ UNCHANGED <<listenerVars, with_liq, trades_total, toggling, cleared, faults>>

\* Faulty variant: the belt-and-braces branch does not look at the counter.
PassWithoutEvidence ==
    /\ validation = "stamping" /\ trades_total
    /\ liq_feed_status' = "validated"
    /\ validation' = "passed"
    /\ UNCHANGED <<liq_fade_enabled, listenerVars, with_liq, trades_total, toggling, cleared, faults>>

Pass ==
    /\ validation = "stamping" /\ trades_total /\ with_liq
    /\ liq_feed_status' = "validated"
    /\ validation' = "passed"
    /\ UNCHANGED <<liq_fade_enabled, listenerVars, with_liq, trades_total, toggling, cleared, faults>>

\* Only CancelledError is caught: a database error ends the task for good.
ValidationDies ==
    /\ validation = "stamping" /\ faults < MaxFaults
    /\ faults' = faults + 1 /\ validation' = "dead"
    /\ UNCHANGED <<dbVars, listenerVars, with_liq, trades_total, toggling, cleared>>

Decide == Inconclusive \/ Refuse \/ Pass

----------------------------------------------------------------------------
(* The operator.                                                           *)

ToggleOff ==
    /\ "off" \in Requests
    /\ liq_fade_enabled' = FALSE
    /\ UNCHANGED <<liq_feed_status, listenerVars, loopVars, toggling, cleared, faults>>

\* Turning the strategy on reads the status first: refused with 409 when it is unavailable,
\* unless forced.
ToggleReads ==
    /\ toggling = "idle"
    /\ \/ Requests \cap {"on", "force"} # {} /\ liq_feed_status # "unavailable"
          /\ toggling' = "enable"
       \/ "force" \in Requests /\ liq_feed_status = "unavailable"
          /\ toggling' = "force"
    /\ UNCHANGED <<dbVars, listenerVars, loopVars, cleared, faults>>

ToggleWrites ==
    /\ toggling = "enable"
    /\ liq_fade_enabled' = TRUE
    /\ toggling' = "idle"
    /\ UNCHANGED <<liq_feed_status, listenerVars, loopVars, cleared, faults>>

ForceWrites ==
    /\ toggling = "force"
    /\ liq_fade_enabled' = TRUE /\ liq_feed_status' = "validated"
    /\ toggling' = "idle" /\ cleared' = TRUE
    /\ UNCHANGED <<listenerVars, loopVars, faults>>

\* Faulty variant: the status in the request's body is not validated.
OverrideUnchecked ==
    /\ "override" \in Requests
    /\ liq_feed_status' \in {"validated", "unknown", "on"}
    /\ cleared' = TRUE
    /\ UNCHANGED <<liq_fade_enabled, listenerVars, loopVars, toggling, faults>>

Override ==
    /\ "override" \in Requests
    /\ liq_feed_status' \in {"validated", "unknown"}
    /\ cleared' = TRUE
    /\ UNCHANGED <<liq_fade_enabled, listenerVars, loopVars, toggling, faults>>

\* init_db resets the status and keeps the toggle; counters, marks and tasks start afresh.
FeedRestart ==
    /\ faults < MaxFaults
    /\ faults' = faults + 1
    /\ liq_feed_status' = "unknown"
    /\ liq_seen' = FALSE /\ hundred_trades' = FALSE
    /\ _feed_validated_marked' = FALSE /\ listening' = "idle"
    /\ validation' = "waiting" /\ with_liq' = FALSE /\ trades_total' = FALSE
    /\ toggling' = "idle" /\ cleared' = FALSE
    /\ UNCHANGED liq_fade_enabled

Listener ==
    \/ HundredTrades \/ LiquidationArrives \/ FirstLiquidation \/ ListenerMarks \/ ListenerMarkFails
Validation == ReadCounters \/ Decide \/ ValidationDies
FeedOperator == ToggleOff \/ ToggleReads \/ ToggleWrites \/ ForceWrites \/ Override

FeedNext == Listener \/ Validation \/ FeedOperator \/ FeedRestart

FeedSpec == FeedInit /\ [][FeedNext]_feedVars

\* The hour passes and the loop's awaits return.
FeedFairSpec == FeedSpec /\ WF_feedVars(ReadCounters) /\ WF_feedVars(Decide)

----------------------------------------------------------------------------
\* The status says "validated" only on evidence: a liquidation seen by this process, or the
\* operator's word since it started.
ValidatedOnEvidence == liq_feed_status = "validated" => liq_seen \/ cleared

\* A refusal stands: once the validation loop has refused the feed, the strategy stays blocked,
\* whatever the toggle does, until a liquidation is seen or the operator clears the status.
RefusalStands == validation = "refused" /\ ~liq_seen /\ ~cleared => ~LiqCanRun

\* The strengthening of the two: nobody is about to write "validated" without evidence.
EvidenceInv ==
    /\ ValidatedOnEvidence
    /\ listening \in {"sampling", "marking"} \/ _feed_validated_marked => liq_seen
    /\ validation = "stamping" /\ with_liq => liq_seen
    /\ toggling = "force" => validation = "refused" \/ cleared \/ liq_seen
    /\ liq_feed_status = "unavailable" => validation = "refused"
    /\ validation = "refused" /\ ~liq_seen /\ ~cleared => liq_feed_status = "unavailable"

\* A busy feed without liquidations is found out after the hour, unless a fault gets in the way.
DeadFeedIsRefused ==
    hundred_trades /\ validation = "waiting"
        ~> validation = "refused" \/ liq_seen \/ faults > 0

----------------------------------------------------------------------------
(* Statements of the documents that the code does not meet.                *)

\* README: once unavailable, the strategy is hard-blocked until the operator clears it; only the
\* reset at startup, documented in init_db, may clear it otherwise.
OnlyOperatorClears ==
    [][liq_feed_status = "unavailable" /\ liq_feed_status' # "unavailable" =>
         ForceWrites \/ Override \/ FeedRestart]_feedVars

\* The orchestrator's comment: the operator can re-enable the strategy by the override request.
OverrideReenables ==
    [][liq_feed_status = "unavailable" /\ Override => LiqCanRun']_feedVars

\* The model's comment: "validated" means at least one liquidation has been seen; so with the
\* listener's write done and no fault or operator involved, that is the status.
SeenMeansValidated ==
    _feed_validated_marked /\ listening = "idle" /\ ~cleared /\ faults = 0 =>
        liq_feed_status = "validated"

=============================================================================
