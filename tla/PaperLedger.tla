---------------------------- MODULE PaperLedger -----------------------------
(***************************************************************************)
(* PaperTrading, with the trade manager as the only closer, implements     *)
(* Ledger.  The history variable booked holds the trades whose result has  *)
(* reached the bot_state row; a trade that is closed in paper_trades but   *)
(* not yet booked is still open in the ledger while its close is under     *)
(* way, and forfeited when a fault cut the close short.  The module builds *)
(* on HaltLeak so that one exploration serves both histories.              *)
(***************************************************************************)
EXTENDS HaltLeak, FiniteSetsExt

VARIABLE booked

bookVars == <<haltVars, booked>>

BookInit == HaltInit /\ booked = {}

BookNext ==
    /\ HaltNext
    /\ booked' = IF at[Manager] = "updating" /\ at'[Manager] = "returning"
                 THEN booked \cup {job[Manager].trade} ELSE booked

BookSpec == BookInit /\ [][BookNext]_bookVars

Position(t) ==
    CASE t \notin DOMAIN paper_trades -> "none"
      [] t \in booked -> "settled"
      [] \/ t \in OpenIds
         \/ job[Manager].trade = t /\ at[Manager] \in {"booking", "updating"} -> "open"
      [] OTHER -> "forfeited"

Books == INSTANCE Ledger WITH
    Positions   <- 1..MaxTrades,
    Results     <- Pnls,
    StartEquity <- StartBalance,
    MaxForfeits <- MaxFaults,
    position    <- [t \in 1..MaxTrades |-> Position(t)],
    result      <- [t \in 1..MaxTrades |-> IF t \in booked THEN paper_trades[t].pnl ELSE 0],
    equity      <- account.equity,
    peak        <- account.peak

\* The split, fallible close behaves as an atomic settlement: every result is booked once and
\* in full, or is lost to a fault that hit between the two commits, one trade per fault.
ImplementsLedger == Books!LedgerSpec

\* The equity is the starting balance and the results booked, as the table holds them.
EquityIsSum ==
    account.equity = StartBalance + MapThenSumSet(LAMBDA t : paper_trades[t].pnl, booked)

=============================================================================
