------------------------------- MODULE Ledger -------------------------------
(***************************************************************************)
(* What paper trading promises of its books, without tasks or awaits: a    *)
(* position is entered once and settled once; settling it adds its result  *)
(* to the equity in one step and the peak follows.  A crash or a database  *)
(* error may forfeit a result, one per fault.                              *)
(***************************************************************************)
EXTENDS Integers, FiniteSets

CONSTANTS Positions, Results, StartEquity, MaxForfeits

VARIABLES position, result, equity, peak

ledgerVars == <<position, result, equity, peak>>

Start ==
    /\ position = [t \in Positions |-> "none"]
    /\ result = [t \in Positions |-> 0]
    /\ equity = StartEquity /\ peak = StartEquity

Enter(t) ==
    /\ position[t] = "none"
    /\ position' = [position EXCEPT ![t] = "open"]
    /\ UNCHANGED <<result, equity, peak>>

Settle(t) ==
    /\ position[t] = "open"
    /\ position' = [position EXCEPT ![t] = "settled"]
    /\ \E r \in Results :
        /\ result' = [result EXCEPT ![t] = r]
        /\ equity' = equity + r
        /\ peak' = IF equity + r > peak THEN equity + r ELSE peak

Forfeit(t) ==
    /\ position[t] = "open"
    /\ Cardinality({u \in Positions : position[u] = "forfeited"}) < MaxForfeits
    /\ position' = [position EXCEPT ![t] = "forfeited"]
    /\ UNCHANGED <<result, equity, peak>>

Step == \E t \in Positions : Enter(t) \/ Settle(t) \/ Forfeit(t)

LedgerSpec == Start /\ [][Step]_ledgerVars

=============================================================================
