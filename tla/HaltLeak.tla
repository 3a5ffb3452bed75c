------------------------------ MODULE HaltLeak ------------------------------
(***************************************************************************)
(* How much a pause leaks.  The pause flag is read once, at the head of    *)
(* check_can_trade, and a pause from any side (the operator, an emergency  *)
(* stop, the risk manager itself) may be committed while a signal is past  *)
(* that point.  A history variable counts the trades opened since the bot  *)
(* was last paused.                                                        *)
(***************************************************************************)
EXTENDS PaperTrading

VARIABLE leaked

haltVars == <<vars, leaked>>

HaltInit == Init /\ leaked = 0

HaltNext ==
    /\ Next
    /\ leaked' = IF is_paused /\ is_paused'
                 THEN leaked + (Len(paper_trades') - Len(paper_trades)) ELSE 0

HaltSpec == HaltInit /\ [][HaltNext]_haltVars

\* A pause that lasts lets at most one more trade through, whoever paused, however often the
\* strategies signal, and whatever the operator did before.
LeakAtMostOne == leaked <= 1

\* The strengthening: while paused, a signal past the check has not been joined by another.
HaltInv ==
    /\ leaked \in {0, 1}
    /\ is_paused /\ opc \in {"count", "open"} => leaked = 0

=============================================================================
