---------------------------- MODULE PaperAccount ----------------------------
(***************************************************************************)
(* What the account is worth when several tasks close trades.  Each posts  *)
(* a result by writing the whole account back as it had read it, with the  *)
(* result added, so that a posting of another task in between is lost.     *)
(* The history variables name the postings, those the account has kept,    *)
(* and those it had when the closers now about to write read it.           *)
(***************************************************************************)
EXTENDS PaperTrading, FiniteSetsExt

VARIABLES posted, kept, read

accountVars == <<vars, posted, kept, read>>

AccountInit == Init /\ posted = <<>> /\ kept = {} /\ read = [p \in Closers |-> {}]

Posts(p) == at[p] = "updating" /\ at'[p] = "returning"

AccountNext ==
    /\ Next
    /\ read' = [p \in Closers |->
                   IF at'[p] # "updating" THEN {}
                   ELSE IF at[p] = "updating" THEN read[p] ELSE kept]
    /\ IF \E p \in Closers : Posts(p)
       THEN \E p \in Closers :
               /\ Posts(p)
               /\ posted' = Append(posted, [pnl |-> job[p].pnl, date |-> job[p].account.date])
               /\ kept' = read[p] \cup {Len(posted) + 1}
       ELSE UNCHANGED <<posted, kept>>

AccountSpec == AccountInit /\ [][AccountNext]_accountVars

Sum(S) == MapThenSumSet(LAMBDA n : posted[n].pnl, S)

\* However the closers interleave and whatever is lost, the account is that of some postings, each
\* counted once: the equity, the result of the day the limit rests on and the losses in a row are
\* about the same ones.
AccountOfKept ==
    /\ account.equity = StartBalance + Sum(kept)
    /\ account.daily = Sum({n \in kept : posted[n].date = account.date})
    /\ account.consec <= Cardinality({n \in kept : posted[n].pnl < 0})
    /\ account.peak >= account.equity

\* Nothing is lost, as long as no emergency stop closes trades next to the manager.
NothingLost == kept = DOMAIN posted

=============================================================================
