-------------------------- MODULE FeedStatusProofs --------------------------
(* Proofs about FeedStatus for all values of its constants.                *)
EXTENDS FeedStatus, TLAPS

\* Listener, validation loop, requests and restarts keep the types; so a status is one of three.
THEOREM FeedTypeCorrect == FeedSpec => []FeedTypeOK
<1> DEFINE Flags == /\ liq_fade_enabled \in BOOLEAN /\ liq_seen \in BOOLEAN /\ hundred_trades \in BOOLEAN
                    /\ _feed_validated_marked \in BOOLEAN /\ with_liq \in BOOLEAN
                    /\ trades_total \in BOOLEAN /\ cleared \in BOOLEAN
           Others == /\ liq_feed_status \in {"unknown", "validated", "unavailable"}
                     /\ listening \in {"idle", "sampling", "marking"}
                     /\ validation \in {"waiting", "stamping", "dead"} \cup Verdicts
                     /\ toggling \in {"idle", "enable", "force"}
                     /\ faults \in Nat
<1>1. FeedInit => Flags /\ Others
  <2>1. FeedInit => Flags
    BY DEF FeedInit
  <2>2. FeedInit => Others
    BY DEF FeedInit
  <2>3. QED
    BY <2>1, <2>2
<1>2. Flags /\ [FeedNext]_feedVars => Flags'
  <2> SUFFICES ASSUME Flags, [FeedNext]_feedVars PROVE Flags'
    OBVIOUS
  <2> USE DEF dbVars, listenerVars, loopVars
  <2>1. CASE Listener
    BY <2>1 DEF Listener, HundredTrades, LiquidationArrives, FirstLiquidation,
                ListenerMarks, ListenerMarkFails
  <2>2. CASE Validation
    BY <2>2 DEF Validation, Decide, ReadCounters, Inconclusive, Refuse,
                Pass, ValidationDies
  <2>3. CASE FeedOperator
    BY <2>3 DEF FeedOperator, ToggleOff, ToggleReads, ToggleWrites,
                ForceWrites, Override
  <2>4. CASE FeedRestart \/ UNCHANGED feedVars
    BY <2>4 DEF FeedRestart, feedVars
  <2>5. QED
    BY <2>1, <2>2, <2>3, <2>4 DEF FeedNext
<1>3. Others /\ [FeedNext]_feedVars => Others'
  <2> SUFFICES ASSUME Others, [FeedNext]_feedVars PROVE Others'
    OBVIOUS
  <2> USE DEF dbVars, listenerVars, loopVars, Verdicts
  <2>1. CASE Listener
    BY <2>1 DEF Listener, HundredTrades, LiquidationArrives, FirstLiquidation,
                ListenerMarks, ListenerMarkFails
  <2>2. CASE Validation
    BY <2>2 DEF Validation, Decide, ReadCounters, Inconclusive, Refuse,
                Pass, ValidationDies
  <2>3. CASE FeedOperator
    BY <2>3 DEF FeedOperator, ToggleOff, ToggleReads, ToggleWrites,
                ForceWrites, Override
  <2>4. CASE FeedRestart \/ UNCHANGED feedVars
    BY <2>4 DEF FeedRestart, feedVars
  <2>5. QED
    BY <2>1, <2>2, <2>3, <2>4 DEF FeedNext
<1>4. FeedTypeOK <=> Flags /\ Others
  BY DEF FeedTypeOK
<1> HIDE DEF Flags, Others
<1>5. QED
  BY <1>1, <1>2, <1>3, <1>4, PTL DEF FeedSpec

\* Every step of the two tasks, the operator and a restart keeps the evidence.
LEMMA EvidenceStep ==
    ASSUME EvidenceInv, [FeedNext]_feedVars
    PROVE  EvidenceInv'
<1> USE DEF EvidenceInv, ValidatedOnEvidence, dbVars, listenerVars, loopVars
<1>1. CASE HundredTrades
  BY <1>1 DEF HundredTrades
<1>2. CASE LiquidationArrives
  BY <1>2 DEF LiquidationArrives
<1>3. CASE FirstLiquidation
  BY <1>3 DEF FirstLiquidation
<1>4. CASE ListenerMarks \/ ListenerMarkFails
  BY <1>4 DEF ListenerMarks, ListenerMarkFails
<1>5. CASE ReadCounters
  BY <1>5 DEF ReadCounters
<1>6. CASE Inconclusive \/ ValidationDies
  BY <1>6 DEF Inconclusive, ValidationDies
<1>7. CASE Refuse
  BY <1>7 DEF Refuse
<1>8. CASE Pass
  BY <1>8 DEF Pass
<1>9. CASE ToggleOff \/ ToggleReads \/ ToggleWrites
  BY <1>9 DEF ToggleOff, ToggleReads, ToggleWrites
<1>10. CASE ForceWrites \/ Override
  BY <1>10 DEF ForceWrites, Override
<1>11. CASE FeedRestart
  BY <1>11 DEF FeedRestart
<1>12. CASE UNCHANGED feedVars
  BY <1>12 DEF feedVars
<1>13. QED
  BY <1>1, <1>2, <1>3, <1>4, <1>5, <1>6, <1>7, <1>8, <1>9, <1>10, <1>11, <1>12
     DEF FeedNext, Listener, Validation, Decide, FeedOperator

\* Nobody is ever about to write "validated" without evidence, and "unavailable" is only there after
\* a refusal, with any requests and any number of faults.
THEOREM EvidenceHolds == FeedSpec => []EvidenceInv
<1>1. FeedInit => EvidenceInv
  BY DEF FeedInit, EvidenceInv, ValidatedOnEvidence
<1>2. QED
  BY <1>1, EvidenceStep, PTL DEF FeedSpec

\* "validated" is never a guess: this process saw a liquidation, or the operator vouched for it.
THEOREM NoValidationWithoutEvidence == FeedSpec => []ValidatedOnEvidence
<1>1. EvidenceInv => ValidatedOnEvidence
  BY DEF EvidenceInv
<1>2. QED
  BY <1>1, EvidenceHolds, PTL

\* A refused feed blocks the strategy until a liquidation is seen or the operator clears the
\* status, whatever is toggled and however the requests interleave with the two tasks.
THEOREM RefusalIsKept == FeedSpec => []RefusalStands
<1>1. EvidenceInv => RefusalStands
  BY DEF EvidenceInv, RefusalStands, LiqCanRun
<1>2. QED
  BY <1>1, EvidenceHolds, PTL

=============================================================================
