---------------------------- MODULE MCInstances -----------------------------
(***************************************************************************)
(* Values for the constants of PaperTrading and the modules above it.      *)
(* Two coins with the pairs the code ticks (liquidation fade on every      *)
(* coin, the wall on BTC), or one pair where the question is not which.    *)
(***************************************************************************)
EXTENDS Integers

TwoCoins == {"BTC", "ETH"}
BothStrategies == {"liquidation_fade", "liquidity_wall"}
CodePairs == (TwoCoins \X {"liquidation_fade"}) \cup {<<"BTC", "liquidity_wall">>}

OneCoin == {"BTC"}
OneStrategy == {"liquidation_fade"}
OnePair == OneCoin \X OneStrategy

WinOrLoss == {-1, 1}
OnlyLoss == {-1}
OnlyWin == {1}

=============================================================================
