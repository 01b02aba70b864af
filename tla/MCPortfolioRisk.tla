---------------------------- MODULE MCPortfolioRisk ----------------------------
(* PortfolioRisk for TLC: three keys in two or three values of a dimension.  *)
EXTENDS PortfolioRisk, TLC

CONSTANTS k1, k2, k3

Keys == {k1, k2, k3}
Dimensions == {"symbol", "venue"}
Profiles ==
    k1 :> [symbol |-> "btc", venue |-> "bybit"]
    @@ k2 :> [symbol |-> "btc", venue |-> "okx"]
    @@ k3 :> [symbol |-> "eth", venue |-> "okx"]
BtcWithEth == {{"btc", "eth"}}
BucketPcts == [symbol |-> 50, venue |-> 50]
PnlSteps == {-1, 1}
================================================================================
