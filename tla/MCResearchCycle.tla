----------------------------- MODULE MCResearchCycle -----------------------------
(* ResearchCycle for TLC: two workers and a reviewer, two families of which  *)
(* the budget cuts the second, and a gate that asks for two symbols.         *)
EXTENDS ResearchCycle

CONSTANTS w1, w2

Workers == {w1, w2}
Callers == Workers \cup {Reviewer}
Families == <<"momentum_trend", "cross_asset_regime">>
StrategiesOf == [f \in {"momentum_trend", "cross_asset_regime"} |-> <<f>>]
Universe == <<"BTC", "ETH">>
OneFrame == <<"4h">>
Measured ==
    {[positive |-> TRUE, sound |-> TRUE, dsr |-> 1],
     [positive |-> TRUE, sound |-> TRUE, dsr |-> 2]}
Candidates == {Id(k) : k \in 1..MaxHypotheses}
================================================================================
