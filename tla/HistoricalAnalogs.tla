---------------------------- MODULE HistoricalAnalogs ----------------------------
(***************************************************************************)
(* The search for moments of the past that looked like now                   *)
(* (src/regimes/analogs.py), and the evidence made of what followed them     *)
(* (src/engines/regime_analog_evidence.py).  The frame it is given may go on *)
(* after the query: what the answer says must not.                           *)
(*                                                                         *)
(* A bar is [at, close, regime, sound, feature]: one family of one feature,  *)
(* and quality that is sufficient or not.  Of a return only its sign is      *)
(* kept, of a distribution its size and its share of gains.                  *)
(***************************************************************************)
EXTENDS Integers, Sequences, FiniteSets, SequencesExt

CONSTANTS
    Horizons,         \* horizons_bars
    NeighborCount,    \* neighbor_count
    MinNeighbors,     \* minimum_neighbors
    MaxDistance,      \* maximum_distance
    FullSample        \* confidence_full_sample_size

ASSUME AnalogAssumption ==
    /\ Horizons # {} /\ Horizons \subseteq Nat \ {0}
    /\ {NeighborCount, MinNeighbors, MaxDistance, FullSample} \subseteq Nat \ {0}
    /\ MinNeighbors <= NeighborCount

VARIABLES
    frame,     \* the bars, by time
    cutoff,    \* query_timestamp
    analogs    \* the answer; before, <<>>

analogVars == <<frame, cutoff, analogs>>

MaxHorizon == Max(Horizons)

(* _validate_values, and the checks of the whole frame: one asset, sources   *)
(* that are not of the future, no time twice.                                *)
WellFormedFrame(bars) ==
    /\ bars # <<>>
    /\ \A i \in DOMAIN bars : bars[i].close > 0
    /\ \A i, j \in DOMAIN bars : i < j => bars[i].at < bars[j].at

(* The last bar at or before the query. *)
KnownBars(bars, t) == {i \in DOMAIN bars : bars[i].at <= t}
QueryBar(bars, t) == Max(KnownBars(bars, t))

(* Bars of sufficient quality in the regime of the query, of which even the  *)
(* longest outcome is over.                                                  *)
LastCandidate(q) == q - MaxHorizon
Candidates(bars, q) ==
    {i \in 1..LastCandidate(q) : bars[i].sound /\ bars[i].regime = bars[q].regime}

(***************************************************************************)
(* _family_distances.  A feature's scale is 1.4826 times the median absolute *)
(* deviation of the candidates (here 3/2), without one their standard        *)
(* deviation, without that one.  The distance is never written down, only    *)
(* compared: with another one, and squared with the largest allowed.         *)
(***************************************************************************)
Mutant_WholeHistory(bars, at) == [n \in 1..Len(bars) |-> bars[n].feature]
Column(bars, at) == LET order == SetToSortSeq(at, <) IN [n \in DOMAIN order |-> bars[order[n]].feature]
Twice(values) ==    \* twice the median
    LET s == SortSeq(values, <)
        n == Len(s)
    IN  s[(n + 1) \div 2] + s[(n + 2) \div 2]
Deviations(values) == [n \in DOMAIN values |-> LET d == 2 * values[n] - Twice(values) IN IF d < 0 THEN -d ELSE d]
FourMad(values) == Twice(Deviations(values))
TotalOf(values) == FoldLeft(+, 0, values)
VarianceByN2(values) == Len(values) * TotalOf([n \in DOMAIN values |-> values[n] * values[n]]) - TotalOf(values) * TotalOf(values)
Gap(bars, i, q) == LET d == bars[i].feature - bars[q].feature IN IF d < 0 THEN -d ELSE d
WithinDistance(bars, i, q, values) ==
    LET squared == Gap(bars, i, q) * Gap(bars, i, q)
        limit == MaxDistance * MaxDistance
        n == Len(values)
    IN  IF FourMad(values) > 0 THEN 64 * squared <= limit * 9 * FourMad(values) * FourMad(values)
        ELSE IF VarianceByN2(values) > 0 THEN squared * n * n <= limit * VarianceByN2(values)
        ELSE squared <= limit

(* _select_non_overlapping: nearest first, of equals the older one; a path    *)
(* that would share a bar with one that is chosen is passed over.            *)
Nearer(bars, q, i, j) == Gap(bars, i, q) < Gap(bars, j, q) \/ (Gap(bars, i, q) = Gap(bars, j, q) /\ i < j)
Mutant_AdjacentPaths(i, j) == i # j
Apart(i, j) == i - j > MaxHorizon \/ j - i > MaxHorizon
SelectNonOverlapping(bars, q, near) ==
    LET Take(chosen, i) ==
            IF Len(chosen) < NeighborCount /\ \A n \in DOMAIN chosen : Apart(i, chosen[n]) THEN Append(chosen, i) ELSE chosen
    IN  FoldLeft(Take, <<>>, SetToSortSeq(near, LAMBDA i, j : Nearer(bars, q, i, j)))

(* _neighbor: what followed, after each horizon and at worst and at best. *)
Sign(x) == IF x > 0 THEN 1 ELSE IF x < 0 THEN -1 ELSE 0
Path(bars, i, h) == {bars[k].close - bars[i].close : k \in i + 1..i + h}
Mutant_OneBarFurther(bars, i) ==
    [bar |-> bars[i].at,
     forward |-> [h \in Horizons |-> Sign(bars[IF i + h < Len(bars) THEN i + h + 1 ELSE i + h].close - bars[i].close)],
     adverse |-> [h \in Horizons |-> Min(Path(bars, i, h))], favorable |-> [h \in Horizons |-> Max(Path(bars, i, h))]]
Neighbor(bars, i) ==
    [bar |-> bars[i].at,
     forward |-> [h \in Horizons |-> Sign(bars[i + h].close - bars[i].close)],
     adverse |-> [h \in Horizons |-> Min(Path(bars, i, h))], favorable |-> [h \in Horizons |-> Max(Path(bars, i, h))]]

Distribution(found, h) ==
    [size |-> Len(found), gains |-> Cardinality({n \in DOMAIN found : found[n].forward[h] = 1})]

NoAnalogs(warning, found, eligible) ==
    [meaningful |-> FALSE, warning |-> warning, eligible |-> eligible, neighbors |-> found, outcomes |-> <<>>]

FindHistoricalAnalogs(bars, t) ==
    LET q == QueryBar(bars, t)
        like == Candidates(bars, q)
        near == {i \in like : WithinDistance(bars, i, q, Column(bars, like))}
        chosen == SelectNonOverlapping(bars, q, near)
        found == [n \in DOMAIN chosen |-> Neighbor(bars, chosen[n])]
    IN  IF ~bars[q].sound THEN NoAnalogs("query_quality_below_threshold", <<>>, 0)
        ELSE IF LastCandidate(q) < 1 THEN NoAnalogs("insufficient_history_for_outcome_embargo", <<>>, 0)
        ELSE IF like = {} THEN NoAnalogs("no_regime_and_quality_compatible_history", <<>>, 0)
        ELSE IF Len(found) < MinNeighbors
             THEN NoAnalogs("insufficient_similar_neighbors", found, Cardinality(near))
        ELSE [meaningful |-> TRUE, warning |-> "none", eligible |-> Cardinality(near), neighbors |-> found,
              outcomes |-> [h \in Horizons |-> Distribution(found, h)]]

(* regime_analog_family_evidence: the share of gains from -1 to 1 and the     *)
(* confidence of the sample, both times the sample.  Nothing without analogs.*)
AnalogEvidence(result, h) ==
    IF ~result.meaningful THEN {}
    ELSE LET o == result.outcomes[h] IN {[score |-> 2 * o.gains - o.size, confidence |-> Min({o.size, FullSample}), of |-> o.size]}

AnalogInit == analogs = <<>>
Searches ==
    /\ analogs = <<>> /\ WellFormedFrame(frame) /\ KnownBars(frame, cutoff) # {}
    /\ analogs' = <<FindHistoricalAnalogs(frame, cutoff)>>
    /\ UNCHANGED <<frame, cutoff>>

-----------------------------------------------------------------------------
(***************************************************************************)
(* Analogs are causal (find_historical_analogs): the answer is the one a     *)
(* search gives that is shown nothing after the query, no two of the         *)
(* outcomes it counts share a bar, none goes beyond the query, and whoever   *)
(* was near but is not counted is hidden by somebody who is at least as near.*)
(***************************************************************************)
BarAt(t) == CHOOSE i \in DOMAIN frame : frame[i].at = t
OutcomeBars(n) == BarAt(n.bar) + 1..BarAt(n.bar) + MaxHorizon
AnalogsAreCausal ==
    analogs # <<>> =>
        LET result == analogs[1]
            q == QueryBar(frame, cutoff)
            found == result.neighbors
            counted == {BarAt(found[n].bar) : n \in DOMAIN found}
        IN  /\ result = FindHistoricalAnalogs(SubSeq(frame, 1, q), cutoff)
            /\ \A n, m \in DOMAIN found : n # m => OutcomeBars(found[n]) \intersect OutcomeBars(found[m]) = {}
            /\ \A n \in DOMAIN found :
                  /\ OutcomeBars(found[n]) \subseteq 1..q
                  /\ frame[BarAt(found[n].bar)].regime = frame[q].regime
            /\ Len(found) < NeighborCount =>
                  \A i \in Candidates(frame, q) \ counted :
                      WithinDistance(frame, i, q, Column(frame, Candidates(frame, q))) /\ frame[q].sound =>
                          \E j \in counted : ~Apart(i, j) /\ ~Nearer(frame, q, i, j)
            /\ \A h \in Horizons : \A e \in AnalogEvidence(result, h) :
                  /\ Len(found) >= MinNeighbors /\ e.of = Len(found)
                  /\ e.score > 0 <=> 2 * Cardinality({j \in counted : frame[j + h].close > frame[j].close}) > Cardinality(counted)
==================================================================================
