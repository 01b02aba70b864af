--------------------------- MODULE ExecutionCalibration ---------------------------
(***************************************************************************)
(* What simulated execution should cost, learnt from the Demo orders that    *)
(* were really made and the quotes around them                               *)
(* (src/execution/calibration.py): each order is joined to the quote of its  *)
(* decision, the joined orders of a market give quantiles of spread,         *)
(* slippage, latency and fill, and the quotes after a fill say how it was    *)
(* met by the market.                                                        *)
(*                                                                         *)
(* One market; times and prices are integers, costs are price differences.   *)
(* A quantile is kept a hundredfold, so that its interpolation is exact.     *)
(***************************************************************************)
EXTENDS Integers, Sequences, FiniteSets, SequencesExt

CONSTANTS
    MaxQuoteAge,      \* maximum_quote_age_seconds
    MaxObsAge,        \* maximum_observation_age_seconds
    MinFilled,        \* minimum_filled_samples_per_market
    MaxIssuePercent,  \* maximum_join_issue_fraction
    MarkoutHorizons   \* MARKOUT_HORIZONS_SECONDS

ASSUME CalibrationAssumption ==
    /\ {MaxQuoteAge, MaxObsAge, MinFilled} \subseteq Nat \ {0}
    /\ MaxIssuePercent \in 0..100 /\ MarkoutHorizons \subseteq Nat \ {0}

VARIABLES
    observed,      \* orders: id -> [side, asked, decided, sent, resolved, price, filled]
    quotes,        \* [at, seq, bid, ask]
    calibratedAt,  \* calibrated_at_utc
    joined,        \* what was joined: id -> [quote, issue]
    learnt         \* the calibration and the markouts; before, <<>>

calVars == <<observed, quotes, calibratedAt, joined, learnt>>

(* PaperOrderObservation: times in order, and a fill of some or none.        *)
WellFormedOrder(o) ==
    /\ o.decided <= o.sent /\ o.sent <= o.resolved
    /\ IF o.filled = 0 THEN o.price = 0 ELSE o.price > 0 /\ o.filled <= o.asked
(* TopOfBookQuote: never locked or crossed, one of a time and number.        *)
WellFormedQuotes == \A q \in quotes : q.bid < q.ask /\ \A r \in quotes \ {q} : <<q.at, q.seq>> # <<r.at, r.seq>>

QuoteBefore(q, r) == q.at < r.at \/ (q.at = r.at /\ q.seq < r.seq)
SortedQuotes == SetToSortSeq(quotes, QuoteBefore)

(* join_orders_to_prior_quotes: the last quote that is not later than the    *)
(* decision.                                                                 *)
Mutant_KnownWhenSent(o) == SelectSeq(SortedQuotes, LAMBDA q : q.at <= o.sent)
KnownQuotes(o) == SelectSeq(SortedQuotes, LAMBDA q : q.at <= o.decided)
Joined(o) ==
    LET known == KnownQuotes(o)
    IN  IF known = <<>> THEN [quote |-> <<>>, issue |-> "MISSING_QUOTE"]
        ELSE [quote |-> <<Last(known)>>, issue |-> IF o.decided - Last(known).at > MaxQuoteAge THEN "STALE_QUOTE" ELSE "none"]

Rejected(id) == observed[id].filled = 0
ValidForCost(id) == ~Rejected(id) /\ joined[id].issue = "none"
FilledIds == {id \in DOMAIN observed : ValidForCost(id)}

(***************************************************************************)
(* _quantile: linear between two neighbours of the sorted values; percent is *)
(* the probability, the answer a hundredfold.                                *)
(***************************************************************************)
Mutant_WeightsSwapped(values, percent) ==
    LET s == SortSeq(values, <)
        position == (Len(s) - 1) * percent
        low == position \div 100
        weight == position % 100
    IN  IF weight = 0 THEN 100 * s[low + 1] ELSE s[low + 1] * weight + s[low + 2] * (100 - weight)
Quantile(values, percent) ==
    LET s == SortSeq(values, <)
        position == (Len(s) - 1) * percent
        low == position \div 100
        weight == position % 100
    IN  IF weight = 0 THEN 100 * s[low + 1] ELSE s[low + 1] * (100 - weight) + s[low + 2] * weight
Sample(Value(_), ids) == LET order == SetToSortSeq(ids, <) IN [n \in DOMAIN order |-> Value(order[n])]
Quantiles(Value(_), ids, percents) == [p \in percents |-> Quantile(Sample(Value, ids), p)]

SpreadOf(id) == joined[id].quote[1].ask - joined[id].quote[1].bid
Slippage(id) ==
    LET o == observed[id]
        q == joined[id].quote[1]
    IN  IF o.side = "buy" THEN o.price - q.ask ELSE q.bid - o.price
Latency(id) == observed[id].resolved - observed[id].sent
FillRatio(id) == (100 * observed[id].filled) \div observed[id].asked

(* _calibrate_bucket: refused for old orders, too many without their quote,  *)
(* too few fills.                                                            *)
Issues == {id \in DOMAIN observed : joined[id].issue # "none"}
Calibratable ==
    /\ \A id \in DOMAIN observed : observed[id].decided <= calibratedAt
    /\ calibratedAt - Max({observed[id].decided : id \in DOMAIN observed}) <= MaxObsAge
    /\ 100 * Cardinality(Issues) <= MaxIssuePercent * Cardinality(DOMAIN observed)
    /\ Cardinality(FilledIds) >= MinFilled
MarketBucket ==
    [observations |-> Cardinality(DOMAIN observed), filled |-> Cardinality(FilledIds),
     rejected |-> Cardinality({id \in DOMAIN observed : Rejected(id)}), issues |-> Cardinality(Issues),
     partial |-> Cardinality({id \in FilledIds : observed[id].filled < observed[id].asked}),
     spread |-> Quantiles(SpreadOf, FilledIds, {50, 95, 99}), slippage |-> Quantiles(Slippage, FilledIds, {50, 95, 99}),
     latency |-> Quantiles(Latency, FilledIds, {50, 95, 99}), ratio |-> Quantiles(FillRatio, FilledIds, {1, 5})]

(* assumptions_from_calibration: what a scenario takes for granted and what  *)
(* it adds at random.                                                        *)
AtLeastZero(x) == Max({0, x})
Mutant_AdverseIsBounded(b, scenario) ==
    IF scenario = "ADVERSE" THEN [level |-> 95, beyond |-> 95, ratio |-> 1] ELSE [level |-> 50, beyond |-> 99, ratio |-> 5]
Taken(b, scenario) ==
    CASE scenario = "BASE" -> [level |-> 50, beyond |-> 95, ratio |-> 5]
      [] scenario = "ADVERSE" -> [level |-> 95, beyond |-> 99, ratio |-> 1]
      [] OTHER -> [level |-> 99, beyond |-> 99, ratio |-> 1]
Assumptions(b, scenario) ==
    LET t == Taken(b, scenario)
        cost(q) == [sure |-> AtLeastZero(q[t.level]), jitter |-> AtLeastZero(q[t.beyond] - q[t.level])]
    IN  [slippage |-> cost(b.slippage), latency |-> cost(b.latency), spread |-> AtLeastZero(b.spread[t.level]),
         ratio |-> b.ratio[t.ratio]]

(* compute_markout_calibration: the first quote a horizon after the fill,     *)
(* none when the quotes end before; twice the move, signed as the order.     *)
After(id, h) == SelectSeq(SortedQuotes, LAMBDA q : q.at >= observed[id].resolved + h)
Mutant_NearestToTheFill(id, h) ==
    LET from == SelectSeq(SortedQuotes, LAMBDA q : q.at >= observed[id].decided) IN IF from = <<>> THEN <<>> ELSE <<Head(from)>>
MarkoutQuote(id, h) == IF After(id, h) = <<>> THEN <<>> ELSE <<Head(After(id, h))>>
Markout(id, h) ==
    LET q == MarkoutQuote(id, h)[1]
        move == q.bid + q.ask - 2 * observed[id].price
    IN  IF observed[id].side = "buy" THEN move ELSE -move
Measured(h) == {id \in FilledIds : MarkoutQuote(id, h) # <<>>}
Markouts == [h \in {k \in MarkoutHorizons : Measured(k) # {}} |->
                [size |-> Cardinality(Measured(h)), adverse |-> Cardinality({id \in Measured(h) : Markout(id, h) < 0}),
                 middle |-> Quantile([n \in 1..Cardinality(Measured(h)) |->
                                        Markout(SetToSortSeq(Measured(h), <)[n], h)], 50)]]

CalibrationInit == joined = <<>> /\ learnt = <<>>
JoinsOrders ==
    /\ joined = <<>> /\ WellFormedQuotes /\ \A id \in DOMAIN observed : WellFormedOrder(observed[id])
    /\ joined' = [id \in DOMAIN observed |-> Joined(observed[id])]
    /\ UNCHANGED <<observed, quotes, calibratedAt, learnt>>
Calibrates ==
    /\ joined # <<>> /\ learnt = <<>> /\ Calibratable
    /\ learnt' = <<[bucket |-> MarketBucket, markouts |-> Markouts]>>
    /\ UNCHANGED <<observed, quotes, calibratedAt, joined>>
CalibrationNext == JoinsOrders \/ Calibrates

-----------------------------------------------------------------------------
Scenarios == <<"BASE", "ADVERSE", "SEVERE">>
Worst(a) == [slippage |-> a.slippage.sure + a.slippage.jitter, latency |-> a.latency.sure + a.latency.jitter]
DearerOrEqual(a, b) ==    \* a costs at least what b costs
    /\ Worst(a).latency >= Worst(b).latency
    /\ a.slippage.sure >= b.slippage.sure /\ a.latency.sure >= b.latency.sure
    /\ a.spread >= b.spread /\ a.ratio <= b.ratio

(***************************************************************************)
(* A calibration is made of what was known (join_orders_to_prior_quotes,     *)
(* calibrate_execution, compute_markout_calibration): the quote of an order  *)
(* is the latest that whoever decided it could see, so that none that came   *)
(* later moves its cost, and never the one its markout is measured at; every *)
(* observation is counted in its place; and a worse scenario is never        *)
(* cheaper, in what it charges for certain and, unless half of the orders    *)
(* were filled better than the touch, in what it can charge.                 *)
(***************************************************************************)
CalibrationIsCausal ==
    /\ \A id \in DOMAIN joined :
          LET seen == {q \in quotes : q.at <= observed[id].decided}
          IN  /\ joined[id].issue = "MISSING_QUOTE" <=> seen = {}
              /\ seen # {} =>
                    /\ joined[id].quote[1] \in seen /\ \A q \in seen : ~QuoteBefore(joined[id].quote[1], q)
                    /\ joined[id].issue = "none" <=> \E q \in seen : q.at >= observed[id].decided - MaxQuoteAge
              /\ ValidForCost(id) => \A h \in MarkoutHorizons :
                    MarkoutQuote(id, h) # <<>> => QuoteBefore(joined[id].quote[1], MarkoutQuote(id, h)[1])
    /\ learnt # <<>> =>
          LET b == learnt[1].bucket IN
          /\ b.filled + b.rejected + b.issues >= b.observations /\ b.filled <= b.observations - b.rejected
          /\ \A i, k \in 1..3 : i < k =>
                LET worse == Assumptions(b, Scenarios[k])
                    better == Assumptions(b, Scenarios[i])
                IN  DearerOrEqual(worse, better) /\ (b.slippage[50] >= 0 => Worst(worse).slippage >= Worst(better).slippage)
          /\ \A q \in {b.spread, b.slippage, b.latency} : q[50] <= q[95] /\ q[95] <= q[99]
          /\ 100 * Max({Slippage(id) : id \in FilledIds}) >= b.slippage[99]
          /\ \A h, k \in DOMAIN learnt[1].markouts : h < k => learnt[1].markouts[k].size <= learnt[1].markouts[h].size
===================================================================================
