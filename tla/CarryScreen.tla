------------------------------ MODULE CarryScreen ------------------------------
(***************************************************************************)
(* The replay that asks whether funding of one perpetual at two venues would *)
(* have paid: hour by hour over stored rates and prices, the neutral engine  *)
(* decides for both directions, and a pair that is entered is held for the   *)
(* horizon and settled with the rates that were really paid.  The loop reads *)
(* the whole history, the entry must not.                                    *)
(*                                                                           *)
(* Prices are levels in basis points, rates basis points; one coin.          *)
(***************************************************************************)
EXTENDS DecisionEngines

CONSTANTS HoldHours,      \* HORIZON_HOURS (24)
          SettleEvery,     \* hours between settlements at Bybit (8); hourly at Hyperliquid
          LastHour,        \* hours of the stored history
          Rates, Levels,   \* rates per hour and price levels that are tried
          Uncertainty,     \* model_uncertainty_bps (5)
          HalfSpread,      \* of each venue, observed when the screen is run
          SafetyBuffer,    \* SAFETY_BUFFER_BPS (10)
          PairCost         \* the cost range of the entry scenario, taker at both venues

VARIABLES rows,       \* the stored history: rates and prices of both venues, hour -> value
          atHour,     \* that the loop looks at next
          nextFree,   \* direction -> the hour in which its last episode ends
          episodes    \* that were entered

carryVars == <<rows, atHour, nextFree, episodes>>

Venues == {"bybit", "hyperliquid"}
LongVenue(direction) == IF direction = "long_bybit_short_hl" THEN "bybit" ELSE "hyperliquid"
ShortVenue(direction) == IF direction = "long_bybit_short_hl" THEN "hyperliquid" ELSE "bybit"
Directions == {"long_bybit_short_hl", "long_hl_short_bybit"}

(* The last row that is not later. *)
Mutant_NearestRow(column, h) ==
    LET next == {t \in DOMAIN column : h <= t}
    IN  IF next # {} THEN column[Min(next)] ELSE column[Max(DOMAIN column)]
AsOf(column, h) == column[Max({t \in DOMAIN column : t <= h})]
HasRow(column, h) == \E t \in DOMAIN column : t <= h
Readable(r, h) == \A v \in Venues : HasRow(r.price[v], h) /\ HasRow(r.rate[v], h)

(* Bybit's rate is that of its last settlement, spread over the hours between two. *)
HourlyRate(r, venue, h) ==
    LET rate == AsOf(r.rate[venue], h)
    IN  IF venue = "bybit" THEN rate \div SettleEvery ELSE rate
Ask(r, venue, h) == AsOf(r.price[venue], h) + HalfSpread
Bid(r, venue, h) == AsOf(r.price[venue], h) - HalfSpread

EntryBasis(r, direction, h) == Bid(r, ShortVenue(direction), h) - Ask(r, LongVenue(direction), h)
FundingDifferential(r, direction, h) ==
    (HourlyRate(r, ShortVenue(direction), h) - HourlyRate(r, LongVenue(direction), h)) * HoldHours
GrossEdge(r, direction, h) ==
    LET base == EntryBasis(r, direction, h) + FundingDifferential(r, direction, h)
    IN  [low |-> base - Uncertainty, base |-> base, high |-> base + Uncertainty]

(* Each family votes for the pair when its part of the edge is positive. *)
Vote(part) == IF part > 0 THEN 1 ELSE IF part < 0 THEN -1 ELSE 0
PairRequest(r, direction, h) ==
    [symbol |-> "coin", decided |-> h, cutoff |-> h, closed |-> {}, capacity |-> 1,
     evidence |-> {One("derivatives", Vote(FundingDifferential(r, direction, h)), TRUE, h),
                   One("cross_market", Vote(EntryBasis(r, direction, h)), TRUE, h)},
     gross |-> GrossEdge(r, direction, h), cost |-> PairCost, minimum |-> SafetyBuffer,
     tradable |-> TRUE, bounded |-> TRUE]
Approved(r, direction, h) == EvaluateNeutral(PairRequest(r, direction, h)).action = "ARBITRAGE"

(***************************************************************************)
(* What an episode pays: the change of the basis, and every settlement after *)
(* its entry up to its exit, at the rates as they were settled.              *)
(***************************************************************************)
Mutant_BothEnds(column, entry, exit) == {t \in DOMAIN column : entry <= t /\ t <= exit}
Settled(column, entry, exit) == {t \in DOMAIN column : entry < t /\ t <= exit}
Paid(r, venue, entry, exit) ==
    FoldSet(LAMBDA t, sum : r.rate[venue][t] + sum, 0, Settled(r.rate[venue], entry, exit))
Basis(r, h) == AsOf(r.price["bybit"], h) - AsOf(r.price["hyperliquid"], h)
BasisGain(r, direction, entry, exit) ==
    LET change == Basis(r, exit) - Basis(r, entry)
    IN  IF LongVenue(direction) = "bybit" THEN change ELSE 0 - change
FundingGain(r, direction, entry, exit) ==
    Paid(r, ShortVenue(direction), entry, exit) - Paid(r, LongVenue(direction), entry, exit)

Episode(r, direction, entry) ==
    [direction |-> direction, entry |-> entry, exit |-> entry + HoldHours,
     funding |-> FundingGain(r, direction, entry, entry + HoldHours),
     basis |-> BasisGain(r, direction, entry, entry + HoldHours)]

(***************************************************************************)
(* Behaviour.                                                               *)
(***************************************************************************)
Hours == 0..LastHour
LastCommon == Min({Max(DOMAIN rows.price[v]) : v \in Venues})

AnyHistory ==
    \E hl \in [Hours -> Rates], by \in [{h \in Hours : h % SettleEvery = 0} -> Rates],
       level \in [Hours -> Levels], lost \in {0, 2, LastHour, LastHour + 1} :
        rows = [rate |-> [v \in Venues |-> IF v = "bybit" THEN [h \in DOMAIN by |-> by[h] * SettleEvery] ELSE hl],
                  price |-> [v \in Venues |-> IF v = "bybit" THEN level
                                               ELSE [h \in Hours \ {lost} |-> 0]]]
CarryStart ==
    /\ atHour = Max({Min(DOMAIN rows.price[v]) : v \in Venues})
    /\ nextFree = [d \in Directions |-> 0] /\ episodes = {}
CarryInit == AnyHistory /\ CarryStart

(* The better of the approved directions that are free; its mirror may be held. *)
ScreensHour ==
    /\ atHour + HoldHours <= LastCommon
    /\ atHour' = atHour + 1
    /\ LET open == {d \in Directions : Readable(rows, atHour) /\ Approved(rows, d, atHour) /\ atHour >= nextFree[d]}
           best == {d \in open : \A e \in open : GrossEdge(rows, e, atHour).base <= GrossEdge(rows, d, atHour).base}
       IN  IF open = {} THEN UNCHANGED <<nextFree, episodes>>
           ELSE \E d \in best :
                   /\ episodes' = episodes \union {Episode(rows, d, atHour)}
                   /\ nextFree' = [nextFree EXCEPT ![d] = atHour + HoldHours]
    /\ UNCHANGED rows

CarryNext == ScreensHour

(***************************************************************************)
(* Properties.                                                              *)
(***************************************************************************)
Until(column, h) == [t \in {u \in DOMAIN column : u <= h} |-> column[t]]
KnownAt(h) == [rate  |-> [v \in Venues |-> Until(rows.rate[v], h)],
               price |-> [v \in Venues |-> Until(rows.price[v], h)]]
InOne(direction) == {e \in episodes : e.direction = direction}

(***************************************************************************)
(* An episode would have been entered by a program that had been shown       *)
(* nothing later than its entry, and with the worst edge above the buffer.   *)
(* In one direction nothing is held twice at a time, and the settlements     *)
(* from the first entry of a chain of episodes to its last exit are each     *)
(* paid once, neither twice where one episode ends as the next begins nor    *)
(* never.                                                                    *)
(***************************************************************************)
EpisodesAreCausal ==
    /\ \A e \in episodes :
          /\ Approved(KnownAt(e.entry), e.direction, e.entry)
          /\ GrossEdge(KnownAt(e.entry), e.direction, e.entry).low - PairCost.high > SafetyBuffer
    /\ \A e, f \in episodes : e.direction = f.direction /\ e.entry < f.entry => e.exit <= f.entry
    /\ \A d \in Directions :
          LET held(t) == \E e \in InOne(d) : e.entry < t /\ t <= e.exit
              paid(v) == FoldSet(LAMBDA t, sum : rows.rate[v][t] + sum, 0, {t \in DOMAIN rows.rate[v] : held(t)})
          IN  FoldSet(LAMBDA e, sum : e.funding + sum, 0, InOne(d)) = paid(ShortVenue(d)) - paid(LongVenue(d))
================================================================================
