------------------------------ MODULE PortfolioRisk ------------------------------
(***************************************************************************)
(* The portfolio risk engine (src/risk/portfolio_engine.py) as the SHADOW   *)
(* runtime uses it (src/execution/shadow_runtime.py): an observation stages *)
(* its one or two legs on a copy of the engine, leg by leg, and the copy    *)
(* replaces the engine only if every leg was approved; closes and the       *)
(* safety hold go the same way.  A restart restores the state of the last   *)
(* replacement, so it is a step that changes nothing here (ShadowSession    *)
(* models when the two may differ).                                         *)
(*                                                                          *)
(* Notional, equity, risk and PnL are whole units; a limit is a percentage  *)
(* of equity rounded down, and the risk of a proposal is Rate per unit of   *)
(* notional.                                                                *)
(***************************************************************************)
EXTENDS Integers, Sequences, FiniteSets, SequencesExt, SetSums

CONSTANTS
    Key,           \* keys of positions
    Dimension,     \* the buckets a position counts in: symbol, venue, strategy, engine
    Profile,       \* the value of every key in every dimension
    Correlated,    \* pairs of correlated symbols
    GrossPct, NetPct, BucketPct, CorrelatedPct,   \* exposure limits, percent of equity
    RiskMax, Rate, \* limit and rate of committed risk
    LossPct, DrawdownPct,
    MaxOpen, MinOrder,
    Size, Equity, PnlStep,                            \* inputs to choose from
    MaxDay, MaxPnl,                               \* bounds
    NoState

ASSUME BudgetAssumption ==
    /\ IsFiniteSet(Key) /\ IsFiniteSet(Dimension) /\ "symbol" \in Dimension
    /\ DOMAIN Profile = Key
    /\ \A k \in Key : DOMAIN Profile[k] = Dimension
    /\ BucketPct \in [Dimension -> Nat]
    /\ {GrossPct, NetPct, CorrelatedPct, LossPct, DrawdownPct, RiskMax, MaxDay, MaxPnl} \subseteq Nat
    /\ {Rate, MaxOpen, MinOrder} \subseteq Nat \ {0}
    /\ Size \subseteq Nat \ {0} /\ Equity \subseteq Nat \ {0} /\ PnlStep \subseteq Int

VARIABLES
    book,      \* the engine: its snapshot
    last,      \* the last observation: its equity, and whether it opened an arbitrage
    highest,   \* the highest equity of any observation
    booked,    \* what was realised on every UTC day
    late       \* the days to which the result of an earlier day was booked

riskVars == <<book, last, highest, booked, late>>

UtcDay == 1..MaxDay
Symbols == {Profile[k]["symbol"] : k \in Key}
Book == [size : [Key -> Int], risk : [Key -> Nat], peak : Nat, pnl : Int,
         day : Nat, kill : BOOLEAN]
ASSUME NoStateAssumption == NoState \notin Book

OpenKeys(b) == {k \in Key : b.size[k] # 0}
SymbolOf(k) == Profile[k]["symbol"]
Larger(m, n) == IF m >= n THEN m ELSE n
Magnitude(n) == IF n >= 0 THEN n ELSE -n
Gross(b, keys) == SumOf([k \in keys |-> Magnitude(b.size[k])])
Net(b) == SumOf(b.size)
Committed(b) == SumOf(b.risk)

Limit(pct, eq) == (pct * eq) \div 100
Bucket(d, k) == {l \in Key : Profile[l][d] = Profile[k][d]}

-----------------------------------------------------------------------------
(* evaluate_entry and record_open.                                           *)

(* _roll_day.                                                                *)
Rolled(b, day) == IF day > b.day THEN [b EXCEPT !.day = day, !.pnl = 0] ELSE b

Noted(b, p, eq) ==
    LET r == Rolled(b, p.day) IN [r EXCEPT !.peak = Larger(@, eq)]

Mutant_LossNotChecked(b, p, eq) ==
    \/ b.kill
    \/ p.key \in OpenKeys(b)
    \/ Cardinality(OpenKeys(b)) >= MaxOpen
    \/ 100 * (b.peak - eq) >= DrawdownPct * b.peak
    \/ ~({SymbolOf(k) : k \in OpenKeys(b)} \ {SymbolOf(p.key)} \subseteq p.checked)
BlockingReason(b, p, eq) ==
    \/ b.kill
    \/ p.key \in OpenKeys(b)
    \/ Cardinality(OpenKeys(b)) >= MaxOpen
    \/ 100 * b.pnl <= -LossPct * eq
    \/ 100 * (b.peak - eq) >= DrawdownPct * b.peak
    \/ ~({SymbolOf(k) : k \in OpenKeys(b)} \ {SymbolOf(p.key)} \subseteq p.checked)

Mutant_OwnSymbolOnly(p) == {k \in Key : SymbolOf(k) = SymbolOf(p.key)}
CorrelatedKeys(p) == {k \in Key : SymbolOf(k) \in {SymbolOf(p.key)} \cup p.correlated}

NetRoom(b, p, eq) ==
    IF p.size > 0 THEN Limit(NetPct, eq) - Net(b) ELSE Limit(NetPct, eq) + Net(b)

Mutant_RiskNotScaled(b, p, eq) ==
    Min({Magnitude(p.size),
         Limit(GrossPct, eq) - Gross(b, Key),
         NetRoom(b, p, eq),
         Limit(CorrelatedPct, eq) - Gross(b, CorrelatedKeys(p))}
        \cup {Limit(BucketPct[d], eq) - Gross(b, Bucket(d, p.key)) : d \in Dimension})
Mutant_NetRoomUnsigned(b, p, eq) ==
    Min({Magnitude(p.size),
         Limit(GrossPct, eq) - Gross(b, Key),
         Limit(NetPct, eq) - Net(b),
         Limit(CorrelatedPct, eq) - Gross(b, CorrelatedKeys(p)),
         (RiskMax - Committed(b)) \div Rate}
        \cup {Limit(BucketPct[d], eq) - Gross(b, Bucket(d, p.key)) : d \in Dimension})
(* The largest size within every limit; none if it is below MinOrder.        *)
Capacity(b, p, eq) ==
    Min({Magnitude(p.size),
         Limit(GrossPct, eq) - Gross(b, Key),
         NetRoom(b, p, eq),
         Limit(CorrelatedPct, eq) - Gross(b, CorrelatedKeys(p)),
         (RiskMax - Committed(b)) \div Rate}
        \cup {Limit(BucketPct[d], eq) - Gross(b, Bucket(d, p.key)) : d \in Dimension})

Approved(b, p, eq) ==
    LET n == Noted(b, p, eq) IN
    /\ p.day >= b.day
    /\ ~BlockingReason(n, p, eq)
    /\ Capacity(n, p, eq) >= MinOrder

RecordOpen(b, p, eq) ==
    LET n == Noted(b, p, eq)
        amount == Capacity(n, p, eq)
    IN [n EXCEPT !.size[p.key] = IF p.size > 0 THEN amount ELSE -amount,
                 !.risk[p.key] = Rate * amount]

(* The legs of one observation, each against the copy the ones before it     *)
(* left; NoState as soon as one is rejected.                                    *)
Mutant_LegsNotStaged(b, legs, eq) ==
    IF \A n \in DOMAIN legs : Approved(b, legs[n], eq)
    THEN FoldLeft(LAMBDA s, p : [Noted(s, p, eq) EXCEPT !.size[p.key] = RecordOpen(b, p, eq).size[p.key],
                                                        !.risk[p.key] = RecordOpen(b, p, eq).risk[p.key]],
                  b, legs)
    ELSE NoState
WithLeg(s, p, eq) == IF s # NoState /\ Approved(s, p, eq) THEN RecordOpen(s, p, eq) ELSE NoState
Staged(b, legs, eq) == FoldLeft(LAMBDA s, p : WithLeg(s, p, eq), b, legs)

(* An arbitrage is taken in full or not at all.                              *)
Mutant_PartialLegsTaken(s, legs) == TRUE
InFull(s, legs) == \A n \in DOMAIN legs : s.size[legs[n].key] = legs[n].size

-----------------------------------------------------------------------------
(* The operations of the runtime.                                            *)

RiskInit ==
    /\ book = [size |-> [k \in Key |-> 0], risk |-> [k \in Key |-> 0], peak |-> 0, pnl |-> 0,
               day |-> 0, kill |-> FALSE]
    /\ last = [equity |-> 0, arbitrage |-> FALSE]
    /\ highest = 0
    /\ booked = [d \in UtcDay |-> 0]
    /\ late = {}

See(eq, arbitrage) ==
    /\ last' = [equity |-> eq, arbitrage |-> arbitrage]
    /\ highest' = Larger(highest, eq)
    /\ UNCHANGED <<booked, late>>

(* A WAIT decision brings its equity and leaves the engine alone.            *)
ObserveWait(eq) == See(eq, FALSE) /\ UNCHANGED book

ObserveSetup(legs, arbitrage, eq) ==
    LET staged == Staged(book, legs, eq)
        taken == staged # NoState /\ (arbitrage => InFull(staged, legs))
    IN /\ See(eq, arbitrage /\ taken)
       /\ book' = IF taken THEN staged ELSE book

(* close_virtual: every key with its realised PnL.                           *)
CloseVirtual(keys, pnl, day) ==
    LET r == Rolled(book, day) IN
    /\ keys # {} /\ keys \subseteq OpenKeys(book)
    /\ Magnitude(r.pnl + pnl) <= MaxPnl
    /\ Magnitude(booked[day] + pnl) <= MaxPnl
    /\ book' = [r EXCEPT !.size = [k \in Key |-> IF k \in keys THEN 0 ELSE @[k]],
                         !.risk = [k \in Key |-> IF k \in keys THEN 0 ELSE @[k]],
                         !.pnl = @ + pnl]
    /\ booked' = [booked EXCEPT ![day] = @ + pnl]
    /\ late' = late \cup (IF day < book.day THEN {book.day} ELSE {})
    /\ UNCHANGED <<last, highest>>

ActivateSafetyHold ==
    /\ ~book.kill
    /\ book' = [book EXCEPT !.kill = TRUE]
    /\ UNCHANGED <<last, highest, booked, late>>

-----------------------------------------------------------------------------
(* Inputs: one or two legs of distinct keys (the long leg of an arbitrage    *)
(* first), with the correlation evidence for all other symbols or for none,  *)
(* which a setup of two legs is never proposed without; the single ones may  *)
(* be of a day that is over, which raises.                                   *)
Proposal(k, size, evidence, day) ==
    [key |-> k, size |-> size, day |-> day,
     checked |-> IF evidence THEN Symbols \ {SymbolOf(k)} ELSE {},
     correlated |-> IF evidence THEN {s \in Symbols \ {SymbolOf(k)} : {s, SymbolOf(k)} \in Correlated}
                    ELSE {}]

SignedSize == Size \cup {-s : s \in Size}

Single == \E k \in Key, s \in SignedSize, e \in BOOLEAN, d \in UtcDay, eq \in Equity :
    ObserveSetup(<<Proposal(k, s, e, d)>>, FALSE, eq)
Basket == \E k, l \in Key, s \in SignedSize, d \in UtcDay, eq \in Equity :
    k # l /\ d >= book.day /\ ObserveSetup(<<Proposal(k, s, TRUE, d), Proposal(l, s, TRUE, d)>>, FALSE, eq)
Arbitrage == \E k, l \in Key, s \in Size, d \in UtcDay, eq \in Equity :
    k # l /\ d >= book.day /\ ObserveSetup(<<Proposal(k, s, TRUE, d), Proposal(l, -s, TRUE, d)>>, TRUE, eq)
Close == \E keys \in SUBSET Key, pnl \in PnlStep, d \in UtcDay : CloseVirtual(keys, pnl, d)
Wait == \E eq \in Equity : ObserveWait(eq)

RiskNext == Wait \/ Single \/ Basket \/ Arbitrage \/ Close \/ ActivateSafetyHold
RiskSpec == RiskInit /\ [][RiskNext]_riskVars

-----------------------------------------------------------------------------
(* Properties.                                                               *)

(* Every variable keeps its type; no risk is ever negative.                 *)
RiskTypeOK ==
    /\ book \in Book
    /\ last \in [equity : Equity \cup {0}, arbitrage : BOOLEAN]
    /\ highest \in Equity \cup {0}
    /\ booked \in [UtcDay -> -MaxPnl..MaxPnl]
    /\ late \subseteq UtcDay

NewlyOpen == OpenKeys(book') \ OpenKeys(book)

(* A step that opens positions leaves every bucket they count in, and the    *)
(* whole book, within its limit of the equity it was sized on, however its   *)
(* legs share buckets; and a net exposure beyond its limit after a loss is   *)
(* never pushed further out.  Correlated positions share one bucket for the  *)
(* leg that came last, and for an earlier leg without the last: correlation  *)
(* need not be transitive, and only the leg that is proposed is measured.    *)
CorrelatedWith(k) ==
    {l \in Key : SymbolOf(l) = SymbolOf(k) \/ {SymbolOf(l), SymbolOf(k)} \in Correlated}
BucketsFit(k) ==
    \A d \in Dimension : Gross(book', Bucket(d, k)) <= Limit(BucketPct[d], last'.equity)
CorrelatedFits(k, later) ==
    Gross(book', CorrelatedWith(k) \ later) <= Limit(CorrelatedPct, last'.equity)
ExposureFits ==
    NewlyOpen # {} =>
        /\ Gross(book', Key) <= Limit(GrossPct, last'.equity)
        /\ Magnitude(Net(book')) <= Larger(Limit(NetPct, last'.equity), Magnitude(Net(book)))
        /\ \A k \in NewlyOpen : BucketsFit(k)
        /\ \E l \in NewlyOpen :
              CorrelatedFits(l, {}) /\ \A k \in NewlyOpen \ {l} : CorrelatedFits(k, {l})

(* Both legs of an arbitrage are open at the proposed size, or neither is.   *)
ArbitrageIsWhole ==
    last'.arbitrage /\ NewlyOpen # {} =>
        \E k, l \in Key : k # l /\ NewlyOpen = {k, l} /\ book'.size[k] = -book'.size[l]

(* The committed risk never exceeds its budget and the positions never their *)
(* number, so that a restart accepts the snapshot.                           *)
RiskIsBudgeted ==
    /\ Committed(book) <= RiskMax
    /\ Cardinality(OpenKeys(book)) <= MaxOpen

(* A day that lost its envelope takes no further entry: closes may arrive    *)
(* between two observations and after the day has changed.  Excepted are the *)
(* days to which the result of an earlier day was booked.                    *)
LossStopsEntries ==
    NewlyOpen # {} /\ book'.day \notin late => 100 * booked[book'.day] > -LossPct * last'.equity

(* Every step that opens positions takes a setup as it was approved, within  *)
(* every limit and on a day that has not lost its envelope.                  *)
EntriesAreSound == [][ExposureFits /\ ArbitrageIsWhole /\ LossStopsEntries]_riskVars

(* "Peak-to-trough drawdown guards ... are non-overridable entry blocks":    *)
(* the peak is the highest equity the engine's observations brought.         *)
DrawdownBlocksEntry ==
    [][NewlyOpen # {} => 100 * (highest' - last'.equity) < DrawdownPct * highest']_riskVars
================================================================================
