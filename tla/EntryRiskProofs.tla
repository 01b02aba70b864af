----------------------------- MODULE EntryRiskProofs -----------------------------
(***************************************************************************)
(* Theorems about the two places that decide whether an entry may be taken. *)
(*                                                                          *)
(* The portfolio risk engine, for any finite set of positions and of        *)
(* buckets, any limits and any correlations: a leg that is approved leaves  *)
(* every sum over positions within its limit (Opens), and the two legs of a *)
(* setup one after the other do.                                            *)
(*                                                                          *)
(* The PAPER session, for any number of restarts, processes, orders and     *)
(* events told twice: what a process holds at the venue is what its node    *)
(* knows plus what it is still to be told, and that is one bet (OneBet).    *)
(***************************************************************************)
EXTENDS PortfolioRisk, PaperSession, FiniteSetTheorems, SequenceTheorems, TLAPS

-----------------------------------------------------------------------------
(* The legs of a setup are taken one after the other.                        *)

(* g holds what FoldLeft has computed for each set of legs.                  *)
IsStaged(g, b, legs, eq) ==
    g = [s \in SUBSET DOMAIN legs |->
            IF s = {} THEN b ELSE WithLeg(g[s \ {Max(s)}], legs[Max(s)], eq)]

LEMMA StagedIsFold ==
    ASSUME NEW b, NEW legs, NEW eq, \E g : IsStaged(g, b, legs, eq)
    PROVE  \E g : IsStaged(g, b, legs, eq) /\ Staged(b, legs, eq) = g[DOMAIN legs]
<1> DEFINE G == CHOOSE g : IsStaged(g, b, legs, eq)
<1>1. IsStaged(G, b, legs, eq)
  OBVIOUS
<1>2. Staged(b, legs, eq) = G[DOMAIN legs]
  BY DEF Staged, FoldLeft, MapThenFoldSet, IsStaged
<1> QED BY <1>1, <1>2

LEMMA MaxOfIndices == Max({1}) = 1 /\ Max({2}) = 2 /\ Max({1, 2}) = 2
<1>1. ASSUME NEW S, NEW n \in S, S \subseteq Int, \A y \in S : n >= y PROVE Max(S) = n
  <2>1. PICK x \in S : x = Max(S) /\ \A y \in S : x >= y
    BY <1>1 DEF Max
  <2> QED BY <1>1, <2>1
<1> QED BY <1>1

LEMMA StagedOne ==
    ASSUME NEW b, NEW p, NEW eq
    PROVE  Staged(b, <<p>>, eq) = WithLeg(b, p, eq)
<1> DEFINE legs == <<p>>
           g == [s \in SUBSET {1} |-> IF s = {} THEN b ELSE WithLeg(b, p, eq)]
<1>1. DOMAIN legs = {1} /\ legs[1] = p
  OBVIOUS
<1> HIDE DEF legs
<1>2. IsStaged(g, b, legs, eq)
  <2>1. ASSUME NEW s \in SUBSET {1}
        PROVE  g[s] = IF s = {} THEN b ELSE WithLeg(g[s \ {Max(s)}], legs[Max(s)], eq)
    <3>1. CASE s = {}
      BY <3>1
    <3>2. CASE s = {1}
      BY <1>1, <3>2, MaxOfIndices
    <3> QED BY <3>1, <3>2
  <2> QED BY <1>1, <2>1 DEF IsStaged
<1>3. PICK f : IsStaged(f, b, legs, eq) /\ Staged(b, legs, eq) = f[DOMAIN legs]
  BY <1>2, StagedIsFold
<1>4. f[{}] = b /\ f[{1}] = WithLeg(f[{1} \ {1}], p, eq)
  BY <1>1, <1>3, MaxOfIndices DEF IsStaged
<1>5. Staged(b, legs, eq) = WithLeg(b, p, eq)
  BY <1>1, <1>3, <1>4
<1> QED BY <1>5 DEF legs

LEMMA StagedTwo ==
    ASSUME NEW b, NEW p, NEW q, NEW eq
    PROVE  Staged(b, <<p, q>>, eq) = WithLeg(WithLeg(b, p, eq), q, eq)
<1> DEFINE legs == <<p, q>>
           g == [s \in SUBSET {1, 2} |->
                    IF s = {} THEN b
                    ELSE IF s = {1} THEN WithLeg(b, p, eq)
                    ELSE IF s = {2} THEN WithLeg(b, q, eq)
                    ELSE WithLeg(WithLeg(b, p, eq), q, eq)]
<1>1. DOMAIN legs = {1, 2} /\ legs[1] = p /\ legs[2] = q
  OBVIOUS
<1> HIDE DEF legs
<1>2. IsStaged(g, b, legs, eq)
  <2>1. ASSUME NEW s \in SUBSET {1, 2}
        PROVE  g[s] = IF s = {} THEN b ELSE WithLeg(g[s \ {Max(s)}], legs[Max(s)], eq)
    <3>1. CASE s = {}
      BY <3>1
    <3>2. CASE s = {1}
      BY <1>1, <3>2, MaxOfIndices
    <3>3. CASE s = {2}
      BY <1>1, <3>3, MaxOfIndices
    <3>4. CASE s = {1, 2}
      <4>1. s \ {Max(s)} = {1} /\ Max(s) = 2
        BY <3>4, MaxOfIndices
      <4> QED BY <1>1, <3>4, <4>1
    <3> QED BY <3>1, <3>2, <3>3, <3>4
  <2> QED BY <1>1, <2>1 DEF IsStaged
<1>3. PICK f : IsStaged(f, b, legs, eq) /\ Staged(b, legs, eq) = f[DOMAIN legs]
  BY <1>2, StagedIsFold
<1>4. f[{}] = b /\ f[{1}] = WithLeg(f[{1} \ {1}], p, eq) /\ f[{1, 2}] = WithLeg(f[{1, 2} \ {2}], q, eq)
  BY <1>1, <1>3, MaxOfIndices DEF IsStaged
<1>5. {1} \ {1} = {} /\ {1, 2} \ {2} = {1}
  OBVIOUS
<1>6. Staged(b, legs, eq) = WithLeg(WithLeg(b, p, eq), q, eq)
  BY <1>1, <1>3, <1>4, <1>5
<1> QED BY <1>6 DEF legs

-----------------------------------------------------------------------------
(* A leg that is approved fits every limit.                                   *)

(* What is divided by a rate, and multiplied again, is not more.             *)
LEMMA RateFits ==
    ASSUME NEW r \in Nat \ {0}, NEW m \in Int, NEW a \in Int, a <= m \div r
    PROVE  r * a <= m
<1> DEFINE d == m \div r
<1>1. d \in Int /\ r * d <= m
  OBVIOUS
<1>2. r * a <= r * d
  <2> HIDE DEF d
  <2>1. a <= d
    BY DEF d
  <2> QED BY <1>1, <2>1
<1> QED BY <1>1, <1>2

(* Sums over positions are integers.                                         *)
Sizes(b, keys) == [k \in keys |-> Magnitude(b.size[k])]

LEMMA SumsAreIntegers ==
    ASSUME BudgetAssumption, NEW b \in Book
    PROVE  /\ \A keys \in SUBSET Key : Gross(b, keys) \in Int
           /\ Net(b) \in Int
           /\ Committed(b) \in Int
<1>1. b.size \in [Key -> Int] /\ b.risk \in [Key -> Nat] /\ IsFiniteSet(Key)
  BY DEF Book, BudgetAssumption
<1>2. ASSUME NEW keys \in SUBSET Key PROVE Gross(b, keys) \in Int
  <2>1. IsFiniteSet(keys) /\ \A k \in keys : Sizes(b, keys)[k] \in Int
    BY <1>1, FS_Subset DEF Sizes, Magnitude
  <2>2. SumOver(Sizes(b, keys), keys) \in Int /\ DOMAIN Sizes(b, keys) = keys
    BY <2>1, SumStep DEF Sizes
  <2> QED BY <2>2 DEF Gross, SumOf, Sizes
<1>3. Net(b) \in Int
  <2>1. DOMAIN b.size = Key /\ \A k \in Key : b.size[k] \in Int
    BY <1>1
  <2> QED BY <1>1, <2>1, SumStep DEF Net, SumOf
<1>4. Committed(b) \in Int
  <2>1. DOMAIN b.risk = Key /\ \A k \in Key : b.risk[k] \in Int
    BY <1>1
  <2> QED BY <1>1, <2>1, SumStep DEF Committed, SumOf
<1> QED BY <1>2, <1>3, <1>4

LEMMA LimitIsNat ==
    ASSUME NEW pct \in Nat, NEW eq \in Nat
    PROVE  Limit(pct, eq) \in Nat
<1>1. pct * eq \in Nat
  OBVIOUS
<1> DEFINE m == pct * eq
<1> HIDE DEF m
<1>2. m \in Nat => m \div 100 \in Nat
  OBVIOUS
<1> QED BY <1>1, <1>2 DEF Limit, m

LEMMA FiveAreFinite ==
    ASSUME NEW a, NEW b, NEW c, NEW d, NEW e
    PROVE  IsFiniteSet({a, b, c, d, e})
<1>1. IsFiniteSet({a}) /\ IsFiniteSet({a} \cup {b})
  BY FS_EmptySet, FS_AddElement, FS_Singleton
<1>2. IsFiniteSet(({a} \cup {b}) \cup {c})
  BY <1>1, FS_AddElement
<1>3. IsFiniteSet((({a} \cup {b}) \cup {c}) \cup {d})
  BY <1>2, FS_AddElement
<1>4. IsFiniteSet(((({a} \cup {b}) \cup {c}) \cup {d}) \cup {e})
  BY <1>3, FS_AddElement
<1>5. {a, b, c, d, e} = ((({a} \cup {b}) \cup {c}) \cup {d}) \cup {e}
  OBVIOUS
<1> QED BY <1>4, <1>5

LEMMA LimitsAreNat ==
    ASSUME BudgetAssumption, NEW eq \in Nat
    PROVE  /\ Limit(GrossPct, eq) \in Nat /\ Limit(NetPct, eq) \in Nat /\ Limit(CorrelatedPct, eq) \in Nat
           /\ \A d \in Dimension : Limit(BucketPct[d], eq) \in Nat
<1>1. GrossPct \in Nat /\ NetPct \in Nat /\ CorrelatedPct \in Nat /\ \A d \in Dimension : BucketPct[d] \in Nat
  BY DEF BudgetAssumption
<1> QED BY <1>1, LimitIsNat

LEMMA CapacityFits ==
    ASSUME BudgetAssumption, NEW b \in Book, NEW p, p.key \in Key, p.size \in Int, NEW eq \in Nat
    PROVE  /\ Capacity(b, p, eq) \in Int
           /\ Capacity(b, p, eq) <= Magnitude(p.size)
           /\ Capacity(b, p, eq) <= Limit(GrossPct, eq) - Gross(b, Key)
           /\ Capacity(b, p, eq) <= NetRoom(b, p, eq)
           /\ Capacity(b, p, eq) <= Limit(CorrelatedPct, eq) - Gross(b, CorrelatedKeys(p))
           /\ Capacity(b, p, eq) <= (RiskMax - Committed(b)) \div Rate
           /\ \A d \in Dimension :
                 Capacity(b, p, eq) <= Limit(BucketPct[d], eq) - Gross(b, Bucket(d, p.key))
<1> DEFINE Five == {Magnitude(p.size), Limit(GrossPct, eq) - Gross(b, Key), NetRoom(b, p, eq),
                    Limit(CorrelatedPct, eq) - Gross(b, CorrelatedKeys(p)),
                    (RiskMax - Committed(b)) \div Rate}
           Room(d) == Limit(BucketPct[d], eq) - Gross(b, Bucket(d, p.key))
           Rooms == {Room(d) : d \in Dimension}
<1>1. Capacity(b, p, eq) = Min(Five \cup Rooms)
  BY DEF Capacity
<1>2. /\ Magnitude(p.size) \in Int
      /\ Limit(GrossPct, eq) - Gross(b, Key) \in Int
      /\ NetRoom(b, p, eq) \in Int
      /\ Limit(CorrelatedPct, eq) - Gross(b, CorrelatedKeys(p)) \in Int
      /\ (RiskMax - Committed(b)) \div Rate \in Int
      /\ \A d \in Dimension : Room(d) \in Int
  <2>1. RiskMax \in Nat /\ Rate \in Nat \ {0}
    BY DEF BudgetAssumption
  <2>2. Limit(GrossPct, eq) \in Nat /\ Limit(NetPct, eq) \in Nat /\ Limit(CorrelatedPct, eq) \in Nat
    BY LimitsAreNat
  <2>3. Gross(b, Key) \in Int /\ Gross(b, CorrelatedKeys(p)) \in Int /\ Net(b) \in Int /\ Committed(b) \in Int
    <3>1. Key \in SUBSET Key /\ CorrelatedKeys(p) \in SUBSET Key
      BY DEF CorrelatedKeys
    <3> QED BY <3>1, SumsAreIntegers
  <2>4. ASSUME NEW d \in Dimension PROVE Room(d) \in Int
    <3>1. Limit(BucketPct[d], eq) \in Nat
      BY LimitsAreNat
    <3>2. Bucket(d, p.key) \in SUBSET Key
      BY DEF Bucket
    <3>3. Gross(b, Bucket(d, p.key)) \in Int
      BY <3>2, SumsAreIntegers
    <3> QED BY <3>1, <3>3
  <2>5. (RiskMax - Committed(b)) \div Rate \in Int
    BY <2>1, <2>3
  <2> QED BY <2>2, <2>3, <2>4, <2>5 DEF Magnitude, NetRoom
<1>3. IsFiniteSet(Five \cup Rooms)
  <2>1. IsFiniteSet(Rooms)
    <3> DEFINE f == [d \in Dimension |-> Room(d)]
    <3> HIDE DEF Room
    <3>1. f \in Surjection(Dimension, Rooms)
      BY DEF Surjection
    <3>2. IsFiniteSet(Dimension)
      BY DEF BudgetAssumption
    <3> HIDE DEF Rooms, f
    <3> QED BY <3>1, <3>2, FS_Surjection
  <2> HIDE DEF Rooms
  <2>2. IsFiniteSet(Five)
    BY FiveAreFinite
  <2> HIDE DEF Five
  <2> QED BY <2>1, <2>2, FS_Union
<1>4. (\A x \in Five \cup Rooms : x \in Int) /\ Five \cup Rooms # {}
  BY <1>2
<1> DEFINE Sset == Five \cup Rooms
<1>5. /\ Magnitude(p.size) \in Sset
      /\ Limit(GrossPct, eq) - Gross(b, Key) \in Sset
      /\ NetRoom(b, p, eq) \in Sset
      /\ Limit(CorrelatedPct, eq) - Gross(b, CorrelatedKeys(p)) \in Sset
      /\ (RiskMax - Committed(b)) \div Rate \in Sset
      /\ \A d \in Dimension : Room(d) \in Sset
  OBVIOUS
<1> HIDE DEF Five, Rooms
<1>6. Min(Sset) \in Sset /\ \A y \in Sset : Min(Sset) <= y
  BY <1>3, <1>4, MinOfFinite
<1> QED BY <1>1, <1>4, <1>5, <1>6

Proper(b) == b \in Book /\ \A k \in Key : b.size[k] = 0 => b.risk[k] = 0
SoundLeg(p) == p.key \in Key /\ p.size \in Int /\ p.size # 0 /\ p.day \in UtcDay

(* What it means that s is b with the leg p opened at the size a.            *)
LegTaken(b, p, eq, s, a) ==
    /\ s \in Book
    /\ s.size = [b.size EXCEPT ![p.key] = IF p.size > 0 THEN a ELSE -a]
    /\ s.risk = [b.risk EXCEPT ![p.key] = Rate * a]
    /\ p.day >= b.day /\ s.day = p.day /\ s.pnl = (IF p.day > b.day THEN 0 ELSE b.pnl)
    /\ 100 * s.pnl > -LossPct * eq
    /\ p.key \notin OpenKeys(b) /\ Cardinality(OpenKeys(b)) < MaxOpen
    /\ \A k \in OpenKeys(b) : SymbolOf(k) = SymbolOf(p.key) \/ SymbolOf(k) \in p.checked
    /\ a <= Magnitude(p.size)
    /\ a <= Limit(GrossPct, eq) - Gross(b, Key)
    /\ a <= NetRoom(b, p, eq)
    /\ a <= Limit(CorrelatedPct, eq) - Gross(b, CorrelatedKeys(p))
    /\ Rate * a <= RiskMax - Committed(b)
    /\ \A d \in Dimension : a <= Limit(BucketPct[d], eq) - Gross(b, Bucket(d, p.key))

LEMMA NotedIsBook ==
    ASSUME NEW b \in Book, NEW p, p.day \in Nat, p.day >= b.day, NEW eq \in Nat
    PROVE  /\ Noted(b, p, eq) \in Book
           /\ Noted(b, p, eq).size = b.size
           /\ Noted(b, p, eq).risk = b.risk
           /\ Noted(b, p, eq).day = p.day
           /\ Noted(b, p, eq).pnl = IF p.day > b.day THEN 0 ELSE b.pnl
<1> DEFINE r == Rolled(b, p.day)
<1>1. /\ r \in Book /\ r.size = b.size /\ r.risk = b.risk /\ r.day = p.day
      /\ r.pnl = IF p.day > b.day THEN 0 ELSE b.pnl
  <2>1. b.day \in Nat
    BY DEF Book
  <2>2. CASE p.day > b.day
    <3>1. PICK d \in Nat : d = p.day
      OBVIOUS
    <3>2. r = [b EXCEPT !.day = d, !.pnl = 0]
      BY <2>2, <3>1 DEF Rolled
    <3> HIDE DEF r
    <3>3. r \in Book /\ r.size = b.size /\ r.risk = b.risk /\ r.day = d /\ r.pnl = 0
      <4>1. r \in Book
        <5>1. PICK m \in Book : m = [b EXCEPT !.day = d]
          BY DEF Book
        <5>2. r = [m EXCEPT !.pnl = 0]
          BY <3>2, <5>1 DEF Book
        <5> QED BY <5>2 DEF Book
      <4>2. r.size = b.size /\ r.risk = b.risk /\ r.day = d /\ r.pnl = 0
        BY <3>2 DEF Book
      <4> QED BY <4>1, <4>2
    <3> QED BY <2>2, <3>1, <3>3
  <2>3. CASE p.day = b.day
    BY <2>1, <2>3 DEF Rolled, Book
  <2> QED BY <2>1, <2>2, <2>3
<1> HIDE DEF r
<1>2. Noted(b, p, eq) = [r EXCEPT !.peak = Larger(r.peak, eq)]
  BY DEF Noted, r
<1>3. Larger(r.peak, eq) \in Nat
  BY <1>1 DEF Larger, Book
<1> QED BY <1>1, <1>2, <1>3 DEF Book

LEMMA LegOpens ==
    ASSUME BudgetAssumption, NEW b, Proper(b), NEW p, SoundLeg(p), NEW eq \in Nat, Approved(b, p, eq)
    PROVE  \E a \in Nat \ {0} : LegTaken(b, p, eq, RecordOpen(b, p, eq), a)
<1> DEFINE n == Noted(b, p, eq)
           a == Capacity(n, p, eq)
           s == RecordOpen(b, p, eq)
<1>1. /\ b \in Book /\ p.key \in Key /\ p.size \in Int /\ p.day \in Nat /\ p.day >= b.day
      /\ ~BlockingReason(n, p, eq) /\ a >= MinOrder
  BY DEF Proper, SoundLeg, Approved, UtcDay, BudgetAssumption
<1>2. /\ n \in Book /\ n.size = b.size /\ n.risk = b.risk /\ n.day = p.day
      /\ n.pnl = IF p.day > b.day THEN 0 ELSE b.pnl
  BY <1>1, NotedIsBook
<1>3. s = [n EXCEPT !.size[p.key] = IF p.size > 0 THEN a ELSE -a, !.risk[p.key] = Rate * a]
  BY DEF RecordOpen
<1> HIDE DEF n, a, s
<1>4. /\ OpenKeys(n) = OpenKeys(b) /\ \A keys : Gross(n, keys) = Gross(b, keys)
      /\ Net(n) = Net(b) /\ Committed(n) = Committed(b)
  BY <1>2 DEF OpenKeys, Gross, Net, Committed
<1>5. /\ a \in Int
      /\ a <= Magnitude(p.size)
      /\ a <= Limit(GrossPct, eq) - Gross(n, Key)
      /\ a <= NetRoom(n, p, eq)
      /\ a <= Limit(CorrelatedPct, eq) - Gross(n, CorrelatedKeys(p))
      /\ a <= (RiskMax - Committed(n)) \div Rate
      /\ \A d \in Dimension : a <= Limit(BucketPct[d], eq) - Gross(n, Bucket(d, p.key))
  BY <1>1, <1>2, CapacityFits DEF a
<1>6. a \in Nat \ {0} /\ Rate * a \in Nat
  BY <1>1, <1>5 DEF BudgetAssumption
<1>7. Rate * a <= RiskMax - Committed(b)
  <2>1. Committed(n) \in Int /\ RiskMax \in Nat /\ Rate \in Nat \ {0}
    BY <1>2, SumsAreIntegers DEF BudgetAssumption
  <2>2. Rate * a <= RiskMax - Committed(n)
    BY <1>5, <2>1, RateFits
  <2> QED BY <1>4, <2>2
<1>8. /\ s \in Book
      /\ s.size = [b.size EXCEPT ![p.key] = IF p.size > 0 THEN a ELSE -a]
      /\ s.risk = [b.risk EXCEPT ![p.key] = Rate * a]
      /\ s.day = n.day /\ s.pnl = n.pnl
  <2> DEFINE v == IF p.size > 0 THEN a ELSE -a
             w == Rate * a
  <2>1. v \in Int /\ w \in Nat
    BY <1>6
  <2>2. s = [n EXCEPT !.size[p.key] = v, !.risk[p.key] = w]
    BY <1>3
  <2> HIDE DEF v, w
  <2>3. /\ s \in Book /\ s.size = [n.size EXCEPT ![p.key] = v] /\ s.risk = [n.risk EXCEPT ![p.key] = w]
        /\ s.day = n.day /\ s.pnl = n.pnl
    BY <1>1, <1>2, <2>1, <2>2 DEF Book
  <2> QED BY <1>2, <2>3 DEF v, w
<1>9. NetRoom(n, p, eq) = NetRoom(b, p, eq)
  BY <1>4 DEF NetRoom
<1>10. /\ ~(100 * n.pnl <= -LossPct * eq)
       /\ p.key \notin OpenKeys(b) /\ ~(Cardinality(OpenKeys(b)) >= MaxOpen)
       /\ {SymbolOf(k) : k \in OpenKeys(b)} \ {SymbolOf(p.key)} \subseteq p.checked
  BY <1>1, <1>4 DEF BlockingReason
<1>11. 100 * s.pnl > -LossPct * eq
  <2>1. s.pnl \in Int /\ -LossPct * eq \in Int
    BY <1>8 DEF Book, BudgetAssumption
  <2> QED BY <1>8, <1>10, <2>1
<1>12. Cardinality(OpenKeys(b)) < MaxOpen
  <2>1. IsFiniteSet(OpenKeys(b))
    BY FS_Subset DEF OpenKeys, BudgetAssumption
  <2>2. Cardinality(OpenKeys(b)) \in Nat /\ MaxOpen \in Nat
    BY <2>1, FS_CardinalityType DEF BudgetAssumption
  <2> QED BY <1>10, <2>2
<1>13. \A k \in OpenKeys(b) : SymbolOf(k) = SymbolOf(p.key) \/ SymbolOf(k) \in p.checked
  BY <1>10
<1>14. LegTaken(b, p, eq, s, a)
  BY <1>1, <1>2, <1>4, <1>5, <1>7, <1>8, <1>9, <1>10, <1>11, <1>12, <1>13 DEF LegTaken
<1> QED BY <1>6, <1>14 DEF s

LEMMA SumNewTerm ==
    ASSUME NEW S, IsFiniteSet(S), NEW f, NEW h, NEW k, NEW a \in Nat \ {0},
           \A x \in S : f[x] \in Int /\ h[x] \in Int,
           \A x \in S \ {k} : h[x] = f[x],
           k \in S => f[k] = 0 /\ h[k] = a
    PROVE  SumOver(h, S) = SumOver(f, S) + (IF k \in S THEN a ELSE 0)
<1>1. SumOver(f, S) \in Int
  BY SumStep
<1>2. CASE k \in S
  <2>1. SumOver(h, S) = SumOver(f, S) - f[k] + h[k]
    BY <1>2, SumChange
  <2> QED BY <1>1, <1>2, <2>1
<1>3. CASE k \notin S
  <2>1. \A x \in S : f[x] \in Int /\ f[x] = h[x]
    BY <1>3
  <2>2. SumOver(f, S) = SumOver(h, S)
    BY <2>1, SumSame
  <2> QED BY <1>1, <1>3, <2>2
<1> QED BY <1>2, <1>3

(* What taking a leg does to the sums: its size is added to those it is in.  *)
LEMMA LegSums ==
    ASSUME BudgetAssumption, NEW b, Proper(b), NEW p, SoundLeg(p), NEW eq, NEW s, NEW a \in Nat \ {0},
           LegTaken(b, p, eq, s, a)
    PROVE  /\ Proper(s)
           /\ \A keys \in SUBSET Key :
                 Gross(s, keys) = Gross(b, keys) + (IF p.key \in keys THEN a ELSE 0)
           /\ Net(s) = Net(b) + (IF p.size > 0 THEN a ELSE -a)
           /\ Committed(s) = Committed(b) + Rate * a
           /\ OpenKeys(s) = OpenKeys(b) \cup {p.key}
           /\ Cardinality(OpenKeys(s)) <= MaxOpen
<1> DEFINE v == IF p.size > 0 THEN a ELSE -a
           w == Rate * a
<1>1. /\ v \in Int /\ v # 0 /\ Magnitude(v) = a /\ w \in Nat /\ p.key \in Key
      /\ b.size \in [Key -> Int] /\ b.risk \in [Key -> Nat] /\ IsFiniteSet(Key)
      /\ s.size = [b.size EXCEPT ![p.key] = v] /\ s.risk = [b.risk EXCEPT ![p.key] = w]
      /\ s \in Book
  BY DEF LegTaken, Book, Proper, Magnitude, BudgetAssumption, SoundLeg
<1> HIDE DEF v, w
<1>2. /\ s.size[p.key] = v /\ s.risk[p.key] = w /\ s.size \in [Key -> Int] /\ s.risk \in [Key -> Nat]
      /\ \A k \in Key \ {p.key} : s.size[k] = b.size[k] /\ s.risk[k] = b.risk[k]
  BY <1>1
<1>3. b.size[p.key] = 0 /\ b.risk[p.key] = 0
  BY <1>1 DEF LegTaken, OpenKeys, Proper
<1>4. Proper(s)
  BY <1>1, <1>2 DEF Proper
<1>5. ASSUME NEW keys \in SUBSET Key
      PROVE  Gross(s, keys) = Gross(b, keys) + (IF p.key \in keys THEN a ELSE 0)
  <2> DEFINE f == Sizes(b, keys)
             h == Sizes(s, keys)
  <2>1. IsFiniteSet(keys)
    BY <1>1, FS_Subset
  <2>2. \A k \in keys : f[k] \in Int /\ h[k] \in Int
    BY <1>1, <1>2 DEF Sizes, Magnitude
  <2>3. \A k \in keys \ {p.key} : h[k] = f[k]
    BY <1>2 DEF Sizes
  <2>4. Gross(b, keys) = SumOver(f, keys) /\ Gross(s, keys) = SumOver(h, keys)
    BY DEF Gross, SumOf, Sizes
  <2>5. p.key \in keys => f[p.key] = 0 /\ h[p.key] = a
    BY <1>1, <1>2, <1>3 DEF Sizes, Magnitude
  <2> HIDE DEF f, h
  <2>6. SumOver(h, keys) = SumOver(f, keys) + (IF p.key \in keys THEN a ELSE 0)
    BY <2>1, <2>2, <2>3, <2>5, SumNewTerm
  <2> QED BY <2>4, <2>6
<1>6. Net(s) = Net(b) + v
  <2>1. SumOver(s.size, Key) = SumOver(b.size, Key) - b.size[p.key] + s.size[p.key]
    BY <1>1, <1>2, SumChange
  <2>2. Net(s) = SumOver(s.size, Key) /\ Net(b) = SumOver(b.size, Key)
    BY <1>1, <1>2 DEF Net, SumOf
  <2>3. SumOver(b.size, Key) \in Int
    BY <1>1, SumStep
  <2> QED BY <1>1, <1>2, <1>3, <2>1, <2>2, <2>3
<1>7. Committed(s) = Committed(b) + w
  <2>1. SumOver(s.risk, Key) = SumOver(b.risk, Key) - b.risk[p.key] + s.risk[p.key]
    BY <1>1, <1>2, SumChange
  <2>2. Committed(s) = SumOver(s.risk, Key) /\ Committed(b) = SumOver(b.risk, Key)
    BY <1>1, <1>2 DEF Committed, SumOf
  <2>3. SumOver(b.risk, Key) \in Int
    BY <1>1, SumStep
  <2> QED BY <1>1, <1>2, <1>3, <2>1, <2>2, <2>3
<1>8. OpenKeys(s) = OpenKeys(b) \cup {p.key}
  BY <1>1, <1>2 DEF OpenKeys
<1>9. Cardinality(OpenKeys(s)) <= MaxOpen
  <2>1. IsFiniteSet(OpenKeys(b)) /\ p.key \notin OpenKeys(b) /\ Cardinality(OpenKeys(b)) < MaxOpen
    BY <1>1, FS_Subset DEF OpenKeys, LegTaken
  <2>2. Cardinality(OpenKeys(b) \cup {p.key}) = Cardinality(OpenKeys(b)) + 1
    BY <2>1, FS_AddElement
  <2>3. Cardinality(OpenKeys(b)) \in Nat /\ MaxOpen \in Nat
    BY <2>1, FS_CardinalityType DEF BudgetAssumption
  <2> QED BY <1>8, <2>1, <2>2, <2>3
<1> QED BY <1>4, <1>5, <1>6, <1>7, <1>8, <1>9 DEF v, w

-----------------------------------------------------------------------------
(* The legs of a setup fit together.                                          *)

(* What it means that s is b with the positions new opened on a day, of      *)
(* which final came last.                                                    *)
Taken(b, s, eq, new, final, day) ==
    /\ Proper(s) /\ Committed(s) <= RiskMax /\ Cardinality(OpenKeys(s)) <= MaxOpen
    /\ s.day = day /\ day >= b.day /\ s.pnl = (IF day > b.day THEN 0 ELSE b.pnl)
    /\ 100 * s.pnl > -LossPct * eq
    /\ OpenKeys(s) = OpenKeys(b) \cup new /\ new \cap OpenKeys(b) = {}
    /\ Gross(s, Key) <= Limit(GrossPct, eq)
    /\ Magnitude(Net(s)) <= Larger(Limit(NetPct, eq), Magnitude(Net(b)))
    /\ \A k \in new : \A d \in Dimension : Gross(s, Bucket(d, k)) <= Limit(BucketPct[d], eq)
    /\ final \in new /\ Gross(s, CorrelatedWith(final)) <= Limit(CorrelatedPct, eq)
    /\ \A k \in new \ {final} : Gross(s, CorrelatedWith(k) \ {final}) <= Limit(CorrelatedPct, eq)

LEMMA ProposalIsSound ==
    ASSUME NEW k \in Key, NEW size \in SignedSize, NEW e \in BOOLEAN, NEW d \in UtcDay, BudgetAssumption
    PROVE  SoundLeg(Proposal(k, size, e, d))
<1>1. size \in Int /\ size # 0
  BY DEF SignedSize, BudgetAssumption
<1> QED BY <1>1 DEF SoundLeg, Proposal

(* Positions that are not open do not count.                                 *)
LEMMA GrossOfOpen ==
    ASSUME BudgetAssumption, NEW b \in Book, NEW A \in SUBSET Key, NEW B \in SUBSET A,
           \A k \in A \ B : b.size[k] = 0
    PROVE  Gross(b, A) = Gross(b, B)
<1> DEFINE f == Sizes(b, A)
           h == Sizes(b, B)
<1>1. IsFiniteSet(A) /\ IsFiniteSet(B) /\ B \subseteq A
  BY FS_Subset DEF BudgetAssumption
<1>2. (\A x \in A : f[x] \in Int) /\ (\A x \in A \ B : f[x] = 0)
      /\ (\A x \in B : f[x] \in Int /\ f[x] = h[x])
  BY DEF Sizes, Magnitude, Book
<1>3. Gross(b, A) = SumOver(f, A) /\ Gross(b, B) = SumOver(h, B)
  BY DEF Gross, SumOf, Sizes
<1> HIDE DEF f, h
<1>4. SumOver(f, A) = SumOver(f, B)
  BY <1>1, <1>2, SumWithoutZeros
<1>5. SumOver(f, B) = SumOver(h, B)
  BY <1>1, <1>2, SumSame
<1> QED BY <1>3, <1>4, <1>5

(* With or without evidence, a leg fits the bucket of what it is correlated  *)
(* with: without it, nothing of another symbol is open.                      *)
LEMMA LegFitsCorrelated ==
    ASSUME BudgetAssumption, NEW b, Proper(b), NEW k \in Key, NEW size \in SignedSize,
           NEW e \in BOOLEAN, NEW d \in UtcDay, NEW eq \in Nat, NEW s, NEW a \in Nat \ {0},
           LegTaken(b, Proposal(k, size, e, d), eq, s, a)
    PROVE  Gross(s, CorrelatedWith(k)) <= Limit(CorrelatedPct, eq)
<1> DEFINE p == Proposal(k, size, e, d)
<1>1. /\ p.key = k /\ SoundLeg(p)
      /\ p.checked = IF e THEN Symbols \ {SymbolOf(k)} ELSE {}
      /\ p.correlated = IF e THEN {t \in Symbols \ {SymbolOf(k)} : {t, SymbolOf(k)} \in Correlated} ELSE {}
  BY ProposalIsSound DEF Proposal
<1>2. LegTaken(b, p, eq, s, a)
  OBVIOUS
<1> HIDE DEF p
<1>3. /\ Proper(s)
      /\ \A keys \in SUBSET Key : Gross(s, keys) = Gross(b, keys) + (IF p.key \in keys THEN a ELSE 0)
      /\ OpenKeys(s) = OpenKeys(b) \cup {p.key}
  BY <1>1, <1>2, LegSums
<1>4. CorrelatedKeys(p) \in SUBSET Key /\ k \in CorrelatedKeys(p)
      /\ CorrelatedKeys(p) \in SUBSET CorrelatedWith(k) /\ CorrelatedWith(k) \in SUBSET Key
  BY <1>1 DEF CorrelatedKeys, CorrelatedWith
<1>5. Gross(s, CorrelatedKeys(p)) <= Limit(CorrelatedPct, eq)
  <2>1. Gross(s, CorrelatedKeys(p)) = Gross(b, CorrelatedKeys(p)) + a
    BY <1>1, <1>3, <1>4
  <2>2. a <= Limit(CorrelatedPct, eq) - Gross(b, CorrelatedKeys(p))
    BY <1>2 DEF LegTaken
  <2>3. Gross(b, CorrelatedKeys(p)) \in Int /\ Limit(CorrelatedPct, eq) \in Int
    <3>1. b \in Book
      BY DEF Proper
    <3>2. Gross(b, CorrelatedKeys(p)) \in Int
      BY <1>4, <3>1, SumsAreIntegers
    <3> QED BY <3>2, LimitsAreNat
  <2> QED BY <2>1, <2>2, <2>3
<1>6. ASSUME NEW l \in CorrelatedWith(k) \ CorrelatedKeys(p) PROVE s.size[l] = 0
  <2>1. CASE e
    <3>1. \A t \in Key : SymbolOf(t) \in Symbols
      BY DEF Symbols, SymbolOf
    <3> QED BY <1>1, <2>1, <3>1, <1>6 DEF CorrelatedKeys, CorrelatedWith
  <2>2. CASE ~e
    <3>1. l \in Key /\ SymbolOf(l) # SymbolOf(k)
      BY <1>1, <2>2 DEF CorrelatedKeys, CorrelatedWith
    <3>2. l \notin OpenKeys(b)
      BY <1>1, <1>2, <2>2, <3>1 DEF LegTaken
    <3>3. l \notin OpenKeys(s)
      BY <1>1, <1>3, <3>1, <3>2
    <3> QED BY <3>1, <3>3 DEF OpenKeys
  <2> QED BY <2>1, <2>2
<1>7. Gross(s, CorrelatedWith(k)) = Gross(s, CorrelatedKeys(p))
  BY <1>3, <1>4, <1>6, GrossOfOpen DEF Proper
<1> QED BY <1>5, <1>7

(* A leg towards or beyond the net limit never brings the net further out.   *)
LEMMA NetStaysIn ==
    ASSUME NEW L \in Nat, NEW n \in Int, NEW a \in Nat \ {0}, NEW up \in BOOLEAN,
           a <= (IF up THEN L - n ELSE L + n)
    PROVE  Magnitude(n + (IF up THEN a ELSE -a)) <= Larger(L, Magnitude(n))
BY DEF Magnitude, Larger

LEMMA FirstLegFits ==
    ASSUME BudgetAssumption, NEW b, Proper(b), NEW k \in Key, NEW size \in SignedSize,
           NEW e \in BOOLEAN, NEW d \in UtcDay, NEW eq \in Nat, NEW s, NEW a \in Nat \ {0},
           LegTaken(b, Proposal(k, size, e, d), eq, s, a)
    PROVE  Taken(b, s, eq, {k}, k, d)
<1> DEFINE p == Proposal(k, size, e, d)
<1>1. p.key = k /\ p.day = d /\ SoundLeg(p) /\ Gross(s, CorrelatedWith(k)) <= Limit(CorrelatedPct, eq)
  BY ProposalIsSound, LegFitsCorrelated DEF Proposal
<1>2. LegTaken(b, p, eq, s, a)
  OBVIOUS
<1> HIDE DEF p
<1>3. /\ Proper(s)
      /\ \A keys \in SUBSET Key : Gross(s, keys) = Gross(b, keys) + (IF p.key \in keys THEN a ELSE 0)
      /\ Net(s) = Net(b) + (IF p.size > 0 THEN a ELSE -a)
      /\ Committed(s) = Committed(b) + Rate * a
      /\ OpenKeys(s) = OpenKeys(b) \cup {p.key}
      /\ Cardinality(OpenKeys(s)) <= MaxOpen
  BY <1>1, <1>2, LegSums
<1>4. b \in Book
  BY DEF Proper
<1>5. Committed(s) <= RiskMax
  <2>1. Rate * a <= RiskMax - Committed(b)
    BY <1>2 DEF LegTaken
  <2>2. PICK w \in Int : w = Rate * a
    BY DEF BudgetAssumption
  <2>3. Committed(b) \in Int /\ RiskMax \in Int
    BY <1>4, SumsAreIntegers DEF BudgetAssumption
  <2> QED BY <1>3, <2>1, <2>2, <2>3
<1>6. Gross(s, Key) <= Limit(GrossPct, eq)
  <2>1. Gross(b, Key) \in Int /\ Limit(GrossPct, eq) \in Int
    <3>1. Key \in SUBSET Key
      OBVIOUS
    <3>2. Gross(b, Key) \in Int
      BY <1>4, <3>1, SumsAreIntegers
    <3> QED BY <3>2, LimitsAreNat
  <2>2. Gross(s, Key) = Gross(b, Key) + a
    BY <1>1, <1>3
  <2>3. a <= Limit(GrossPct, eq) - Gross(b, Key)
    BY <1>2 DEF LegTaken
  <2> QED BY <2>1, <2>2, <2>3
<1>7. ASSUME NEW dim \in Dimension PROVE Gross(s, Bucket(dim, k)) <= Limit(BucketPct[dim], eq)
  <2>1. Bucket(dim, k) \in SUBSET Key /\ k \in Bucket(dim, k)
    BY DEF Bucket
  <2>2. Gross(b, Bucket(dim, k)) \in Int /\ Limit(BucketPct[dim], eq) \in Int
    <3>1. Gross(b, Bucket(dim, k)) \in Int
      BY <1>4, <2>1, SumsAreIntegers
    <3> QED BY <3>1, LimitsAreNat
  <2>3. Gross(s, Bucket(dim, k)) = Gross(b, Bucket(dim, k)) + a
    BY <1>1, <1>3, <2>1
  <2>4. a <= Limit(BucketPct[dim], eq) - Gross(b, Bucket(dim, k))
    BY <1>1, <1>2 DEF LegTaken
  <2> QED BY <2>2, <2>3, <2>4
<1>8. Magnitude(Net(s)) <= Larger(Limit(NetPct, eq), Magnitude(Net(b)))
  <2>1. a <= NetRoom(b, p, eq)
    BY <1>2 DEF LegTaken
  <2>2. Net(b) \in Int /\ Limit(NetPct, eq) \in Nat
    BY <1>4, SumsAreIntegers, LimitsAreNat
  <2>3. PICK up \in BOOLEAN : up <=> p.size > 0
    OBVIOUS
  <2>4. a <= (IF up THEN Limit(NetPct, eq) - Net(b) ELSE Limit(NetPct, eq) + Net(b))
    BY <2>1, <2>3 DEF NetRoom
  <2>5. Magnitude(Net(b) + (IF up THEN a ELSE -a)) <= Larger(Limit(NetPct, eq), Magnitude(Net(b)))
    BY <2>2, <2>4, NetStaysIn
  <2> QED BY <1>3, <2>3, <2>5
<1>9. /\ s.day = d /\ d >= b.day /\ s.pnl = (IF d > b.day THEN 0 ELSE b.pnl)
      /\ 100 * s.pnl > -LossPct * eq /\ k \notin OpenKeys(b)
  BY <1>1, <1>2 DEF LegTaken
<1> QED BY <1>1, <1>3, <1>5, <1>6, <1>7, <1>8, <1>9 DEF Taken

(* The second leg leaves the first within its limits: what they share was    *)
(* measured with the first in it, and what only the first counts in has not  *)
(* changed.                                                                  *)
LEMMA SecondLegFits ==
    ASSUME BudgetAssumption, NEW b, b \in Book, NEW k \in Key, NEW l \in Key, k # l, NEW size \in SignedSize,
           NEW e \in BOOLEAN, NEW d \in UtcDay, NEW eq \in Nat, NEW m, NEW s, NEW a \in Nat \ {0},
           Taken(b, m, eq, {k}, k, d), LegTaken(m, Proposal(l, size, e, d), eq, s, a)
    PROVE  Taken(b, s, eq, {k, l}, l, d)
<1> DEFINE p == Proposal(l, size, e, d)
<1>1. Proper(m) /\ p.key = l /\ SoundLeg(p)
  BY ProposalIsSound DEF Taken, Proposal
<1>2. LegTaken(m, p, eq, s, a) /\ Taken(m, s, eq, {l}, l, d)
  BY <1>1, FirstLegFits
<1> HIDE DEF p
<1>3. \A keys \in SUBSET Key : l \notin keys => Gross(s, keys) = Gross(m, keys)
  <2>1. \A keys \in SUBSET Key : Gross(s, keys) = Gross(m, keys) + (IF p.key \in keys THEN a ELSE 0)
    BY <1>1, <1>2, LegSums
  <2>2. m \in Book
    BY <1>1 DEF Proper
  <2>3. \A keys \in SUBSET Key : Gross(m, keys) \in Int
    BY <2>2, SumsAreIntegers
  <2> QED BY <1>1, <2>1, <2>3
<1>4. /\ Proper(s) /\ Committed(s) <= RiskMax /\ Cardinality(OpenKeys(s)) <= MaxOpen
      /\ 100 * s.pnl > -LossPct * eq /\ Gross(s, Key) <= Limit(GrossPct, eq)
      /\ Gross(s, CorrelatedWith(l)) <= Limit(CorrelatedPct, eq)
  BY <1>2 DEF Taken
<1>5. s.day = d /\ d >= b.day /\ s.pnl = IF d > b.day THEN 0 ELSE b.pnl
  <2>1. m.day = d /\ d >= b.day /\ m.pnl = IF d > b.day THEN 0 ELSE b.pnl
    BY DEF Taken
  <2>2. s.day = d /\ s.pnl = IF d > m.day THEN 0 ELSE m.pnl
    BY <1>2 DEF Taken
  <2>3. d \in Int
    BY DEF UtcDay
  <2> QED BY <2>1, <2>2, <2>3
<1>6. OpenKeys(s) = OpenKeys(b) \cup {k, l} /\ {k, l} \cap OpenKeys(b) = {} /\ l \notin OpenKeys(m)
  BY <1>2 DEF Taken
<1>7. Magnitude(Net(s)) <= Larger(Limit(NetPct, eq), Magnitude(Net(b)))
  <2>1. Magnitude(Net(s)) <= Larger(Limit(NetPct, eq), Magnitude(Net(m)))
    BY <1>2 DEF Taken
  <2>2. Magnitude(Net(m)) <= Larger(Limit(NetPct, eq), Magnitude(Net(b)))
    BY DEF Taken
  <2>3. m \in Book /\ s \in Book
    BY <1>1, <1>4 DEF Proper
  <2>4. Net(s) \in Int /\ Net(m) \in Int /\ Net(b) \in Int
    BY <2>3, SumsAreIntegers
  <2>5. Limit(NetPct, eq) \in Nat
    BY LimitsAreNat
  <2>6. Magnitude(Net(s)) \in Nat /\ Magnitude(Net(m)) \in Nat /\ Magnitude(Net(b)) \in Nat
    BY <2>4 DEF Magnitude
  <2> QED BY <2>1, <2>2, <2>5, <2>6 DEF Larger
<1>8. ASSUME NEW dim \in Dimension
      PROVE  Gross(s, Bucket(dim, k)) <= Limit(BucketPct[dim], eq)
             /\ Gross(s, Bucket(dim, l)) <= Limit(BucketPct[dim], eq)
  <2>1. Gross(m, Bucket(dim, k)) <= Limit(BucketPct[dim], eq)
    BY DEF Taken
  <2>2. Gross(s, Bucket(dim, l)) <= Limit(BucketPct[dim], eq)
    BY <1>2 DEF Taken
  <2>3. CASE l \in Bucket(dim, k)
    <3>1. Bucket(dim, k) = Bucket(dim, l)
      BY <2>3 DEF Bucket
    <3> QED BY <2>2, <3>1
  <2>4. CASE l \notin Bucket(dim, k)
    <3>1. Bucket(dim, k) \in SUBSET Key
      BY DEF Bucket
    <3>2. Gross(s, Bucket(dim, k)) = Gross(m, Bucket(dim, k))
      BY <1>3, <2>4, <3>1
    <3> QED BY <2>1, <2>2, <3>2
  <2> QED BY <2>3, <2>4
<1>9. Gross(s, CorrelatedWith(k) \ {l}) <= Limit(CorrelatedPct, eq)
  <2>1. Gross(m, CorrelatedWith(k)) <= Limit(CorrelatedPct, eq)
    BY DEF Taken
  <2>2. CorrelatedWith(k) \in SUBSET Key /\ CorrelatedWith(k) \ {l} \in SUBSET Key
    BY DEF CorrelatedWith
  <2>3. m \in Book /\ m.size[l] = 0
    BY <1>1, <1>6 DEF Proper, OpenKeys
  <2>4. Gross(m, CorrelatedWith(k)) = Gross(m, CorrelatedWith(k) \ {l})
    <3>1. CorrelatedWith(k) \ {l} \in SUBSET CorrelatedWith(k)
          /\ \A j \in CorrelatedWith(k) \ (CorrelatedWith(k) \ {l}) : m.size[j] = 0
      BY <2>3
    <3> QED BY <2>2, <2>3, <3>1, GrossOfOpen
  <2>5. Gross(s, CorrelatedWith(k) \ {l}) = Gross(m, CorrelatedWith(k) \ {l})
    BY <1>3, <2>2
  <2> QED BY <2>1, <2>4, <2>5
<1> QED BY <1>4, <1>5, <1>6, <1>7, <1>8, <1>9 DEF Taken

LEMMA OneLegTaken ==
    ASSUME BudgetAssumption, NoStateAssumption, NEW b, Proper(b), NEW k \in Key, NEW size \in SignedSize,
           NEW e \in BOOLEAN, NEW d \in UtcDay, NEW eq \in Nat,
           Staged(b, <<Proposal(k, size, e, d)>>, eq) # NoState
    PROVE  Taken(b, Staged(b, <<Proposal(k, size, e, d)>>, eq), eq, {k}, k, d)
<1> DEFINE p == Proposal(k, size, e, d)
           s == RecordOpen(b, p, eq)
<1>1. Staged(b, <<p>>, eq) = WithLeg(b, p, eq)
  BY StagedOne
<1>2. Approved(b, p, eq) /\ Staged(b, <<p>>, eq) = s
  BY <1>1 DEF WithLeg
<1>3. \E a \in Nat \ {0} : LegTaken(b, p, eq, s, a)
  BY <1>2, LegOpens, ProposalIsSound
<1> QED BY <1>2, <1>3, FirstLegFits

LEMMA TwoLegsTaken ==
    ASSUME BudgetAssumption, NoStateAssumption, NEW b, Proper(b), NEW k \in Key, NEW l \in Key, k # l,
           NEW size1 \in SignedSize, NEW size2 \in SignedSize, NEW d \in UtcDay, NEW eq \in Nat,
           Staged(b, <<Proposal(k, size1, TRUE, d), Proposal(l, size2, TRUE, d)>>, eq) # NoState
    PROVE  Taken(b, Staged(b, <<Proposal(k, size1, TRUE, d), Proposal(l, size2, TRUE, d)>>, eq),
                 eq, {k, l}, l, d)
<1> DEFINE p == Proposal(k, size1, TRUE, d)
           q == Proposal(l, size2, TRUE, d)
           m == RecordOpen(b, p, eq)
           s == RecordOpen(m, q, eq)
<1>1. Staged(b, <<p, q>>, eq) = WithLeg(WithLeg(b, p, eq), q, eq)
  BY StagedTwo
<1>2. Approved(b, p, eq) /\ WithLeg(b, p, eq) = m /\ Approved(m, q, eq) /\ Staged(b, <<p, q>>, eq) = s
  BY <1>1 DEF WithLeg
<1>3. \E a \in Nat \ {0} : LegTaken(b, p, eq, m, a)
  BY <1>2, LegOpens, ProposalIsSound
<1>4. Taken(b, m, eq, {k}, k, d)
  BY <1>3, FirstLegFits
<1>5. Proper(m)
  BY <1>4 DEF Taken
<1>6. \E a \in Nat \ {0} : LegTaken(m, q, eq, s, a)
  BY <1>2, <1>5, LegOpens, ProposalIsSound
<1>7. b \in Book
  BY DEF Proper
<1> QED BY <1>2, <1>4, <1>6, <1>7, SecondLegFits

-----------------------------------------------------------------------------
(* The engine over time.                                                      *)

(* Besides the budgets: a position that is closed commits no risk, no day    *)
(* after the engine's has been booked to, and the engine's PnL is what was   *)
(* booked to its day unless a result of an earlier day came late.            *)
RiskInv ==
    /\ RiskTypeOK
    /\ Proper(book)
    /\ RiskIsBudgeted
    /\ book.day <= MaxDay
    /\ \A d \in UtcDay : d > book.day => booked[d] = 0
    /\ book.day \in UtcDay /\ book.day \notin late => book.pnl = booked[book.day]

(* What an observation that proposes a setup does.                           *)
SetupStep ==
    \E eq \in Equity, arbitrage \in BOOLEAN :
        /\ See(eq, arbitrage)
        /\ \/ book' = book
           \/ \E k \in Key, l \in Key, d \in UtcDay :
                 /\ Taken(book, book', eq, {k, l}, l, d)
                 /\ arbitrage => k # l /\ book'.size[k] = -book'.size[l]

LEMMA OpensSetup ==
    ASSUME NEW eq \in Equity, NEW arbitrage \in BOOLEAN, See(eq, arbitrage),
           NEW k \in Key, NEW l \in Key, NEW d \in UtcDay,
           book' = book \/ Taken(book, book', eq, {k, l}, l, d),
           book' = book \/ (arbitrage => k # l /\ book'.size[k] = -book'.size[l])
    PROVE  SetupStep
BY DEF SetupStep

LEMMA SetupsTake ==
    ASSUME BudgetAssumption, NoStateAssumption, RiskInv, Single \/ Basket \/ Arbitrage
    PROVE  SetupStep
<1>1. Proper(book) /\ Equity \subseteq Nat
  BY DEF RiskInv, BudgetAssumption
<1>2. CASE Single
  <2>1. PICK k \in Key, z \in SignedSize, e \in BOOLEAN, d \in UtcDay, eq \in Equity :
             ObserveSetup(<<Proposal(k, z, e, d)>>, FALSE, eq)
    BY <1>2 DEF Single
  <2> DEFINE s == Staged(book, <<Proposal(k, z, e, d)>>, eq)
  <2>2. See(eq, FALSE) /\ (book' = book \/ (s # NoState /\ book' = s))
    BY <2>1 DEF ObserveSetup
  <2>3. s # NoState => Taken(book, s, eq, {k}, k, d)
    BY <1>1, OneLegTaken
  <2> HIDE DEF s
  <2>4. {k} = {k, k}
    OBVIOUS
  <2>5. book' = book \/ Taken(book, book', eq, {k, k}, k, d)
    BY <2>2, <2>3, <2>4
  <2> QED BY <2>2, <2>5, OpensSetup
<1>3. CASE Basket
  <2>1. PICK k \in Key, l \in Key, z \in SignedSize, d \in UtcDay, eq \in Equity :
             k # l /\ d >= book.day /\ ObserveSetup(<<Proposal(k, z, TRUE, d), Proposal(l, z, TRUE, d)>>, FALSE, eq)
    BY <1>3 DEF Basket
  <2> DEFINE s == Staged(book, <<Proposal(k, z, TRUE, d), Proposal(l, z, TRUE, d)>>, eq)
  <2>2. See(eq, FALSE) /\ (book' = book \/ (s # NoState /\ book' = s))
    BY <2>1 DEF ObserveSetup
  <2>3. s # NoState => Taken(book, s, eq, {k, l}, l, d)
    BY <1>1, <2>1, TwoLegsTaken
  <2> HIDE DEF s
  <2>4. book' = book \/ Taken(book, book', eq, {k, l}, l, d)
    BY <2>2, <2>3
  <2> QED BY <2>2, <2>4, OpensSetup
<1>4. CASE Arbitrage
  <2>1. PICK k \in Key, l \in Key, z \in Size, d \in UtcDay, eq \in Equity :
             k # l /\ d >= book.day /\ ObserveSetup(<<Proposal(k, z, TRUE, d), Proposal(l, -z, TRUE, d)>>, TRUE, eq)
    BY <1>4 DEF Arbitrage
  <2> DEFINE legs == <<Proposal(k, z, TRUE, d), Proposal(l, -z, TRUE, d)>>
             s == Staged(book, legs, eq)
             taken == s # NoState /\ InFull(s, legs)
  <2>2. See(eq, taken) /\ book' = IF taken THEN s ELSE book
    BY <2>1 DEF ObserveSetup
  <2>3. z \in SignedSize /\ -z \in SignedSize
    BY DEF SignedSize
  <2>4. s # NoState => Taken(book, s, eq, {k, l}, l, d)
    BY <1>1, <2>1, <2>3, TwoLegsTaken
  <2>5. taken => s.size[k] = -s.size[l]
    <3>1. /\ 1 \in DOMAIN legs /\ 2 \in DOMAIN legs
          /\ legs[1].key = k /\ legs[1].size = z /\ legs[2].key = l /\ legs[2].size = -z
      BY DEF Proposal
    <3> HIDE DEF legs, s
    <3>2. taken => s.size[k] = z /\ s.size[l] = -z
      BY <3>1 DEF InFull
    <3>3. z \in Int
      BY DEF BudgetAssumption
    <3> QED BY <3>2, <3>3
  <2>6. taken \in BOOLEAN
    OBVIOUS
  <2> HIDE DEF legs, s
  <2>7. taken => s # NoState
    OBVIOUS
  <2> HIDE DEF taken
  <2>8. book' = book \/ Taken(book, book', eq, {k, l}, l, d)
    BY <2>2, <2>4, <2>7
  <2>9. book' = book \/ (taken => k # l /\ book'.size[k] = -book'.size[l])
    BY <2>1, <2>2, <2>5
  <2> QED BY <2>2, <2>6, <2>8, <2>9, OpensSetup
<1> QED BY <1>2, <1>3, <1>4

LEMMA SetupKeepsTypes ==
    ASSUME BudgetAssumption, RiskTypeOK, SetupStep
    PROVE  last' \in [equity : Equity \cup {0}, arbitrage : BOOLEAN] /\ highest' \in Equity \cup {0}
           /\ booked' = booked /\ late' = late
<1>1. PICK eq \in Equity, arbitrage \in BOOLEAN : See(eq, arbitrage)
  BY DEF SetupStep
<1> QED BY <1>1 DEF See, Larger, RiskTypeOK

LEMMA SetupKeepsInv ==
    ASSUME BudgetAssumption, RiskInv, SetupStep
    PROVE  RiskInv'
<1>1. RiskTypeOK
  BY DEF RiskInv
<1>2. last' \in [equity : Equity \cup {0}, arbitrage : BOOLEAN] /\ highest' \in Equity \cup {0}
      /\ booked' = booked /\ late' = late
  BY <1>1, SetupKeepsTypes
<1>3. CASE book' = book
  BY <1>2, <1>3 DEF RiskInv, RiskTypeOK, RiskIsBudgeted
<1>4. CASE \E eq \in Equity, k \in Key, l \in Key, d \in UtcDay : Taken(book, book', eq, {k, l}, l, d)
  <2>1. PICK eq \in Equity, k \in Key, l \in Key, d \in UtcDay : Taken(book, book', eq, {k, l}, l, d)
    BY <1>4
  <2>2. /\ Proper(book') /\ Committed(book') <= RiskMax /\ Cardinality(OpenKeys(book')) <= MaxOpen
        /\ book'.day = d /\ d >= book.day /\ book'.pnl = IF d > book.day THEN 0 ELSE book.pnl
    BY <2>1 DEF Taken
  <2>3. RiskTypeOK'
    BY <1>1, <1>2, <2>2 DEF RiskTypeOK, Proper
  <2>4. Proper(book)' /\ RiskIsBudgeted'
    BY <2>2 DEF RiskIsBudgeted
  <2>5. book.day \in Nat /\ d \in Nat
    BY <1>1 DEF RiskTypeOK, Book, UtcDay
  <2>6. \A e \in UtcDay : e > book'.day => booked'[e] = 0
    <3>1. \A e \in UtcDay : e \in Int
      BY DEF UtcDay
    <3>2. \A e \in UtcDay : e > book.day => booked[e] = 0
      BY DEF RiskInv
    <3> QED BY <1>2, <2>2, <2>5, <3>1, <3>2
  <2>7. d \notin late => book'.pnl = booked[d]
    <3>1. CASE d > book.day
      BY <2>2, <3>1 DEF RiskInv
    <3>2. CASE d = book.day
      BY <2>2, <2>5, <3>2 DEF RiskInv
    <3> QED BY <2>2, <2>5, <3>1, <3>2
  <2>8. book'.day <= MaxDay
    BY <2>2 DEF UtcDay
  <2> QED BY <1>2, <2>2, <2>3, <2>4, <2>6, <2>7, <2>8 DEF RiskInv
<1> QED BY <1>3, <1>4 DEF SetupStep

(* Positions that are closed take their sizes and risks out of the sums.     *)
LEMMA CloseKeepsInv ==
    ASSUME BudgetAssumption, RiskInv, NEW keys \in SUBSET Key, NEW pnl \in PnlStep, NEW day \in UtcDay,
           CloseVirtual(keys, pnl, day)
    PROVE  RiskInv' /\ OpenKeys(book') \subseteq OpenKeys(book)
<1> DEFINE r == Rolled(book, day)
           size == [k \in Key |-> IF k \in keys THEN 0 ELSE book.size[k]]
           risk == [k \in Key |-> IF k \in keys THEN 0 ELSE book.risk[k]]
           sum == r.pnl + pnl
<1>1. /\ book \in Book /\ book.size \in [Key -> Int] /\ book.risk \in [Key -> Nat] /\ book.day \in Nat
      /\ book.pnl \in Int /\ pnl \in Int /\ day \in Nat /\ booked \in [UtcDay -> -MaxPnl..MaxPnl]
      /\ MaxPnl \in Nat /\ IsFiniteSet(Key) /\ RiskTypeOK
  <2>1. book \in Book /\ booked \in [UtcDay -> -MaxPnl..MaxPnl] /\ RiskTypeOK
    BY DEF RiskInv, RiskTypeOK
  <2>2. /\ book.size \in [Key -> Int] /\ book.risk \in [Key -> Nat] /\ book.day \in Nat /\ book.pnl \in Int
    BY <2>1 DEF Book
  <2>3. pnl \in Int /\ MaxPnl \in Nat /\ IsFiniteSet(Key)
    BY DEF BudgetAssumption
  <2>4. day \in Nat
    BY DEF UtcDay
  <2> QED BY <2>1, <2>2, <2>3, <2>4
<1>2. /\ r \in Book /\ r.size = book.size /\ r.risk = book.risk
      /\ r.day = (IF day > book.day THEN day ELSE book.day)
      /\ r.pnl = (IF day > book.day THEN 0 ELSE book.pnl)
  <2>1. CASE day > book.day
    <3>1. PICK m \in Book : m = [book EXCEPT !.day = day]
      BY <1>1 DEF Book
    <3>2. r = [m EXCEPT !.pnl = 0]
      BY <2>1, <3>1 DEF Rolled, Book
    <3> HIDE DEF r
    <3>3. r \in Book
      BY <3>2 DEF Book
    <3>4. r.size = book.size /\ r.risk = book.risk /\ r.day = day /\ r.pnl = 0
      BY <3>1, <3>2 DEF Book
    <3> QED BY <2>1, <3>3, <3>4
  <2>2. CASE ~(day > book.day)
    BY <1>1, <2>2 DEF Rolled
  <2> QED BY <2>1, <2>2
<1>3. /\ size \in [Key -> Int] /\ risk \in [Key -> Nat] /\ sum \in Int
      /\ book' = [r EXCEPT !.size = size, !.risk = risk, !.pnl = sum]
  <2>1. r.size = book.size /\ r.risk = book.risk /\ DOMAIN book.size = Key /\ DOMAIN book.risk = Key
    BY <1>1, <1>2
  <2>2. book' = [r EXCEPT !.size = [k \in Key |-> IF k \in keys THEN 0 ELSE @[k]],
                          !.risk = [k \in Key |-> IF k \in keys THEN 0 ELSE @[k]],
                          !.pnl = @ + pnl]
    BY DEF CloseVirtual
  <2>3. r.pnl \in Int
    BY <1>1, <1>2
  <2> QED BY <1>1, <2>1, <2>2, <2>3
<1>4. /\ booked' = [booked EXCEPT ![day] = @ + pnl] /\ Magnitude(booked[day] + pnl) <= MaxPnl
      /\ late' = late \cup (IF day < book.day THEN {book.day} ELSE {}) /\ UNCHANGED <<last, highest>>
  BY DEF CloseVirtual
<1> HIDE DEF r, size, risk, sum
<1>5. /\ book' \in Book /\ book'.size = size /\ book'.risk = risk /\ book'.day = r.day /\ book'.pnl = sum
  BY <1>2, <1>3 DEF Book
<1>6. Proper(book') /\ OpenKeys(book') \subseteq OpenKeys(book)
  BY <1>1, <1>5 DEF Proper, OpenKeys, size, risk, RiskInv
<1>7. Committed(book') <= RiskMax
  <2>1. \A k \in Key : risk[k] \in Int /\ book.risk[k] \in Int /\ risk[k] <= book.risk[k]
    BY <1>1 DEF risk
  <2>2. SumOver(risk, Key) <= SumOver(book.risk, Key)
    BY <1>1, <2>1, SumMonotone
  <2>3. Committed(book') = SumOver(risk, Key) /\ Committed(book) = SumOver(book.risk, Key)
    BY <1>1, <1>3, <1>5 DEF Committed, SumOf
  <2>4. Committed(book) <= RiskMax /\ RiskMax \in Int
    BY DEF RiskInv, RiskIsBudgeted, BudgetAssumption
  <2>5. Committed(book) \in Int /\ Committed(book') \in Int
    BY <1>1, <1>5, SumsAreIntegers
  <2> QED BY <2>2, <2>3, <2>4, <2>5
<1>8. Cardinality(OpenKeys(book')) <= MaxOpen
  <2>1. IsFiniteSet(OpenKeys(book))
    BY <1>1, FS_Subset DEF OpenKeys
  <2>2. Cardinality(OpenKeys(book')) <= Cardinality(OpenKeys(book)) /\ IsFiniteSet(OpenKeys(book'))
    BY <1>6, <2>1, FS_Subset
  <2>3. Cardinality(OpenKeys(book)) <= MaxOpen /\ MaxOpen \in Nat
    BY DEF RiskInv, RiskIsBudgeted, BudgetAssumption
  <2>4. Cardinality(OpenKeys(book)) \in Nat /\ Cardinality(OpenKeys(book')) \in Nat
    BY <2>1, <2>2, FS_CardinalityType
  <2> QED BY <2>2, <2>3, <2>4
<1>9. RiskTypeOK'
  <2>1. booked[day] + pnl \in -MaxPnl..MaxPnl
    BY <1>1, <1>4 DEF Magnitude
  <2>2. booked' \in [UtcDay -> -MaxPnl..MaxPnl]
    BY <1>1, <1>4, <2>1
  <2>3. late' \subseteq UtcDay
    <3>1. day < book.day => book.day \in UtcDay
      <4>1. day \in 1..MaxDay /\ book.day <= MaxDay /\ MaxDay \in Nat
        BY DEF RiskInv, UtcDay, BudgetAssumption
      <4> QED BY SMTT(30), <1>1, <4>1 DEF UtcDay
    <3> QED BY <1>1, <1>4, <3>1 DEF RiskTypeOK
  <2> QED BY <1>1, <1>4, <1>5, <2>2, <2>3 DEF RiskTypeOK
<1>10. \A d \in UtcDay : d > book'.day => booked'[d] = 0
  <2>1. \A d \in UtcDay : d \in Int
    BY DEF UtcDay
  <2>2. \A d \in UtcDay : d > book.day => booked[d] = 0
    BY DEF RiskInv
  <2> QED BY <1>1, <1>2, <1>4, <1>5, <2>1, <2>2
<1>11. book'.day \in UtcDay /\ book'.day \notin late' => book'.pnl = booked'[book'.day]
  <2>1. CASE day > book.day
    <3>1. booked[day] = 0
      BY <2>1 DEF RiskInv
    <3>2. book'.day = day /\ book'.pnl = 0 + pnl /\ booked'[day] = 0 + pnl
      BY <1>1, <1>2, <1>4, <1>5, <2>1, <3>1 DEF sum
    <3> QED BY <3>2
  <2>2. CASE day = book.day
    <3>1. book'.day = day /\ book'.pnl = book.pnl + pnl /\ booked'[day] = booked[day] + pnl /\ late \subseteq late'
      BY <1>1, <1>2, <1>4, <1>5, <2>2 DEF sum
    <3>2. day \notin late => book.pnl = booked[day]
      BY <2>2 DEF RiskInv
    <3> QED BY <3>1, <3>2
  <2>3. CASE day < book.day
    <3>1. book'.day = book.day /\ book.day \in late'
      BY <1>1, <1>2, <1>4, <1>5, <2>3
    <3> QED BY <3>1
  <2> QED BY <1>1, <2>1, <2>2, <2>3
<1>12. book'.day <= MaxDay
  <2>1. day <= MaxDay /\ book.day <= MaxDay
    BY DEF RiskInv, UtcDay
  <2> QED BY <1>2, <1>5, <2>1
<1>13. RiskInv'
  BY <1>5, <1>6, <1>7, <1>8, <1>9, <1>10, <1>11, <1>12 DEF RiskInv, RiskIsBudgeted
<1> QED BY <1>6, <1>13

LEMMA RiskInductive ==
    BudgetAssumption /\ NoStateAssumption /\ RiskInv /\ [RiskNext]_riskVars => RiskInv'
<1> SUFFICES ASSUME BudgetAssumption, NoStateAssumption, RiskInv, [RiskNext]_riskVars
             PROVE  RiskInv'
  OBVIOUS
<1>1. CASE Wait
  <2>1. PICK eq \in Equity : See(eq, FALSE) /\ UNCHANGED book
    BY <1>1 DEF Wait, ObserveWait
  <2>2. SetupStep
    BY <2>1 DEF SetupStep
  <2> QED BY <2>2, SetupKeepsInv
<1>2. CASE Single \/ Basket \/ Arbitrage
  BY <1>2, SetupsTake, SetupKeepsInv
<1>3. CASE Close
  BY <1>3, CloseKeepsInv DEF Close
<1>4. CASE ActivateSafetyHold
  <2>1. book' = [book EXCEPT !.kill = TRUE] /\ UNCHANGED <<last, highest, booked, late>> /\ book \in Book
    BY <1>4 DEF ActivateSafetyHold, RiskInv, RiskTypeOK
  <2>2. book' \in Book /\ book'.size = book.size /\ book'.risk = book.risk /\ book'.day = book.day
        /\ book'.pnl = book.pnl
    BY <2>1 DEF Book
  <2>3. Committed(book') = Committed(book) /\ OpenKeys(book') = OpenKeys(book)
    BY <2>2 DEF Committed, OpenKeys
  <2> QED BY <2>1, <2>2, <2>3 DEF RiskInv, RiskTypeOK, RiskIsBudgeted, Proper
<1>5. CASE UNCHANGED riskVars
  BY <1>5 DEF riskVars, RiskInv, RiskTypeOK, RiskIsBudgeted
<1> QED BY <1>1, <1>2, <1>3, <1>4, <1>5 DEF RiskNext

(* Nothing is open in a new engine.                                          *)
LEMMA RiskInitially == BudgetAssumption /\ RiskInit => RiskInv
<1> SUFFICES ASSUME BudgetAssumption, RiskInit PROVE RiskInv
  OBVIOUS
<1>1. /\ book \in Book /\ \A k \in Key : book.size[k] = 0 /\ book.risk[k] = 0
      /\ book.day = 0 /\ book.risk \in [Key -> Nat]
  BY DEF RiskInit, Book
<1>2. MaxDay \in Nat /\ MaxPnl \in Nat /\ RiskMax \in Nat /\ MaxOpen \in Nat /\ IsFiniteSet(Key)
  BY DEF BudgetAssumption
<1>3. Committed(book) = 0
  <2>1. {} \subseteq Key /\ \A k \in Key : book.risk[k] \in Int
    BY <1>1
  <2>2. SumOver(book.risk, Key) = SumOver(book.risk, {})
    BY <1>1, <1>2, <2>1, SumWithoutZeros
  <2> QED BY <1>1, <2>2, SumEmpty DEF Committed, SumOf
<1>4. OpenKeys(book) = {} /\ Cardinality({}) = 0
  BY <1>1, FS_EmptySet DEF OpenKeys
<1>5. booked \in [UtcDay -> -MaxPnl..MaxPnl] /\ (\A d \in UtcDay : booked[d] = 0) /\ 0 \notin UtcDay
  BY <1>2 DEF RiskInit, UtcDay
<1>6. RiskTypeOK
  BY <1>1, <1>5 DEF RiskInit, RiskTypeOK
<1> QED BY <1>1, <1>2, <1>3, <1>4, <1>5, <1>6 DEF RiskInv, Proper, RiskIsBudgeted

(* The inductive invariant of the portfolio risk engine.                     *)
THEOREM RiskInvariant == RiskSpec => []RiskInv
<1>1. RiskInit => RiskInv
  BY RiskInitially, BudgetAssumption
<1>2. RiskInv /\ [RiskNext]_riskVars => RiskInv'
  BY RiskInductive, BudgetAssumption, NoStateAssumption
<1> QED BY <1>1, <1>2, PTL DEF RiskSpec

(* The engine's snapshot keeps its type: no committed risk is negative, and   *)
(* a day's result stays within the bound that the guard of a close gives it. *)
THEOREM RiskTypeCorrect == RiskSpec => []RiskTypeOK
<1>1. RiskInv => RiskTypeOK
  BY DEF RiskInv
<1> QED BY <1>1, RiskInvariant, PTL

(* Whatever setups are observed, in one leg or two, and whatever is closed,  *)
(* evaluate_entry and record_open never commit more risk than the budget and *)
(* never hold more positions than their number.                              *)
THEOREM RiskAlwaysBudgeted == RiskSpec => []RiskIsBudgeted
<1>1. RiskInv => RiskIsBudgeted
  BY DEF RiskInv
<1> QED BY <1>1, RiskInvariant, PTL

(* A step that opens nothing is no entry.                                    *)
LEMMA NothingNew ==
    ASSUME OpenKeys(book') \subseteq OpenKeys(book)
    PROVE  ExposureFits /\ ArbitrageIsWhole /\ LossStopsEntries
BY DEF ExposureFits, ArbitrageIsWhole, LossStopsEntries, NewlyOpen

(* An entry is sound because each of its legs was taken as it was approved.  *)
LEMMA SetupIsSound ==
    ASSUME BudgetAssumption, NoStateAssumption, RiskInv, SetupStep
    PROVE  ExposureFits /\ ArbitrageIsWhole /\ LossStopsEntries
<1>1. PICK eq \in Equity, arbitrage \in BOOLEAN :
        /\ See(eq, arbitrage)
        /\ \/ book' = book
           \/ \E k \in Key, l \in Key, d \in UtcDay :
                 /\ Taken(book, book', eq, {k, l}, l, d)
                 /\ arbitrage => k # l /\ book'.size[k] = -book'.size[l]
  BY DEF SetupStep
<1>2. CASE book' = book
  BY <1>2, NothingNew
<1>3. CASE \E k \in Key, l \in Key, d \in UtcDay :
             /\ Taken(book, book', eq, {k, l}, l, d)
             /\ arbitrage => k # l /\ book'.size[k] = -book'.size[l]
  <2>1. PICK k \in Key, l \in Key, d \in UtcDay :
             /\ Taken(book, book', eq, {k, l}, l, d)
             /\ arbitrage => k # l /\ book'.size[k] = -book'.size[l]
    BY <1>3
  <2>2. last'.equity = eq /\ last'.arbitrage = arbitrage /\ booked' = booked /\ late' = late
    BY <1>1 DEF See
  <2>3. NewlyOpen = {k, l}
    BY <2>1 DEF Taken, NewlyOpen
  <2>4. ExposureFits
    <3>1. Gross(book', Key) <= Limit(GrossPct, last'.equity)
          /\ Magnitude(Net(book')) <= Larger(Limit(NetPct, last'.equity), Magnitude(Net(book)))
      BY <2>1, <2>2 DEF Taken
    <3>2. \A j \in NewlyOpen : BucketsFit(j)
      BY <2>1, <2>2, <2>3 DEF Taken, BucketsFit
    <3>3. CorrelatedFits(l, {})
      <4>1. CorrelatedWith(l) \ {} = CorrelatedWith(l)
        OBVIOUS
      <4> QED BY <2>1, <2>2, <4>1 DEF Taken, CorrelatedFits
    <3>4. \A j \in NewlyOpen \ {l} : CorrelatedFits(j, {l})
      BY <2>1, <2>2, <2>3 DEF Taken, CorrelatedFits
    <3> QED BY <2>3, <3>1, <3>2, <3>3, <3>4 DEF ExposureFits
  <2>5. ArbitrageIsWhole
    BY <2>1, <2>2, <2>3 DEF ArbitrageIsWhole
  <2>6. LossStopsEntries
    <3>1. RiskInv'
      BY SetupKeepsInv
    <3>2. book'.day = d /\ 100 * book'.pnl > -LossPct * eq
      BY <2>1 DEF Taken
    <3>3. d \notin late => book'.pnl = booked[d]
      BY <2>2, <3>1, <3>2 DEF RiskInv
    <3> QED BY <2>2, <3>2, <3>3 DEF LossStopsEntries
  <2> QED BY <2>4, <2>5, <2>6
<1> QED BY <1>1, <1>2, <1>3

(* Every step that opens positions, however many legs it has and whatever    *)
(* was closed before it, leaves gross, net, every bucket and the correlated  *)
(* exposure within the limits of the equity it was sized on, takes both legs *)
(* of an arbitrage in full, and falls on no day that lost its envelope.      *)
THEOREM EntriesAlwaysSound == RiskSpec => EntriesAreSound
<1>1. RiskInv /\ [RiskNext]_riskVars => [ExposureFits /\ ArbitrageIsWhole /\ LossStopsEntries]_riskVars
  <2> SUFFICES ASSUME RiskInv, RiskNext
               PROVE  ExposureFits /\ ArbitrageIsWhole /\ LossStopsEntries
    OBVIOUS
  <2>1. CASE Wait
    BY <2>1, NothingNew DEF Wait, ObserveWait
  <2>2. CASE Single \/ Basket \/ Arbitrage
    BY <2>2, SetupsTake, SetupIsSound, BudgetAssumption, NoStateAssumption
  <2>3. CASE Close
    BY <2>3, CloseKeepsInv, NothingNew, BudgetAssumption DEF Close
  <2>4. CASE ActivateSafetyHold
    <3>1. book \in Book /\ book' = [book EXCEPT !.kill = TRUE]
      BY <2>4 DEF ActivateSafetyHold, RiskInv, RiskTypeOK
    <3>2. OpenKeys(book') = OpenKeys(book)
      BY <3>1 DEF OpenKeys, Book
    <3> QED BY <3>2, NothingNew
  <2> QED BY <2>1, <2>2, <2>3, <2>4 DEF RiskNext
<1> QED BY <1>1, RiskInvariant, PTL DEF RiskSpec, EntriesAreSound
-----------------------------------------------------------------------------
(* What the events on their way add up to. *)

Event == [type : {"fill", "rejected"}, order : Nat, mark : Nat, again : BOOLEAN]

(* Where in q a fill of one of the orders is told for the first time. *)
FreshAt(q, orders) == {n \in DOMAIN q : q[n].type = "fill" /\ ~q[n].again /\ q[n].order \in orders}
FreshIn(q, orders) == Cardinality(FreshAt(q, orders))
RefusedIn(q, i) == \E n \in DOMAIN q : q[n].type = "rejected" /\ q[n].order = i

LEMMA FreshIsFinite ==
    ASSUME NEW q \in Seq(Event), NEW orders
    PROVE  IsFiniteSet(FreshAt(q, orders)) /\ FreshIn(q, orders) \in Nat
<1>1. DOMAIN q = 1..Len(q) /\ Len(q) \in Nat
  OBVIOUS
<1>2. IsFiniteSet(1..Len(q))
  BY <1>1, FS_Interval
<1>3. FreshAt(q, orders) \in SUBSET (1..Len(q))
  BY <1>1 DEF FreshAt
<1>4. IsFiniteSet(FreshAt(q, orders))
  BY <1>2, <1>3, FS_Subset
<1> QED BY <1>4, FS_CardinalityType DEF FreshIn

LEMMA FreshOfNothing ==
    ASSUME NEW orders
    PROVE  FreshIn(<<>>, orders) = 0
<1>1. FreshAt(<<>>, orders) = {}
  BY DEF FreshAt
<1> QED BY <1>1, FS_EmptySet DEF FreshIn

(* The first event leaves, or stays behind as one that was told. *)
Later(q) == {Tail(q), <<[Head(q) EXCEPT !.again = TRUE]>> \o Tail(q)}

LEMMA TailHas ==
    ASSUME NEW q \in Seq(Event), q # <<>>
    PROVE  /\ Tail(q) \in Seq(Event) /\ DOMAIN Tail(q) = 1..(Len(q) - 1)
           /\ \A n \in DOMAIN Tail(q) : Tail(q)[n] = q[n + 1]
           /\ Len(q) \in Nat \ {0} /\ DOMAIN q = 1..Len(q) /\ Head(q) = q[1] /\ Head(q) \in Event
<1>1. Tail(q) \in Seq(Event) /\ Len(Tail(q)) = Len(q) - 1
      /\ \A n \in 1..Len(Tail(q)) : Tail(q)[n] = q[n + 1]
  BY HeadTailProperties
<1> QED BY <1>1

LEMMA PrependHas ==
    ASSUME NEW e \in Event, NEW t \in Seq(Event)
    PROVE  /\ <<e>> \o t \in Seq(Event) /\ DOMAIN (<<e>> \o t) = 1..(Len(t) + 1)
           /\ (<<e>> \o t)[1] = e
           /\ \A n \in 2..(Len(t) + 1) : (<<e>> \o t)[n] = t[n - 1]
<1>1. <<e>> \in Seq(Event) /\ Len(<<e>>) = 1 /\ <<e>>[1] = e /\ Len(t) \in Nat
  OBVIOUS
<1>2. /\ <<e>> \o t \in Seq(Event) /\ Len(<<e>> \o t) = Len(<<e>>) + Len(t)
      /\ \A n \in 1..(Len(<<e>>) + Len(t)) : (<<e>> \o t)[n] = IF n <= Len(<<e>>) THEN <<e>>[n] ELSE t[n - Len(<<e>>)]
  BY <1>1, ConcatProperties
<1> QED BY <1>1, <1>2

LEMMA AgainHas ==
    ASSUME NEW q \in Seq(Event), q # <<>>, NEW r, r = <<[Head(q) EXCEPT !.again = TRUE]>> \o Tail(q)
    PROVE  /\ r \in Seq(Event) /\ DOMAIN r = DOMAIN q
           /\ r[1].again /\ r[1].type = q[1].type /\ r[1].order = q[1].order /\ r[1].mark = q[1].mark
           /\ \A n \in DOMAIN q : n # 1 => r[n] = q[n]
<1>1. PICK e : e = [Head(q) EXCEPT !.again = TRUE]
  OBVIOUS
<1>2. PICK t : t = Tail(q)
  OBVIOUS
<1>3. e \in Event /\ e.again /\ e.type = q[1].type /\ e.order = q[1].order /\ e.mark = q[1].mark
  BY <1>1, TailHas DEF Event
<1>4. /\ t \in Seq(Event) /\ Len(t) = Len(q) - 1 /\ Len(q) \in Nat \ {0} /\ DOMAIN q = 1..Len(q)
      /\ \A n \in 1..(Len(q) - 1) : t[n] = q[n + 1]
  <2>1. Tail(q) \in Seq(Event) /\ Len(Tail(q)) = Len(q) - 1
    BY HeadTailProperties
  <2>2. /\ Len(q) \in Nat \ {0} /\ DOMAIN q = 1..Len(q) /\ DOMAIN Tail(q) = 1..(Len(q) - 1)
        /\ \A n \in DOMAIN Tail(q) : Tail(q)[n] = q[n + 1]
    BY TailHas
  <2> QED BY <1>2, <2>1, <2>2
<1>5. r = <<e>> \o t
  BY <1>1, <1>2
<1>6. /\ r \in Seq(Event) /\ DOMAIN r = 1..(Len(t) + 1) /\ r[1] = e
      /\ \A n \in 2..(Len(t) + 1) : r[n] = t[n - 1]
  <2>1. e \in Event /\ t \in Seq(Event)
    BY <1>3, <1>4
  <2>2. /\ <<e>> \o t \in Seq(Event) /\ DOMAIN (<<e>> \o t) = 1..(Len(t) + 1) /\ (<<e>> \o t)[1] = e
        /\ \A n \in 2..(Len(t) + 1) : (<<e>> \o t)[n] = t[n - 1]
    BY <2>1, PrependHas, Zenon
  <2> QED BY <1>5, <2>2, Zenon
<1>7. Len(t) + 1 = Len(q)
  BY <1>4
<1>8. ASSUME NEW n \in DOMAIN q, n # 1 PROVE r[n] = q[n]
  <2>1. n \in 2..(Len(t) + 1) /\ n - 1 \in 1..(Len(q) - 1) /\ (n - 1) + 1 = n
    BY <1>4, <1>7, <1>8
  <2>2. r[n] = t[n - 1] /\ t[n - 1] = q[(n - 1) + 1]
    BY <1>4, <1>6, <2>1, Zenon
  <2> QED BY <2>1, <2>2
<1> QED BY <1>3, <1>4, <1>6, <1>7, <1>8

LEMMA FreshOfTail ==
    ASSUME NEW q \in Seq(Event), q # <<>>, NEW orders
    PROVE  FreshIn(Tail(q), orders) = Cardinality(FreshAt(q, orders) \ {1})
<1> DEFINE S == FreshAt(Tail(q), orders)
           T == FreshAt(q, orders) \ {1}
           f == [n \in S |-> n + 1]
<1>1. /\ \A n \in DOMAIN Tail(q) : Tail(q)[n] = q[n + 1]
      /\ DOMAIN Tail(q) = 1..(Len(q) - 1) /\ DOMAIN q = 1..Len(q) /\ Len(q) \in Nat \ {0}
  BY TailHas
<1>2. \A n \in S : n \in Nat /\ n + 1 \in T
  BY <1>1 DEF FreshAt
<1>3. \A m \in T : m - 1 \in S /\ (m - 1) + 1 = m
  <2> SUFFICES ASSUME NEW m \in T PROVE m - 1 \in S /\ (m - 1) + 1 = m
    OBVIOUS
  <2>1. m \in 2..Len(q) /\ q[m].type = "fill" /\ ~q[m].again /\ q[m].order \in orders
    BY <1>1 DEF FreshAt
  <2>2. m - 1 \in DOMAIN Tail(q) /\ (m - 1) + 1 = m
    BY <1>1, <2>1
  <2>3. Tail(q)[m - 1] = q[m]
    BY <1>1, <2>2
  <2> QED BY <2>1, <2>2, <2>3 DEF FreshAt
<1>4. f \in Bijection(S, T)
  BY <1>2, <1>3 DEF Bijection, Injection, Surjection, IsInjective
<1>5. IsFiniteSet(S)
  BY <1>1, FreshIsFinite, TailHas
<1>6. Cardinality(T) = Cardinality(S)
  BY <1>4, <1>5, FS_Bijection DEF ExistsBijection
<1> QED BY <1>6 DEF FreshIn

LEMMA FreshLater ==
    ASSUME NEW q \in Seq(Event), q # <<>>, NEW r \in Later(q), NEW orders
    PROVE  /\ r \in Seq(Event)
           /\ FreshIn(r, orders) = IF 1 \in FreshAt(q, orders) THEN FreshIn(q, orders) - 1 ELSE FreshIn(q, orders)
<1>1. Cardinality(FreshAt(q, orders) \ {1})
        = IF 1 \in FreshAt(q, orders) THEN FreshIn(q, orders) - 1 ELSE FreshIn(q, orders)
  BY FreshIsFinite, FS_RemoveElement DEF FreshIn
<1>2. CASE r = Tail(q)
  BY <1>1, <1>2, FreshOfTail, TailHas
<1>3. CASE r = <<[Head(q) EXCEPT !.again = TRUE]>> \o Tail(q)
  <2>1. /\ r \in Seq(Event) /\ DOMAIN r = DOMAIN q /\ r[1].again
        /\ \A n \in DOMAIN q : n # 1 => r[n] = q[n]
    BY <1>3, AgainHas
  <2>2. FreshAt(r, orders) = FreshAt(q, orders) \ {1}
    BY <2>1 DEF FreshAt
  <2> QED BY <1>1, <2>1, <2>2 DEF FreshIn
<1> QED BY <1>2, <1>3 DEF Later

(* What is later in r was later in q. *)
LEMMA LaterKeepsOrder ==
    ASSUME NEW q \in Seq(Event), q # <<>>, NEW r \in Later(q), NEW I, NEW J,
           \A a \in FreshAt(q, I), b \in FreshAt(q, J) : b < a
    PROVE  \A a \in FreshAt(r, I), b \in FreshAt(r, J) : b < a
<1>1. CASE r = Tail(q)
  <2> SUFFICES ASSUME NEW a \in FreshAt(r, I), NEW b \in FreshAt(r, J) PROVE b < a
    OBVIOUS
  <2>1. a \in Nat /\ b \in Nat /\ a + 1 \in FreshAt(q, I) /\ b + 1 \in FreshAt(q, J)
    BY <1>1, TailHas DEF FreshAt
  <2>2. b + 1 < a + 1
    BY <2>1
  <2> QED BY <2>1, <2>2
<1>2. CASE r = <<[Head(q) EXCEPT !.again = TRUE]>> \o Tail(q)
  <2>1. DOMAIN r = DOMAIN q /\ r[1].again /\ \A n \in DOMAIN q : n # 1 => r[n] = q[n]
    BY <1>2, AgainHas
  <2>2. FreshAt(r, I) \subseteq FreshAt(q, I) /\ FreshAt(r, J) \subseteq FreshAt(q, J)
    BY <2>1 DEF FreshAt
  <2> QED BY <2>2
<1> QED BY <1>1, <1>2 DEF Later

LEMMA LaterHas ==
    ASSUME NEW q \in Seq(Event), q # <<>>, NEW r \in Later(q)
    PROVE  \A n \in DOMAIN r : \E m \in DOMAIN q :
              r[n].type = q[m].type /\ r[n].order = q[m].order /\ r[n].mark = q[m].mark
<1>1. CASE r = Tail(q)
  <2>1. \A n \in DOMAIN r : n + 1 \in DOMAIN q /\ r[n] = q[n + 1]
    BY <1>1, TailHas
  <2> QED BY <2>1
<1>2. CASE r = <<[Head(q) EXCEPT !.again = TRUE]>> \o Tail(q)
  <2>1. /\ DOMAIN r = DOMAIN q /\ r[1].type = q[1].type /\ r[1].order = q[1].order /\ r[1].mark = q[1].mark
        /\ \A n \in DOMAIN q : n # 1 => r[n] = q[n]
    BY <1>2, AgainHas
  <2>2. ASSUME NEW n \in DOMAIN r
        PROVE  r[n].type = q[n].type /\ r[n].order = q[n].order /\ r[n].mark = q[n].mark
    BY <2>1
  <2> QED BY <2>1, <2>2
<1> QED BY <1>1, <1>2 DEF Later
(* What joins the events: the fills of one order, or its rejection. *)
FillsOf(s, i, n) ==
    /\ s \in Seq(Event) /\ Len(s) = n /\ DOMAIN s = 1..n
    /\ \A k \in 1..n : s[k].type = "fill" /\ s[k].order = i /\ ~s[k].again /\ s[k].mark \in 1..n

LEMMA FillsAre ==
    ASSUME NEW i \in Nat, NEW n \in Nat, NEW same
    PROVE  FillsOf(Fills(i, n, same), i, n)
<1> DEFINE e(k) == [type |-> "fill", order |-> i, mark |-> IF same THEN 1 ELSE k, again |-> FALSE]
<1>1. \A k \in 1..n : /\ e(k) \in Event /\ e(k).type = "fill" /\ e(k).order = i
                      /\ ~e(k).again /\ e(k).mark \in 1..n
  BY DEF Event
<1>2. Fills(i, n, same) = [k \in 1..n |-> e(k)]
  BY DEF Fills
<1> HIDE DEF e
<1>3. [k \in 1..n |-> e(k)] \in [1..n -> Event]
  BY <1>1
<1>4. Fills(i, n, same) \in Seq(Event) /\ Len(Fills(i, n, same)) = n /\ DOMAIN Fills(i, n, same) = 1..n
  BY <1>2, <1>3
<1>5. \A k \in 1..n : Fills(i, n, same)[k] = e(k)
  BY <1>2
<1> QED BY <1>1, <1>4, <1>5 DEF FillsOf

LEMMA JoinedHas ==
    ASSUME NEW q \in Seq(Event), NEW s \in Seq(Event), NEW r, r = q \o s
    PROVE  /\ r \in Seq(Event) /\ DOMAIN r = 1..(Len(q) + Len(s))
           /\ DOMAIN q = 1..Len(q) /\ DOMAIN s = 1..Len(s) /\ Len(q) \in Nat /\ Len(s) \in Nat
           /\ \A n \in DOMAIN q : r[n] = q[n]
           /\ \A n \in (Len(q) + 1)..(Len(q) + Len(s)) : n - Len(q) \in DOMAIN s /\ r[n] = s[n - Len(q)]
<1>1. /\ q \o s \in Seq(Event) /\ Len(q \o s) = Len(q) + Len(s)
      /\ \A n \in 1..(Len(q) + Len(s)) : (q \o s)[n] = IF n <= Len(q) THEN q[n] ELSE s[n - Len(q)]
  BY ConcatProperties
<1>2. DOMAIN q = 1..Len(q) /\ DOMAIN s = 1..Len(s) /\ Len(q) \in Nat /\ Len(s) \in Nat
  OBVIOUS
<1>3. DOMAIN (q \o s) = 1..(Len(q) + Len(s))
  BY <1>1, LenProperties
<1>4. \A n \in DOMAIN q : (q \o s)[n] = q[n]
  BY <1>1, <1>2
<1>5. \A n \in (Len(q) + 1)..(Len(q) + Len(s)) : n - Len(q) \in DOMAIN s /\ (q \o s)[n] = s[n - Len(q)]
  BY <1>1, <1>2
<1> QED BY <1>1, <1>2, <1>3, <1>4, <1>5

LEMMA FillsJoin ==
    ASSUME NEW q \in Seq(Event), NEW i \in Nat, NEW n \in Nat, NEW s, FillsOf(s, i, n), NEW orders
    PROVE  /\ i \in orders => FreshIn(q \o s, orders) = FreshIn(q, orders) + n
           /\ FreshAt(q \o s, orders) \intersect DOMAIN q = FreshAt(q, orders)
           /\ i \notin orders => FreshAt(q \o s, orders) = FreshAt(q, orders)
<1> DEFINE new == (Len(q) + 1)..(Len(q) + n)
<1> PICK r : r = q \o s
  OBVIOUS
<1>1. s \in Seq(Event) /\ Len(s) = n /\ r = q \o s
  BY DEF FillsOf
<1>2. \A k \in 1..n : s[k].type = "fill" /\ s[k].order = i /\ ~s[k].again
  BY DEF FillsOf
<1>3. /\ DOMAIN r = 1..(Len(q) + n) /\ DOMAIN q = 1..Len(q) /\ Len(q) \in Nat
      /\ \A m \in DOMAIN q : r[m] = q[m]
      /\ \A m \in new : m - Len(q) \in 1..n /\ r[m] = s[m - Len(q)]
  <2>1. /\ DOMAIN r = 1..(Len(q) + Len(s)) /\ DOMAIN q = 1..Len(q) /\ DOMAIN s = 1..Len(s) /\ Len(q) \in Nat
        /\ \A m \in DOMAIN q : r[m] = q[m]
        /\ \A m \in (Len(q) + 1)..(Len(q) + Len(s)) : m - Len(q) \in DOMAIN s /\ r[m] = s[m - Len(q)]
    <3>1. s \in Seq(Event) /\ r = q \o s
      BY <1>1
    <3> QED BY <3>1, JoinedHas
  <2> QED BY <1>1, <2>1
<1>4. \A m \in new : r[m].type = "fill" /\ r[m].order = i /\ ~r[m].again
  BY <1>2, <1>3
<1>5. DOMAIN r = DOMAIN q \union new /\ DOMAIN q \intersect new = {}
  BY <1>3
<1> HIDE DEF new
<1>6. FreshAt(r, orders) = FreshAt(q, orders) \union (IF i \in orders THEN new ELSE {})
  BY <1>3, <1>4, <1>5 DEF FreshAt
<1>7. IsFiniteSet(new) /\ Cardinality(new) = n
  <2>1. ASSUME NEW l \in Nat
        PROVE  IsFiniteSet((l + 1)..(l + n)) /\ Cardinality((l + 1)..(l + n)) = n
    <3>1. /\ IsFiniteSet((l + 1)..(l + n))
          /\ Cardinality((l + 1)..(l + n)) = IF l + 1 > l + n THEN 0 ELSE (l + n) - (l + 1) + 1
      BY FS_Interval
    <3>2. (IF l + 1 > l + n THEN 0 ELSE (l + n) - (l + 1) + 1) = n
      OBVIOUS
    <3> QED BY <3>1, <3>2
  <2> QED BY <1>3, <2>1 DEF new
<1>8. FreshAt(q, orders) \intersect new = {} /\ FreshAt(q, orders) \subseteq DOMAIN q
  BY <1>5 DEF FreshAt
<1>9. CASE i \in orders
  <2>1. Cardinality(FreshAt(q, orders) \union new)
          = Cardinality(FreshAt(q, orders)) + Cardinality(new) - Cardinality(FreshAt(q, orders) \intersect new)
    BY <1>7, FreshIsFinite, FS_Union
  <2>2. Cardinality(FreshAt(q, orders) \intersect new) = 0
    BY <1>8, FS_EmptySet
  <2>3. FreshIn(r, orders) = FreshIn(q, orders) + n
    BY <1>6, <1>7, <1>9, <2>1, <2>2, FreshIsFinite DEF FreshIn
  <2> QED BY <1>5, <1>6, <1>8, <1>9, <2>3
<1>10. CASE i \notin orders
  BY <1>5, <1>6, <1>8, <1>10 DEF FreshIn
<1> QED BY <1>9, <1>10

LEMMA RejectionJoins ==
    ASSUME NEW q \in Seq(Event), NEW e \in Event, e.type = "rejected", NEW r, r = q \o <<e>>
    PROVE  /\ r \in Seq(Event)
           /\ \A n \in DOMAIN r : r[n] = e \/ (n \in DOMAIN q /\ r[n] = q[n])
           /\ \A n \in DOMAIN q : n \in DOMAIN r /\ r[n] = q[n]
<1>1. PICK s \in Seq(Event) : s = <<e>> /\ Len(s) = 1 /\ s[1] = e
  <2>1. <<e>> \in Seq(Event) /\ Len(<<e>>) = 1 /\ <<e>>[1] = e
    OBVIOUS
  <2> QED BY <2>1, Zenon
<1>2. /\ r \in Seq(Event) /\ DOMAIN r = 1..(Len(q) + 1) /\ DOMAIN q = 1..Len(q) /\ Len(q) \in Nat
      /\ \A n \in DOMAIN q : r[n] = q[n]
      /\ \A n \in (Len(q) + 1)..(Len(q) + 1) : r[n] = s[n - Len(q)]
  <2>1. s \in Seq(Event) /\ r = q \o s
    BY <1>1
  <2>2. /\ r \in Seq(Event) /\ DOMAIN r = 1..(Len(q) + Len(s)) /\ DOMAIN q = 1..Len(q) /\ Len(q) \in Nat
        /\ \A n \in DOMAIN q : r[n] = q[n]
        /\ \A n \in (Len(q) + 1)..(Len(q) + Len(s)) : r[n] = s[n - Len(q)]
    BY <2>1, JoinedHas
  <2> QED BY <1>1, <2>2
<1>3. r[Len(q) + 1] = e /\ DOMAIN r = DOMAIN q \union {Len(q) + 1} /\ Len(q) + 1 \notin DOMAIN q
  BY <1>1, <1>2
<1> QED BY <1>2, <1>3

LEMMA RejectionIsNotFresh ==
    ASSUME NEW q \in Seq(Event), NEW e \in Event, e.type = "rejected", NEW r, r = q \o <<e>>, NEW orders
    PROVE  FreshAt(r, orders) = FreshAt(q, orders)
<1>1. /\ \A n \in DOMAIN r : r[n] = e \/ (n \in DOMAIN q /\ r[n] = q[n])
      /\ \A n \in DOMAIN q : n \in DOMAIN r /\ r[n] = q[n]
  BY RejectionJoins
<1> QED BY <1>1 DEF FreshAt
-----------------------------------------------------------------------------
(* Orders, and the types of a session. *)

OrderRow == [kind : {"entry", "close"}, size : Nat, working : BOOLEAN, got : Nat, lost : Int]
Trader == [entry : Nat, bars : Nat, stop : BOOLEAN, waited : Int]
Limits == [open : BOOLEAN, lost : Int, day : 0..1]
Recorder == [intents : SUBSET Nat, seen : SUBSET (Nat \X Nat), scored : Seq(Nat), refused : SUBSET Nat]

SessionTypes ==
    /\ session \in [at : {"down", "running", "backoff"}, restarts : Nat, launches : Nat]
    /\ checkpoint \in Nat \union {NoCheckpoint, Torn}
    /\ trader \in Trader /\ limits \in Limits /\ position \in Int
    /\ recorder \in Recorder /\ Len(recorder.scored) = Len(order)
    /\ recorder.intents \subseteq DOMAIN order /\ recorder.refused \subseteq DOMAIN order
    /\ order \in Seq(OrderRow) /\ held \in Nat /\ news \in Seq(Event) /\ twice \in Nat /\ deaf \in BOOLEAN
    /\ failures \in Nat /\ utcDay \in 0..1 /\ losses \in [0..1 -> Int]

Finished(new, ord, i, n) ==
    /\ new \in Seq(OrderRow) /\ DOMAIN new = DOMAIN ord /\ Len(new) = Len(ord)
    /\ \A j \in DOMAIN ord : j # i => new[j] = ord[j]
    /\ new[i].kind = ord[i].kind /\ new[i].size = ord[i].size /\ new[i].lost = ord[i].lost
    /\ ~new[i].working /\ new[i].got = n

Longer(new, ord, row) ==
    /\ new \in Seq(OrderRow) /\ Len(new) = Len(ord) + 1 /\ Len(ord) \in Nat
    /\ DOMAIN ord = 1..Len(ord) /\ DOMAIN new = DOMAIN ord \union {Len(ord) + 1} /\ Len(ord) + 1 \notin DOMAIN ord
    /\ new[Len(ord) + 1] = row
    /\ \A j \in DOMAIN ord : new[j] = ord[j]

LEMMA OrderIsSent ==
    ASSUME NEW ord \in Seq(OrderRow), NEW row \in OrderRow
    PROVE  Longer(Append(ord, row), ord, row)
<1>1. Len(ord) \in Nat /\ DOMAIN ord = 1..Len(ord)
  OBVIOUS
<1>2. /\ Append(ord, row) \in Seq(OrderRow) /\ Len(Append(ord, row)) = Len(ord) + 1
      /\ \A j \in 1..Len(ord) : Append(ord, row)[j] = ord[j]
      /\ Append(ord, row)[Len(ord) + 1] = row
  BY AppendProperties
<1>3. DOMAIN Append(ord, row) = 1..(Len(ord) + 1)
  BY <1>2, LenProperties
<1>4. 1..(Len(ord) + 1) = 1..Len(ord) \union {Len(ord) + 1} /\ Len(ord) + 1 \notin 1..Len(ord)
  BY <1>1
<1> QED BY <1>1, <1>2, <1>3, <1>4, Zenon DEF Longer

LEMMA OrderIsFilled ==
    ASSUME NEW ord \in Seq(OrderRow), NEW i \in DOMAIN ord, NEW n \in Nat
    PROVE  Finished([ord EXCEPT ![i].working = FALSE, ![i].got = n], ord, i, n)
<1>1. PICK row \in OrderRow : row = [ord[i] EXCEPT !.working = FALSE, !.got = n]
  <2>1. ord[i] \in OrderRow
    OBVIOUS
  <2> QED BY <2>1 DEF OrderRow
<1>2. row.kind = ord[i].kind /\ row.size = ord[i].size /\ row.lost = ord[i].lost /\ ~row.working /\ row.got = n
  BY <1>1 DEF OrderRow
<1>3. [ord EXCEPT ![i].working = FALSE, ![i].got = n] = [ord EXCEPT ![i] = row]
  BY <1>1
<1>4. PICK new : new = [ord EXCEPT ![i] = row]
  OBVIOUS
<1>5. /\ new \in Seq(OrderRow) /\ Len(new) = Len(ord) /\ DOMAIN new = DOMAIN ord
      /\ new[i] = row /\ \A j \in DOMAIN ord : j # i => new[j] = ord[j]
  BY <1>4
<1>6. Finished(new, ord, i, n)
  BY <1>2, <1>5 DEF Finished
<1> QED BY <1>3, <1>4, <1>6

LEMMA OrderIsRefused ==
    ASSUME NEW ord \in Seq(OrderRow), NEW i \in DOMAIN ord
    PROVE  Finished([ord EXCEPT ![i].working = FALSE], ord, i, ord[i].got)
<1>1. PICK row \in OrderRow : row = [ord[i] EXCEPT !.working = FALSE]
  <2>1. ord[i] \in OrderRow
    OBVIOUS
  <2> QED BY <2>1 DEF OrderRow
<1>2. row.kind = ord[i].kind /\ row.size = ord[i].size /\ row.lost = ord[i].lost /\ ~row.working /\ row.got = ord[i].got
  BY <1>1 DEF OrderRow
<1>3. [ord EXCEPT ![i].working = FALSE] = [ord EXCEPT ![i] = row]
  BY <1>1
<1>4. PICK new : new = [ord EXCEPT ![i] = row]
  OBVIOUS
<1>5. /\ new \in Seq(OrderRow) /\ Len(new) = Len(ord) /\ DOMAIN new = DOMAIN ord
      /\ new[i] = row /\ \A j \in DOMAIN ord : j # i => new[j] = ord[j]
  BY <1>4
<1>6. Finished(new, ord, i, ord[i].got)
  BY <1>2, <1>5 DEF Finished
<1> QED BY <1>3, <1>4, <1>6

LEMMA LimitsChange ==
    ASSUME NEW l \in Limits
    PROVE  /\ \A x \in Int : [l EXCEPT !.lost = x] \in Limits
           /\ \A d \in 0..1 : [l EXCEPT !.day = d] \in Limits
           /\ \A o \in BOOLEAN : [l EXCEPT !.open = o] \in Limits
<1>1. \A x \in Int : [l EXCEPT !.lost = x] \in Limits
  BY DEF Limits
<1>2. \A d \in 0..1 : [l EXCEPT !.day = d] \in Limits
  BY DEF Limits
<1>3. \A o \in BOOLEAN : [l EXCEPT !.open = o] \in Limits
  BY DEF Limits
<1> QED BY <1>1, <1>2, <1>3

LEMMA RolledIs ==
    ASSUME SessionTypes
    PROVE  /\ RolledDay \in Limits /\ RolledDay.open = limits.open
           /\ utcDay > limits.day => RolledDay.day = utcDay /\ RolledDay.lost = 0
           /\ ~(utcDay > limits.day) => RolledDay = limits
<1>1. limits \in Limits /\ utcDay \in 0..1
  BY DEF SessionTypes
<1>2. PICK m \in Limits : m = [limits EXCEPT !.day = utcDay, !.lost = 0]
  <2>1. PICK n \in Limits : n = [limits EXCEPT !.day = utcDay]
    BY <1>1 DEF Limits
  <2>2. 0 \in Int
    OBVIOUS
  <2>3. [n EXCEPT !.lost = 0] \in Limits
    BY <2>2, LimitsChange, Zenon
  <2> QED BY <2>1, <2>3
<1>3. m.open = limits.open /\ m.day = utcDay /\ m.lost = 0
  BY <1>1, <1>2 DEF Limits
<1>4. CASE utcDay > limits.day
  <2>1. RolledDay = m
    BY <1>2, <1>4 DEF RolledDay
  <2> QED BY <1>3, <1>4, <2>1
<1>5. CASE ~(utcDay > limits.day)
  <2>1. RolledDay = limits
    BY <1>5 DEF RolledDay
  <2> QED BY <1>1, <1>5, <2>1
<1> QED BY <1>4, <1>5

LEMMA MemoryTypes ==
    ASSUME SessionTypes, MemoryIsGone, UNCHANGED order
    PROVE  /\ trader' \in Trader /\ limits' \in Limits /\ position' \in Int
           /\ recorder' \in Recorder /\ Len(recorder'.scored) = Len(order')
           /\ recorder'.intents \subseteq DOMAIN order' /\ recorder'.refused \subseteq DOMAIN order'
           /\ news' \in Seq(Event) /\ losses' \in [0..1 -> Int]
<1>1. [i \in DOMAIN order |-> 0] \in Seq(Nat) /\ Len([i \in DOMAIN order |-> 0]) = Len(order)
  <2>1. DOMAIN order = 1..Len(order) /\ Len(order) \in Nat
    BY DEF SessionTypes
  <2>2. [i \in DOMAIN order |-> 0] \in [1..Len(order) -> Nat]
    BY <2>1
  <2> QED BY <2>1, <2>2
<1>2. trader' \in Trader /\ limits' \in Limits /\ position' \in Int /\ losses' \in [0..1 -> Int] /\ news' \in Seq(Event)
  BY DEF MemoryIsGone, Flat, Unset, Trader, Limits
<1>3. /\ recorder' \in Recorder /\ Len(recorder'.scored) = Len(order')
      /\ recorder'.intents \subseteq DOMAIN order' /\ recorder'.refused \subseteq DOMAIN order'
  BY <1>1 DEF MemoryIsGone, Recorder
<1> QED BY <1>2, <1>3

LEMMA ScoresIs ==
    ASSUME SessionTypes, NEW e \in Event, NEW r, r = Scores(e)
    PROVE  /\ r \in Recorder /\ Len(r.scored) = Len(recorder.scored) /\ r.intents \subseteq recorder.intents
           /\ r.refused = recorder.refused
           /\ \/ r = recorder
              \/ /\ e.order \in recorder.intents /\ Seen(e) \notin recorder.seen
                 /\ r.seen = recorder.seen \union {Seen(e)}
                 /\ r.scored = [recorder.scored EXCEPT ![e.order] = recorder.scored[e.order] + 1]
<1>1. CASE e.order \notin recorder.intents \/ Seen(e) \in recorder.seen
  <2>1. r = recorder
    BY <1>1 DEF Scores
  <2> QED BY <2>1 DEF SessionTypes
<1>2. CASE e.order \in recorder.intents /\ Seen(e) \notin recorder.seen
  <2>1. PICK left \in SUBSET recorder.intents :
            left = IF recorder.scored[e.order] + 1 >= order[e.order].size
                   THEN recorder.intents \ {e.order} ELSE recorder.intents
    OBVIOUS
  <2>2. PICK marks \in SUBSET (Nat \X Nat) : marks = recorder.seen \union {Seen(e)}
    <3>1. Seen(e) \in Nat \X Nat
      BY DEF Seen, Event
    <3>2. recorder.seen \in SUBSET (Nat \X Nat)
      BY DEF SessionTypes, Recorder
    <3> QED BY <3>1, <3>2
  <2>3. PICK sums \in Seq(Nat) : sums = [recorder.scored EXCEPT ![e.order] = @ + 1] /\ Len(sums) = Len(recorder.scored)
    <3>1. recorder.scored \in Seq(Nat) /\ e.order \in 1..Len(recorder.scored)
      BY <1>2 DEF SessionTypes, Recorder
    <3>2. PICK x \in Nat : x = recorder.scored[e.order] + 1
      BY <3>1
    <3>3. [recorder.scored EXCEPT ![e.order] = @ + 1] = [recorder.scored EXCEPT ![e.order] = x]
      BY <3>2
    <3>4. ASSUME NEW s \in Seq(Nat), NEW k \in 1..Len(s)
          PROVE  [s EXCEPT ![k] = x] \in Seq(Nat) /\ Len([s EXCEPT ![k] = x]) = Len(s)
      BY <3>2, ExceptSeq
    <3> QED BY <3>1, <3>3, <3>4
  <2>4. Scores(e) = [recorder EXCEPT !.seen = marks, !.scored = sums, !.intents = left]
    BY <1>2, <2>1, <2>2, <2>3 DEF Scores
  <2>5. left \in SUBSET Nat /\ recorder \in Recorder
    BY <2>1 DEF SessionTypes, Recorder
  <2>6. PICK m : m = [recorder EXCEPT !.seen = marks, !.scored = sums, !.intents = left]
    OBVIOUS
  <2>7. m \in Recorder /\ m.seen = marks /\ m.scored = sums /\ m.intents = left /\ m.refused = recorder.refused
    BY <2>2, <2>3, <2>5, <2>6 DEF Recorder
  <2>8. r = m
    BY <2>4, <2>6
  <2>9. sums = [recorder.scored EXCEPT ![e.order] = recorder.scored[e.order] + 1]
    BY <2>3
  <2> QED BY <1>2, <2>1, <2>2, <2>3, <2>7, <2>8, <2>9
<1> QED BY <1>1, <1>2
LEMMA FailureTypes ==
    ASSUME SessionTypes, NodeFails
    PROVE  SessionTypes'
<1>1. session.at = "running" /\ UNCHANGED <<order, held, twice, utcDay>> /\ failures' = failures + 1
      /\ deaf' = (deaf \/ news # <<>>)
  BY DEF NodeFails
<1>2. PICK n \in Nat : n = session.restarts + 1
  BY DEF SessionTypes
<1>3. /\ session' = [session EXCEPT !.restarts = n, !.at = IF n > MaxRestarts THEN "down" ELSE "backoff"]
      /\ checkpoint' = n
      /\ IF n > MaxRestarts THEN MemoryIsGone ELSE news' = <<>> /\ UNCHANGED <<nodeVars, losses>>
  BY <1>2 DEF NodeFails, Bumped
<1>4. PICK at \in {"down", "backoff"} : at = IF n > MaxRestarts THEN "down" ELSE "backoff"
  OBVIOUS
<1>5. session' \in [at : {"down", "running", "backoff"}, restarts : Nat, launches : Nat]
  <2>1. session' = [session EXCEPT !.restarts = n, !.at = at]
    BY <1>3, <1>4
  <2> QED BY <2>1 DEF SessionTypes
<1>6. /\ trader' \in Trader /\ limits' \in Limits /\ position' \in Int
      /\ recorder' \in Recorder /\ Len(recorder'.scored) = Len(order')
      /\ recorder'.intents \subseteq DOMAIN order' /\ recorder'.refused \subseteq DOMAIN order'
      /\ news' \in Seq(Event) /\ losses' \in [0..1 -> Int]
  <2>1. CASE n > MaxRestarts
    BY <1>1, <1>3, <2>1, MemoryTypes
  <2>2. CASE ~(n > MaxRestarts)
    BY <1>1, <1>3, <2>2 DEF SessionTypes, nodeVars
  <2> QED BY <2>1, <2>2
<1>7. deaf' \in BOOLEAN /\ failures' \in Nat /\ checkpoint' \in Nat \union {NoCheckpoint, Torn}
  BY <1>1, <1>2, <1>3 DEF SessionTypes
<1>8. order' \in Seq(OrderRow) /\ held' \in Nat /\ twice' \in Nat /\ utcDay' \in 0..1
  BY <1>1 DEF SessionTypes
<1> QED BY <1>5, <1>6, <1>7, <1>8 DEF SessionTypes

LEMMA StopTypes ==
    ASSUME SessionTypes, NodeReturns \/ SessionDies
    PROVE  SessionTypes'
<1>1. /\ session' = [session EXCEPT !.at = "down"] /\ MemoryIsGone
      /\ UNCHANGED <<order, held, twice, deaf, failures, utcDay>>
  BY DEF NodeReturns, SessionDies
<1>2. checkpoint' \in Nat \union {NoCheckpoint, Torn}
  BY DEF NodeReturns, SessionDies, SessionTypes
<1>3. session' \in [at : {"down", "running", "backoff"}, restarts : Nat, launches : Nat]
  BY <1>1 DEF SessionTypes
<1>4. /\ trader' \in Trader /\ limits' \in Limits /\ position' \in Int
      /\ recorder' \in Recorder /\ Len(recorder'.scored) = Len(order')
      /\ recorder'.intents \subseteq DOMAIN order' /\ recorder'.refused \subseteq DOMAIN order'
      /\ news' \in Seq(Event) /\ losses' \in [0..1 -> Int]
  BY <1>1, MemoryTypes
<1> QED BY <1>1, <1>2, <1>3, <1>4 DEF SessionTypes

LEMMA LaunchTypes ==
    ASSUME SessionTypes, Launches
    PROVE  SessionTypes' /\ Resumed \in Nat
<1>1. /\ checkpoint # Torn /\ checkpoint' = Resumed
      /\ session' = [at |-> IF Resumed <= MaxRestarts THEN "running" ELSE "down",
                     restarts |-> Resumed, launches |-> session.launches + 1]
      /\ deaf' = (held > 0 \/ \E i \in DOMAIN order : order[i].working)
      /\ UNCHANGED <<nodeVars, order, held, news, twice, failures, utcDay, losses>>
  BY DEF Launches
<1>2. Resumed \in Nat
  BY <1>1 DEF Resumed, SessionTypes
<1>3. session' \in [at : {"down", "running", "backoff"}, restarts : Nat, launches : Nat]
  BY <1>1, <1>2 DEF SessionTypes
<1>4. deaf' \in BOOLEAN /\ checkpoint' \in Nat \union {NoCheckpoint, Torn}
  BY <1>1, <1>2
<1> QED BY <1>1, <1>2, <1>3, <1>4 DEF SessionTypes, nodeVars

(* An order joins, and the recorder keeps a score for it. *)
LEMMA SendTypes ==
    ASSUME SessionTypes, NEW row \in OrderRow, order' = Append(order, row),
           NEW marked \in SUBSET (DOMAIN order \union {Len(order) + 1}),
           recorder' = [recorder EXCEPT !.intents = marked, !.scored = Append(@, 0)]
    PROVE  /\ Longer(order', order, row)
           /\ recorder' \in Recorder /\ Len(recorder'.scored) = Len(order')
           /\ recorder'.intents = marked /\ recorder'.seen = recorder.seen /\ recorder'.refused = recorder.refused
           /\ \A i \in DOMAIN order : recorder'.scored[i] = recorder.scored[i]
           /\ recorder'.scored[Len(order) + 1] = 0
<1>1. Longer(order', order, row)
  BY OrderIsSent DEF SessionTypes
<1>2. recorder \in Recorder /\ recorder.scored \in Seq(Nat) /\ Len(recorder.scored) = Len(order) /\ DOMAIN order = 1..Len(order)
      /\ Len(order) \in Nat
  BY DEF SessionTypes, Recorder
<1>3. PICK sums \in Seq(Nat) : sums = Append(recorder.scored, 0) /\ Len(sums) = Len(order) + 1
          /\ sums[Len(order) + 1] = 0 /\ \A i \in DOMAIN order : sums[i] = recorder.scored[i]
  <2>1. 0 \in Nat
    OBVIOUS
  <2>2. ASSUME NEW s \in Seq(Nat)
        PROVE  Append(s, 0) \in Seq(Nat) /\ Len(Append(s, 0)) = Len(s) + 1 /\ Append(s, 0)[Len(s) + 1] = 0
               /\ \A i \in 1..Len(s) : Append(s, 0)[i] = s[i]
    BY <2>1, AppendProperties
  <2>3. PICK s \in Seq(Nat) : s = recorder.scored /\ Len(s) = Len(order)
    BY <1>2
  <2>4. Append(s, 0) \in Seq(Nat) /\ Len(Append(s, 0)) = Len(order) + 1 /\ Append(s, 0)[Len(order) + 1] = 0
        /\ \A i \in DOMAIN order : Append(s, 0)[i] = s[i]
    BY <1>2, <2>2, <2>3
  <2> QED BY <2>3, <2>4
<1>4. marked \in SUBSET Nat
  BY <1>2
<1>5. recorder' = [recorder EXCEPT !.intents = marked, !.scored = sums]
  BY <1>3
<1>6. recorder' \in Recorder /\ recorder'.intents = marked /\ recorder'.scored = sums
      /\ recorder'.seen = recorder.seen /\ recorder'.refused = recorder.refused
  BY <1>2, <1>3, <1>4, <1>5 DEF Recorder
<1>7. Len(order') = Len(order) + 1
  BY <1>1 DEF Longer
<1> QED BY <1>1, <1>3, <1>6, <1>7
(* What a bar can do: nothing is sent, the position is closed, or a sized    *)
(* entry is sent for which the risk is committed.                            *)
SendsNothing ==
    /\ UNCHANGED <<order, recorder>> /\ trader' \in Trader /\ trader'.entry = trader.entry
    /\ limits' = limits \/ limits' = RolledDay
SendsOrder(row, marked) ==
    /\ row \in OrderRow /\ row.working /\ row.got = 0
    /\ order' = Append(order, row)
    /\ recorder' = [recorder EXCEPT !.intents = marked, !.scored = Append(@, 0)]
    /\ trader' \in Trader
SendsClose ==
    \E row : /\ SendsOrder(row, recorder.intents) /\ row.kind = "close"
             /\ trader'.entry = trader.entry /\ limits' = limits
SendsEntry ==
    \E row : /\ SendsOrder(row, recorder.intents \union {Len(order) + 1})
             /\ row.kind = "entry" /\ row.size = EntrySize /\ row.lost = losses[utcDay]
             /\ trader'.entry = Len(order) + 1
             /\ RiskApproves(RolledDay) /\ limits' = [RolledDay EXCEPT !.open = TRUE]

LEMMA TraderWaits ==
    ASSUME NEW t \in Trader, NEW w \in Int
    PROVE  [t EXCEPT !.waited = w] \in Trader /\ [t EXCEPT !.waited = w].entry = t.entry
BY DEF Trader
LEMMA TraderCounts ==
    ASSUME NEW t \in Trader
    PROVE  [t EXCEPT !.bars = @ + 1] \in Trader /\ [t EXCEPT !.bars = @ + 1].entry = t.entry
BY DEF Trader
LEMMA TraderChange ==
    ASSUME NEW t \in Trader
    PROVE  /\ [t EXCEPT !.waited = Unset] \in Trader /\ [t EXCEPT !.waited = Unset].entry = t.entry
           /\ ResetPositionState(t) \in Trader /\ ResetPositionState(t).entry = t.entry
           /\ \A i \in Nat : /\ [t EXCEPT !.entry = i] \in Trader /\ [t EXCEPT !.entry = i].entry = i
                            /\ [t EXCEPT !.entry = i, !.bars = 0, !.stop = TRUE, !.waited = Unset] \in Trader
                            /\ [t EXCEPT !.entry = i, !.bars = 0, !.stop = TRUE, !.waited = Unset].entry = i
<1>1. Unset \in Int
  BY DEF Unset
<1>2. [t EXCEPT !.waited = Unset] \in Trader /\ [t EXCEPT !.waited = Unset].entry = t.entry
  BY <1>1 DEF Trader
<1>3. ResetPositionState(t) \in Trader /\ ResetPositionState(t).entry = t.entry
  BY DEF Trader, ResetPositionState
<1>4. ASSUME NEW i \in Nat
      PROVE  [t EXCEPT !.entry = i] \in Trader /\ [t EXCEPT !.entry = i].entry = i
  BY DEF Trader
<1>5. ASSUME NEW i \in Nat
      PROVE  /\ [t EXCEPT !.entry = i, !.bars = 0, !.stop = TRUE, !.waited = Unset] \in Trader
             /\ [t EXCEPT !.entry = i, !.bars = 0, !.stop = TRUE, !.waited = Unset].entry = i
  BY <1>1 DEF Trader
<1> QED BY <1>2, <1>3, <1>4, <1>5

NewRow(kind, size, lost) == [kind |-> kind, size |-> size, working |-> TRUE, got |-> 0, lost |-> lost]
LEMMA RowsAre ==
    ASSUME NEW size \in Nat, NEW lost \in Int
    PROVE  \A kind \in {"entry", "close"} :
              /\ NewRow(kind, size, lost) \in OrderRow
              /\ NewRow(kind, size, lost).kind = kind /\ NewRow(kind, size, lost).size = size
              /\ NewRow(kind, size, lost).working /\ NewRow(kind, size, lost).got = 0
              /\ NewRow(kind, size, lost).lost = lost
BY DEF NewRow, OrderRow

LEMMA BarIs ==
    ASSUME SessionTypes, SessionAssumption, OnBar
    PROVE  /\ session.at = "running"
           /\ UNCHANGED <<session, checkpoint, position, held, news, twice, deaf, failures, utcDay, losses>>
           /\ SendsNothing \/ SendsClose \/ SendsEntry
<1>1. session.at = "running"
      /\ UNCHANGED <<session, checkpoint, position, held, news, twice, deaf, failures, utcDay, losses>>
  BY DEF OnBar
<1>2. PICK inSession, touched, signals, sent \in BOOLEAN :
          \/ HoldsPosition(inSession, touched)
          \/ position = 0 /\ inSession /\ (WaitsForDelay(signals) \/ Enters(signals, sent) \/ Refused(signals))
  BY DEF OnBar
<1>3. /\ trader \in Trader /\ trader.entry \in Nat /\ trader.bars \in Nat /\ trader.waited \in Int
      /\ recorder \in Recorder /\ Len(order) \in Nat /\ position \in Int /\ losses[utcDay] \in Int
  BY SMTT(30) DEF SessionTypes, Trader
<1>4. CASE HoldsPosition(inSession, touched)
  <2>1. position \in Nat
    BY <1>3, <1>4 DEF HoldsPosition
  <2>2. CASE MustClose(inSession, touched)
    <3>1. ClosesAll
      BY <1>4, <2>2 DEF HoldsPosition
    <3>2. PICK row \in OrderRow : row = NewRow("close", position, losses[utcDay])
              /\ row.kind = "close" /\ row.working /\ row.got = 0
      <4>1. "close" \in {"entry", "close"} /\ position \in Nat /\ losses[utcDay] \in Int
        BY <1>3, <2>1
      <4> DEFINE new == NewRow("close", position, losses[utcDay])
      <4>2. new \in OrderRow /\ new.kind = "close" /\ new.working /\ new.got = 0
        BY <4>1, RowsAre
      <4> QED BY <4>2
    <3>3. order' = Append(order, row) /\ limits' = limits /\ recorder' = [recorder EXCEPT !.scored = Append(@, 0)]
          /\ trader' = ResetPositionState(trader)
      BY <3>1, <3>2 DEF ClosesAll, Sends, NewRow
    <3>4. trader' \in Trader /\ trader'.entry = trader.entry
      BY <1>3, <3>3, TraderChange
    <3>5. recorder' = [recorder EXCEPT !.intents = recorder.intents, !.scored = Append(@, 0)]
      BY <1>3, <3>3 DEF Recorder
    <3>6. SendsClose
      BY <3>2, <3>3, <3>4, <3>5 DEF SendsClose, SendsOrder
    <3> QED BY <1>1, <3>6
  <2>3. CASE ~MustClose(inSession, touched)
    <3>1. trader' = [trader EXCEPT !.bars = @ + 1] /\ UNCHANGED <<order, recorder, limits>>
      BY <1>4, <2>3 DEF HoldsPosition
    <3>2. trader' \in Trader /\ trader'.entry = trader.entry
      BY <1>3, <3>1, TraderCounts
    <3> QED BY <1>1, <3>1, <3>2 DEF SendsNothing
  <2> QED BY <2>2, <2>3
<1>5. CASE WaitsForDelay(signals)
  <2>1. PICK w \in Int : w = IF trader.waited # Unset THEN trader.waited + 1 ELSE IF signals THEN 0 ELSE Unset
    BY <1>3 DEF Unset
  <2>2. trader' = [trader EXCEPT !.waited = w] /\ UNCHANGED <<order, recorder, limits>>
    BY <1>5, <2>1 DEF WaitsForDelay
  <2>3. trader' \in Trader /\ trader'.entry = trader.entry
    BY <1>3, <2>1, <2>2, TraderWaits
  <2> QED BY <1>1, <2>2, <2>3 DEF SendsNothing
<1>6. CASE Refused(signals)
  <2>1. /\ trader' = [trader EXCEPT !.waited = Unset] /\ UNCHANGED <<order, recorder>>
        /\ limits' = limits \/ limits' = RolledDay
    BY <1>6 DEF Refused
  <2>2. trader' \in Trader /\ trader'.entry = trader.entry
    BY <1>3, <2>1, TraderChange
  <2> QED BY <1>1, <2>1, <2>2 DEF SendsNothing
<1>7. CASE Enters(signals, sent)
  <2>1. RiskApproves(RolledDay)
    BY <1>7 DEF Enters
  <2>2. CASE sent
    <3>1. PICK row \in OrderRow : row = NewRow("entry", EntrySize, losses[utcDay])
              /\ row.kind = "entry" /\ row.working /\ row.got = 0 /\ row.size = EntrySize /\ row.lost = losses[utcDay]
      <4>1. EntrySize \in Nat /\ "entry" \in {"entry", "close"} /\ losses[utcDay] \in Int
        BY <1>3 DEF SessionAssumption
      <4> DEFINE new == NewRow("entry", EntrySize, losses[utcDay])
      <4>2. new \in OrderRow /\ new.kind = "entry" /\ new.working /\ new.got = 0 /\ new.size = EntrySize /\ new.lost = losses[utcDay]
        BY <4>1, RowsAre
      <4> QED BY <4>2
    <3>2. /\ order' = Append(order, row)
          /\ recorder' = [recorder EXCEPT !.intents = @ \union {Len(order) + 1}, !.scored = Append(@, 0)]
          /\ limits' = [RolledDay EXCEPT !.open = TRUE]
          /\ trader' = [trader EXCEPT !.entry = Len(order) + 1, !.bars = 0, !.stop = TRUE, !.waited = Unset]
      BY <1>7, <2>2, <3>1 DEF Enters, Sends, Commits, NewRow
    <3>3. PICK id \in Nat : id = Len(order) + 1
      BY <1>3
    <3>4. trader' \in Trader /\ trader'.entry = Len(order) + 1
      <4>1. trader' = [trader EXCEPT !.entry = id, !.bars = 0, !.stop = TRUE, !.waited = Unset]
        BY <3>2, <3>3
      <4>2. trader \in Trader
        BY <1>3
      <4>3. PICK t : t = [trader EXCEPT !.entry = id, !.bars = 0, !.stop = TRUE, !.waited = Unset]
        OBVIOUS
      <4>4. t \in Trader /\ t.entry = id
        <5>1. [trader EXCEPT !.entry = id, !.bars = 0, !.stop = TRUE, !.waited = Unset] \in Trader
              /\ [trader EXCEPT !.entry = id, !.bars = 0, !.stop = TRUE, !.waited = Unset].entry = id
          BY <3>3, <4>2, TraderChange
        <5> QED BY <4>3, <5>1, Zenon
      <4> QED BY <3>3, <4>1, <4>3, <4>4, Zenon
    <3>5. SendsEntry
      BY <2>1, <3>1, <3>2, <3>4 DEF SendsEntry, SendsOrder
    <3> QED BY <1>1, <3>5
  <2>3. CASE ~sent
    <3>1. limits' = RolledDay /\ trader' = [trader EXCEPT !.waited = Unset] /\ UNCHANGED <<order, recorder>>
      BY <1>7, <2>3 DEF Enters
    <3>2. trader' \in Trader /\ trader'.entry = trader.entry
      BY <1>3, <3>1, TraderChange
    <3> QED BY <1>1, <3>1, <3>2 DEF SendsNothing
  <2> QED BY <2>2, <2>3
<1> QED BY <1>2, <1>4, <1>5, <1>6, <1>7

LEMMA BarTypes ==
    ASSUME SessionTypes, SessionAssumption, OnBar
    PROVE  SessionTypes'
<1>1. /\ UNCHANGED <<session, checkpoint, position, held, news, twice, deaf, failures, utcDay, losses>>
      /\ SendsNothing \/ SendsClose \/ SendsEntry
  BY BarIs
<1>2. ASSUME NEW row, NEW marked \in SUBSET (DOMAIN order \union {Len(order) + 1}), SendsOrder(row, marked)
      PROVE  /\ recorder' \in Recorder /\ Len(recorder'.scored) = Len(order') /\ order' \in Seq(OrderRow)
             /\ recorder'.intents \subseteq DOMAIN order' /\ recorder'.refused \subseteq DOMAIN order'
             /\ trader' \in Trader
  <2>1. /\ row \in OrderRow /\ order' = Append(order, row) /\ trader' \in Trader
        /\ recorder' = [recorder EXCEPT !.intents = marked, !.scored = Append(@, 0)]
    BY <1>2 DEF SendsOrder
  <2>2. /\ Longer(order', order, row) /\ recorder' \in Recorder /\ Len(recorder'.scored) = Len(order')
        /\ recorder'.intents = marked /\ recorder'.refused = recorder.refused
    BY <2>1, SendTypes
  <2> QED BY <2>1, <2>2 DEF Longer, SessionTypes
<1>3. CASE SendsNothing
  BY <1>1, <1>3, RolledIs DEF SendsNothing, SessionTypes
<1>4. CASE SendsClose
  <2>1. PICK row : SendsOrder(row, recorder.intents) /\ limits' = limits
    BY <1>4 DEF SendsClose
  <2>2. recorder.intents \in SUBSET (DOMAIN order \union {Len(order) + 1})
    BY DEF SessionTypes
  <2> QED BY <1>1, <1>2, <2>1, <2>2 DEF SessionTypes
<1>5. CASE SendsEntry
  <2>1. PICK row : SendsOrder(row, recorder.intents \union {Len(order) + 1}) /\ limits' = [RolledDay EXCEPT !.open = TRUE]
    BY <1>5 DEF SendsEntry
  <2>2. recorder.intents \union {Len(order) + 1} \in SUBSET (DOMAIN order \union {Len(order) + 1})
    BY DEF SessionTypes
  <2>3. limits' \in Limits
    BY <2>1, RolledIs, LimitsChange
  <2> QED BY <1>1, <1>2, <2>1, <2>2, <2>3 DEF SessionTypes
<1> QED BY <1>1, <1>3, <1>4, <1>5
LEMMA BooksIs ==
    ASSUME SessionTypes, NEW loss \in Int, BooksClose(loss)
    PROVE  /\ limits' \in Limits /\ ~limits'.open /\ limits'.lost = RolledDay.lost + loss /\ limits'.day = RolledDay.day
           /\ losses' \in [0..1 -> Int] /\ losses' = [losses EXCEPT ![utcDay] = losses[utcDay] + loss]
<1>1. RolledDay \in Limits
  BY RolledIs
<1>2. PICK l \in Limits : l = RolledDay
  BY <1>1
<1>3. PICK x \in Int : x = l.lost + loss
  BY DEF Limits
<1>4. PICK o \in Limits : o = [l EXCEPT !.open = FALSE]
  BY LimitsChange
<1>5. PICK m \in Limits : m = [o EXCEPT !.lost = x]
  BY LimitsChange
<1>6. ~m.open /\ m.lost = x /\ m.day = l.day
  BY <1>4, <1>5 DEF Limits
<1>7. limits' = m
  BY <1>2, <1>3, <1>4, <1>5 DEF BooksClose
<1>8. losses' \in [0..1 -> Int] /\ losses' = [losses EXCEPT ![utcDay] = losses[utcDay] + loss]
  BY SMTT(30) DEF BooksClose, SessionTypes
<1> QED BY <1>2, <1>3, <1>6, <1>7, <1>8

(* A fill is taken into the position; the one that makes it flat is booked. *)
FillIsTaken(e) ==
    /\ recorder' = Scores(e)
    /\ trader' \in Trader /\ trader'.entry = IF trader.entry = e.order THEN 0 ELSE trader.entry
    /\ position' = IF e.again THEN position ELSE IF order[e.order].kind = "entry" THEN position + 1 ELSE position - 1
    /\ IF position' = 0 /\ position > 0 THEN \E loss \in Int : BooksClose(loss)
       ELSE UNCHANGED <<limits, losses>>
RejectionIsTaken(e) ==
    /\ recorder' = ScoresRejection(e) /\ UNCHANGED <<position, losses>> /\ trader' \in Trader
    /\ IF trader.entry = e.order THEN trader'.entry = 0 /\ limits' = [RolledDay EXCEPT !.open = FALSE]
       ELSE UNCHANGED <<trader, limits>>

LEMMA ArrivalIs ==
    ASSUME SessionTypes, EventArrives
    PROVE  /\ session.at = "running" /\ news # <<>>
           /\ UNCHANGED <<session, checkpoint, order, held, deaf, failures, utcDay>> /\ twice' \in Nat
           /\ news' \in Later(news)
           /\ \E e \in Event : /\ e = Head(news)
                              /\ \/ e.type = "fill" /\ FillIsTaken(e)
                                 \/ e.type = "rejected" /\ RejectionIsTaken(e)
<1>1. /\ session.at = "running" /\ news # <<>>
      /\ UNCHANGED <<session, checkpoint, order, held, deaf, failures, utcDay>>
  BY DEF EventArrives
<1>2. PICK e : e = Head(news)
  OBVIOUS
<1>3. e \in Event /\ trader \in Trader /\ twice \in Nat
  BY <1>1, <1>2, TailHas DEF SessionTypes
<1>4. /\ IF e.type = "fill" THEN OnFill(e) ELSE OnRejected(e)
      /\ \/ news' = Tail(news) /\ UNCHANGED twice
         \/ news' = <<[e EXCEPT !.again = TRUE]>> \o Tail(news) /\ twice' = twice + 1
  BY <1>2 DEF EventArrives
<1>5. twice' \in Nat /\ news' \in Later(news)
  <2>1. twice' \in Nat
    BY <1>3, <1>4
  <2>2. news' = Tail(news) \/ news' = <<[Head(news) EXCEPT !.again = TRUE]>> \o Tail(news)
    BY <1>2, <1>4, Zenon
  <2> QED BY <2>1, <2>2 DEF Later
<1>6. CASE e.type = "fill"
  <2>1. OnFill(e)
    BY <1>4, <1>6
  <2>2. PICK i \in Nat : i = IF trader.entry = e.order THEN 0 ELSE trader.entry
    BY <1>3 DEF Trader
  <2>3. trader' = [trader EXCEPT !.entry = i]
    BY <2>1, <2>2 DEF OnFill
  <2>4. trader' \in Trader /\ trader'.entry = i
    BY <1>3, <2>3, TraderChange
  <2>5. FillIsTaken(e)
    <3>1. IF position' = 0 /\ position > 0 THEN \E loss \in Int : BooksClose(loss) ELSE UNCHANGED <<limits, losses>>
      <4>1. \A loss \in {-1, 1} : loss \in Int
        OBVIOUS
      <4> QED BY <2>1, <4>1 DEF OnFill
    <3> QED BY <2>1, <2>2, <2>4, <3>1 DEF OnFill, FillIsTaken
  <2> QED BY <1>1, <1>2, <1>3, <1>5, <1>6, <2>5
<1>7. CASE e.type = "rejected"
  <2>1. OnRejected(e)
    BY <1>4, <1>7
  <2>2. RejectionIsTaken(e)
    <3>1. CASE trader.entry = e.order
      <4>1. PICK t \in Trader : t = [trader EXCEPT !.entry = 0] /\ t.entry = 0
        <5>1. 0 \in Nat
          OBVIOUS
        <5>2. [trader EXCEPT !.entry = 0] \in Trader /\ [trader EXCEPT !.entry = 0].entry = 0
          BY <1>3, <5>1, TraderChange
        <5> QED BY <5>2
      <4>2. trader' = ResetPositionState(t) /\ limits' = [RolledDay EXCEPT !.open = FALSE]
        BY <2>1, <3>1, <4>1 DEF OnRejected, IsPendingEntry
      <4>3. trader' \in Trader /\ trader'.entry = 0
        BY <4>1, <4>2, TraderChange
      <4> QED BY <2>1, <3>1, <4>2, <4>3 DEF OnRejected, RejectionIsTaken
    <3>2. CASE trader.entry # e.order
      BY <1>3, <2>1, <3>2 DEF OnRejected, IsPendingEntry, RejectionIsTaken
    <3> QED BY <3>1, <3>2
  <2> QED BY <1>1, <1>2, <1>3, <1>5, <1>7, <2>2
<1> QED BY <1>3, <1>6, <1>7 DEF Event

LEMMA ArrivalTypes ==
    ASSUME SessionTypes, EventArrives
    PROVE  SessionTypes'
<1>1. /\ news # <<>> /\ UNCHANGED <<session, checkpoint, order, held, deaf, failures, utcDay>> /\ twice' \in Nat
      /\ news' \in Later(news)
  BY ArrivalIs
<1>2. PICK e \in Event : FillIsTaken(e) \/ RejectionIsTaken(e)
  BY ArrivalIs
<1>3. news' \in Seq(Event)
  BY <1>1, FreshLater DEF SessionTypes
<1>4. CASE FillIsTaken(e)
  <2>1. /\ recorder' \in Recorder /\ Len(recorder'.scored) = Len(order')
        /\ recorder'.intents \subseteq DOMAIN order' /\ recorder'.refused \subseteq DOMAIN order'
    <3>1. PICK r : r = Scores(e) /\ r = recorder'
      BY <1>4 DEF FillIsTaken
    <3>2. r \in Recorder /\ Len(r.scored) = Len(recorder.scored) /\ r.intents \subseteq recorder.intents
          /\ r.refused = recorder.refused
      BY <3>1, ScoresIs
    <3> QED BY <1>1, <3>1, <3>2 DEF SessionTypes
  <2>2. trader' \in Trader /\ position' \in Int
    BY <1>4 DEF FillIsTaken, SessionTypes
  <2>3. limits' \in Limits /\ losses' \in [0..1 -> Int]
    <3>1. CASE position' = 0 /\ position > 0
      BY <1>4, <3>1, BooksIs DEF FillIsTaken
    <3>2. CASE ~(position' = 0 /\ position > 0)
      BY <1>4, <3>2 DEF FillIsTaken, SessionTypes
    <3> QED BY <3>1, <3>2
  <2> QED BY <1>1, <1>3, <2>1, <2>2, <2>3 DEF SessionTypes
<1>5. CASE RejectionIsTaken(e)
  <2>1. /\ recorder' \in Recorder /\ Len(recorder'.scored) = Len(order')
        /\ recorder'.intents \subseteq DOMAIN order' /\ recorder'.refused \subseteq DOMAIN order'
    <3>1. recorder \in Recorder /\ e.order \in Nat
      BY DEF SessionTypes, Event
    <3>2. CASE e.order \notin recorder.intents
      BY <1>1, <1>5, <3>2 DEF RejectionIsTaken, ScoresRejection, SessionTypes
    <3>3. CASE e.order \in recorder.intents
      <4>1. PICK left \in SUBSET Nat, out \in SUBSET Nat :
                /\ left = recorder.intents \ {e.order} /\ out = recorder.refused \union {e.order}
        BY <3>1 DEF Recorder
      <4>2. recorder' = [recorder EXCEPT !.intents = left, !.refused = out]
        BY <1>5, <3>3, <4>1 DEF RejectionIsTaken, ScoresRejection
      <4>3. recorder' \in Recorder /\ recorder'.intents = left /\ recorder'.refused = out /\ recorder'.scored = recorder.scored
        BY <3>1, <4>1, <4>2 DEF Recorder
      <4> QED BY <1>1, <3>3, <4>1, <4>3 DEF SessionTypes
    <3> QED BY <3>2, <3>3
  <2>2. limits' \in Limits
    <3>1. CASE trader.entry = e.order
      <4>1. limits' = [RolledDay EXCEPT !.open = FALSE]
        BY <1>5, <3>1 DEF RejectionIsTaken
      <4>2. PICK l \in Limits : l = RolledDay
        BY RolledIs
      <4>3. [l EXCEPT !.open = FALSE] \in Limits
        BY LimitsChange
      <4> QED BY <4>1, <4>2, <4>3
    <3>2. CASE trader.entry # e.order
      BY <1>5, <3>2 DEF RejectionIsTaken, SessionTypes
    <3> QED BY <3>1, <3>2
  <2>3. trader' \in Trader /\ UNCHANGED <<position, losses>>
    BY <1>5 DEF RejectionIsTaken
  <2> QED BY <1>1, <1>3, <2>1, <2>2, <2>3 DEF SessionTypes
<1> QED BY <1>1, <1>2, <1>4, <1>5
Unmoved == UNCHANGED <<session, checkpoint, nodeVars, twice, failures, utcDay, losses>>

LEMMA TellingIs ==
    ASSUME SessionTypes, NEW events \in Seq(Event), Told(events)
    PROVE  /\ news' \in Seq(Event) /\ deaf' \in BOOLEAN
           /\ session.at = "running" => news' = news \o events /\ deaf' = deaf
           /\ session.at # "running" => news' = news /\ deaf' = TRUE
<1>1. news \in Seq(Event) /\ deaf \in BOOLEAN
  BY DEF SessionTypes
<1>2. CASE session.at = "running"
  <2>1. news' = news \o events /\ deaf' = deaf
    BY <1>2 DEF Told
  <2>2. news \o events \in Seq(Event)
    BY <1>1, ConcatProperties
  <2> QED BY <1>1, <1>2, <2>1, <2>2
<1>3. CASE session.at # "running"
  BY <1>1, <1>3 DEF Told
<1> QED BY <1>2, <1>3

LEMMA OrderHas ==
    ASSUME SessionTypes, NEW i \in DOMAIN order
    PROVE  order[i] \in OrderRow /\ order[i].size \in Nat /\ order[i].got \in Nat /\ i \in Nat
<1>1. order \in Seq(OrderRow)
  BY DEF SessionTypes
<1>2. order[i] \in OrderRow /\ i \in Nat
  BY <1>1
<1> QED BY <1>2 DEF OrderRow

LEMMA MatchIs ==
    ASSUME SessionTypes, NEW i \in DOMAIN order, VenueMatches(i)
    PROVE  /\ Unmoved /\ order[i].working
           /\ order[i].kind = "close" => held > 0
           /\ \E n \in Nat, s \in Seq(Event) :
                 /\ n <= order[i].size
                 /\ n <= held \/ order[i].kind = "entry"
                 /\ held' = IF order[i].kind = "entry" THEN held + n ELSE held - n
                 /\ Told(s) /\ FillsOf(s, i, n)
                 /\ Finished(order', order, i, n)
<1>1. order \in Seq(OrderRow) /\ order[i] \in OrderRow /\ order[i].size \in Nat /\ i \in Nat
  BY OrderHas DEF SessionTypes
<1>2. Unmoved /\ order[i].working /\ (order[i].kind = "close" => held > 0)
  BY DEF VenueMatches, Unmoved
<1>3. PICK n \in 0..order[i].size, same \in BOOLEAN :
          /\ n <= held \/ order[i].kind = "entry"
          /\ held' = IF order[i].kind = "entry" THEN held + n ELSE held - n
          /\ Told(Fills(i, n, same))
          /\ order' = [order EXCEPT ![i].working = FALSE, ![i].got = n]
  BY DEF VenueMatches
<1>4. n \in Nat /\ n <= order[i].size
  BY <1>1, <1>3
<1>5. Finished(order', order, i, n)
  BY <1>1, <1>3, <1>4, OrderIsFilled
<1>6. PICK s : s = Fills(i, n, same) /\ FillsOf(s, i, n)
  BY <1>1, <1>4, FillsAre
<1>7. s \in Seq(Event) /\ Told(s)
  BY <1>3, <1>6 DEF FillsOf
<1> QED BY <1>2, <1>3, <1>4, <1>5, <1>6, <1>7

Rejection(i) == [type |-> "rejected", order |-> i, mark |-> 0, again |-> FALSE]
LEMMA RefusalIs ==
    ASSUME SessionTypes, NEW i \in DOMAIN order, VenueRejects(i)
    PROVE  /\ Unmoved /\ order[i].working /\ held' = held
           /\ Rejection(i) \in Event /\ <<Rejection(i)>> \in Seq(Event) /\ Told(<<Rejection(i)>>)
           /\ Finished(order', order, i, order[i].got) /\ order[i].got \in Nat
<1>1. order \in Seq(OrderRow) /\ order[i] \in OrderRow /\ order[i].got \in Nat /\ i \in Nat
  BY OrderHas DEF SessionTypes
<1>2. Unmoved /\ order[i].working /\ held' = held /\ Told(<<Rejection(i)>>)
      /\ order' = [order EXCEPT ![i].working = FALSE]
  BY DEF VenueRejects, Unmoved, Rejection
<1>3. Finished(order', order, i, order[i].got)
  BY <1>1, <1>2, OrderIsRefused
<1>4. Rejection(i) \in Event
  BY <1>1 DEF Rejection, Event
<1>5. <<Rejection(i)>> \in Seq(Event)
  BY <1>4
<1> QED BY <1>1, <1>2, <1>3, <1>4, <1>5

LEMMA VenueTypes ==
    ASSUME SessionTypes, NEW i \in DOMAIN order, VenueMatches(i) \/ VenueRejects(i)
    PROVE  SessionTypes'
<1>1. PICK n \in Nat, events \in Seq(Event) :
          /\ Unmoved /\ Told(events) /\ Finished(order', order, i, n) /\ held' \in Nat
  <2>1. CASE VenueMatches(i)
    <3>1. PICK n \in Nat, s \in Seq(Event) :
              /\ n <= held \/ order[i].kind = "entry"
              /\ held' = IF order[i].kind = "entry" THEN held + n ELSE held - n
              /\ Told(s) /\ Finished(order', order, i, n)
      BY <2>1, MatchIs
    <3>2. held' \in Nat
      BY <3>1 DEF SessionTypes
    <3> QED BY <2>1, <3>1, <3>2, MatchIs
  <2>2. CASE VenueRejects(i)
    BY <2>2, RefusalIs DEF SessionTypes
  <2> QED BY <2>1, <2>2
<1>2. news' \in Seq(Event) /\ deaf' \in BOOLEAN
  BY <1>1, TellingIs
<1>3. order' \in Seq(OrderRow) /\ DOMAIN order' = DOMAIN order /\ Len(order') = Len(order)
  BY <1>1 DEF Finished
<1>4. UNCHANGED <<session, checkpoint, trader, limits, position, recorder, twice, failures, utcDay, losses>>
  BY <1>1 DEF Unmoved, nodeVars
<1> QED BY <1>1, <1>2, <1>3, <1>4 DEF SessionTypes

(* The steps, apart from those of the venue. *)
LEMMA SessionTyped ==
    ASSUME SessionTypes, SessionAssumption, [PaperNext]_sessionVars
    PROVE  SessionTypes'
<1>1. CASE BackoffEnds
  BY <1>1 DEF BackoffEnds, SessionTypes, nodeVars, venueVars
<1>2. CASE Midnight
  BY <1>2 DEF Midnight, SessionTypes, nodeVars, venueVars
<1>3. CASE UNCHANGED sessionVars
  BY <1>3 DEF SessionTypes, sessionVars
<1>4. CASE \E i \in DOMAIN order : VenueMatches(i) \/ VenueRejects(i)
  BY <1>4, VenueTypes
<1> QED BY <1>1, <1>2, <1>3, <1>4, LaunchTypes, FailureTypes, StopTypes, BarTypes, ArrivalTypes DEF PaperNext

LEMMA SessionTypedInitially == PaperInit => SessionTypes
<1> SUFFICES ASSUME PaperInit PROVE SessionTypes
  OBVIOUS
<1>1. trader \in Trader /\ limits \in Limits /\ recorder \in Recorder
  BY DEF PaperInit, Flat, Unset, Trader, Limits, Recorder
<1>2. order = <<>> /\ recorder.scored = <<>> /\ recorder.intents = {} /\ recorder.refused = {} /\ news = <<>>
  BY DEF PaperInit
<1>3. Len(recorder.scored) = Len(order) /\ order \in Seq(OrderRow) /\ news \in Seq(Event)
  BY <1>2
<1>4. session \in [at : {"down", "running", "backoff"}, restarts : Nat, launches : Nat]
  BY DEF PaperInit
<1>5. losses \in [0..1 -> Int]
  BY DEF PaperInit
<1> QED BY <1>1, <1>2, <1>3, <1>4, <1>5 DEF PaperInit, SessionTypes
-----------------------------------------------------------------------------
(* The restarts, and the ledger of losses. *)

(* The checkpoint on disk, and the supervisor that runs, know every failure. *)
RestartsAreKnown ==
    /\ checkpoint \in Nat => checkpoint = failures
    /\ checkpoint = NoCheckpoint /\ checkpoint # Torn => failures = 0
    /\ session.at # "down" => session.restarts = failures /\ failures <= MaxRestarts

LEMMA RestartsKept ==
    ASSUME SessionTypes, SessionAssumption, RestartsAreKnown, [PaperNext]_sessionVars
    PROVE  RestartsAreKnown'
<1>1. MaxRestarts \in Nat /\ NoCheckpoint \notin Nat /\ Torn \notin Nat
  BY DEF SessionAssumption
<1>2. CASE Launches
  <2>1. /\ checkpoint # Torn /\ checkpoint' = Resumed /\ Resumed \in Nat /\ failures' = failures
        /\ session' = [at |-> IF Resumed <= MaxRestarts THEN "running" ELSE "down",
                       restarts |-> Resumed, launches |-> session.launches + 1]
    BY <1>2, LaunchTypes DEF Launches
  <2>2. Resumed = failures
    BY <2>1 DEF Resumed, RestartsAreKnown, SessionTypes
  <2>3. session'.restarts = failures' /\ (session'.at # "down" => failures' <= MaxRestarts)
    BY <2>1, <2>2
  <2> QED BY <1>1, <2>1, <2>2, <2>3 DEF RestartsAreKnown
<1>3. CASE NodeFails
  <2>1. PICK n \in Nat : n = session.restarts + 1
    BY DEF SessionTypes
  <2>2. /\ session.at = "running" /\ failures' = failures + 1 /\ checkpoint' = n
        /\ session' = [session EXCEPT !.restarts = n, !.at = IF n > MaxRestarts THEN "down" ELSE "backoff"]
    BY <1>3, <2>1 DEF NodeFails, Bumped
  <2>3. n = failures'
    BY <2>1, <2>2 DEF RestartsAreKnown
  <2>4. session'.restarts = n /\ (session'.at # "down" => n <= MaxRestarts)
    <3>1. PICK a : a = IF n > MaxRestarts THEN "down" ELSE "backoff"
      OBVIOUS
    <3>2. session' = [session EXCEPT !.restarts = n, !.at = a]
      BY <2>2, <3>1, Zenon
    <3>3. session'.restarts = n /\ session'.at = a
      BY <3>2 DEF SessionTypes
    <3>4. n > MaxRestarts \/ n <= MaxRestarts
      BY <1>1
    <3> QED BY <3>1, <3>3, <3>4, Zenon
  <2> QED BY <1>1, <2>2, <2>3, <2>4 DEF RestartsAreKnown
<1>4. CASE BackoffEnds
  <2>1. /\ session.at = "backoff" /\ session' = [session EXCEPT !.at = "running"]
        /\ UNCHANGED <<checkpoint, failures>>
    BY <1>4 DEF BackoffEnds
  <2>2. session'.restarts = session.restarts
    BY <2>1 DEF SessionTypes
  <2> QED BY <2>1, <2>2 DEF RestartsAreKnown
<1>5. CASE NodeReturns
  <2>1. /\ session.at = "running" /\ session' = [session EXCEPT !.at = "down"] /\ checkpoint' = session.restarts
        /\ failures' = failures
    BY <1>5 DEF NodeReturns
  <2>2. session'.at = "down" /\ session.restarts \in Nat /\ session.restarts = failures
    BY <2>1 DEF SessionTypes, RestartsAreKnown
  <2> QED BY <1>1, <2>1, <2>2 DEF RestartsAreKnown
<1>6. CASE SessionDies
  <2>1. session' = [session EXCEPT !.at = "down"] /\ checkpoint' \in {checkpoint, Torn} /\ failures' = failures
    BY <1>6 DEF SessionDies
  <2>2. session'.at = "down"
    BY <2>1 DEF SessionTypes
  <2> QED BY <1>1, <2>1, <2>2 DEF RestartsAreKnown
<1>7. CASE UNCHANGED <<session, checkpoint, failures>>
  BY <1>7 DEF RestartsAreKnown
<1>8. OnBar \/ EventArrives \/ Midnight \/ (\E i \in DOMAIN order : VenueMatches(i) \/ VenueRejects(i))
        \/ UNCHANGED sessionVars => UNCHANGED <<session, checkpoint, failures>>
  BY DEF OnBar, EventArrives, Midnight, VenueMatches, VenueRejects, sessionVars
<1> QED BY <1>2, <1>3, <1>4, <1>5, <1>6, <1>7, <1>8 DEF PaperNext

(* The engine's ledger is of the last day it looked, and nothing was lost since. *)
LedgerIsTrue ==
    /\ limits.day <= utcDay /\ limits.lost = losses[limits.day]
    /\ \A d \in 0..1 : d > limits.day => losses[d] = 0

LEMMA RolledIsToday ==
    ASSUME SessionTypes, LedgerIsTrue
    PROVE  RolledDay.day = utcDay /\ RolledDay.lost = losses[utcDay]
<1>1. limits.day \in 0..1 /\ utcDay \in 0..1
  BY DEF SessionTypes, Limits
<1>2. CASE utcDay > limits.day
  BY <1>1, <1>2, RolledIs DEF LedgerIsTrue
<1>3. CASE ~(utcDay > limits.day)
  <2>1. limits.day = utcDay
    BY <1>1, <1>3 DEF LedgerIsTrue
  <2> QED BY <1>3, <2>1, RolledIs DEF LedgerIsTrue
<1> QED BY <1>2, <1>3

LEMMA LedgerRolled ==
    ASSUME SessionTypes, LedgerIsTrue, UNCHANGED <<utcDay, losses>>,
           limits'.day = RolledDay.day, limits'.lost = RolledDay.lost
    PROVE  LedgerIsTrue'
<1>1. limits'.day = utcDay /\ limits'.lost = losses[utcDay] /\ utcDay \in 0..1
  BY RolledIsToday DEF SessionTypes
<1>2. \A d \in 0..1 : d > utcDay => losses[d] = 0
  <2>1. limits.day <= utcDay /\ limits.day \in 0..1
    BY DEF LedgerIsTrue, SessionTypes, Limits
  <2> QED BY <1>1, <2>1 DEF LedgerIsTrue
<1> QED BY <1>1, <1>2 DEF LedgerIsTrue

LEMMA LedgerKept ==
    ASSUME SessionTypes, SessionAssumption, LedgerIsTrue, [PaperNext]_sessionVars
    PROVE  LedgerIsTrue'
<1>1. ASSUME MemoryIsGone, UNCHANGED utcDay PROVE LedgerIsTrue'
  BY <1>1 DEF MemoryIsGone, LedgerIsTrue, SessionTypes
<1>2. CASE UNCHANGED <<limits, losses, utcDay>>
  BY <1>2 DEF LedgerIsTrue
<1>3. CASE NodeFails
  <2>1. UNCHANGED utcDay /\ (MemoryIsGone \/ UNCHANGED <<limits, losses>>)
    BY <1>3 DEF NodeFails, nodeVars
  <2> QED BY <1>1, <1>2, <2>1
<1>4. CASE NodeReturns \/ SessionDies
  BY <1>1, <1>4 DEF NodeReturns, SessionDies
<1>5. ASSUME UNCHANGED <<utcDay, losses>>, limits' = RolledDay \/ limits' = [RolledDay EXCEPT !.open = TRUE]
                                            \/ limits' = [RolledDay EXCEPT !.open = FALSE]
      PROVE  LedgerIsTrue'
  <2>1. limits'.day = RolledDay.day /\ limits'.lost = RolledDay.lost
    BY <1>5, RolledIs DEF Limits
  <2> QED BY <1>5, <2>1, LedgerRolled
<1>6. CASE OnBar
  <2>1. UNCHANGED <<losses, utcDay>> /\ (SendsNothing \/ SendsClose \/ SendsEntry)
    BY <1>6, BarIs
  <2>2. limits' = limits \/ limits' = RolledDay \/ limits' = [RolledDay EXCEPT !.open = TRUE]
    BY <2>1 DEF SendsNothing, SendsClose, SendsEntry
  <2> QED BY <1>2, <1>5, <2>1, <2>2
<1>7. CASE EventArrives
  <2>1. UNCHANGED utcDay /\ utcDay \in 0..1
    BY <1>7, ArrivalIs DEF SessionTypes
  <2> PICK e \in Event : FillIsTaken(e) \/ RejectionIsTaken(e)
    BY <1>7, ArrivalIs
  <2>2. CASE RejectionIsTaken(e)
    <3>1. UNCHANGED losses /\ (limits' = limits \/ limits' = [RolledDay EXCEPT !.open = FALSE])
      BY <2>2 DEF RejectionIsTaken
    <3> QED BY <1>2, <1>5, <2>1, <3>1
  <2>3. CASE FillIsTaken(e) /\ \E loss \in Int : BooksClose(loss)
    <3>1. PICK loss \in Int : BooksClose(loss)
      BY <2>3
    <3>2. /\ limits'.lost = RolledDay.lost + loss /\ limits'.day = RolledDay.day
          /\ losses' = [losses EXCEPT ![utcDay] = losses[utcDay] + loss]
      BY <3>1, BooksIs
    <3>3. limits'.lost = losses[utcDay] + loss /\ limits'.day = utcDay
      BY <3>2, RolledIsToday
    <3>4. losses \in [0..1 -> Int] /\ limits.day \in 0..1 /\ limits.day <= utcDay
      BY DEF SessionTypes, Limits, LedgerIsTrue
    <3>5. losses'[utcDay] = losses[utcDay] + loss /\ \A d \in 0..1 : d # utcDay => losses'[d] = losses[d]
      BY <2>1, <3>2, <3>4
    <3>6. \A d \in 0..1 : d > utcDay => losses'[d] = 0
      <4>1. ASSUME NEW d \in 0..1, d > utcDay PROVE losses'[d] = 0
        <5>1. d # utcDay /\ d > limits.day
          BY <2>1, <3>4, <4>1
        <5> QED BY <3>5, <5>1 DEF LedgerIsTrue
      <4> QED BY <4>1
    <3> QED BY <2>1, <3>3, <3>5, <3>6 DEF LedgerIsTrue
  <2>4. CASE FillIsTaken(e) /\ UNCHANGED <<limits, losses>>
    BY <1>2, <2>1, <2>4
  <2>5. FillIsTaken(e) => (\E loss \in Int : BooksClose(loss)) \/ UNCHANGED <<limits, losses>>
    BY DEF FillIsTaken
  <2> QED BY <2>1, <2>2, <2>3, <2>4, <2>5
<1>8. CASE Midnight
  <2>1. utcDay = 0 /\ utcDay' = 1 /\ UNCHANGED <<limits, losses>>
    BY <1>8 DEF Midnight, nodeVars
  <2>2. limits.day \in 0..1 /\ limits.day <= 1
    BY DEF SessionTypes, Limits
  <2> QED BY <2>1, <2>2 DEF LedgerIsTrue
<1>9. Launches \/ BackoffEnds \/ (\E i \in DOMAIN order : VenueMatches(i) \/ VenueRejects(i)) \/ UNCHANGED sessionVars
        => UNCHANGED <<limits, losses, utcDay>>
  BY DEF Launches, BackoffEnds, VenueMatches, VenueRejects, sessionVars, nodeVars
<1> QED BY <1>2, <1>3, <1>4, <1>6, <1>7, <1>8, <1>9 DEF PaperNext
-----------------------------------------------------------------------------
(* What the recorder scores has happened. *)

Happened(e, ord) ==
    /\ e.order \in DOMAIN ord /\ ~ord[e.order].working
    /\ e.type = "fill" => e.mark \in 1..ord[e.order].got
    /\ e.type = "rejected" => ord[e.order].got = 0
SeenOf(marks, i) == {x \in marks : x[1] = i}
MarksAreFills(marks, ord) ==
    \A x \in marks : x[1] \in DOMAIN ord /\ ord[x[1]].kind = "entry" /\ ~ord[x[1]].working /\ x[2] \in 1..ord[x[1]].got
ScoresAreMarks ==
    /\ \A i \in DOMAIN order : order[i].working => order[i].got = 0
    /\ \A i \in recorder.intents : order[i].kind = "entry"
    /\ \A n \in DOMAIN news : Happened(news[n], order)
    /\ IsFiniteSet(recorder.seen) /\ MarksAreFills(recorder.seen, order)
    /\ \A i \in DOMAIN order : recorder.scored[i] = Cardinality(SeenOf(recorder.seen, i))
    /\ \A i \in recorder.refused : ~order[i].working /\ order[i].got = 0

(* An order that is done is never touched again. *)
Grown(new, ord) ==
    \A i \in DOMAIN ord : /\ i \in DOMAIN new /\ new[i].kind = ord[i].kind
                          /\ ~ord[i].working => new[i] = ord[i]

LEMMA GrownKeeps ==
    ASSUME SessionTypes, ScoresAreMarks, Grown(order', order)
    PROVE  /\ \A n \in DOMAIN news : Happened(news[n], order')
           /\ MarksAreFills(recorder.seen, order')
           /\ \A i \in recorder.intents : order'[i].kind = "entry"
           /\ \A i \in recorder.refused : ~order'[i].working /\ order'[i].got = 0
<1>1. \A n \in DOMAIN news : Happened(news[n], order')
  BY DEF ScoresAreMarks, Grown, Happened
<1>2. MarksAreFills(recorder.seen, order')
  BY DEF ScoresAreMarks, Grown, MarksAreFills
<1>3. \A i \in recorder.intents : order'[i].kind = "entry"
  BY DEF ScoresAreMarks, Grown, SessionTypes
<1>4. \A i \in recorder.refused : ~order'[i].working /\ order'[i].got = 0
  BY DEF ScoresAreMarks, Grown, SessionTypes
<1> QED BY <1>1, <1>2, <1>3, <1>4

LEMMA NoMarks ==
    ASSUME NEW i
    PROVE  Cardinality(SeenOf({}, i)) = 0 /\ IsFiniteSet({})
<1>1. SeenOf({}, i) = {}
  BY DEF SeenOf
<1> QED BY <1>1, FS_EmptySet

LEMMA ScoresForgotten ==
    ASSUME SessionTypes, ScoresAreMarks, MemoryIsGone, UNCHANGED order
    PROVE  ScoresAreMarks'
<1>1. /\ recorder' = [intents |-> {}, seen |-> {}, scored |-> [i \in DOMAIN order |-> 0], refused |-> {}]
      /\ news' = <<>>
  BY DEF MemoryIsGone
<1>2. recorder'.intents = {} /\ recorder'.seen = {} /\ recorder'.refused = {} /\ \A i \in DOMAIN order : recorder'.scored[i] = 0
  BY <1>1
<1> QED BY <1>1, <1>2, NoMarks DEF ScoresAreMarks, MarksAreFills

LEMMA ScoresSent ==
    ASSUME SessionTypes, ScoresAreMarks, NEW row, NEW marked \in SUBSET (DOMAIN order \union {Len(order) + 1}),
           SendsOrder(row, marked), UNCHANGED news,
           \A i \in marked : i \in recorder.intents \/ (i = Len(order) + 1 /\ row.kind = "entry")
    PROVE  ScoresAreMarks'
<1>1. /\ row \in OrderRow /\ row.working /\ row.got = 0 /\ order' = Append(order, row)
      /\ recorder' = [recorder EXCEPT !.intents = marked, !.scored = Append(@, 0)]
  BY DEF SendsOrder
<1>2. /\ Longer(order', order, row)
      /\ recorder'.intents = marked /\ recorder'.seen = recorder.seen /\ recorder'.refused = recorder.refused
      /\ \A i \in DOMAIN order : recorder'.scored[i] = recorder.scored[i]
      /\ recorder'.scored[Len(order) + 1] = 0
  BY <1>1, SendTypes
<1>3. Grown(order', order)
  BY <1>2 DEF Longer, Grown
<1>4. /\ \A n \in DOMAIN news' : Happened(news'[n], order')
      /\ MarksAreFills(recorder'.seen, order')
      /\ \A i \in recorder.intents : order'[i].kind = "entry"
      /\ \A i \in recorder'.refused : ~order'[i].working /\ order'[i].got = 0
  BY <1>2, <1>3, GrownKeeps
<1>5. \A i \in recorder'.intents : order'[i].kind = "entry"
  BY <1>2, <1>4 DEF Longer
<1>6. \A i \in DOMAIN order' : order'[i].working => order'[i].got = 0
  BY <1>1, <1>2 DEF Longer, ScoresAreMarks
<1>7. \A i \in DOMAIN order' : recorder'.scored[i] = Cardinality(SeenOf(recorder'.seen, i))
  <2>1. SeenOf(recorder'.seen, Len(order) + 1) = {}
    BY <1>2 DEF SeenOf, ScoresAreMarks, MarksAreFills, Longer
  <2>2. DOMAIN order' = DOMAIN order \union {Len(order) + 1}
    BY <1>2 DEF Longer
  <2>3. \A i \in DOMAIN order : recorder'.scored[i] = Cardinality(SeenOf(recorder'.seen, i))
    BY <1>2 DEF ScoresAreMarks
  <2> QED BY <1>2, <2>1, <2>2, <2>3, FS_EmptySet
<1> QED BY <1>2, <1>4, <1>5, <1>6, <1>7 DEF ScoresAreMarks

LEMMA ScoresUponVenue ==
    ASSUME SessionTypes, ScoresAreMarks, NEW i \in DOMAIN order, NEW n \in Nat,
           order[i].working, Finished(order', order, i, n), UNCHANGED recorder,
           \A k \in DOMAIN news' : Happened(news'[k], order') \/ \E m \in DOMAIN news : news'[k] = news[m]
    PROVE  ScoresAreMarks'
<1>1. Grown(order', order)
  BY DEF Finished, Grown
<1>2. /\ \A m \in DOMAIN news : Happened(news[m], order')
      /\ MarksAreFills(recorder.seen, order')
      /\ \A j \in recorder.intents : order'[j].kind = "entry"
      /\ \A j \in recorder.refused : ~order'[j].working /\ order'[j].got = 0
  BY <1>1, GrownKeeps
<1>3. \A k \in DOMAIN news' : Happened(news'[k], order')
  BY <1>2
<1>4. \A j \in DOMAIN order' : order'[j].working => order'[j].got = 0
  BY DEF Finished, ScoresAreMarks
<1>5. \A j \in DOMAIN order' : recorder'.scored[j] = Cardinality(SeenOf(recorder'.seen, j))
  BY DEF Finished, ScoresAreMarks
<1> QED BY <1>2, <1>3, <1>4, <1>5 DEF ScoresAreMarks

LEMMA OneMoreMark ==
    ASSUME NEW marks, IsFiniteSet(marks), NEW i, NEW m, <<i, m>> \notin marks, NEW new, new = marks \union {<<i, m>>}
    PROVE  /\ IsFiniteSet(new) /\ Cardinality(SeenOf(new, i)) = Cardinality(SeenOf(marks, i)) + 1
           /\ \A j : j # i => SeenOf(new, j) = SeenOf(marks, j)
<1>1. IsFiniteSet(new)
  BY FS_AddElement
<1>2. SeenOf(marks, i) \in SUBSET marks /\ <<i, m>> \notin SeenOf(marks, i)
  BY DEF SeenOf
<1>3. IsFiniteSet(SeenOf(marks, i))
  BY <1>2, FS_Subset
<1>4. SeenOf(new, i) = SeenOf(marks, i) \union {<<i, m>>}
  BY DEF SeenOf
<1>5. Cardinality(SeenOf(new, i)) = Cardinality(SeenOf(marks, i)) + 1
  BY <1>2, <1>3, <1>4, FS_AddElement
<1>6. \A j : j # i => SeenOf(new, j) = SeenOf(marks, j)
  BY DEF SeenOf
<1> QED BY <1>1, <1>5, <1>6

LEMMA ScoresUponArrival ==
    ASSUME SessionTypes, ScoresAreMarks, EventArrives
    PROVE  ScoresAreMarks'
<1>1. PICK e \in Event : /\ e = Head(news)
                         /\ \/ e.type = "fill" /\ FillIsTaken(e)
                            \/ e.type = "rejected" /\ RejectionIsTaken(e)
  BY ArrivalIs
<1>2. news # <<>> /\ UNCHANGED order /\ news' \in Later(news)
  BY ArrivalIs
<1>3. Happened(e, order)
  <2>1. 1 \in DOMAIN news /\ e = news[1]
    BY <1>1, <1>2, TailHas DEF SessionTypes
  <2> QED BY <2>1 DEF ScoresAreMarks
<1>4. \A n \in DOMAIN news' : Happened(news'[n], order')
  <2>1. \A n \in DOMAIN news' : \E m \in DOMAIN news :
          news'[n].type = news[m].type /\ news'[n].order = news[m].order /\ news'[n].mark = news[m].mark
    BY <1>2, LaterHas DEF SessionTypes
  <2> QED BY <1>2, <2>1 DEF ScoresAreMarks, Happened
<1>5. CASE UNCHANGED <<recorder>>
  BY <1>2, <1>4, <1>5 DEF ScoresAreMarks
<1>6. CASE e.type = "fill" /\ FillIsTaken(e)
  <2>1. PICK r : r = recorder' /\ r = Scores(e)
    BY <1>6 DEF FillIsTaken
  <2>2. /\ r.intents \subseteq recorder.intents /\ r.refused = recorder.refused
        /\ \/ r = recorder
           \/ /\ e.order \in recorder.intents /\ Seen(e) \notin recorder.seen
              /\ r.seen = recorder.seen \union {Seen(e)}
              /\ r.scored = [recorder.scored EXCEPT ![e.order] = recorder.scored[e.order] + 1]
    BY <2>1, ScoresIs
  <2>3. CASE e.order \in recorder.intents /\ Seen(e) \notin recorder.seen
             /\ r.seen = recorder.seen \union {Seen(e)}
             /\ r.scored = [recorder.scored EXCEPT ![e.order] = recorder.scored[e.order] + 1]
    <3>1. PICK i, m : i = e.order /\ m = e.mark /\ Seen(e) = <<i, m>>
      BY DEF Seen
    <3>2. /\ i \in DOMAIN order /\ order[i].kind = "entry" /\ ~order[i].working /\ m \in 1..order[i].got
      BY <1>3, <1>6, <2>3, <3>1 DEF Happened, ScoresAreMarks
    <3>3. MarksAreFills(r.seen, order)
      BY <2>3, <3>1, <3>2 DEF MarksAreFills, ScoresAreMarks
    <3>4. /\ IsFiniteSet(r.seen) /\ Cardinality(SeenOf(r.seen, i)) = Cardinality(SeenOf(recorder.seen, i)) + 1
          /\ \A j : j # i => SeenOf(r.seen, j) = SeenOf(recorder.seen, j)
      BY <2>3, <3>1, OneMoreMark DEF ScoresAreMarks
    <3>5. i \in DOMAIN recorder.scored /\ \A j \in DOMAIN order : j \in DOMAIN recorder.scored
      BY <3>2 DEF SessionTypes, Recorder
    <3>6. r.scored[i] = recorder.scored[i] + 1 /\ \A j \in DOMAIN order : j # i => r.scored[j] = recorder.scored[j]
      BY <2>3, <3>1, <3>5
    <3>7. \A j \in DOMAIN order : r.scored[j] = Cardinality(SeenOf(r.seen, j))
      BY <3>2, <3>4, <3>6 DEF ScoresAreMarks
    <3>8. /\ \A j \in r.intents : order[j].kind = "entry"
          /\ \A j \in r.refused : ~order[j].working /\ order[j].got = 0
      BY <2>2 DEF ScoresAreMarks
    <3> QED BY <1>2, <1>4, <2>1, <3>3, <3>4, <3>7, <3>8 DEF ScoresAreMarks
  <2> QED BY <1>5, <2>1, <2>2, <2>3
<1>7. CASE e.type = "rejected" /\ RejectionIsTaken(e)
  <2>1. recorder' = ScoresRejection(e)
    BY <1>7 DEF RejectionIsTaken
  <2>2. CASE e.order \in recorder.intents
    <3>1. recorder' = [recorder EXCEPT !.intents = @ \ {e.order}, !.refused = @ \union {e.order}]
      BY <2>1, <2>2 DEF ScoresRejection
    <3>2. /\ recorder'.intents = recorder.intents \ {e.order} /\ recorder'.refused = recorder.refused \union {e.order}
          /\ recorder'.seen = recorder.seen /\ recorder'.scored = recorder.scored
      BY <3>1 DEF SessionTypes, Recorder
    <3>3. ~order[e.order].working /\ order[e.order].got = 0
      BY <1>3, <1>7 DEF Happened
    <3> QED BY <1>2, <1>4, <3>2, <3>3 DEF ScoresAreMarks
  <2>3. CASE e.order \notin recorder.intents
    BY <1>5, <2>1, <2>3 DEF ScoresRejection
  <2> QED BY <2>2, <2>3
<1> QED BY <1>1, <1>6, <1>7
LEMMA ScoresKept ==
    ASSUME SessionTypes, SessionAssumption, ScoresAreMarks, [PaperNext]_sessionVars
    PROVE  ScoresAreMarks'
<1>1. ASSUME UNCHANGED <<order, recorder>>, news' = news \/ news' = <<>> PROVE ScoresAreMarks'
  <2>1. \A n \in DOMAIN news' : Happened(news'[n], order)
    BY <1>1 DEF ScoresAreMarks
  <2> QED BY <1>1, <2>1 DEF ScoresAreMarks
<1>2. CASE NodeFails
  <2>1. UNCHANGED order /\ (MemoryIsGone \/ (news' = <<>> /\ UNCHANGED recorder))
    BY <1>2 DEF NodeFails, nodeVars
  <2> QED BY <1>1, <2>1, ScoresForgotten
<1>3. CASE NodeReturns \/ SessionDies
  BY <1>3, ScoresForgotten DEF NodeReturns, SessionDies
<1>4. CASE OnBar
  <2>1. UNCHANGED news /\ (SendsNothing \/ SendsClose \/ SendsEntry)
    BY <1>4, BarIs
  <2>2. recorder.intents \subseteq DOMAIN order
    BY DEF SessionTypes
  <2>3. CASE SendsNothing
    BY <1>1, <2>1, <2>3 DEF SendsNothing
  <2>4. CASE SendsClose
    <3>1. PICK row : SendsOrder(row, recorder.intents)
      BY <2>4 DEF SendsClose
    <3>2. recorder.intents \in SUBSET (DOMAIN order \union {Len(order) + 1})
      BY <2>2
    <3> QED BY <2>1, <3>1, <3>2, ScoresSent
  <2>5. CASE SendsEntry
    <3>1. PICK row : SendsOrder(row, recorder.intents \union {Len(order) + 1}) /\ row.kind = "entry"
      BY <2>5 DEF SendsEntry
    <3>2. recorder.intents \union {Len(order) + 1} \in SUBSET (DOMAIN order \union {Len(order) + 1})
      BY <2>2
    <3>3. PICK marked \in SUBSET (DOMAIN order \union {Len(order) + 1}) : marked = recorder.intents \union {Len(order) + 1}
      BY <3>2
    <3>4. \A i \in marked : i \in recorder.intents \/ (i = Len(order) + 1 /\ row.kind = "entry")
      BY <3>1, <3>3
    <3>5. SendsOrder(row, marked)
      BY <3>1, <3>3
    <3> QED BY <2>1, <3>4, <3>5, ScoresSent
  <2> QED BY <2>1, <2>3, <2>4, <2>5
<1>5. ASSUME NEW i \in DOMAIN order, VenueMatches(i) PROVE ScoresAreMarks'
  <2>1. order[i].working /\ UNCHANGED recorder
    BY <1>5, MatchIs DEF Unmoved, nodeVars
  <2>2. PICK n \in Nat, s \in Seq(Event) : Told(s) /\ FillsOf(s, i, n) /\ Finished(order', order, i, n)
    BY <1>5, MatchIs
  <2>4. DOMAIN s = 1..n /\ \A k \in 1..n : s[k].type = "fill" /\ s[k].order = i /\ s[k].mark \in 1..n
    BY <2>2 DEF FillsOf
  <2>5. i \in DOMAIN order' /\ ~order'[i].working /\ order'[i].got = n
    BY <2>2 DEF Finished
  <2>6. \A k \in DOMAIN s : Happened(s[k], order')
    BY <2>4, <2>5 DEF Happened
  <2>7. \A k \in DOMAIN news' : Happened(news'[k], order') \/ \E m \in DOMAIN news : news'[k] = news[m]
    <3>1. CASE news' = news
      BY <3>1
    <3>2. CASE news' = news \o s
      <4>1. /\ DOMAIN news' = 1..(Len(news) + Len(s)) /\ DOMAIN news = 1..Len(news) /\ Len(news) \in Nat /\ Len(s) \in Nat
            /\ \A k \in DOMAIN news : news'[k] = news[k]
            /\ \A k \in (Len(news) + 1)..(Len(news) + Len(s)) : k - Len(news) \in DOMAIN s /\ news'[k] = s[k - Len(news)]
        <5>1. news \in Seq(Event)
          BY DEF SessionTypes
        <5> QED BY <3>2, <5>1, JoinedHas
      <4>2. \A k \in DOMAIN news' : k \in DOMAIN news \/ k \in (Len(news) + 1)..(Len(news) + Len(s))
        BY <4>1
      <4> QED BY <2>6, <4>1, <4>2
    <3> QED BY <2>2, <3>1, <3>2 DEF Told
  <2> QED BY <2>1, <2>2, <2>7, ScoresUponVenue
<1>6. ASSUME NEW i \in DOMAIN order, VenueRejects(i) PROVE ScoresAreMarks'
  <2>1. /\ order[i].working /\ UNCHANGED recorder /\ Rejection(i) \in Event /\ Told(<<Rejection(i)>>)
        /\ Finished(order', order, i, order[i].got) /\ order[i].got \in Nat
    BY <1>6, RefusalIs DEF Unmoved, nodeVars
  <2>2. PICK e \in Event : e = Rejection(i) /\ e.type = "rejected" /\ e.order = i
    BY <2>1 DEF Rejection
  <2>3. Happened(e, order')
    BY <2>1, <2>2 DEF Happened, Finished, ScoresAreMarks
  <2>4. \A k \in DOMAIN news' : Happened(news'[k], order') \/ \E m \in DOMAIN news : news'[k] = news[m]
    <3>1. CASE news' = news
      BY <3>1
    <3>2. CASE news' = news \o <<e>>
      <4>1. \A k \in DOMAIN news' : news'[k] = e \/ (k \in DOMAIN news /\ news'[k] = news[k])
        <5>1. news \in Seq(Event)
          BY DEF SessionTypes
        <5> QED BY <2>2, <3>2, <5>1, RejectionJoins
      <4> QED BY <2>3, <4>1
    <3> QED BY <2>1, <2>2, <3>1, <3>2 DEF Told
  <2> QED BY <2>1, <2>4, ScoresUponVenue
<1>7. Launches \/ BackoffEnds \/ Midnight \/ UNCHANGED sessionVars => UNCHANGED <<order, recorder, news>>
  BY DEF Launches, BackoffEnds, Midnight, sessionVars, nodeVars, venueVars
<1> QED BY <1>1, <1>2, <1>3, <1>4, <1>5, <1>6, <1>7, ScoresUponArrival DEF PaperNext

(* What is scored was filled. *)
LEMMA MarksAreTrue ==
    ASSUME SessionTypes, ScoresAreMarks
    PROVE  ScoresAreTrue
<1>1. DOMAIN recorder.scored = DOMAIN order
  BY DEF SessionTypes, Recorder
<1>2. ASSUME NEW i \in DOMAIN order
      PROVE  /\ recorder.scored[i] > 0 => order[i].kind = "entry" /\ ~order[i].working
             /\ recorder.scored[i] <= order[i].got
  <2> DEFINE S == SeenOf(recorder.seen, i)
             f == [x \in S |-> x[2]]
  <2>1. recorder.scored[i] = Cardinality(S) /\ recorder.seen \subseteq Nat \X Nat
    BY DEF ScoresAreMarks, SessionTypes, Recorder
  <2>2. order[i].got \in Nat
    BY OrderHas
  <2>3. \A x \in S : /\ x[1] = i /\ x[2] \in 1..order[i].got /\ order[i].kind = "entry" /\ ~order[i].working
                     /\ x = <<x[1], x[2]>>
    BY <2>1 DEF SeenOf, ScoresAreMarks, MarksAreFills
  <2>4. f \in Injection(S, 1..order[i].got)
    <3>1. f \in [S -> 1..order[i].got]
      BY <2>3
    <3>2. \A x, y \in S : f[x] = f[y] => x = y
      BY <2>3
    <3> QED BY <3>1, <3>2 DEF Injection, IsInjective
  <2>5. IsFiniteSet(1..order[i].got) /\ Cardinality(1..order[i].got) = order[i].got
    BY <2>2, FS_Interval
  <2>6. IsFiniteSet(S) /\ Cardinality(S) <= order[i].got
    BY <2>4, <2>5, FS_Injection
  <2>7. S = {} => recorder.scored[i] = 0
    BY <2>1, FS_EmptySet
  <2> HIDE DEF S, f
  <2> QED BY <2>1, <2>2, <2>3, <2>6, <2>7
<1>3. \A i \in DOMAIN order : i \in recorder.refused => recorder.scored[i] = 0
  <2> SUFFICES ASSUME NEW i \in DOMAIN order, i \in recorder.refused PROVE recorder.scored[i] = 0
    OBVIOUS
  <2>1. order[i].got = 0 /\ recorder.scored[i] <= order[i].got
    BY <1>2 DEF ScoresAreMarks
  <2>2. recorder.scored[i] \in Nat
    BY <1>1 DEF SessionTypes, Recorder
  <2> QED BY <2>1, <2>2
<1> QED BY <1>1, <1>2, <1>3 DEF ScoresAreTrue

LEMMA NoBetKept ==
    ASSUME SessionTypes, SessionAssumption, LedgerIsTrue, NoBetAfterTheLimit, [PaperNext]_sessionVars
    PROVE  NoBetAfterTheLimit'
<1>1. CASE UNCHANGED order
  BY <1>1 DEF NoBetAfterTheLimit
<1>2. CASE OnBar
  <2>1. SendsNothing \/ SendsClose \/ SendsEntry
    BY <1>2, BarIs
  <2>2. CASE SendsNothing
    BY <1>1, <2>2 DEF SendsNothing
  <2>3. ASSUME NEW row, NEW marked, SendsOrder(row, marked), row.kind = "entry" => row.lost < DailyLossLimit
        PROVE  NoBetAfterTheLimit'
    <3>1. Longer(order', order, row)
      BY <2>3, OrderIsSent DEF SendsOrder, SessionTypes
    <3> QED BY <2>3, <3>1 DEF Longer, NoBetAfterTheLimit
  <2>4. CASE SendsClose
    BY <2>3, <2>4 DEF SendsClose
  <2>5. CASE SendsEntry
    <3>1. PICK row : SendsOrder(row, recorder.intents \union {Len(order) + 1}) /\ row.lost = losses[utcDay]
                     /\ RiskApproves(RolledDay)
      BY <2>5 DEF SendsEntry
    <3>2. row.lost < DailyLossLimit
      BY <3>1, RolledIsToday DEF RiskApproves
    <3> QED BY <2>3, <3>1, <3>2
  <2> QED BY <2>1, <2>2, <2>4, <2>5
<1>3. ASSUME NEW i \in DOMAIN order, VenueMatches(i) \/ VenueRejects(i) PROVE NoBetAfterTheLimit'
  <2>1. \E n : Finished(order', order, i, n)
    BY <1>3, MatchIs, RefusalIs
  <2> QED BY <2>1 DEF Finished, NoBetAfterTheLimit
<1>4. Launches \/ NodeFails \/ BackoffEnds \/ NodeReturns \/ SessionDies \/ EventArrives \/ Midnight \/ UNCHANGED sessionVars
        => UNCHANGED order
  BY DEF Launches, NodeFails, BackoffEnds, NodeReturns, SessionDies, EventArrives, Midnight, sessionVars, venueVars
<1> QED BY <1>1, <1>2, <1>3, <1>4 DEF PaperNext
-----------------------------------------------------------------------------
(* One bet at a time. *)

Orders(ord, kind) == {i \in DOMAIN ord : ord[i].kind = kind}
Waiting(ord) == {i \in DOMAIN ord : ord[i].kind = "entry" /\ ord[i].working}
Entries(q, ord) == FreshIn(q, Orders(ord, "entry"))
Closes(q, ord) == FreshIn(q, Orders(ord, "close"))
QuietIn(h, pos, q, ord) == h = 0 /\ pos = 0 /\ Waiting(ord) = {} /\ Entries(q, ord) = 0 /\ Closes(q, ord) = 0

(* What the venue holds is what the node knows and what it is still told; an *)
(* entry is sent when nothing is held, known, or on its way; and the engine  *)
(* says that nothing is open only then.                                      *)
OneBet(h, pos, q, ord, entry, open) ==
    /\ h = pos + Entries(q, ord) - Closes(q, ord)
    /\ \A a \in FreshAt(q, Orders(ord, "close")), b \in FreshAt(q, Orders(ord, "entry")) : b < a
    /\ Waiting(ord) # {} =>
          /\ \E i : Waiting(ord) = {i}
          /\ h = 0 /\ pos = 0 /\ Entries(q, ord) = 0 /\ Closes(q, ord) = 0
    /\ h <= EntrySize
    /\ ~open => QuietIn(h, pos, q, ord)
    /\ RefusedIn(q, entry) => QuietIn(h, pos, q, ord)

KnownIn(q, ord) == \A n \in DOMAIN q : q[n].order \in DOMAIN ord

LEMMA NothingFresh ==
    ASSUME NEW q \in Seq(Event), NEW I, FreshIn(q, I) = 0
    PROVE  FreshAt(q, I) = {}
BY FreshIsFinite, FS_EmptySet DEF FreshIn

LEMMA SameFresh ==
    ASSUME NEW q, NEW ord, NEW new, Grown(new, ord), KnownIn(q, ord), NEW kind
    PROVE  FreshAt(q, Orders(new, kind)) = FreshAt(q, Orders(ord, kind))
BY DEF FreshAt, Orders, Grown, KnownIn

LEMMA SameCounts ==
    ASSUME NEW q, NEW ord, NEW new, Grown(new, ord), KnownIn(q, ord)
    PROVE  Entries(q, new) = Entries(q, ord) /\ Closes(q, new) = Closes(q, ord)
BY SameFresh DEF Entries, Closes, FreshIn

LEMMA BetOfEntry ==
    ASSUME NEW q \in Seq(Event), NEW h, NEW pos, NEW ord, NEW new, NEW row, Longer(new, ord, row),
           row.kind = "entry", row.working, KnownIn(q, ord), QuietIn(h, pos, q, ord), EntrySize \in Nat
    PROVE  OneBet(h, pos, q, new, Len(ord) + 1, TRUE)
<1>1. Grown(new, ord)
  BY DEF Longer, Grown
<1>2. Entries(q, new) = 0 /\ Closes(q, new) = 0 /\ h = 0 /\ pos = 0
  BY <1>1, SameCounts DEF QuietIn
<1>3. FreshAt(q, Orders(new, "close")) = {}
  BY <1>2, NothingFresh DEF Closes
<1>4. Waiting(new) = {Len(ord) + 1}
  BY DEF Longer, Waiting, QuietIn
<1>5. ~RefusedIn(q, Len(ord) + 1)
  BY DEF RefusedIn, KnownIn, Longer
<1>6. h = pos + Entries(q, new) - Closes(q, new) /\ h <= EntrySize
  BY <1>2
<1> QED BY <1>2, <1>3, <1>4, <1>5, <1>6 DEF OneBet

LEMMA BetOfClose ==
    ASSUME NEW q \in Seq(Event), NEW h, NEW pos, NEW entry, NEW open, NEW ord, NEW new, NEW row, Longer(new, ord, row),
           row.kind = "close", KnownIn(q, ord), OneBet(h, pos, q, ord, entry, open)
    PROVE  OneBet(h, pos, q, new, entry, open)
<1>1. Grown(new, ord)
  BY DEF Longer, Grown
<1>2. Entries(q, new) = Entries(q, ord) /\ Closes(q, new) = Closes(q, ord)
  BY <1>1, SameCounts
<1>3. /\ FreshAt(q, Orders(new, "close")) = FreshAt(q, Orders(ord, "close"))
      /\ FreshAt(q, Orders(new, "entry")) = FreshAt(q, Orders(ord, "entry"))
  BY <1>1, SameFresh
<1>4. Waiting(new) = Waiting(ord)
  BY DEF Longer, Waiting
<1> QED BY <1>2, <1>3, <1>4, Zenon DEF OneBet, QuietIn

LEMMA BetRefused ==
    ASSUME NEW q \in Seq(Event), NEW h, NEW pos, NEW entry \in Nat, NEW open, NEW ord, NEW new, NEW i \in DOMAIN ord, NEW n,
           Finished(new, ord, i, n), ord[i].working, KnownIn(q, ord), OneBet(h, pos, q, ord, entry, open),
           entry # 0 => ord[entry].kind = "entry", DOMAIN ord \subseteq Nat \ {0}, ord[i].kind \in {"entry", "close"},
           NEW e \in Event, e.type = "rejected", e.order = i, NEW r, r = q \o <<e>>
    PROVE  OneBet(h, pos, r, new, entry, open)
<1>1. Grown(new, ord)
  BY DEF Finished, Grown
<1>2. \A orders : FreshAt(r, orders) = FreshAt(q, orders)
  BY RejectionIsNotFresh
<1>3. /\ FreshAt(r, Orders(new, "close")) = FreshAt(q, Orders(ord, "close"))
      /\ FreshAt(r, Orders(new, "entry")) = FreshAt(q, Orders(ord, "entry"))
  BY <1>1, <1>2, SameFresh
<1>4. Entries(r, new) = Entries(q, ord) /\ Closes(r, new) = Closes(q, ord)
  BY <1>3 DEF Entries, Closes, FreshIn
<1>5. CASE ord[i].kind = "entry"
  <2>1. i \in Waiting(ord)
    BY <1>5 DEF Waiting
  <2>2. h = 0 /\ pos = 0 /\ Entries(q, ord) = 0 /\ Closes(q, ord) = 0 /\ Waiting(ord) = {i}
    BY <2>1 DEF OneBet
  <2>3. Waiting(new) = {}
    BY <2>2 DEF Waiting, Finished
  <2>4. QuietIn(h, pos, r, new)
    BY <1>4, <2>2, <2>3 DEF QuietIn
  <2> QED BY <1>3, <1>4, <2>3, <2>4 DEF OneBet
<1>6. CASE ord[i].kind = "close"
  <2>1. Waiting(new) = Waiting(ord)
    BY SMTT(30), <1>6 DEF Waiting, Finished
  <2>2. RefusedIn(r, entry) => RefusedIn(q, entry)
    <3>1. \A k \in DOMAIN r : r[k] = e \/ (k \in DOMAIN q /\ r[k] = q[k])
      BY RejectionJoins
    <3>2. i # entry
      BY <1>6
    <3> QED BY <3>1, <3>2 DEF RefusedIn
  <2> QED BY <1>3, <1>4, <2>1, <2>2, Zenon DEF OneBet, QuietIn
<1> QED BY <1>5, <1>6

LEMMA FillsRefuseNothing ==
    ASSUME NEW q \in Seq(Event), NEW i, NEW n \in Nat, NEW s, FillsOf(s, i, n), NEW entry,
           NEW r, r = q \o s, RefusedIn(r, entry)
    PROVE  RefusedIn(q, entry)
<1>1. s \in Seq(Event) /\ Len(s) = n /\ r = q \o s
  BY DEF FillsOf
<1>2. /\ DOMAIN r = 1..(Len(q) + n) /\ DOMAIN q = 1..Len(q) /\ Len(q) \in Nat
      /\ \A k \in DOMAIN q : r[k] = q[k]
      /\ \A k \in (Len(q) + 1)..(Len(q) + n) : k - Len(q) \in DOMAIN s /\ r[k] = s[k - Len(q)]
  <2>1. s \in Seq(Event) /\ r = q \o s
    BY <1>1
  <2>2. /\ DOMAIN r = 1..(Len(q) + Len(s)) /\ DOMAIN q = 1..Len(q) /\ Len(q) \in Nat
        /\ \A k \in DOMAIN q : r[k] = q[k]
        /\ \A k \in (Len(q) + 1)..(Len(q) + Len(s)) : k - Len(q) \in DOMAIN s /\ r[k] = s[k - Len(q)]
    BY <2>1, JoinedHas
  <2> QED BY <1>1, <2>2
<1>3. \A k \in DOMAIN s : s[k].type = "fill"
  BY DEF FillsOf
<1>4. PICK k \in DOMAIN r : r[k].type = "rejected" /\ r[k].order = entry
  BY DEF RefusedIn
<1>5. k \in DOMAIN q \/ k \in (Len(q) + 1)..(Len(q) + n)
  BY <1>2, <1>4
<1> QED BY <1>2, <1>3, <1>4, <1>5 DEF RefusedIn

(* An order that is matched, and the fills the node is told of. *)
Matched(q, r, s, ord, new, i, n, h, h1) ==
    /\ i \in DOMAIN ord /\ i \in Nat /\ n \in Nat /\ ord[i].working
    /\ Finished(new, ord, i, n) /\ FillsOf(s, i, n) /\ r = q \o s
    /\ ord[i].kind = "entry" => n <= EntrySize /\ h1 = h + n
    /\ ord[i].kind = "close" => n <= h /\ h > 0 /\ h1 = h - n

LEMMA BetFilled ==
    ASSUME NEW q \in Seq(Event), NEW h \in Nat, NEW pos \in Int, NEW entry, NEW open \in BOOLEAN, NEW ord, NEW new,
           NEW i, NEW n, NEW s, NEW r, NEW h1, Matched(q, r, s, ord, new, i, n, h, h1),
           KnownIn(q, ord), OneBet(h, pos, q, ord, entry, open),
           ord[i].kind = "entry", EntrySize \in Nat
    PROVE  OneBet(h1, pos, r, new, entry, open)
<1> /\ i \in DOMAIN ord /\ i \in Nat /\ n \in Nat /\ ord[i].working /\ Finished(new, ord, i, n) /\ FillsOf(s, i, n)
    /\ r = q \o s /\ n <= EntrySize /\ h1 = h + n
  BY DEF Matched
<1>1. Grown(new, ord)
  BY DEF Finished, Grown
<1>2. h = 0 /\ pos = 0 /\ Entries(q, ord) = 0 /\ Closes(q, ord) = 0 /\ Waiting(ord) = {i}
  <2>1. i \in Waiting(ord)
    BY DEF Waiting
  <2> QED BY <2>1 DEF OneBet
<1>3. Waiting(new) = {}
  BY <1>2 DEF Waiting, Finished
<1>4. Entries(q, new) = 0 /\ Closes(q, new) = 0
  BY <1>1, <1>2, SameCounts
<1>5. i \in Orders(new, "entry") /\ i \notin Orders(new, "close")
  BY DEF Finished, Orders
<1>6. Entries(r, new) = n /\ Closes(r, new) = 0
  <2>1. FreshIn(r, Orders(new, "entry")) = FreshIn(q, Orders(new, "entry")) + n
    BY <1>5, FillsJoin
  <2>2. FreshIn(r, Orders(new, "close")) = FreshIn(q, Orders(new, "close"))
    BY <1>5, FillsJoin DEF FreshIn
  <2> QED BY <1>4, <2>1, <2>2 DEF Entries, Closes
<1>7. FreshAt(r, Orders(new, "close")) = {}
  <2>1. FreshAt(r, Orders(new, "close")) = FreshAt(q, Orders(new, "close"))
    BY <1>5, FillsJoin
  <2>2. FreshAt(q, Orders(new, "close")) = {}
    BY <1>4, NothingFresh DEF Closes
  <2> QED BY <2>1, <2>2
<1>8. open /\ ~RefusedIn(q, entry)
  BY <1>2 DEF OneBet, QuietIn
<1>9. ~RefusedIn(r, entry)
  BY <1>8, FillsRefuseNothing
<1>10. h1 = pos + Entries(r, new) - Closes(r, new) /\ h1 <= EntrySize
  BY <1>2, <1>6
<1> QED BY <1>3, <1>7, <1>8, <1>9, <1>10 DEF OneBet

LEMMA BetClosing ==
    ASSUME NEW q \in Seq(Event), NEW h \in Nat, NEW pos \in Int, NEW entry, NEW open \in BOOLEAN, NEW ord, NEW new,
           NEW i, NEW n, NEW s, NEW r, NEW h1, Matched(q, r, s, ord, new, i, n, h, h1),
           KnownIn(q, ord), OneBet(h, pos, q, ord, entry, open),
           ord[i].kind = "close", EntrySize \in Nat
    PROVE  OneBet(h1, pos, r, new, entry, open)
<1> /\ i \in DOMAIN ord /\ i \in Nat /\ n \in Nat /\ ord[i].working /\ Finished(new, ord, i, n) /\ FillsOf(s, i, n)
    /\ r = q \o s /\ n <= h /\ h > 0 /\ h1 = h - n
  BY DEF Matched
<1>1. Grown(new, ord)
  BY DEF Finished, Grown
<1>2. Waiting(ord) = {} /\ open /\ ~RefusedIn(q, entry)
  <2>1. h # 0
    OBVIOUS
  <2>2. ~QuietIn(h, pos, q, ord)
    BY <2>1 DEF QuietIn
  <2>3. /\ Waiting(ord) # {} => h = 0
        /\ ~open => QuietIn(h, pos, q, ord)
        /\ RefusedIn(q, entry) => QuietIn(h, pos, q, ord)
    BY Zenon DEF OneBet
  <2> QED BY <2>1, <2>2, <2>3
<1>3. Waiting(new) = {}
  BY <1>2 DEF Waiting, Finished
<1>4. Entries(q, new) = Entries(q, ord) /\ Closes(q, new) = Closes(q, ord)
  BY <1>1, SameCounts
<1>5. i \in Orders(new, "close") /\ i \notin Orders(new, "entry")
  BY DEF Finished, Orders
<1>6. Entries(r, new) = Entries(q, ord) /\ Closes(r, new) = Closes(q, ord) + n
  <2>1. FreshIn(r, Orders(new, "close")) = FreshIn(q, Orders(new, "close")) + n
    BY <1>5, FillsJoin
  <2>2. FreshIn(r, Orders(new, "entry")) = FreshIn(q, Orders(new, "entry"))
    BY <1>5, FillsJoin DEF FreshIn
  <2> QED BY <1>4, <2>1, <2>2 DEF Entries, Closes
<1>7. ASSUME NEW a \in FreshAt(r, Orders(new, "close")), NEW b \in FreshAt(r, Orders(new, "entry"))
      PROVE  b < a
  <2>1. b \in FreshAt(q, Orders(ord, "entry"))
    <3>1. FreshAt(r, Orders(new, "entry")) = FreshAt(q, Orders(new, "entry"))
      BY <1>5, FillsJoin
    <3> QED BY <1>1, <3>1, SameFresh
  <2>2. CASE a \in DOMAIN q
    <3>1. FreshAt(r, Orders(new, "close")) \intersect DOMAIN q = FreshAt(q, Orders(new, "close"))
      BY FillsJoin
    <3>2. a \in FreshAt(q, Orders(ord, "close"))
      BY <1>1, <2>2, <3>1, SameFresh
    <3> QED BY <2>1, <3>2 DEF OneBet
  <2>3. CASE a \notin DOMAIN q
    <3>1. b \in 1..Len(q) /\ DOMAIN q = 1..Len(q) /\ Len(q) \in Nat
      BY <2>1 DEF FreshAt
    <3>2. a \in DOMAIN r /\ \A k \in DOMAIN r : k \in Nat \ {0}
      <4>1. s \in Seq(Event)
        BY DEF FillsOf
      <4>2. DOMAIN r = 1..(Len(q) + Len(s)) /\ Len(q) \in Nat /\ Len(s) \in Nat
        BY <4>1, JoinedHas
      <4>3. \A k \in 1..(Len(q) + Len(s)) : k \in Nat \ {0}
        BY <4>2
      <4>4. a \in DOMAIN r
        BY DEF FreshAt
      <4> QED BY <4>2, <4>3, <4>4, Zenon
    <3> QED BY <2>3, <3>1, <3>2
  <2> QED BY <2>2, <2>3
<1>8. ~RefusedIn(r, entry)
  BY <1>2, FillsRefuseNothing
<1>9. h1 = pos + Entries(r, new) - Closes(r, new) /\ h1 <= EntrySize
  <2>1. PICK E \in Nat, C \in Nat : E = Entries(q, ord) /\ C = Closes(q, ord)
    BY FreshIsFinite DEF Entries, Closes
  <2>2. h = pos + E - C /\ h <= EntrySize
    BY <2>1 DEF OneBet
  <2>3. Entries(r, new) = E /\ Closes(r, new) = C + n
    BY <1>6, <2>1
  <2>4. h1 = pos + E - (C + n) /\ h1 <= EntrySize
    <3>1. n \in Nat /\ h1 = h - n
      OBVIOUS
    <3>2. h1 = (pos + E - C) - n /\ h1 <= h
      BY <2>2, <3>1
    <3>3. (pos + E - C) - n = pos + E - (C + n)
      BY <2>1, <3>1
    <3> QED BY <2>2, <3>1, <3>2, <3>3
  <2> QED BY <2>3, <2>4, Zenon
<1> QED BY <1>2, <1>3, <1>7, <1>8, <1>9 DEF OneBet

(* What a fill, and a rejection, at the head of the queue changes. *)
FillCounts(q, ord, pos, pos1, open, open1, entry, entry1) ==
    /\ Head(q).type = "fill"
    /\ ord[Head(q).order].kind \in {"entry", "close"}
    /\ entry1 = 0 \/ entry1 = entry
    /\ pos1 = IF Head(q).again THEN pos ELSE IF ord[Head(q).order].kind = "entry" THEN pos + 1 ELSE pos - 1
    /\ open1 = IF pos1 = 0 /\ pos > 0 THEN FALSE ELSE open
RejectionCounts(q, entry, entry1, open, open1) ==
    /\ Head(q).type = "rejected"
    /\ IF entry = Head(q).order THEN entry1 = 0 /\ open1 = FALSE ELSE entry1 = entry /\ open1 = open

LEMMA BetTaken ==
    ASSUME NEW q \in Seq(Event), q # <<>>, NEW h \in Nat, NEW pos \in Int, NEW entry, NEW open \in BOOLEAN, NEW ord,
           KnownIn(q, ord), OneBet(h, pos, q, ord, entry, open), EntrySize \in Nat,
           0 \notin DOMAIN ord, NEW r \in Later(q), NEW entry1, NEW pos1, NEW open1,
           FillCounts(q, ord, pos, pos1, open, open1, entry, entry1)
    PROVE  OneBet(h, pos1, r, ord, entry1, open1)
<1> pos1 = IF Head(q).again THEN pos ELSE IF ord[Head(q).order].kind = "entry" THEN pos + 1 ELSE pos - 1
  BY DEF FillCounts
<1> open1 = IF pos1 = 0 /\ pos > 0 THEN FALSE ELSE open
  BY DEF FillCounts
<1> Head(q).type = "fill" /\ ord[Head(q).order].kind \in {"entry", "close"} /\ entry1 \in {0, entry}
  BY DEF FillCounts
<1>1. PICK e \in Event : e = Head(q) /\ e = q[1] /\ 1 \in DOMAIN q
  BY TailHas
<1>2. PICK E \in Nat, C \in Nat : E = Entries(q, ord) /\ C = Closes(q, ord)
  BY FreshIsFinite DEF Entries, Closes
<1>3. PICK E1 \in Nat, C1 \in Nat : E1 = Entries(r, ord) /\ C1 = Closes(r, ord)
  BY FreshLater, FreshIsFinite DEF Entries, Closes
<1>4. /\ E1 = IF 1 \in FreshAt(q, Orders(ord, "entry")) THEN E - 1 ELSE E
      /\ C1 = IF 1 \in FreshAt(q, Orders(ord, "close")) THEN C - 1 ELSE C
  BY <1>2, <1>3, FreshLater DEF Entries, Closes
<1>5. h = pos + E - C /\ h <= EntrySize
  BY <1>2 DEF OneBet
<1>6. \A a \in FreshAt(r, Orders(ord, "close")), b \in FreshAt(r, Orders(ord, "entry")) : b < a
  <2>1. \A a \in FreshAt(q, Orders(ord, "close")), b \in FreshAt(q, Orders(ord, "entry")) : b < a
    BY DEF OneBet
  <2> QED BY <2>1, LaterKeepsOrder
<1>7. ASSUME RefusedIn(r, entry1) PROVE RefusedIn(q, entry)
  <2>1. PICK n \in DOMAIN r : r[n].type = "rejected" /\ r[n].order = entry1
    BY <1>7 DEF RefusedIn
  <2>2. PICK m \in DOMAIN q : r[n].type = q[m].type /\ r[n].order = q[m].order
    BY <2>1, LaterHas
  <2>3. entry1 = entry
    BY <2>1, <2>2 DEF KnownIn
  <2> QED BY <2>1, <2>2, <2>3 DEF RefusedIn
<1>8. e.order \in DOMAIN ord
  BY <1>1 DEF KnownIn
<1>9. CASE e.again
  <2>1. pos1 = pos /\ open1 = open
    <3>1. pos1 = pos
      BY <1>1, <1>9
    <3>2. ~(pos1 = 0 /\ pos > 0)
      BY <3>1
    <3> QED BY <3>1, <3>2
  <2>2. 1 \notin FreshAt(q, Orders(ord, "entry")) /\ 1 \notin FreshAt(q, Orders(ord, "close"))
    BY <1>1, <1>9 DEF FreshAt
  <2>3. E1 = E /\ C1 = C /\ pos1 = pos /\ open1 = open
    BY <1>4, <2>1, <2>2
  <2>4. QuietIn(h, pos, q, ord) => QuietIn(h, pos1, r, ord)
    BY <1>2, <1>3, <2>3 DEF QuietIn
  <2>5. /\ Waiting(ord) # {} => /\ \E i : Waiting(ord) = {i}
                               /\ h = 0 /\ pos1 = 0 /\ Entries(r, ord) = 0 /\ Closes(r, ord) = 0
        /\ h = pos1 + Entries(r, ord) - Closes(r, ord)
    BY <1>2, <1>3, <1>5, <2>3 DEF OneBet
  <2>6. ~open1 => QuietIn(h, pos1, r, ord)
    BY <2>3, <2>4 DEF OneBet
  <2>7. RefusedIn(r, entry1) => QuietIn(h, pos1, r, ord)
    BY <1>7, <2>4 DEF OneBet
  <2> QED BY <1>5, <1>6, <2>5, <2>6, <2>7 DEF OneBet
<1>10. CASE ~e.again /\ ord[e.order].kind = "entry"
  <2>1. 1 \in FreshAt(q, Orders(ord, "entry")) /\ 1 \notin FreshAt(q, Orders(ord, "close"))
    BY <1>1, <1>8, <1>10 DEF FreshAt, Orders
  <2>2. E # 0
    BY <1>2, <2>1, NothingFresh DEF Entries
  <2>3. ~QuietIn(h, pos, q, ord) /\ Waiting(ord) = {}
    BY <1>2, <2>2 DEF OneBet, QuietIn
  <2>4. open /\ ~RefusedIn(q, entry)
    BY <2>3 DEF OneBet
  <2>5. pos1 = pos + 1 /\ E1 = E - 1 /\ C1 = C
    BY <1>1, <1>4, <1>10, <2>1
  <2>6. ~(pos1 = 0 /\ pos > 0)
    BY <2>5
  <2>7. open1 = open
    BY <2>6
  <2>8. h = pos1 + E1 - C1
    BY <1>5, <2>5
  <2> QED BY <1>3, <1>5, <1>6, <1>7, <2>3, <2>4, <2>7, <2>8 DEF OneBet
<1>11. CASE ~e.again /\ ord[e.order].kind = "close"
  <2>1. 1 \in FreshAt(q, Orders(ord, "close")) /\ 1 \notin FreshAt(q, Orders(ord, "entry"))
    BY <1>1, <1>8, <1>11 DEF FreshAt, Orders
  <2>2. C # 0
    BY <1>2, <2>1, NothingFresh DEF Closes
  <2>3. FreshAt(q, Orders(ord, "entry")) = {}
    <3>1. \A b \in FreshAt(q, Orders(ord, "entry")) : b < 1 /\ b \in 1..Len(q)
      <4>1. DOMAIN q = 1..Len(q)
        OBVIOUS
      <4> QED BY <2>1, <4>1 DEF OneBet, FreshAt
    <3> QED BY <3>1
  <2>4. E = 0
    BY <1>2, <2>3, FS_EmptySet DEF Entries, FreshIn
  <2>5. ~QuietIn(h, pos, q, ord) /\ Waiting(ord) = {}
    BY <1>2, <2>2 DEF OneBet, QuietIn
  <2>6. open /\ ~RefusedIn(q, entry)
    BY <2>5 DEF OneBet
  <2>7. pos1 = pos - 1 /\ C1 = C - 1 /\ E1 = E
    BY <1>1, <1>4, <1>11, <2>1
  <2>8. h = pos1 + E1 - C1 /\ (pos1 = 0 => h = 0 /\ C1 = 0)
    <3>1. PICK p \in Int : p = pos1 /\ pos = p + 1 /\ C = C1 + 1
      BY <2>7
    <3>2. h = p - C1 /\ h = p + E1 - C1
      BY <1>5, <2>4, <2>7, <3>1
    <3>3. p = 0 => h = 0 /\ C1 = 0
      BY <3>2
    <3> QED BY <3>1, <3>2, <3>3, Zenon
  <2>9. pos1 = 0 => QuietIn(h, pos1, r, ord)
    BY <1>3, <2>4, <2>5, <2>7, <2>8 DEF QuietIn
  <2>10. ~open1 => pos1 = 0
    BY <2>6
  <2> QED BY <1>3, <1>5, <1>6, <1>7, <2>5, <2>6, <2>8, <2>9, <2>10 DEF OneBet
<1> QED BY <1>1, <1>9, <1>10, <1>11

LEMMA BetGivenBack ==
    ASSUME NEW q \in Seq(Event), q # <<>>, NEW h \in Nat, NEW pos \in Int, NEW entry, NEW open \in BOOLEAN, NEW ord,
           KnownIn(q, ord), OneBet(h, pos, q, ord, entry, open), 0 \notin DOMAIN ord,
           NEW r \in Later(q), NEW entry1, NEW open1 \in BOOLEAN,
           RejectionCounts(q, entry, entry1, open, open1)
    PROVE  OneBet(h, pos, r, ord, entry1, open1)
<1> USE DEF RejectionCounts
<1>1. PICK e \in Event : e = Head(q) /\ e = q[1] /\ 1 \in DOMAIN q
  BY TailHas
<1>2. 1 \notin FreshAt(q, Orders(ord, "entry")) /\ 1 \notin FreshAt(q, Orders(ord, "close"))
  BY <1>1 DEF FreshAt
<1>3. Entries(r, ord) = Entries(q, ord) /\ Closes(r, ord) = Closes(q, ord)
  BY <1>2, FreshLater DEF Entries, Closes
<1>4. \A a \in FreshAt(r, Orders(ord, "close")), b \in FreshAt(r, Orders(ord, "entry")) : b < a
  <2>1. \A a \in FreshAt(q, Orders(ord, "close")), b \in FreshAt(q, Orders(ord, "entry")) : b < a
    BY DEF OneBet
  <2> QED BY <2>1, LaterKeepsOrder
<1>5. QuietIn(h, pos, q, ord) => QuietIn(h, pos, r, ord)
  BY <1>3 DEF QuietIn
<1>6. ASSUME RefusedIn(r, entry1) PROVE RefusedIn(q, entry)
  <2>1. PICK n \in DOMAIN r : r[n].type = "rejected" /\ r[n].order = entry1
    BY <1>6 DEF RefusedIn
  <2>2. PICK m \in DOMAIN q : r[n].type = q[m].type /\ r[n].order = q[m].order
    BY <2>1, LaterHas
  <2>3. entry1 = entry
    BY <2>1, <2>2 DEF KnownIn
  <2> QED BY <2>1, <2>2, <2>3 DEF RefusedIn
<1>7. CASE entry = e.order
  <2>1. RefusedIn(q, entry)
    BY <1>1, <1>7 DEF RefusedIn
  <2> QED BY <1>3, <1>4, <1>5, <2>1 DEF OneBet
<1>8. CASE entry # e.order
  BY <1>1, <1>3, <1>4, <1>5, <1>6, <1>8 DEF OneBet
<1> QED BY <1>7, <1>8

(* The bet that is on, as long as this process was told everything. *)
BetsAreOne ==
    /\ trader.entry # 0 => trader.entry \in DOMAIN order /\ order[trader.entry].kind = "entry"
    /\ \A i \in DOMAIN order : order[i].kind = "entry" => order[i].size = EntrySize
    /\ session.at = "down" => position = 0 /\ ~limits.open /\ news = <<>> /\ trader.entry = 0
    /\ session.at # "down" /\ ~deaf => OneBet(held, position, news, order, trader.entry, limits.open)

LEMMA NewsIsKnown ==
    ASSUME SessionTypes, ScoresAreMarks
    PROVE  /\ KnownIn(news, order) /\ 0 \notin DOMAIN order /\ DOMAIN order \subseteq Nat \ {0}
           /\ \A i \in DOMAIN order : order[i].kind \in {"entry", "close"}
           /\ trader.entry \in Nat /\ limits.open \in BOOLEAN /\ news \in Seq(Event)
<1>1. KnownIn(news, order)
  BY DEF ScoresAreMarks, Happened, KnownIn
<1>2. 0 \notin DOMAIN order /\ DOMAIN order \subseteq Nat \ {0}
  <2>1. DOMAIN order = 1..Len(order) /\ Len(order) \in Nat
    BY DEF SessionTypes
  <2> QED BY <2>1
<1>3. \A i \in DOMAIN order : order[i].kind \in {"entry", "close"}
  BY OrderHas DEF OrderRow
<1>4. trader.entry \in Nat /\ limits.open \in BOOLEAN /\ news \in Seq(Event)
  BY DEF SessionTypes, Trader, Limits
<1> QED BY <1>1, <1>2, <1>3, <1>4

LEMMA NothingIsOn ==
    ASSUME NEW ord, Waiting(ord) = {}, EntrySize \in Nat
    PROVE  \A open \in BOOLEAN, entry \in Nat : OneBet(0, 0, <<>>, ord, entry, open)
<1>1. Entries(<<>>, ord) = 0 /\ Closes(<<>>, ord) = 0
  BY FreshOfNothing DEF Entries, Closes
<1>2. FreshAt(<<>>, Orders(ord, "close")) = {}
  BY DEF FreshAt
<1>3. QuietIn(0, 0, <<>>, ord)
  BY <1>1 DEF QuietIn
<1> QED BY <1>1, <1>2, <1>3 DEF OneBet

LEMMA BetsUponArrival ==
    ASSUME SessionTypes, SessionAssumption, ScoresAreMarks, BetsAreOne, EventArrives
    PROVE  BetsAreOne'
<1>1. /\ session.at = "running" /\ news # <<>> /\ news' \in Later(news)
      /\ UNCHANGED <<session, order, held, deaf>>
  BY ArrivalIs
<1>2. PICK e \in Event : /\ e = Head(news)
                         /\ \/ e.type = "fill" /\ FillIsTaken(e)
                            \/ e.type = "rejected" /\ RejectionIsTaken(e)
  BY ArrivalIs
<1>3. /\ KnownIn(news, order) /\ 0 \notin DOMAIN order /\ news \in Seq(Event)
      /\ trader.entry \in Nat /\ limits.open \in BOOLEAN
      /\ \A i \in DOMAIN order : order[i].kind \in {"entry", "close"}
  BY NewsIsKnown
<1>4. EntrySize \in Nat /\ held \in Nat /\ position \in Int
  BY DEF SessionTypes, SessionAssumption
<1>5. order[Head(news).order].kind \in {"entry", "close"}
  <2>1. 1 \in DOMAIN news /\ Head(news) = news[1]
    BY <1>1, <1>3, TailHas
  <2>2. Head(news).order \in DOMAIN order
    BY <1>3, <2>1 DEF KnownIn
  <2> QED BY <1>3, <2>2
<1>6. ASSUME trader'.entry \in {0, trader.entry},
             ~deaf => OneBet(held, position', news', order, trader'.entry, limits'.open)
      PROVE  BetsAreOne'
  BY <1>1, <1>6 DEF BetsAreOne
<1>7. ~deaf => OneBet(held, position, news, order, trader.entry, limits.open)
  BY <1>1 DEF BetsAreOne
<1>8. CASE e.type = "fill" /\ FillIsTaken(e)
  <2>1. trader'.entry = 0 \/ trader'.entry = trader.entry
    BY <1>8 DEF FillIsTaken
  <2>2. position' = IF Head(news).again THEN position
                    ELSE IF order[Head(news).order].kind = "entry" THEN position + 1 ELSE position - 1
    BY <1>2, <1>8 DEF FillIsTaken
  <2>3. limits'.open = IF position' = 0 /\ position > 0 THEN FALSE ELSE limits.open
    <3>1. CASE position' = 0 /\ position > 0
      <4>1. PICK loss \in Int : BooksClose(loss)
        BY <1>8, <3>1 DEF FillIsTaken
      <4>2. limits' \in Limits /\ ~limits'.open
        BY <4>1, BooksIs
      <4>3. limits'.open = FALSE
        BY <4>2 DEF Limits
      <4> QED BY <3>1, <4>3
    <3>2. CASE ~(position' = 0 /\ position > 0)
      <4>1. limits' = limits
        BY <1>8, <3>2 DEF FillIsTaken
      <4> QED BY <3>2, <4>1
    <3> QED BY <3>1, <3>2
  <2>4. Head(news).type = "fill"
    BY <1>2, <1>8
  <2>5. ASSUME ~deaf PROVE OneBet(held, position', news', order, trader'.entry, limits'.open)
    <3>1. OneBet(held, position, news, order, trader.entry, limits.open)
      BY <1>7, <2>5
    <3>2. FillCounts(news, order, position, position', limits.open, limits'.open, trader.entry, trader'.entry)
      BY <1>5, <2>1, <2>2, <2>3, <2>4, Zenon DEF FillCounts
    <3> QED BY <1>1, <1>3, <1>4, <3>1, <3>2, BetTaken
  <2> QED BY <1>6, <2>1, <2>5
<1>9. CASE e.type = "rejected" /\ RejectionIsTaken(e)
  <2>1. /\ UNCHANGED position
        /\ IF trader.entry = Head(news).order THEN trader'.entry = 0 /\ limits'.open = FALSE
           ELSE trader'.entry = trader.entry /\ limits'.open = limits.open
    <3>1. CASE trader.entry = e.order
      <4>1. trader'.entry = 0 /\ limits' = [RolledDay EXCEPT !.open = FALSE] /\ UNCHANGED position
        BY <1>9, <3>1 DEF RejectionIsTaken
      <4>2. RolledDay \in Limits
        BY RolledIs
      <4>3. limits'.open = FALSE
        BY <4>1, <4>2 DEF Limits
      <4> QED BY <1>2, <3>1, <4>1, <4>3
    <3>2. CASE trader.entry # e.order
      BY <1>2, <1>9, <3>2 DEF RejectionIsTaken
    <3> QED BY <3>1, <3>2
  <2>2. trader'.entry \in {0, trader.entry} /\ limits'.open \in BOOLEAN
    BY <1>3, <2>1
  <2>3. Head(news).type = "rejected"
    BY <1>2, <1>9
  <2>4. ASSUME ~deaf PROVE OneBet(held, position', news', order, trader'.entry, limits'.open)
    <3>1. OneBet(held, position, news, order, trader.entry, limits.open)
      BY <1>7, <2>4
    <3>2. RejectionCounts(news, trader.entry, trader'.entry, limits.open, limits'.open)
      BY <2>1, <2>3, Zenon DEF RejectionCounts
    <3>3. OneBet(held, position, news', order, trader'.entry, limits'.open)
      BY <1>1, <1>3, <1>4, <2>2, <3>1, <3>2, BetGivenBack
    <3> QED BY <2>1, <3>3
  <2> QED BY <1>6, <2>2, <2>4
<1> QED BY <1>2, <1>8, <1>9

LEMMA BetsUponBar ==
    ASSUME SessionTypes, SessionAssumption, ScoresAreMarks, BetsAreOne, OnBar
    PROVE  BetsAreOne'
<1>1. /\ session.at = "running" /\ UNCHANGED <<session, position, held, news, deaf>>
      /\ SendsNothing \/ SendsClose \/ SendsEntry
  BY BarIs
<1>2. /\ KnownIn(news, order) /\ news \in Seq(Event) /\ EntrySize \in Nat
      /\ trader.entry \in Nat /\ limits.open \in BOOLEAN
  BY NewsIsKnown DEF SessionAssumption
<1>3. ~deaf => OneBet(held, position, news, order, trader.entry, limits.open)
  BY <1>1 DEF BetsAreOne
<1>4. CASE SendsNothing
  <2>1. trader'.entry = trader.entry /\ order' = order /\ limits'.open = limits.open
    BY <1>4, RolledIs DEF SendsNothing
  <2> QED BY <1>1, <1>3, <2>1 DEF BetsAreOne
<1>5. CASE SendsClose
  <2>1. PICK row : /\ SendsOrder(row, recorder.intents) /\ row.kind = "close"
                   /\ trader'.entry = trader.entry /\ limits' = limits
    BY <1>5 DEF SendsClose
  <2>2. Longer(order', order, row)
    BY <2>1, OrderIsSent DEF SendsOrder, SessionTypes
  <2>3. ASSUME ~deaf PROVE OneBet(held, position, news, order', trader.entry, limits.open)
    BY <1>2, <1>3, <2>1, <2>2, <2>3, BetOfClose DEF SessionTypes
  <2>4. \A i \in DOMAIN order' : order'[i].kind = "entry" => order'[i].size = EntrySize
    BY <2>1, <2>2 DEF Longer, BetsAreOne
  <2>5. trader'.entry # 0 => trader'.entry \in DOMAIN order' /\ order'[trader'.entry].kind = "entry"
    BY <2>1, <2>2 DEF Longer, BetsAreOne
  <2> QED BY <1>1, <2>1, <2>3, <2>4, <2>5 DEF BetsAreOne
<1>6. CASE SendsEntry
  <2>1. PICK row : /\ SendsOrder(row, recorder.intents \union {Len(order) + 1})
                   /\ row.kind = "entry" /\ row.size = EntrySize
                   /\ trader'.entry = Len(order) + 1
                   /\ RiskApproves(RolledDay) /\ limits' = [RolledDay EXCEPT !.open = TRUE]
    BY <1>6 DEF SendsEntry
  <2>2. Longer(order', order, row) /\ row.working
    BY <2>1, OrderIsSent DEF SendsOrder, SessionTypes
  <2>3. limits'.open = TRUE /\ ~limits.open
    BY <2>1, RolledIs DEF RiskApproves, Limits
  <2>4. ASSUME ~deaf PROVE OneBet(held, position, news, order', Len(order) + 1, TRUE)
    <3>1. QuietIn(held, position, news, order)
      BY <1>3, <2>3, <2>4 DEF OneBet
    <3> QED BY <1>2, <2>1, <2>2, <3>1, BetOfEntry
  <2>5. \A i \in DOMAIN order' : order'[i].kind = "entry" => order'[i].size = EntrySize
    BY <2>1, <2>2 DEF Longer, BetsAreOne
  <2>6. trader'.entry \in DOMAIN order' /\ order'[trader'.entry].kind = "entry"
    BY <2>1, <2>2 DEF Longer
  <2> QED BY <1>1, <2>1, <2>3, <2>4, <2>5, <2>6 DEF BetsAreOne
<1> QED BY <1>1, <1>4, <1>5, <1>6

LEMMA BetsUponMatch ==
    ASSUME SessionTypes, SessionAssumption, ScoresAreMarks, BetsAreOne, NEW i \in DOMAIN order, VenueMatches(i)
    PROVE  BetsAreOne'
<1>1. /\ KnownIn(news, order) /\ news \in Seq(Event) /\ EntrySize \in Nat /\ held \in Nat /\ position \in Int
      /\ limits.open \in BOOLEAN /\ order[i].kind \in {"entry", "close"} /\ i \in Nat
  BY NewsIsKnown, OrderHas DEF SessionAssumption, SessionTypes
<1>2. /\ order[i].working /\ UNCHANGED <<session, trader, limits, position>>
      /\ order[i].kind = "close" => held > 0
  BY MatchIs DEF Unmoved, nodeVars
<1>3. PICK n \in Nat, s \in Seq(Event) :
          /\ n <= order[i].size
          /\ n <= held \/ order[i].kind = "entry"
          /\ held' = IF order[i].kind = "entry" THEN held + n ELSE held - n
          /\ Told(s) /\ FillsOf(s, i, n)
          /\ Finished(order', order, i, n)
  BY MatchIs
<1>4. /\ \A j \in DOMAIN order' : order'[j].kind = "entry" => order'[j].size = EntrySize
      /\ trader.entry # 0 => trader.entry \in DOMAIN order' /\ order'[trader.entry].kind = "entry"
  BY <1>3 DEF BetsAreOne, Finished
<1>5. CASE session.at # "running"
  <2>1. news' = news /\ deaf' = TRUE
    BY <1>3, <1>5 DEF Told
  <2> QED BY <1>2, <1>4, <2>1 DEF BetsAreOne
<1>6. CASE session.at = "running"
  <2>1. news' = news \o s /\ deaf' = deaf
    BY <1>3, <1>6 DEF Told
  <2>2. ASSUME ~deaf PROVE OneBet(held', position, news', order', trader.entry, limits.open)
    <3>1. OneBet(held, position, news, order, trader.entry, limits.open)
      BY <1>6, <2>2 DEF BetsAreOne
    <3>2. CASE order[i].kind = "entry"
      <4>1. held' = held + n /\ n <= EntrySize
        BY <1>3, <3>2 DEF BetsAreOne
      <4>2. Matched(news, news', s, order, order', i, n, held, held')
        BY <1>1, <1>2, <1>3, <2>1, <3>2, <4>1 DEF Matched
      <4> QED BY <1>1, <3>1, <3>2, <4>2, BetFilled
    <3>3. CASE order[i].kind = "close"
      <4>1. held' = held - n /\ n <= held /\ held > 0
        BY <1>2, <1>3, <3>3
      <4>2. Matched(news, news', s, order, order', i, n, held, held')
        BY <1>1, <1>2, <1>3, <2>1, <3>3, <4>1 DEF Matched
      <4> QED BY <1>1, <3>1, <3>3, <4>2, BetClosing
    <3> QED BY <1>1, <3>2, <3>3
  <2> QED BY <1>2, <1>4, <1>6, <2>1, <2>2 DEF BetsAreOne
<1> QED BY <1>5, <1>6

LEMMA BetsUponRefusal ==
    ASSUME SessionTypes, SessionAssumption, ScoresAreMarks, BetsAreOne, NEW i \in DOMAIN order, VenueRejects(i)
    PROVE  BetsAreOne'
<1>1. /\ KnownIn(news, order) /\ news \in Seq(Event) /\ trader.entry \in Nat /\ DOMAIN order \subseteq Nat \ {0}
      /\ order[i].kind \in {"entry", "close"} /\ i \in Nat
  BY NewsIsKnown, OrderHas
<1>2. /\ order[i].working /\ UNCHANGED <<session, trader, limits, position, held>>
      /\ Rejection(i) \in Event /\ Told(<<Rejection(i)>>)
  BY RefusalIs DEF Unmoved, nodeVars
<1>3. PICK n \in Nat : Finished(order', order, i, n)
  BY RefusalIs
<1>4. PICK e \in Event : e = Rejection(i) /\ e.type = "rejected" /\ e.order = i
  BY <1>2 DEF Rejection
<1>5. /\ \A j \in DOMAIN order' : order'[j].kind = "entry" => order'[j].size = EntrySize
      /\ trader.entry # 0 => trader.entry \in DOMAIN order' /\ order'[trader.entry].kind = "entry"
  BY <1>3 DEF BetsAreOne, Finished
<1>6. CASE session.at # "running"
  <2>1. news' = news /\ deaf' = TRUE
    BY <1>2, <1>6 DEF Told
  <2> QED BY <1>2, <1>5, <2>1 DEF BetsAreOne
<1>7. CASE session.at = "running"
  <2>1. news' = news \o <<e>> /\ deaf' = deaf
    BY <1>2, <1>4, <1>7 DEF Told
  <2>2. ASSUME ~deaf PROVE OneBet(held, position, news', order', trader.entry, limits.open)
    <3>1. OneBet(held, position, news, order, trader.entry, limits.open)
      BY <1>7, <2>2 DEF BetsAreOne
    <3>2. trader.entry # 0 => order[trader.entry].kind = "entry"
      BY DEF BetsAreOne
    <3> QED BY <1>1, <1>2, <1>3, <1>4, <2>1, <3>1, <3>2, BetRefused
  <2> QED BY <1>2, <1>5, <1>7, <2>1, <2>2 DEF BetsAreOne
<1> QED BY <1>6, <1>7

LEMMA BetsKept ==
    ASSUME SessionTypes, SessionAssumption, ScoresAreMarks, BetsAreOne, [PaperNext]_sessionVars
    PROVE  BetsAreOne'
<1>1. EntrySize \in Nat /\ news \in Seq(Event) /\ held \in Nat /\ limits.open \in BOOLEAN /\ trader.entry \in Nat
  BY NewsIsKnown DEF SessionAssumption, SessionTypes
<1>2. ASSUME MemoryIsGone, UNCHANGED order, session'.at = "down" PROVE BetsAreOne'
  <2>1. position' = 0 /\ limits'.open = FALSE /\ news' = <<>> /\ trader'.entry = 0
    BY <1>2 DEF MemoryIsGone, Flat
  <2> QED BY <1>2, <2>1 DEF BetsAreOne
<1>3. CASE Launches
  <2>1. /\ session.at = "down" /\ UNCHANGED <<trader, limits, position, order, held, news>>
        /\ deaf' = (held > 0 \/ \E i \in DOMAIN order : order[i].working)
    BY <1>3 DEF Launches, nodeVars
  <2>2. position = 0 /\ limits.open = FALSE /\ news = <<>> /\ trader.entry = 0
    BY <1>1, <2>1 DEF BetsAreOne
  <2>3. ASSUME ~deaf' PROVE OneBet(held, position, news, order, trader.entry, limits.open)
    <3>1. ~(held > 0) /\ Waiting(order) = {}
      BY <2>1, <2>3 DEF Waiting
    <3>2. held = 0
      BY <1>1, <3>1
    <3>3. OneBet(0, 0, <<>>, order, 0, FALSE)
      BY <1>1, <3>1, NothingIsOn
    <3> QED BY <2>2, <3>2, <3>3
  <2> QED BY <2>1, <2>2, <2>3 DEF BetsAreOne
<1>4. CASE NodeFails
  <2>1. PICK n : n = Bumped(session.restarts)
    OBVIOUS
  <2>2. /\ session.at = "running"
        /\ session' = [session EXCEPT !.restarts = n, !.at = IF n > MaxRestarts THEN "down" ELSE "backoff"]
        /\ IF n > MaxRestarts THEN MemoryIsGone ELSE news' = <<>> /\ UNCHANGED <<trader, limits, position>>
        /\ deaf' = (deaf \/ news # <<>>) /\ UNCHANGED <<order, held>>
    BY <1>4, <2>1 DEF NodeFails, nodeVars
  <2>3. CASE n > MaxRestarts
    <3>1. session'.at = "down"
      BY <2>2, <2>3 DEF SessionTypes
    <3> QED BY <1>2, <2>2, <2>3, <3>1
  <2>4. CASE ~(n > MaxRestarts)
    <3>1. session'.at = "backoff" /\ news' = <<>> /\ UNCHANGED <<trader, limits, position, order, held>>
      BY <2>2, <2>4 DEF SessionTypes
    <3>2. ~deaf' => OneBet(held, position, news', order, trader.entry, limits.open)
      BY <2>2, <3>1 DEF BetsAreOne
    <3> QED BY <3>1, <3>2 DEF BetsAreOne
  <2> QED BY <2>3, <2>4
<1>5. CASE BackoffEnds
  <2>1. /\ session.at = "backoff" /\ session' = [session EXCEPT !.at = "running"]
        /\ UNCHANGED <<trader, limits, position, order, held, news, deaf>>
    BY <1>5 DEF BackoffEnds, nodeVars, venueVars
  <2>2. session'.at = "running"
    BY <2>1 DEF SessionTypes
  <2> QED BY <2>1, <2>2 DEF BetsAreOne
<1>6. CASE NodeReturns \/ SessionDies
  <2>1. MemoryIsGone /\ UNCHANGED order /\ session' = [session EXCEPT !.at = "down"]
    BY <1>6 DEF NodeReturns, SessionDies
  <2>2. session'.at = "down"
    BY <2>1 DEF SessionTypes
  <2> QED BY <1>2, <2>1, <2>2
<1>7. CASE UNCHANGED <<session, trader, limits, position, order, held, news, deaf>>
  BY <1>7 DEF BetsAreOne
<1>8. Midnight \/ UNCHANGED sessionVars => UNCHANGED <<session, trader, limits, position, order, held, news, deaf>>
  BY DEF Midnight, sessionVars, nodeVars, venueVars
<1> QED
  BY <1>3, <1>4, <1>5, <1>6, <1>7, <1>8, BetsUponBar, BetsUponArrival, BetsUponMatch, BetsUponRefusal DEF PaperNext
-----------------------------------------------------------------------------
(* The session is accounted for. *)

(* Everything that is known of a session between two steps. *)
SessionInv ==
    SessionTypes /\ RestartsAreKnown /\ LedgerIsTrue /\ ScoresAreMarks /\ BetsAreOne /\ NoBetAfterTheLimit

LEMMA SessionKnownInitially ==
    ASSUME SessionAssumption, PaperInit
    PROVE  SessionInv
<1>1. SessionTypes
  BY SessionTypedInitially
<1>2. /\ order = <<>> /\ news = <<>> /\ held = 0 /\ position = 0 /\ ~limits.open /\ trader.entry = 0
      /\ recorder.intents = {} /\ recorder.seen = {} /\ recorder.refused = {} /\ session.at = "down"
  BY DEF PaperInit, Flat
<1>3. DOMAIN order = {} /\ DOMAIN news = {}
  BY <1>2
<1>4. RestartsAreKnown
  BY DEF PaperInit, RestartsAreKnown, SessionAssumption
<1>5. LedgerIsTrue
  BY DEF PaperInit, LedgerIsTrue
<1>6. ScoresAreMarks
  BY <1>2, <1>3, NoMarks DEF ScoresAreMarks, MarksAreFills
<1>7. BetsAreOne
  BY <1>2, <1>3 DEF BetsAreOne
<1>8. NoBetAfterTheLimit
  BY <1>3 DEF NoBetAfterTheLimit
<1> QED BY <1>1, <1>4, <1>5, <1>6, <1>7, <1>8 DEF SessionInv

LEMMA SessionStaysKnown ==
    ASSUME SessionAssumption, SessionInv, [PaperNext]_sessionVars
    PROVE  SessionInv'
<1>1. SessionTypes'
  BY SessionTyped DEF SessionInv
<1>2. RestartsAreKnown'
  BY RestartsKept DEF SessionInv
<1>3. LedgerIsTrue'
  BY LedgerKept DEF SessionInv
<1>4. ScoresAreMarks'
  BY ScoresKept DEF SessionInv
<1>5. BetsAreOne'
  BY BetsKept DEF SessionInv
<1>6. NoBetAfterTheLimit'
  BY NoBetKept DEF SessionInv
<1> QED BY <1>1, <1>2, <1>3, <1>4, <1>5, <1>6 DEF SessionInv

LEMMA BetsAreCounted ==
    ASSUME SessionTypes, SessionAssumption, ScoresAreMarks, BetsAreOne
    PROVE  BetsAreCommitted
<1> SUFFICES ASSUME session.at = "running", ~deaf
             PROVE  /\ held > 0 \/ position > 0 \/ Outstanding # {} => limits.open
                    /\ held + EntrySize * Cardinality(Outstanding) <= EntrySize
  BY DEF BetsAreCommitted
<1>1. OneBet(held, position, news, order, trader.entry, limits.open) /\ Outstanding = Waiting(order)
  BY DEF BetsAreOne, Outstanding, Waiting
<1>2. held > 0 \/ position > 0 \/ Outstanding # {} => limits.open
  <2>1. QuietIn(held, position, news, order) => ~(held > 0) /\ ~(position > 0) /\ Outstanding = {}
    BY <1>1 DEF QuietIn
  <2>2. ~limits.open => QuietIn(held, position, news, order)
    BY <1>1 DEF OneBet
  <2> QED BY <2>1, <2>2
<1>3. EntrySize \in Nat /\ held \in Nat
  BY DEF SessionAssumption, SessionTypes
<1>4. CASE Outstanding = {}
  <2>1. Cardinality(Outstanding) = 0
    BY <1>4, FS_EmptySet
  <2>2. held <= EntrySize
    BY <1>1 DEF OneBet
  <2>3. EntrySize * 0 = 0
    BY <1>3
  <2>4. held + EntrySize * Cardinality(Outstanding) = held
    BY <1>3, <2>1, <2>3
  <2> QED BY <1>2, <2>2, <2>4
<1>5. CASE Outstanding # {}
  <2>1. PICK i : Outstanding = {i}
    BY <1>1, <1>5 DEF OneBet
  <2>2. held = 0
    BY <1>1, <1>5 DEF OneBet
  <2>3. Cardinality(Outstanding) = 1
    BY <2>1, FS_Singleton
  <2>4. EntrySize * 1 = EntrySize
    BY <1>3
  <2>5. held + EntrySize * Cardinality(Outstanding) = EntrySize
    BY <1>3, <2>2, <2>3, <2>4
  <2> QED BY <1>2, <1>3, <2>5
<1> QED BY <1>4, <1>5

LEMMA KnownIsAccounted ==
    ASSUME SessionAssumption, SessionInv
    PROVE  SessionIsAccounted
<1>1. RestartsAreCounted
  BY DEF SessionInv, RestartsAreKnown, RestartsAreCounted
<1>2. BetsAreCommitted
  BY BetsAreCounted DEF SessionInv
<1>3. ScoresAreTrue
  BY MarksAreTrue DEF SessionInv
<1> QED BY <1>1, <1>2, <1>3 DEF SessionInv, SessionIsAccounted

(***************************************************************************)
(* A PAPER session is accounted for, over any number of processes, orders    *)
(* and events told twice: the checkpoint knows every failure of the node     *)
(* (PaperSessionSupervisor.run), a process that was told everything holds at *)
(* most one sized entry and has its risk committed (HoldForBarsStrategy,     *)
(* RiskEngine), no entry is sent after the day's limit of losses, and the    *)
(* recorder scores no fill that did not happen (SessionRecorder).            *)
(***************************************************************************)
THEOREM SessionAlwaysAccounted == PaperSpec => []SessionIsAccounted
<1> USE SessionAssumption
<1>1. PaperInit => SessionInv
  BY SessionKnownInitially
<1>2. SessionInv /\ [PaperNext]_sessionVars => SessionInv'
  BY SessionStaysKnown
<1>3. SessionInv => SessionIsAccounted
  BY KnownIsAccounted
<1> QED BY <1>1, <1>2, <1>3, PTL DEF PaperSpec
==================================================================================
