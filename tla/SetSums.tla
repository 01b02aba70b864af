--------------------------------- MODULE SetSums ---------------------------------
(***************************************************************************)
(* Facts about the sums over finite sets that the models are built from     *)
(* (MapThenSumSet of FiniteSetsExt).  It is a fold, and its definition is   *)
(* recursive: what follows shows once, without an induction scheme, that    *)
(* the order of the elements does not matter and how a sum changes with its *)
(* set and with its terms.  Every argument by induction is by a smallest    *)
(* counterexample (MinimalSubset).                                          *)
(***************************************************************************)
EXTENDS Integers, FiniteSetsExt, FiniteSetTheorems, TLAPS

(* The sum of a function over a finite set, and over its finite domain.      *)
SumOver(f, S) == MapThenSumSet(LAMBDA x : f[x], S)
SumOf(f) == SumOver(f, DOMAIN f)

(* g holds the partial sums of f over the subsets of S.                      *)
IsSum(g, f, S) ==
    g = [s \in SUBSET S |-> IF s = {} THEN 0
                            ELSE f[CHOOSE x \in s : TRUE] + g[s \ {CHOOSE x \in s : TRUE}]]

(* Of the subsets of a finite set that have a property, one is smallest.     *)
LEMMA MinimalSubset ==
    ASSUME NEW S, IsFiniteSet(S), NEW Bad, Bad \subseteq SUBSET S, Bad # {}
    PROVE  \E T \in Bad : \A U \in Bad : U \subseteq T => U = T
<1>1. IsWellFoundedOn(StrictSubsetOrdering(S), SUBSET S)
  BY FS_StrictSubsetOrderingWellFounded, FS_FiniteSubsetsOfFinite
<1>2. PICK T \in Bad : \A U \in Bad : ~(<<U, T>> \in StrictSubsetOrdering(S))
  BY <1>1, WFMin
<1>3. ASSUME NEW U \in Bad, U \subseteq T PROVE U = T
  BY <1>2, <1>3 DEF StrictSubsetOrdering
<1> QED BY <1>3

(* Partial sums are the same however large the set they are part of.         *)
LEMMA SumIsUnique ==
    ASSUME NEW A, NEW B, IsFiniteSet(B), A \subseteq B, NEW f, NEW g, NEW h,
           IsSum(g, f, A), IsSum(h, f, B)
    PROVE  \A s \in SUBSET A : g[s] = h[s]
<1> DEFINE Bad == {s \in SUBSET A : g[s] # h[s]}
<1>1. SUFFICES ASSUME Bad # {} PROVE FALSE
  OBVIOUS
<1>a. IsFiniteSet(A) /\ Bad \subseteq SUBSET A
  BY FS_Subset
<1>b. \A s \in SUBSET A : s \in Bad <=> g[s] # h[s]
  OBVIOUS
<1> HIDE DEF Bad
<1>2. PICK s \in Bad : \A u \in Bad : u \subseteq s => u = s
  BY <1>1, <1>a, MinimalSubset
<1>3. s # {} /\ s \in SUBSET A /\ s \in SUBSET B
  BY <1>2, <1>a, <1>b DEF IsSum
<1> DEFINE x == CHOOSE x \in s : TRUE
<1>4. x \in s
  BY <1>3
<1>5. g[s \ {x}] = h[s \ {x}]
  BY <1>2, <1>3, <1>4, <1>b
<1>6. g[s] = f[x] + g[s \ {x}] /\ h[s] = f[x] + h[s \ {x}]
  BY <1>3 DEF IsSum
<1> QED BY <1>2, <1>a, <1>b, <1>5, <1>6

(* There are partial sums over every finite set.                             *)
LEMMA SumExists ==
    ASSUME NEW S, IsFiniteSet(S), NEW f
    PROVE  \E g : IsSum(g, f, S)
<1> DEFINE Bad == {s \in SUBSET S : ~\E g : IsSum(g, f, s)}
<1>1. SUFFICES ASSUME Bad # {} PROVE FALSE
  OBVIOUS
<1>a. Bad \subseteq SUBSET S /\ \A s \in SUBSET S : s \in Bad <=> ~\E g : IsSum(g, f, s)
  OBVIOUS
<1> HIDE DEF Bad
<1>2. PICK T \in Bad : \A u \in Bad : u \subseteq T => u = T
  BY <1>1, <1>a, MinimalSubset
<1>3. T # {}
  <2>1. IsSum([s \in SUBSET {} |-> 0], f, {})
    BY DEF IsSum
  <2> QED BY <1>a, <1>2, <2>1
<1> DEFINE G(u) == CHOOSE g : IsSum(g, f, u)
<1>4. ASSUME NEW u \in SUBSET T, u # T PROVE IsSum(G(u), f, u)
  <2>1. \E g : IsSum(g, f, u)
    BY <1>a, <1>2, <1>4
  <2> QED BY <2>1
<1>5. ASSUME NEW u \in SUBSET T, u # T, NEW v \in SUBSET u PROVE G(u)[v] = G(v)[v]
  <2>1. IsSum(G(u), f, u) /\ IsSum(G(v), f, v)
    BY <1>4, <1>5
  <2>2. IsFiniteSet(u)
    BY <1>a, <1>2, <1>5, FS_Subset
  <2> HIDE DEF G
  <2>3. \A s \in SUBSET v : G(v)[s] = G(u)[s]
    BY <2>1, <2>2, SumIsUnique
  <2> QED BY <2>3
<1> HIDE DEF G
<1> DEFINE g == [s \in SUBSET T |->
                    IF s # T THEN G(s)[s]
                    ELSE f[CHOOSE x \in s : TRUE] + G(s \ {CHOOSE x \in s : TRUE})[s \ {CHOOSE x \in s : TRUE}]]
<1>6. ASSUME NEW s \in SUBSET T
      PROVE  g[s] = IF s = {} THEN 0
                    ELSE f[CHOOSE x \in s : TRUE] + g[s \ {CHOOSE x \in s : TRUE}]
  <2> DEFINE x == CHOOSE x \in s : TRUE
  <2>1. CASE s = {}
    <3>1. g[s] = G({})[{}]
      BY <1>3, <2>1
    <3>2. G({})[{}] = 0
      BY <1>3, <1>4 DEF IsSum
    <3> QED BY <2>1, <3>1, <3>2
  <2>2. CASE s # {}
    <3>1. x \in s /\ s \ {x} \in SUBSET T /\ s \ {x} # T
      BY <2>2
    <3>2. g[s \ {x}] = G(s \ {x})[s \ {x}]
      BY <3>1
    <3>3. CASE s = T
      BY <2>2, <3>2, <3>3
    <3>4. CASE s # T
      <4>1. g[s] = G(s)[s]
        BY <3>4
      <4>2. G(s)[s] = f[x] + G(s)[s \ {x}]
        BY <1>4, <2>2, <3>4 DEF IsSum
      <4>3. G(s)[s \ {x}] = G(s \ {x})[s \ {x}]
        BY <1>5, <3>4
      <4> QED BY <2>2, <3>2, <4>1, <4>2, <4>3
    <3> QED BY <3>3, <3>4
  <2> QED BY <2>1, <2>2
<1>7. g = [s \in SUBSET T |-> IF s = {} THEN 0
                            ELSE f[CHOOSE x \in s : TRUE] + g[s \ {CHOOSE x \in s : TRUE}]]
  <2> DEFINE h == [s \in SUBSET T |-> IF s = {} THEN 0
                            ELSE f[CHOOSE x \in s : TRUE] + g[s \ {CHOOSE x \in s : TRUE}]]
  <2>1. DOMAIN g = SUBSET T /\ DOMAIN h = SUBSET T
    OBVIOUS
  <2>3. g = [s \in SUBSET T |-> g[s]] /\ h = [s \in SUBSET T |-> h[s]]
    OBVIOUS
  <2> HIDE DEF g
  <2>2. ASSUME NEW s \in SUBSET T PROVE g[s] = h[s]
    <3>1. h[s] = IF s = {} THEN 0
                 ELSE f[CHOOSE x \in s : TRUE] + g[s \ {CHOOSE x \in s : TRUE}]
      OBVIOUS
    <3> HIDE DEF h
    <3> QED BY <1>6, <3>1
  <2> HIDE DEF h
  <2>4. g = h
    BY <2>2, <2>3
  <2> QED BY <2>4 DEF h
<1>8. IsSum(g, f, T)
  BY <1>7 DEF IsSum
<1> QED BY <1>a, <1>2, <1>8

(* MapThenSumSet is the partial sum over the whole set, and over each subset. *)
LEMMA SumIsPartial ==
    ASSUME NEW S, IsFiniteSet(S), NEW f
    PROVE  \E g : IsSum(g, f, S) /\ \A T \in SUBSET S : SumOver(f, T) = g[T]
<1> DEFINE G(T) == CHOOSE g : IsSum(g, f, T)
<1>1. ASSUME NEW T, IsFiniteSet(T)
      PROVE  IsSum(G(T), f, T) /\ SumOver(f, T) = G(T)[T]
  <2>1. IsSum(G(T), f, T)
    BY <1>1, SumExists
  <2>2. SumOver(f, T) = G(T)[T]
    BY DEF SumOver, MapThenSumSet, MapThenFoldSet, IsSum
  <2> QED BY <2>1, <2>2
<1> HIDE DEF G
<1>2. ASSUME NEW T \in SUBSET S PROVE SumOver(f, T) = G(S)[T]
  <2>1. IsFiniteSet(T)
    BY FS_Subset
  <2>2. \A s \in SUBSET T : G(T)[s] = G(S)[s]
    BY <1>1, <2>1, SumIsUnique
  <2> QED BY <1>1, <2>1, <2>2
<1> QED BY <1>1, <1>2

(* Nothing sums to 0.                                                        *)
LEMMA SumEmpty == \A f : SumOver(f, {}) = 0
<1> SUFFICES ASSUME NEW f PROVE SumOver(f, {}) = 0
  OBVIOUS
<1>1. PICK g : IsSum(g, f, {}) /\ \A T \in SUBSET {} : SumOver(f, T) = g[T]
  BY SumIsPartial, FS_EmptySet
<1>2. g[{}] = 0
  BY <1>1 DEF IsSum
<1> QED BY <1>1, <1>2

(* A sum of integers is an integer, and any of its terms may be taken first. *)
LEMMA SumStep ==
    ASSUME NEW S, IsFiniteSet(S), NEW f, \A x \in S : f[x] \in Int
    PROVE  /\ SumOver(f, S) \in Int
           /\ \A x \in S : SumOver(f, S) = f[x] + SumOver(f, S \ {x})
<1>1. PICK g : IsSum(g, f, S) /\ \A T \in SUBSET S : SumOver(f, T) = g[T]
  BY SumIsPartial
<1> DEFINE Good(s) == g[s] \in Int /\ \A x \in s : g[s] = f[x] + g[s \ {x}]
           Bad == {s \in SUBSET S : ~Good(s)}
<1>2. SUFFICES ASSUME Bad # {} PROVE FALSE
  <2>1. SUFFICES ASSUME Good(S)
        PROVE  SumOver(f, S) \in Int /\ \A x \in S : SumOver(f, S) = f[x] + SumOver(f, S \ {x})
    BY <1>2
  <2>2. \A x \in S : SumOver(f, S \ {x}) = g[S \ {x}]
    BY <1>1
  <2> QED BY <1>1, <2>1, <2>2
<1>3. Bad \subseteq SUBSET S /\ \A s \in SUBSET S : s \in Bad <=> ~Good(s)
  OBVIOUS
<1> HIDE DEF Bad
<1>4. PICK s \in Bad : \A u \in Bad : u \subseteq s => u = s
  BY <1>2, <1>3, MinimalSubset
<1>5. ASSUME NEW u, u \subseteq s, u # s PROVE Good(u)
  BY <1>3, <1>4, <1>5
<1> HIDE DEF Good
<1>6. s \in SUBSET S /\ ~Good(s)
  BY <1>3, <1>4
<1>7. CASE s = {}
  <2>1. g[s] = 0
    BY <1>1, <1>7 DEF IsSum
  <2> QED BY <1>6, <1>7, <2>1 DEF Good
<1>8. CASE s # {}
  <2> DEFINE c == CHOOSE x \in s : TRUE
  <2>1. c \in s
    BY <1>8
  <2>2. g[s] = f[c] + g[s \ {c}]
    BY <1>1, <1>6, <1>8 DEF IsSum
  <2> HIDE DEF c
  <2>3. g[s \ {c}] \in Int /\ f[c] \in Int
    BY <1>5, <1>6, <2>1 DEF Good
  <2>4. ASSUME NEW x \in s, x # c PROVE g[s] = f[x] + g[s \ {x}]
    <3>1. s \ {c} # s /\ s \ {x} # s /\ x \in s \ {c} /\ c \in s \ {x}
      BY <2>1, <2>4
    <3>2. g[s \ {c}] = f[x] + g[(s \ {c}) \ {x}]
      BY <1>5, <3>1 DEF Good
    <3>3. g[s \ {x}] = f[c] + g[(s \ {x}) \ {c}]
      BY <1>5, <3>1 DEF Good
    <3>4. (s \ {c}) \ {x} = (s \ {x}) \ {c} /\ (s \ {c}) \ {x} \subseteq s /\ (s \ {c}) \ {x} # s
      BY <3>1
    <3> DEFINE rest == g[(s \ {c}) \ {x}]
    <3>5. rest \in Int /\ f[x] \in Int /\ f[c] \in Int
      BY <1>5, <1>6, <2>3, <3>4, <2>4 DEF Good
    <3>6. g[s \ {c}] = f[x] + rest /\ g[s \ {x}] = f[c] + rest
      BY <3>2, <3>3, <3>4
    <3> HIDE DEF rest
    <3> QED BY <2>2, <3>5, <3>6
  <2>5. g[s] \in Int
    BY <2>2, <2>3
  <2>6. \A x \in s : g[s] = f[x] + g[s \ {x}]
    BY <2>2, <2>4
  <2> QED BY <1>6, <2>5, <2>6 DEF Good
<1> QED BY <1>7, <1>8

(* A further element adds its term.                                          *)
LEMMA SumAdd ==
    ASSUME NEW S, IsFiniteSet(S), NEW f, NEW x, x \notin S, f[x] \in Int,
           \A y \in S : f[y] \in Int
    PROVE  SumOver(f, S \cup {x}) = f[x] + SumOver(f, S)
<1>1. IsFiniteSet(S \cup {x}) /\ (S \cup {x}) \ {x} = S
  BY FS_AddElement
<1>2. \A y \in S \cup {x} : f[y] \in Int
  OBVIOUS
<1>3. \A y \in S \cup {x} : SumOver(f, S \cup {x}) = f[y] + SumOver(f, (S \cup {x}) \ {y})
  BY <1>1, <1>2, SumStep
<1> QED BY <1>1, <1>3

(* The sum of a single term is that term.                                    *)
LEMMA SumOne ==
    ASSUME NEW x, NEW f, f[x] \in Int
    PROVE  SumOver(f, {x}) = f[x]
<1>1. SumOver(f, {} \cup {x}) = f[x] + SumOver(f, {})
  BY SumAdd, FS_EmptySet
<1> QED BY <1>1, SumEmpty

(* Sums with the same terms are the same, and sums term by term not larger   *)
(* are not larger: equal then only if every term is.                         *)
LEMMA SumMonotone ==
    ASSUME NEW S, IsFiniteSet(S), NEW f, NEW h,
           \A x \in S : f[x] \in Int /\ h[x] \in Int /\ f[x] <= h[x]
    PROVE  /\ SumOver(f, S) <= SumOver(h, S)
           /\ SumOver(f, S) = SumOver(h, S) => \A x \in S : f[x] = h[x]
<1> DEFINE Good(s) == /\ SumOver(f, s) <= SumOver(h, s)
                      /\ SumOver(f, s) = SumOver(h, s) => \A x \in s : f[x] = h[x]
           Bad == {s \in SUBSET S : ~Good(s)}
<1>1. SUFFICES ASSUME Bad # {} PROVE FALSE
  OBVIOUS
<1>2. Bad \subseteq SUBSET S /\ \A s \in SUBSET S : s \in Bad <=> ~Good(s)
  OBVIOUS
<1> HIDE DEF Bad
<1>3. PICK s \in Bad : \A u \in Bad : u \subseteq s => u = s
  BY <1>1, <1>2, MinimalSubset
<1>4. ASSUME NEW u, u \subseteq s, u # s PROVE Good(u)
  BY <1>2, <1>3, <1>4
<1> HIDE DEF Good
<1>5. s \in SUBSET S /\ ~Good(s) /\ IsFiniteSet(s)
  BY <1>2, <1>3, FS_Subset
<1>6. CASE s = {}
  BY <1>5, <1>6, SumEmpty DEF Good
<1>7. CASE s # {}
  <2>1. PICK x \in s : TRUE
    BY <1>7
  <2> DEFINE r == s \ {x}
  <2>2. Good(r) /\ IsFiniteSet(r)
    BY <1>4, <1>5, FS_Subset
  <2>3. /\ \A y \in s : f[y] \in Int
        /\ \A y \in s : h[y] \in Int
    BY <1>5
  <2>4. SumOver(f, s) = f[x] + SumOver(f, r)
    BY <1>5, <2>3, SumStep
  <2>5. SumOver(h, s) = h[x] + SumOver(h, r)
    BY <1>5, <2>3, SumStep
  <2>6. SumOver(f, r) \in Int /\ SumOver(h, r) \in Int
    BY <2>2, <2>3, SumStep
  <2>7. f[x] \in Int /\ h[x] \in Int /\ f[x] <= h[x]
    BY <1>5
  <2>8. \A y \in s : y = x \/ y \in r
    OBVIOUS
  <2> HIDE DEF r
  <2>9. SumOver(f, s) <= SumOver(h, s)
    BY <2>2, <2>4, <2>5, <2>6, <2>7 DEF Good
  <2>10. SumOver(f, s) = SumOver(h, s) => f[x] = h[x] /\ SumOver(f, r) = SumOver(h, r)
    BY <2>2, <2>4, <2>5, <2>6, <2>7 DEF Good
  <2> QED BY <1>5, <2>2, <2>8, <2>9, <2>10 DEF Good
<1> QED BY <1>6, <1>7

LEMMA SumSame ==
    ASSUME NEW S, IsFiniteSet(S), NEW f, NEW h,
           \A x \in S : f[x] \in Int /\ f[x] = h[x]
    PROVE  SumOver(f, S) = SumOver(h, S)
<1>1. SumOver(f, S) <= SumOver(h, S)
  BY SumMonotone
<1>2. SumOver(h, S) <= SumOver(f, S)
  BY SumMonotone
<1>3. SumOver(f, S) \in Int /\ SumOver(h, S) \in Int
  BY SumStep
<1> QED BY <1>1, <1>2, <1>3

(* A sum changes by what one of its terms changes.                            *)
LEMMA SumChange ==
    ASSUME NEW S, IsFiniteSet(S), NEW f, NEW h, NEW k \in S,
           \A x \in S : f[x] \in Int /\ h[x] \in Int,
           \A x \in S \ {k} : h[x] = f[x]
    PROVE  SumOver(h, S) = SumOver(f, S) - f[k] + h[k]
<1> DEFINE r == S \ {k}
<1>1. IsFiniteSet(r) /\ (\A x \in r : f[x] \in Int /\ f[x] = h[x]) /\ (\A x \in S : f[x] \in Int)
      /\ (\A x \in S : h[x] \in Int)
  BY FS_Subset
<1>2. SumOver(f, S) = f[k] + SumOver(f, r) /\ SumOver(h, S) = h[k] + SumOver(h, r)
  BY <1>1, SumStep
<1> HIDE DEF r
<1>3. SumOver(f, r) = SumOver(h, r)
  BY <1>1, SumSame
<1>4. SumOver(f, r) \in Int /\ f[k] \in Int /\ h[k] \in Int
  BY <1>1, SumStep
<1> QED BY <1>2, <1>3, <1>4

(* Terms that are 0 may be left out of a sum.                                 *)
LEMMA SumWithoutZeros ==
    ASSUME NEW S, IsFiniteSet(S), NEW T, T \subseteq S, NEW f, \A x \in S : f[x] \in Int,
           \A x \in S \ T : f[x] = 0
    PROVE  SumOver(f, S) = SumOver(f, T)
<1> DEFINE Bad == {s \in SUBSET S : T \subseteq s /\ SumOver(f, s) # SumOver(f, T)}
<1>1. SUFFICES ASSUME Bad # {} PROVE FALSE
  OBVIOUS
<1>2. Bad \subseteq SUBSET S
      /\ \A s \in SUBSET S : s \in Bad <=> T \subseteq s /\ SumOver(f, s) # SumOver(f, T)
  OBVIOUS
<1> HIDE DEF Bad
<1>3. PICK s \in Bad : \A u \in Bad : u \subseteq s => u = s
  BY <1>1, <1>2, MinimalSubset
<1>4. s \in SUBSET S /\ T \subseteq s /\ SumOver(f, s) # SumOver(f, T) /\ IsFiniteSet(s)
  BY <1>2, <1>3, FS_Subset
<1>5. PICK x \in s : x \notin T
  BY <1>4
<1> DEFINE r == s \ {x}
<1>6. r \in SUBSET S /\ T \subseteq r /\ r \subseteq s /\ r # s /\ IsFiniteSet(r)
  BY <1>4, <1>5, FS_Subset
<1>7. SumOver(f, r) = SumOver(f, T)
  BY <1>2, <1>3, <1>6
<1>8. \A y \in s : f[y] \in Int
  BY <1>4
<1>9. SumOver(f, s) = f[x] + SumOver(f, r)
  BY <1>4, <1>8, SumStep
<1>10. SumOver(f, r) \in Int /\ f[x] = 0
  <2>1. \A y \in r : f[y] \in Int
    BY <1>8
  <2> QED BY <1>4, <1>5, <1>6, <2>1, SumStep
<1> QED BY <1>4, <1>7, <1>9, <1>10

(* Pairs are as many as the pairs with each first half together.             *)
LEMMA PairsBySum ==
    ASSUME NEW B, IsFiniteSet(B), NEW E, IsFiniteSet(E), NEW f,
           \A o \in B : f[o] = Cardinality({e \in E : e[1] = o})
    PROVE  SumOver(f, B) = Cardinality({e \in E : e[1] \in B})
<1> DEFINE With(s) == {e \in E : e[1] \in s}
           Bad == {s \in SUBSET B : SumOver(f, s) # Cardinality(With(s))}
<1>0. ASSUME NEW s PROVE IsFiniteSet(With(s)) /\ Cardinality(With(s)) \in Nat
  BY FS_Subset, FS_CardinalityType
<1>1. SUFFICES ASSUME Bad # {} PROVE FALSE
  OBVIOUS
<1>2. Bad \subseteq SUBSET B
      /\ \A s \in SUBSET B : s \in Bad <=> SumOver(f, s) # Cardinality(With(s))
  OBVIOUS
<1> HIDE DEF Bad
<1>3. PICK s \in Bad : \A u \in Bad : u \subseteq s => u = s
  BY <1>1, <1>2, MinimalSubset
<1>4. s \in SUBSET B /\ SumOver(f, s) # Cardinality(With(s)) /\ IsFiniteSet(s)
  BY <1>2, <1>3, FS_Subset
<1>5. CASE s = {}
  <2>1. With(s) = {}
    BY <1>5
  <2> QED BY <1>4, <1>5, <2>1, SumEmpty, FS_EmptySet
<1>6. CASE s # {}
  <2>1. PICK o \in s : TRUE
    BY <1>6
  <2> DEFINE r == s \ {o}
             One == {e \in E : e[1] = o}
  <2>2. r \in SUBSET B /\ r \subseteq s /\ r # s
    BY <1>4
  <2>3. SumOver(f, r) = Cardinality(With(r))
    BY <1>2, <1>3, <2>2
  <2>4. \A y \in s : f[y] \in Int
    <3>1. ASSUME NEW y \in s PROVE f[y] \in Int
      <4>1. f[y] = Cardinality({e \in E : e[1] = y})
        BY <1>4
      <4>2. IsFiniteSet({e \in E : e[1] = y})
        BY FS_Subset
      <4> QED BY <4>1, <4>2, FS_CardinalityType
    <3> QED BY <3>1
  <2>5. SumOver(f, s) = f[o] + SumOver(f, r)
    BY <1>4, <2>4, SumStep
  <2>6. With(s) = One \cup With(r) /\ One \cap With(r) = {} /\ IsFiniteSet(One)
    BY FS_Subset
  <2>7. Cardinality(With(s)) = Cardinality(One) + Cardinality(With(r))
    <3> HIDE DEF One, With, r
    <3>0. Cardinality(One \cap With(r)) = 0
      BY <2>6, FS_EmptySet
    <3>1. Cardinality(One \cup With(r)) = Cardinality(One) + Cardinality(With(r)) - Cardinality(One \cap With(r))
      BY <1>0, <2>6, FS_Union
    <3>2. Cardinality(One) \in Nat /\ Cardinality(With(r)) \in Nat
      BY <1>0, <2>6, FS_CardinalityType
    <3>3. Cardinality(One \cup With(r)) = Cardinality(One) + Cardinality(With(r))
      BY <3>0, <3>1, <3>2
    <3> QED BY <2>6, <3>3
  <2>8. f[o] = Cardinality(One)
    BY <1>4
  <2> QED BY <1>4, <2>3, <2>5, <2>7, <2>8
<1> QED BY <1>5, <1>6

-----------------------------------------------------------------------------
(* A finite set has an element of the greatest weight.                       *)
LEMMA HighestExists ==
    ASSUME NEW S, IsFiniteSet(S), S # {}, NEW f \in [S -> Nat]
    PROVE  \E k \in S : \A j \in S : f[j] <= f[k]
<1> DEFINE Top(T) == \E k \in T : \A j \in T : f[j] <= f[k]
           Bad == {T \in SUBSET S : T # {} /\ ~Top(T)}
<1> SUFFICES ASSUME ~Top(S)
             PROVE  FALSE
  OBVIOUS
<1>1. S \in Bad /\ Bad \subseteq SUBSET S
  OBVIOUS
<1>2. PICK T \in Bad : \A U \in Bad : U \subseteq T => U = T
  <2>1. Bad # {}
    BY <1>1
  <2> HIDE DEF Bad
  <2> QED
    BY <1>1, <2>1, MinimalSubset
<1>3. PICK x : x \in T
  BY <1>2
<1>4. x \in S /\ T \subseteq S /\ ~Top(T)
  BY <1>2, <1>3
<1>5. CASE T \ {x} = {}
  <2>1. T = {x}
    BY <1>3, <1>5
  <2>2. f[x] <= f[x]
    BY <1>4
  <2>3. Top(T)
    BY <2>1, <2>2
  <2> QED
    BY <1>4, <2>3
<1>6. CASE T \ {x} # {}
  <2>1. Top(T \ {x})
    <3>1. T \ {x} \notin Bad
      BY <1>2, <1>3
    <3> QED
      BY <1>4, <1>6, <3>1
  <2>2. PICK k \in T \ {x} : \A j \in T \ {x} : f[j] <= f[k]
    BY <2>1
  <2>3. \A j \in T : f[j] \in Nat
    BY <1>4
  <2>4. CASE f[x] <= f[k]
    <3>1. \A j \in T : f[j] <= f[k]
      BY <2>2, <2>4
    <3> QED
      BY <1>4, <2>2, <3>1
  <2>5. CASE ~(f[x] <= f[k])
    <3>1. \A j \in T : f[j] <= f[x]
      BY <1>3, <2>2, <2>3, <2>5
    <3> QED
      BY <1>3, <1>4, <3>1
  <2> QED
    BY <2>4, <2>5
<1> QED
  BY <1>5, <1>6

(* A finite set of integers has a least element, which Min chooses.          *)
LEMMA MinOfFinite ==
    ASSUME NEW S, IsFiniteSet(S), S # {}, \A x \in S : x \in Int
    PROVE  Min(S) \in S /\ \A y \in S : Min(S) <= y
<1> DEFINE Least(T) == \E x \in T : \A y \in T : x <= y
           Bad == {T \in SUBSET S : T # {} /\ ~Least(T)}
<1>1. SUFFICES ASSUME Bad # {} PROVE FALSE
  <2>1. SUFFICES ASSUME Least(S) PROVE Min(S) \in S /\ \A y \in S : Min(S) <= y
    BY <1>1
  <2> QED BY <2>1 DEF Min
<1>2. \A T \in SUBSET S : T \in Bad <=> T # {} /\ ~Least(T)
  OBVIOUS
<1>a. Bad \subseteq SUBSET S
  OBVIOUS
<1> HIDE DEF Bad, Least
<1>3. PICK T \in Bad : \A u \in Bad : u \subseteq T => u = T
  BY <1>1, <1>a, MinimalSubset
<1>4. T \in SUBSET S /\ T # {} /\ ~Least(T)
  BY <1>2, <1>a, <1>3
<1>5. PICK x \in T : TRUE
  BY <1>4
<1>6. CASE T = {x}
  <2>1. x <= x
    BY <1>4
  <2> QED BY <1>4, <1>6, <2>1 DEF Least
<1>7. CASE T # {x}
  <2>1. T \ {x} # {} /\ T \ {x} \in SUBSET S /\ T \ {x} # T
    BY <1>4, <1>5, <1>7
  <2>2. Least(T \ {x})
    BY <1>2, <1>3, <2>1
  <2>3. PICK m \in T \ {x} : \A y \in T \ {x} : m <= y
    BY <2>2 DEF Least
  <2>4. m \in Int /\ x \in Int
    BY <1>4, <1>5
  <2>5. \A y \in T : y = x \/ m <= y
    BY <2>3
  <2>6. CASE m <= x
    BY <1>4, <2>3, <2>5, <2>6 DEF Least
  <2>7. CASE x < m
    <3>1. \A y \in T : x <= y
      BY <1>4, <2>4, <2>5, <2>7
    <3> QED BY <1>4, <1>5, <3>1 DEF Least
  <2> QED BY <2>4, <2>6, <2>7
<1> QED BY <1>6, <1>7
=============================================================================
