---------------------------- MODULE DecisionEngines ----------------------------
(***************************************************************************)
(* From evidence to a work item of SHADOW.  The directional and the neutral  *)
(* engine turn the evidence of independent families into setups, the Meta    *)
(* engine chooses among the setups it is handed and sizes the chosen one     *)
(* into the room of the portfolio, and the producer makes proposals of its   *)
(* legs.  Every evaluation is a pure function of what it is handed; what can *)
(* go wrong lies between them: a setup is older when it is chosen than when  *)
(* it was made, two setups contradict each other, the portfolio has less     *)
(* room than the market.                                                     *)
(*                                                                           *)
(* An evidence is reduced to its vote (its effective score against the       *)
(* threshold), whether its quality is sufficient, and its latest source      *)
(* time; values and costs are ranges in basis points.                        *)
(***************************************************************************)
EXTENDS Integers, Sequences, FiniteSets, FiniteSetsExt

CONSTANTS Coin,                \* symbols that are traded
          MaxDataAge,          \* maximum_data_age_seconds of both engines (30 s)
          MaxSetupAge,         \* maximum_setup_age_seconds of the Meta engine (30 s)
          MinFamilies,         \* minimum_confirming_families (3)
          MaxGross, MaxSymbol, MaxCorrelated,     \* exposure limits, in units of notional
          MinEdge,             \* minimum_net_ev_lower_bps, minimum_net_edge_lower_bps
          Values,              \* pairs of a value range and a cost range that are tried
          MaxSecond,           \* bound on the clock
          NoWork

ASSUME RangesAreInOrder ==
    \A v \in Values : /\ v[1].low <= v[1].base /\ v[1].base <= v[1].high
                      /\ 0 <= v[2].low /\ v[2].low <= v[2].base /\ v[2].base <= v[2].high

VARIABLES second,    \* the clock
          setups,    \* the candidates in the order of their ids
          work       \* the item the producer made, and what it was made of

engineVars == <<second, setups, work>>

\* three of the six
Family == {"order_flow", "derivatives", "cross_market"}
Required == {"derivatives", "cross_market"}
Gate == {"kill_switch", "unhealthy", "data_quality", "not_promoted", "risk", "no_capacity"}

(***************************************************************************)
(* Setups.  A request has the evidence of some families, at most one each.   *)
(***************************************************************************)
(* The worst value pays the highest cost. *)
Net(gross, cost) ==
    [low |-> gross.low - cost.high, base |-> gross.base - cost.base, high |-> gross.high - cost.low]
Leg(s, venue, side) == [symbol |-> s, venue |-> venue, side |-> side]

Votes(r, vote) == Cardinality({e \in r.evidence : e.vote = vote})
OldestSource(r) == Min({r.cutoff} \union {e.time : e \in r.evidence})

(* What is kept of the request in its answer: of the evidence, how many families *)
(* voted for and against it, and the oldest source. *)
Waiting == [action |-> "WAIT", legs |-> {}]
Answer(r, action, legs) ==
    LET vote == IF action = "SHORT" THEN -1 ELSE 1
    IN  [action |-> action, legs |-> legs, target |-> r.symbol, decided |-> r.decided,
         cutoff |-> r.cutoff, oldest |-> OldestSource(r), pro |-> Votes(r, vote), con |-> Votes(r, 0 - vote),
         closed |-> r.closed, capacity |-> r.capacity, value |-> Net(r.gross, r.cost),
         worst |-> r.gross.low - r.cost.high]

(* What a request must be for an engine to answer at all. *)
ValidRequest(r) == r.cutoff <= r.decided /\ \A e \in r.evidence : e.time <= r.cutoff

(* And what the constructor of a setup demands of the engine. *)
WellFormed(setup) ==
    /\ setup.oldest <= setup.cutoff /\ setup.cutoff <= setup.decided
    /\ setup.value.low <= setup.value.base /\ setup.value.base <= setup.value.high
    /\ \A l \in setup.legs : l.symbol = setup.target
    /\ LET sides == {l.side : l \in setup.legs}
       IN  sides = CASE setup.action = "LONG" -> {"BUY"}
                     [] setup.action = "SHORT" -> {"SELL"}
                     [] setup.action = "ARBITRAGE" -> {"BUY", "SELL"}

Mutant_AgeOfCutoff(e, r) == e.sound /\ r.decided - r.cutoff <= MaxDataAge
Usable(e, r) == e.sound /\ r.decided - e.time <= MaxDataAge

(* One unusable piece of evidence, or one family that votes the other way, is *)
(* enough to wait. *)
EvaluateDirectional(r) ==
    LET pro == Votes(r, 1)
        con == Votes(r, -1)
        approved == /\ r.closed = {}
                    /\ \A e \in r.evidence : Usable(e, r)
                    /\ pro = 0 \/ con = 0
                    /\ Net(r.gross, r.cost).low > r.minimum
    IN  IF approved /\ pro >= MinFamilies THEN Answer(r, "LONG", {Leg(r.symbol, "first", "BUY")})
        ELSE IF approved /\ con >= MinFamilies THEN Answer(r, "SHORT", {Leg(r.symbol, "first", "SELL")})
        ELSE Waiting

(* Both required families and nothing but strong evidence; both legs can be *)
(* traded at once, and what can happen to one of them alone is bounded. *)
EvaluateNeutral(r) ==
    LET approved == /\ r.closed = {}
                    /\ Required \subseteq {e.family : e \in r.evidence}
                    /\ \A e \in r.evidence : Usable(e, r) /\ e.vote = 1
                    /\ r.tradable /\ r.bounded
                    /\ Net(r.gross, r.cost).low > r.minimum
    IN  IF approved THEN Answer(r, "ARBITRAGE", {Leg(r.symbol, "first", "BUY"), Leg(r.symbol, "second", "SELL")})
        ELSE Waiting

(***************************************************************************)
(* The Meta engine chooses one of the candidates for a portfolio.            *)
(***************************************************************************)
Room(limit, used) == IF used < limit THEN limit - used ELSE 0
Held(portfolio) == {s \in Coin : portfolio.exposure[s] > 0}
Total(portfolio, S) == FoldSet(LAMBDA s, sum : portfolio.exposure[s] + sum, 0, S)

CoverageComplete(setup, portfolio) ==
    \A s \in Held(portfolio) \ {setup.target} : {s, setup.target} \in portfolio.known

Mutant_OwnExposureOnly(s, portfolio) == {}
CorrelatedWith(s, portfolio) == {t \in Coin \ {s} : {s, t} \in portfolio.correlated}

(* Every engine makes setups of one symbol. *)
MaximumAllocation(setup, portfolio) ==
    Min({setup.capacity, portfolio.available,
         Room(MaxGross, Total(portfolio, Coin)),
         Room(MaxSymbol, portfolio.exposure[setup.target]),
         Room(MaxCorrelated, Total(portfolio, CorrelatedWith(setup.target, portfolio)))})

(* The value less half of the half width of its range, in quarters of a point. *)
Score(setup) == 4 * setup.value.base - (setup.value.high - setup.value.low)

Mutant_StaleByDecision(setup, now, portfolio) ==
    /\ setup.action # "WAIT"
    /\ setup.decided <= now /\ now - setup.decided <= MaxSetupAge
    /\ CoverageComplete(setup, portfolio)
    /\ MaximumAllocation(setup, portfolio) > 0
    /\ Score(setup) > 0 /\ setup.value.low > 0
Eligible(setup, now, portfolio) ==
    /\ setup.action # "WAIT"
    /\ setup.decided <= now /\ now - setup.cutoff <= MaxSetupAge
    /\ CoverageComplete(setup, portfolio)
    /\ MaximumAllocation(setup, portfolio) > 0
    /\ Score(setup) > 0 /\ setup.value.low > 0

Mutant_ConflictInOrder(chosen) ==
    \E a, b \in chosen : a < b /\ setups[a].action = "LONG" /\ setups[b].action = "SHORT" 
                         /\ setups[a].target = setups[b].target
DirectionalConflict(chosen) ==
    \E a, b \in chosen : setups[a].action = "LONG" /\ setups[b].action = "SHORT"
                         /\ setups[a].target = setups[b].target

(* The best score; of equals the first id. *)
Selected(eligible) ==
    Min({a \in eligible : \A b \in eligible : Score(setups[b]) <= Score(setups[a])})

Waits == [action |-> "WAIT", setup |-> Waiting, allocated |-> 0]
EvaluateMeta(approved, at, portfolio) ==
    LET eligible == {a \in approved : Eligible(setups[a], at, portfolio)}
    IN  IF portfolio.closed \/ eligible = {} \/ DirectionalConflict(eligible) THEN Waits
        ELSE LET setup == setups[Selected(eligible)]
             IN  [action |-> setup.action, setup |-> setup, allocated |-> MaximumAllocation(setup, portfolio)]

(***************************************************************************)
(* The producer proposes every leg.  Each leg of a pair has the whole        *)
(* notional; a leg of which a correlation is missing stops them all.         *)
(***************************************************************************)
BuildProposals(meta, portfolio) ==
    LET symbols == {l.symbol : l \in meta.setup.legs}
        checked(s) == (symbols \union Held(portfolio)) \ {s}
        signed(l) == IF l.side = "BUY" THEN meta.allocated ELSE 0 - meta.allocated
    IN  IF \E s \in symbols : \E t \in checked(s) : {s, t} \notin portfolio.known THEN {}
        ELSE {[symbol |-> l.symbol, venue |-> l.venue, signed |-> signed(l), checked |-> checked(l.symbol),
               correlated |-> {t \in checked(l.symbol) : {l.symbol, t} \in portfolio.correlated}] :
                 l \in meta.setup.legs}

(***************************************************************************)
(* Behaviour.  Engines answer, at most two of them for one decision; the     *)
(* research side hands their setups to the producer, or one snapshot to the  *)
(* orchestrator, now or later.                                               *)
(***************************************************************************)
(* Families that agree, and one of them that differs in one respect. *)
One(f, vote, sound, time) == [family |-> f, vote |-> vote, sound |-> sound, time |-> time]
EvidenceUpTo(cutoff) ==
    LET rest(fs, f, vote) == {One(g, vote, TRUE, cutoff) : g \in fs \ {f}}
        odd(f, vote) == {One(f, v, TRUE, cutoff) : v \in {-1, 0, 1}} \union {One(f, vote, FALSE, cutoff)}
                        \union {One(f, vote, TRUE, t) : t \in 0..cutoff}
    IN  UNION {{rest(fs, f, vote) \union {o} : o \in odd(f, vote)} :
                  fs \in SUBSET Family, f \in Family, vote \in {-1, 1}}
AllAgree(cutoff) == {One(f, 1, TRUE, cutoff) : f \in Family}
Request(s, cutoff, evidence, value, closed, tradable, bounded) ==
    [symbol |-> s, decided |-> second, cutoff |-> cutoff, evidence |-> evidence, closed |-> closed,
     capacity |-> 2, gross |-> value[1], cost |-> value[2], minimum |-> MinEdge,
     tradable |-> tradable, bounded |-> bounded]
Requests ==
    UNION {
      {Request(s, c, e, v, {}, TRUE, TRUE) : s \in Coin, v \in Values, e \in EvidenceUpTo(c)}
      \union {Request(s, c, AllAgree(c), v, g, t, b) :
                s \in Coin, v \in Values, g \in {{}} \union {{x} : x \in Gate}, t \in BOOLEAN, b \in BOOLEAN}
      : c \in {second, second - 1} \intersect Nat}

EnginesInit == second = 0 /\ setups = <<>> /\ work = NoWork

EngineTick == second < MaxSecond /\ second' = second + 1 /\ UNCHANGED <<setups, work>>
EngineAnswers ==
    /\ work = NoWork /\ Len(setups) < 2
    /\ \E setup \in UNION {{EvaluateDirectional(r), EvaluateNeutral(r)} : r \in {x \in Requests : ValidRequest(x)}} :
          setups' = Append(setups, setup)
    /\ UNCHANGED <<second, work>>

Portfolio(exposure, pairs, available, closed) ==
    [exposure |-> exposure, known |-> pairs[1], correlated |-> pairs[2],
     available |-> available, closed |-> closed]
Portfolios ==
    LET pair == {<<{}, {}>>, <<{Coin}, {}>>, <<{Coin}, {Coin}>>}
    IN  {Portfolio(e, p, a, FALSE) : e \in [Coin -> {0, MaxSymbol - 1}], p \in pair, a \in {1, MaxGross}}
        \union {Portfolio([s \in Coin |-> 0], <<{Coin}, {}>>, MaxGross, TRUE)}
Item(at, approved, portfolio) ==
    LET meta == EvaluateMeta(approved, at, portfolio)
        proposals == IF meta.action = "WAIT" THEN {} ELSE BuildProposals(meta, portfolio)
    IN  [meta |-> IF proposals = {} THEN Waits ELSE meta, proposals |-> proposals,
         at |-> at, produced |-> second, approved |-> approved, portfolio |-> portfolio]

(* Candidates of any engines, decided now. *)
ProducerProduces ==
    /\ work = NoWork /\ setups # <<>>
    /\ \E approved \in SUBSET DOMAIN setups, portfolio \in Portfolios :
          work' = Item(second, approved, portfolio)
    /\ setups' = <<>> /\ UNCHANGED second
(* One snapshot, decided when its setup was made, and produced soon enough. *)
OrchestratorProduces ==
    /\ work = NoWork /\ Len(setups) = 1 /\ setups[1].action # "WAIT"
    /\ second - setups[1].decided <= MaxDataAge
    /\ \E approved \in SUBSET {1}, portfolio \in Portfolios :
          work' = Item(setups[1].decided, approved, portfolio)
    /\ setups' = <<>> /\ UNCHANGED second

EnginesNext == EngineTick \/ EngineAnswers \/ ProducerProduces \/ OrchestratorProduces

(***************************************************************************)
(* Properties.                                                              *)
(***************************************************************************)
Opposed == {<<"LONG", "SHORT">>, <<"SHORT", "LONG">>}
Contradicts(rival, setup, at) ==
    /\ <<rival.action, setup.action>> \in Opposed /\ rival.target = setup.target
    /\ at - rival.cutoff <= MaxSetupAge /\ Score(rival) > 0 /\ rival.value.low > 0

(***************************************************************************)
(* An item that proposes something was earned, by all of its making at once: *)
(* its setup is one of those handed in, with no gate closed and enough       *)
(* families for it and none against; its worst value pays its highest cost;  *)
(* its data is not older than one setup age at the decision, and no source   *)
(* of it older than one data age before the setup, however late the choice;  *)
(* no other candidate that was as fresh and as well founded pointed the      *)
(* other way on that symbol; the proposals balance to what the action means, *)
(* each leg within the room of its symbol, of the portfolio and of what it   *)
(* is correlated with, and with every correlation to what is held on record. *)
(***************************************************************************)
DecisionIsEarned ==
    work' # work /\ work'.proposals # {} =>
        LET m == work'.meta
            setup == m.setup
            p == work'.portfolio
        IN  /\ setup \in {setups[a] : a \in DOMAIN setups} /\ WellFormed(setup)
            /\ ~p.closed /\ setup.closed = {} /\ setup.con = 0
            /\ setup.action # "ARBITRAGE" => setup.pro >= MinFamilies
            /\ setup.worst > MinEdge
            /\ work'.at - setup.cutoff <= MaxSetupAge
            /\ setup.decided - setup.oldest <= MaxDataAge
            /\ ~\E a \in work'.approved : Contradicts(setups[a], setup, work'.at)
            /\ \A q \in work'.proposals :
                  LET size == IF q.signed < 0 THEN 0 - q.signed ELSE q.signed
                      linked == {s \in Coin \ {q.symbol} : {s, q.symbol} \in p.correlated}
                  IN  /\ size > 0 /\ size <= p.available
                      /\ p.exposure[q.symbol] + size <= MaxSymbol
                      /\ Total(p, Coin) + size <= MaxGross
                      /\ Total(p, linked) + size <= MaxCorrelated
                      /\ q.checked = Held(p) \ {q.symbol}
                      /\ \A s \in q.checked : {s, q.symbol} \in p.known
            /\ LET net == FoldSet(LAMBDA q, sum : q.signed + sum, 0, work'.proposals)
               IN  net = CASE setup.action = "LONG" -> m.allocated
                           [] setup.action = "SHORT" -> 0 - m.allocated
                           [] setup.action = "ARBITRAGE" -> 0
================================================================================
