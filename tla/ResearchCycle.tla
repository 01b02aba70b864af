------------------------------ MODULE ResearchCycle ------------------------------
(***************************************************************************)
(* A research cycle (run_cycle of src/research/orchestrator.py) under its    *)
(* lock: the bounded queue of hypotheses, one trial after another against   *)
(* the append-only ledger, the promotion gate once all of them ran, and at   *)
(* most one candidate in the promotion registry, which a reviewer's process *)
(* calls meanwhile.  What a walk-forward run measures is an input; what the  *)
(* cycle does with it is not.                                                *)
(***************************************************************************)
EXTENDS CycleLock, PromotionRegistry, SequencesExt, FiniteSetsExt

CONSTANTS
    FamilyOrder,      \* enabled families, in the order the queue asks for them
    Strategies,       \* a family's strategies
    Symbols, Frames,  \* universe.symbols and universe.timeframes_primary
    Reference,        \* the symbol that confirms a regime
    BaseFrame, ConfirmingFrame,
    MaxHypotheses,    \* max_new_hypotheses_per_cycle
    Evidence,         \* what a run may measure
    NoEvidence,       \* a run that measured nothing
    MinSymbols, MinDsr,   \* of the promotion gate
    Reviewer,         \* the other process that calls the registry
    MaxCycles, MaxTurns   \* bounds: cycles with disk space; these, calls and deaths together

ASSUME CycleAssumption ==
    /\ Caller = Worker \cup {Reviewer}
    /\ Reviewer \notin Worker
    /\ MaxHypotheses \in Nat \ {0} /\ MinSymbols \in Nat
    /\ \A e \in Evidence : e.positive \in BOOLEAN /\ e.sound \in BOOLEAN /\ e.dsr \in Nat

VARIABLES
    ledger,     \* trial_ledger.jsonl: the trials ever recorded
    torn,       \* its last line is cut short
    cycle,      \* every worker's cycle
    begun, reviews   \* cycles that had disk space, the reviewer's calls

researchVars == <<ledger, torn, cycle, begun, reviews>>
allVars == <<vars, registryVars, researchVars>>

-----------------------------------------------------------------------------
(* build_hypothesis_queue.  A family that lacks its reference symbol or its  *)
(* timeframes is skipped; the rest is cut at the cycle's budget.             *)
Runnable(f) ==
    CASE f = "cross_asset_regime" -> Reference \in ToSet(Symbols)
      [] f = "funding_aware_multi_horizon_trend" -> {BaseFrame, ConfirmingFrame} \subseteq ToSet(Frames)
      [] OTHER -> TRUE

Targets(f) ==
    IF f = "cross_asset_regime" THEN SelectSeq(Symbols, LAMBDA s : s # Reference) ELSE Symbols

FramesOf(f) == IF f = "funding_aware_multi_horizon_trend" THEN <<BaseFrame>> ELSE Frames

Grid(f) ==
    LET ts == Targets(f)
        fs == FramesOf(f)
        n == Len(ts) * Len(fs)
    IN  [k \in 1..(Len(Strategies[f]) * n) |->
            LET j == (k - 1) % n
            IN  [family |-> f, strategy |-> Strategies[f][(k - 1) \div n + 1],
                 symbol |-> ts[j \div Len(fs) + 1], frame |-> fs[(j % Len(fs)) + 1]]]

Queue ==
    LET all == FlattenSeq([i \in DOMAIN FamilyOrder |->
                    IF Runnable(FamilyOrder[i]) THEN Grid(FamilyOrder[i]) ELSE <<>>])
    IN  SubSeq(all, 1, Min({Len(all), MaxHypotheses}))

(* make_hypothesis_id: the family and the place in the queue, so a later     *)
(* cycle gives the same names again.                                         *)
Id(k) == <<Queue[k].family, k>>

(* The queue is finite, and the registry knows the names it gives.           *)
ASSUME QueueAssumption ==
    /\ Len(Queue) \in Nat
    /\ \A k \in 1..Len(Queue) : Id(k) \in Candidate

-----------------------------------------------------------------------------
(* _positive_symbols_by_strategy and evaluate_candidate, over the trials of  *)
(* this cycle: the run itself must be sound (its other checks) and its       *)
(* strategy positive on enough symbols.                                      *)
Positive(results, strategy) ==
    {Queue[k].symbol : k \in {i \in DOMAIN results :
        results[i] # NoEvidence /\ results[i].positive /\ Queue[i].strategy = strategy}}

Clears(results, k) ==
    LET e == results[k]
    IN  /\ e # NoEvidence
        /\ e.sound /\ e.positive
        /\ e.dsr >= MinDsr
        /\ Cardinality(Positive(results, Queue[k].strategy)) >= MinSymbols

(* Pass 2: the first of those with the highest deflated Sharpe ratio.        *)
Mutant_LastBest(results) ==
    LET cleared == {k \in DOMAIN results : Clears(results, k)}
    IN  IF cleared = {} THEN 0 ELSE Max(cleared)
Best(results) ==
    LET cleared == {k \in DOMAIN results : Clears(results, k)}
        highest == {k \in cleared : \A j \in cleared : results[j].dsr <= results[k].dsr}
    IN  IF cleared = {} THEN 0 ELSE Min(highest)

-----------------------------------------------------------------------------
NoCycle == [at |-> "none", results |-> <<>>, seen |-> 0, id |-> 0, selected |-> 0]

ResearchInit ==
    /\ LockInit
    /\ RegistryInit
    /\ ledger = <<>>
    /\ torn = FALSE
    /\ cycle = [w \in Worker |-> NoCycle]
    /\ begun = 0
    /\ reviews = 0

Turn == begun + reviews + crashes < MaxTurns

Cycle(w, next) == cycle' = [cycle EXCEPT ![w] = next]

In(w, at) == pc[w] = "holding" /\ cycle[w].at = at

Aside == UNCHANGED <<vars, registryVars, begun, reviews>>

(* Too little free disk space: CycleAborted.  After MaxCycles it is full.    *)
CheckDisk(w) ==
    /\ In(w, "none")
    /\ \/ begun < MaxCycles /\ Turn /\ begun' = begun + 1 /\ Cycle(w, [NoCycle EXCEPT !.at = "hypothesis"])
       \/ UNCHANGED begun /\ Cycle(w, [NoCycle EXCEPT !.at = "over"])
    /\ UNCHANGED <<ledger, torn, vars, registryVars, reviews>>

Done(w) == Len(cycle[w].results)

(* The wall-clock budget is looked at before each hypothesis: once it is     *)
(* spent, none of the rest runs.                                             *)
OutOfTime(w) ==
    /\ In(w, "hypothesis")
    /\ Done(w) \in 1..(Len(Queue) - 1)
    /\ Cycle(w, [cycle[w] EXCEPT !.at = "gate"])
    /\ UNCHANGED <<ledger, torn>> /\ Aside

(* A line that does not parse makes every reader of the ledger raise, and    *)
(* nothing but a missing lock or disk space is caught: the cycle is over.    *)
LedgerBroken(w) ==
    /\ pc[w] = "holding" /\ cycle[w].at \in {"hypothesis", "measured"} /\ torn
    /\ Cycle(w, [cycle[w] EXCEPT !.at = "over"])
    /\ UNCHANGED <<ledger, torn>> /\ Aside

OfFamily(f) == {i \in DOMAIN ledger : ledger[i].family = f}

(* _run_hypothesis: without usable data, history or trades, or after a run   *)
(* that failed, nothing is measured; it is a trial all the same.             *)
Unmeasured(w) ==
    /\ In(w, "hypothesis")
    /\ Done(w) < Len(Queue)
    /\ Cycle(w, [cycle[w] EXCEPT !.at = "measured", !.results = Append(@, NoEvidence)])
    /\ UNCHANGED <<ledger, torn>> /\ Aside

(* Otherwise the ratio is deflated by the family's trials so far.            *)
Mutant_OwnCycleCounted(w, e) ==
    /\ In(w, "hypothesis") /\ Done(w) < Len(Queue) /\ ~torn
    /\ Cycle(w, [cycle[w] EXCEPT !.at = "measured", !.results = Append(@, e), !.seen = Max({1, Done(w)})])
    /\ UNCHANGED <<ledger, torn>> /\ Aside
Measure(w, e) ==
    /\ In(w, "hypothesis")
    /\ Done(w) < Len(Queue)
    /\ ~torn
    /\ Cycle(w, [cycle[w] EXCEPT !.at = "measured", !.results = Append(@, e),
                    !.seen = Max({1, Cardinality(OfFamily(Queue[Done(w) + 1].family))})])
    /\ UNCHANGED <<ledger, torn>> /\ Aside

(* next_trial_id: one more than the highest.                                 *)
NextTrialId(w) ==
    /\ In(w, "measured")
    /\ ~torn
    /\ Cycle(w, [cycle[w] EXCEPT !.at = "record", !.id = Max({0} \cup {ledger[i].trial : i \in DOMAIN ledger}) + 1])
    /\ UNCHANGED <<ledger, torn>> /\ Aside

Trial(w) ==
    LET k == Done(w)
    IN  [trial |-> cycle[w].id, family |-> Queue[k].family, seen |-> cycle[w].seen]

(* record appends one line.                                                  *)
Record(w) ==
    /\ In(w, "record")
    /\ Cycle(w, [cycle[w] EXCEPT !.at = "hypothesis", !.id = 0, !.seen = 0])
    /\ ledger' = Append(ledger, Trial(w))
    /\ UNCHANGED <<torn>> /\ Aside

(* The disk is full in the middle of a line: record raises.                  *)
RecordCut(w) ==
    /\ In(w, "record")
    /\ torn' = TRUE
    /\ Cycle(w, [cycle[w] EXCEPT !.at = "over"])
    /\ UNCHANGED ledger /\ Aside

(* The gate, and the registry's call for the best hypothesis.                *)
Gate(w) ==
    /\ \/ In(w, "gate")
       \/ In(w, "hypothesis") /\ Done(w) = Len(Queue)
    /\ LET k == Best(cycle[w].results)
       IN  IF k = 0
           THEN /\ Cycle(w, [cycle[w] EXCEPT !.at = "over"])
                /\ UNCHANGED registryVars
           ELSE /\ Cycle(w, [cycle[w] EXCEPT !.at = "register", !.selected = k])
                /\ \E f \in Family : Register(w, Id(k), {f})
    /\ UNCHANGED <<ledger, torn, vars, begun, reviews>>

(* register_research_candidate returned: the report.                         *)
Select(w) ==
    /\ In(w, "register")
    /\ call[w].at = "rewrite" /\ Rewrite(w)
    /\ Cycle(w, [cycle[w] EXCEPT !.at = "over"])
    /\ UNCHANGED <<ledger, torn, vars, begun, reviews>>

RegisterStep(w) ==
    /\ In(w, "register")
    /\ \/ Read(w) /\ UNCHANGED cycle
       \/ Write(w) /\ UNCHANGED cycle
       \/ Reread(w) /\ UNCHANGED cycle
       \/ Raises(w) /\ Cycle(w, [cycle[w] EXCEPT !.at = "over"])
    /\ UNCHANGED <<ledger, torn, vars, begun, reviews>>

(* The lock: a worker releases it when its cycle is over, however it ended.  *)
Locking(w) ==
    /\ UNCHANGED <<registryVars, ledger, torn, begun, reviews>>
    /\ \/ (Begin(w) \/ Open(w) \/ Stat(w) \/ Unlink(w) \/ Reopen(w)) /\ UNCHANGED cycle
       \/ cycle[w].at = "over" /\ Release(w) /\ Cycle(w, NoCycle)

(* A worker dies wherever it is: in a write of the registry it may leave the *)
(* file cut short.                                                           *)
Die(w) ==
    /\ Turn
    /\ Crash(w)
    /\ Abandon(w)
    /\ UNCHANGED researchVars

OldFile == Age /\ UNCHANGED <<registryVars, researchVars>>

Trials(w) ==
    \/ CheckDisk(w) \/ OutOfTime(w) \/ LedgerBroken(w) \/ NextTrialId(w) \/ Record(w)
    \/ Unmeasured(w) \/ (\E e \in Evidence : Measure(w, e))

Selecting(w) == Gate(w) \/ Select(w) \/ RegisterStep(w)

(* The reviewer: a person at a prompt, or the degradation monitor.  A step of*)
(* it commutes with every step of a cycle but those on the registry, so it   *)
(* is taken only next to these and between cycles.                           *)
Beside == \A w \in Worker : pc[w] = "holding" => cycle[w].at = "register"

Reviewing ==
    /\ Beside
    /\ UNCHANGED <<vars, ledger, torn, cycle, begun>>
    /\ \/ CallStep(Reviewer) /\ UNCHANGED reviews
       \/ /\ Turn /\ reviews' = reviews + 1
          /\ \E id \in Candidate : registry # Torn /\ registry[id] # Absent /\ AskFor(Reviewer, id)

ResearchNext ==
    \/ \E w \in Worker : Locking(w) \/ Trials(w) \/ Selecting(w) \/ RecordCut(w) \/ Die(w)
    \/ OldFile
    \/ Reviewing

ResearchSpec == ResearchInit /\ [][ResearchNext]_allVars

(* A worker's process goes on until it dies, and a lock file ages.           *)
ResearchFairSpec ==
    /\ ResearchSpec
    /\ \A w \in Worker : WF_allVars(Locking(w) \/ Trials(w) \/ Selecting(w))
    /\ WF_allVars(OldFile)

-----------------------------------------------------------------------------
(* "The total number of trials EVER recorded is what DSR's n_trials should   *)
(* reflect": until a worker dies, every trial has its own number, and one    *)
(* that measured anything was deflated by all trials of its family before it,*)
(* of this cycle and of every earlier one.                                   *)
TrialsAreCounted ==
    crashes = 0 =>
        \A i \in DOMAIN ledger :
            /\ ledger[i].trial = i
            /\ ledger[i].seen \in {0, Max({1, Cardinality({j \in 1..(i - 1) : ledger[j].family = ledger[i].family})})}

(* A cycle that selects a candidate selects one that cleared the whole gate, *)
(* its strategy positive on enough symbols of this cycle, and no hypothesis  *)
(* that also did had a higher deflated Sharpe ratio.                         *)
SelectionIsBest ==
    \A w \in Worker : cycle[w].selected # 0 =>
        LET results == cycle[w].results
            e == results[cycle[w].selected]
        IN  /\ e.sound /\ e.dsr >= MinDsr
            /\ \E ks \in SUBSET (DOMAIN results) :
                  /\ \A k \in ks : results[k] # NoEvidence /\ results[k].positive
                  /\ Cardinality({Queue[k].symbol : k \in ks}) >= MinSymbols
            /\ \A k \in DOMAIN results : Clears(results, k) => results[k].dsr <= e.dsr

(* What a cycle selects is the best of what it measured, against the trials  *)
(* that were made before it.                                                 *)
SelectionIsEarned == TrialsAreCounted /\ SelectionIsBest
================================================================================
