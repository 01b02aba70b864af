-------------------------------- MODULE MCRecords --------------------------------
(***************************************************************************)
(* Parts for TLC that share nothing and of which an initial choice says      *)
(* which one moves: the programs that keep durable records through faults.   *)
(*   Soak: one collector, three ticks of the clock, three samples, two       *)
(* faults.                                                                   *)
(*   Alerts: one alert, two threads, two readings of the clock (one day and  *)
(* the next), two faults.                                                    *)
(*   Phase 1: two sessions, two commits, up to one incident.                 *)
(*   Archive: two streams, one day of Gold, two publications of each ZIP,    *)
(* one kill.                                                                 *)
(*   Lake: a day of two raw parts, four jobs, one kill.                      *)
(*   Readings: four readings of which three are listed, two processes, two   *)
(* upsets.                                                                   *)
(*   Contest: three trials of two families, the klines extended once, one    *)
(* run of each edition lost; splits: 25 bars of two symbols with setups in   *)
(* many patterns.                                                            *)
(*   Engines: two candidates of two coins, evidence of three families,      *)
(* three seconds.  Carry: five hours with a settlement at Bybit every two of *)
(* them, and one first price at Bybit.                                       *)
(*   Session: three orders, two processes, two days, one failure more than   *)
(* allowed.                                                                  *)
(*   History: five slots, the third perhaps unlisted, two pages of two       *)
(* rows, two downloads, one kill.                                            *)
(***************************************************************************)
EXTENDS SoakAudit, AlertDelivery, PhaseOne, ArchiveMonth, DataLake, Backfill, PolledSeries, ModelTournament, CarryScreen, PaperSession

VARIABLE focus    \* the part that moves

FrozenSpecs == <<<<"linear", "c0.1">>, <<"linear", "c1.0">>, <<"boosted", "d3">>>>

(* Setups every third or fourth bar of each symbol, a bar that is missing *)
(* from one of them, and barriers that are touched never, at once or now and then. *)
SplitsInit ==
    \E every \in [Asset -> 3..4] : \E first \in [Asset -> 0..2] : \E gap \in {0, 7, 12, 19, LastBar + 1} : \E thinned \in Asset :
        /\ kline = [s \in Asset |-> IF s = thinned THEN 0..LastBar \ {gap} ELSE 0..LastBar]
        /\ signal = [s \in Asset |-> {b \in 0..LastBar : b % every[s] = first[s]}]
        /\ sharp \in {{}, {b \in 0..LastBar : b % 2 = 0}, {b \in 0..LastBar : b % 5 = 4}}
OneDataset ==
    /\ kline = [s \in Asset |-> 0..LastBar]
    /\ signal = [s \in Asset |-> {b \in 0..LastBar : b % 3 = 0}]
    /\ sharp = {}

Span(low, base, high) == [low |-> low, base |-> base, high |-> high]
ValuesAndCosts ==
    {<<Span(4, 5, 6), Span(1, 1, 2)>>, <<Span(2, 8, 12), Span(1, 1, 2)>>}
CostOfPair == Span(0, 1, 1)
TwoLevels == {-3, 3}
TwoRates == {-1, 1}
SomeHistory == [rate |-> [v \in Venues |-> [h \in {0} |-> 0]], price |-> [v \in Venues |-> [h \in {0} |-> 0]]]

RecordsInit ==
    /\ focus \in {"soak", "alerts", "phase", "archive", "lake", "history", "readings", "splits", "contest", "engines", "carry", "session"}
    /\ SoakInit /\ AlertInit /\ PhaseInit /\ ArchInit /\ LakeInit /\ BackfillInit /\ PolledInit /\ ContestInit
    /\ EnginesInit /\ PaperInit
    /\ focus # "soak" => proc = Nothing
    /\ focus # "alerts" => forwarding
    /\ IF focus = "history" THEN unlisted \subseteq {2} ELSE feed = "bybit" /\ unlisted = {}
    /\ focus # "readings" => series = BybitRatio
    /\ IF focus = "splits" THEN SplitsInit ELSE OneDataset
    /\ focus # "lake" => \A p \in Part : clean[p]
    /\ IF focus = "carry" THEN AnyHistory /\ rows.price["bybit"][0] = 3 ELSE rows = SomeHistory
    /\ CarryStart

SoakOnly ==
    SoakNext /\ UNCHANGED
        <<alertVars, phaseVars, archVars, lakeVars, backfillVars, polledVars, contestVars,
          engineVars, carryVars, sessionVars>>
AlertsOnly ==
    AlertNext /\ UNCHANGED
        <<soakVars, phaseVars, archVars, lakeVars, backfillVars, polledVars, contestVars,
          engineVars, carryVars, sessionVars>>
PhaseOnly ==
    PhaseNext /\ UNCHANGED
        <<soakVars, alertVars, archVars, lakeVars, backfillVars, polledVars, contestVars,
          engineVars, carryVars, sessionVars>>
ArchiveOnly ==
    ArchNext /\ UNCHANGED
        <<soakVars, alertVars, phaseVars, lakeVars, backfillVars, polledVars, contestVars,
          engineVars, carryVars, sessionVars>>
LakeOnly ==
    LakeNext /\ UNCHANGED
        <<soakVars, alertVars, phaseVars, archVars, backfillVars, polledVars, contestVars,
          engineVars, carryVars, sessionVars>>
HistoryOnly ==
    BackfillNext /\ UNCHANGED
        <<soakVars, alertVars, phaseVars, archVars, lakeVars, polledVars, contestVars, engineVars,
          carryVars, sessionVars>>
ReadingsOnly ==
    PolledNext /\ UNCHANGED
        <<soakVars, alertVars, phaseVars, archVars, lakeVars, backfillVars, contestVars, engineVars,
          carryVars, sessionVars>>
ContestOnly ==
    ContestNext /\ UNCHANGED
        <<soakVars, alertVars, phaseVars, archVars, lakeVars, backfillVars, polledVars, engineVars,
          carryVars, sessionVars>>
EnginesOnly ==
    EnginesNext /\ UNCHANGED
        <<soakVars, alertVars, phaseVars, archVars, lakeVars, backfillVars, polledVars, contestVars,
          carryVars, sessionVars>>
CarryOnly ==
    CarryNext /\ UNCHANGED
        <<soakVars, alertVars, phaseVars, archVars, lakeVars, backfillVars, polledVars, contestVars,
          engineVars, sessionVars>>
SessionOnly ==
    PaperNext /\ UNCHANGED
        <<soakVars, alertVars, phaseVars, archVars, lakeVars, backfillVars, polledVars, contestVars,
          engineVars, carryVars>>
SplitsOnly ==
    /\ TournamentStarts \/ ScreenStarts \/ BaselinesStart \/ WalkStarts
    /\ UNCHANGED
        <<soakVars, alertVars, phaseVars, archVars, lakeVars, backfillVars, polledVars, engineVars,
          carryVars, sessionVars>>

RecordsNext ==
    /\ UNCHANGED focus
    /\ \/ focus = "soak" /\ SoakOnly
       \/ focus = "alerts" /\ AlertsOnly
       \/ focus = "phase" /\ PhaseOnly
       \/ focus = "archive" /\ ArchiveOnly
       \/ focus = "lake" /\ LakeOnly
       \/ focus = "history" /\ HistoryOnly
       \/ focus = "readings" /\ ReadingsOnly
       \/ focus = "contest" /\ ContestOnly
       \/ focus = "engines" /\ EnginesOnly
       \/ focus = "carry" /\ CarryOnly
       \/ focus = "session" /\ SessionOnly
       \/ focus = "splits" /\ SplitsOnly

RecordsSpec ==
    RecordsInit /\ [][RecordsNext]_
        <<soakVars, alertVars, phaseVars, archVars, lakeVars, backfillVars, polledVars, contestVars,
          engineVars, carryVars, sessionVars, focus>>

-----------------------------------------------------------------------------
(* What is decided rests on what was known when it was decided: a proposal   *)
(* on a setup and evidence that were fresh (DirectionalShadowOrchestrator),  *)
(* an episode of the carry screen on the rows up to its entry.               *)
DecisionsAreSound ==
    [][ /\ DecisionIsEarned
        /\ episodes' # episodes => EpisodesAreCausal' ]_<<engineVars, carryVars>>
================================================================================
