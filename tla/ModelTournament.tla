--------------------------- MODULE ModelTournament ---------------------------
(***************************************************************************)
(* How models are judged: the data sets and their labels, the splits in time *)
(* that keep the future out of a fit, the walk-forward windows, and the two  *)
(* preregistered contests (the model tournament with its final holdout and   *)
(* the screen of triple-barrier labels) with the trial ledger that is to     *)
(* open a holdout once.  What a model learns is abstracted to the rows it is *)
(* given; a trial's result is a score or a failure.                          *)
(***************************************************************************)
EXTENDS Naturals, Sequences, FiniteSets

CONSTANTS Asset,          \* the universe of the contest
          LastBar,         \* bars are 0..LastBar
          Horizon,         \* bars a trade is held for (24 in the code)
          EmbargoBars,     \* and the embargo, in hours of one bar each
          NFolds,          \* development folds
          MinBlock,        \* unique times a block must have (10 in the code)
          HoldoutPercent, TailPercent,
          Consumed,        \* start of the holdout that the tournament has used up
          Specs,           \* the frozen trials: a sequence of <<family, trial>>
          MaxEditions,     \* bound: times the klines are extended
          MaxRows,         \* bound: rows of the ledger
          MaxLost          \* bound: runs of one edition that end between look and record

VARIABLES kline,     \* symbol -> its bars
          signal,    \* symbol -> bars on which the setup fires and all features are known
          sharp,     \* bars that touch a barrier of every open trade
          edition,   \* of the klines: what the files' checksums tell apart
          contest,   \* the running program
          trialLedger,      \* the trial ledger
          reports,   \* of runs that returned
          looks,     \* edition -> runs that evaluated trials on its holdout
          lost       \* edition -> those that ended with none of these on the ledger

contestVars == <<kline, signal, sharp, edition, contest, trialLedger, reports, looks, lost>>

LeastOf(S) == CHOOSE x \in S : \A y \in S : x <= y
GreatestOf(S) == CHOOSE x \in S : \A y \in S : y <= x
InOrder(S) == SelectSeq([i \in 1 .. LastBar + 1 |-> i - 1], LAMBDA t : t \in S)
BarsOf(s) == InOrder(kline[s])

(***************************************************************************)
(* Data sets and labels.  bar[i] is the time of the i-th bar.                *)
(***************************************************************************)
(* Only what every symbol has. *)
CommonWindow ==
    LET first == GreatestOf({LeastOf(kline[s]) : s \in Asset})
        last  == LeastOf({GreatestOf(kline[s]) : s \in Asset})
    IN  first..last

(* The forward label of a bar ends Horizon bars later, wherever that is in time. *)
FixedEnd(bar, i) == bar[i + Horizon]

Mutant_BarrierLooksFurther(bar, i) ==
    LET hits == {j \in i + 1 .. Len(bar) : bar[j] \in sharp}
    IN  IF hits = {} THEN bar[i + Horizon] ELSE bar[LeastOf(hits)]

(* The first bar that touches a barrier ends the label, at the latest the last. *)
BarrierEnd(bar, i) ==
    LET hits == {j \in i + 1 .. i + Horizon : bar[j] \in sharp}
    IN  IF hits = {} THEN bar[i + Horizon] ELSE bar[LeastOf(hits)]

(* A setup is taken when no earlier one is still held, whichever way it ends. *)
Setups(s) ==
    LET bar == InOrder(kline[s] \intersect CommonWindow)
        taken[i \in 0..Len(bar)] ==
            IF i = 0 THEN {}
            ELSE LET earlier == taken[i - 1]
                     free == /\ bar[i] \in signal[s]
                             /\ i + Horizon <= Len(bar)
                             /\ \A k \in earlier : k + Horizon < i
                 IN  IF free THEN earlier \union {i} ELSE earlier
    IN  {[symbol |-> s, at |-> bar[i], fixed |-> FixedEnd(bar, i), triple |-> BarrierEnd(bar, i)] :
            i \in taken[Len(bar)]}
Dataset == UNION {Setups(s) : s \in Asset}

(***************************************************************************)
(* Splits.  The two sides are sets of rows; boundaries fall between unique   *)
(* times, so that the symbols of one time stay on one side.                  *)
(***************************************************************************)
TimesOf(rows) == InOrder({r.at : r \in rows})
Portion(n, percent) == (n * (100 - percent)) \div 100

Splittable(rows) == Len(TimesOf(rows)) >= (NFolds + 2) * MinBlock
HoldoutBoundary(rows) == LET t == TimesOf(rows) IN t[Portion(Len(t), HoldoutPercent) + 1]
KnownBefore(rows, time) == {r \in rows : r.at < time /\ r.fixed < time}

HoldoutSplit(rows) ==
    LET boundary == HoldoutBoundary(rows)
    IN  [train |-> KnownBefore(rows, boundary),
         test  |-> {r \in rows : r.at >= boundary + EmbargoBars}]

FoldSplit(rows, fold) ==
    LET holdout == HoldoutBoundary(rows)
        development == TimesOf({r \in rows : r.at < holdout})
        bound(k) == (k * Len(development)) \div (NFolds + 1)
        boundary == development[bound(fold) + 1]
        next == IF bound(fold + 1) = Len(development) THEN holdout
                ELSE development[bound(fold + 1) + 1]
    IN  [train |-> KnownBefore(rows, boundary),
         test  |-> {r \in rows : r.at >= boundary + EmbargoBars /\ r.at < next}]
FoldSplits(rows) == {FoldSplit(rows, fold) : fold \in 1..NFolds}

(* A model is fitted on the head of a train side and calibrated on its tail. *)
TailBoundary(rows) == LET t == TimesOf(rows) IN t[Portion(Len(t), TailPercent) + 1]
HasTail(rows) ==
    LET n == Len(TimesOf(rows)) IN Portion(n, TailPercent) >= MinBlock /\ Portion(n, TailPercent) < n
FitAndTail(rows) ==
    LET boundary == TailBoundary(rows)
    IN  [train |-> KnownBefore(rows, boundary), test |-> {r \in rows : r.at >= boundary}]

(* What the code refuses to fit on. *)
ValidSplit(split) ==
    /\ split.train # {} /\ split.test # {}
    /\ split.train \intersect split.test = {}
    /\ \A r \in split.train, x \in split.test : r.fixed < x.at /\ r.at < x.at
Fittable(split) == ValidSplit(split) /\ HasTail(split.train) /\ ValidSplit(FitAndTail(split.train))
Playable(rows) ==
    /\ rows # {} /\ Splittable(rows)
    /\ \A split \in FoldSplits(rows) \union {HoldoutSplit(rows)} : ValidSplit(split)

(* The screen leaves out whatever reaches the holdout that was used up. *)
ScreenRows == {r \in Dataset : r.fixed < Consumed}

(***************************************************************************)
(* Purged folds over all labelled bars of one symbol, and walk-forward.      *)
(***************************************************************************)
LabelledBars(s) == Len(BarsOf(s)) - Horizon
FoldBounds(n, folds, k) == (k * n) \div folds
TestPositions(n, folds, fold) == FoldBounds(n, folds, fold - 1) + 1 .. FoldBounds(n, folds, fold)
TrainPositions(s, folds, fold, embargo) ==
    LET bar == BarsOf(s)
        n == LabelledBars(s)
        tested == TestPositions(n, folds, fold)
        from == bar[LeastOf(tested)]
        to == bar[GreatestOf(tested)] + embargo
    IN  {i \in (1..n) \ tested : ~(bar[i] <= to /\ FixedEnd(bar, i) >= from)}

(* Sliding windows: each slides by its test period. *)
Windows(start, end, train, validation, test) ==
    LET window(k) == [train      |-> start + k * test,
                      validation |-> start + k * test + train,
                      test       |-> start + k * test + train + validation,
                      end        |-> start + k * test + train + validation + test]
    IN  {window(k) : k \in {j \in 0..end : window(j).end <= end}}
(* A backtest of a window reads the bars from its start to its end, both included. *)
BacktestBars(s, start, end) == {t \in kline[s] : start <= t /\ t <= end}
SelectionBars(s, w) == BacktestBars(s, w.validation, w.test)
JudgedBars(s, w) == BacktestBars(s, w.test, w.end)

(***************************************************************************)
(* The contests.  Both read the klines, fit every trial on every fold and    *)
(* append all their trials to the ledger in the end; the tournament opens    *)
(* the holdout for the best trial of each family.                            *)
(***************************************************************************)
Trials == 1..Len(Specs)
FamilyOf(t) == Specs[t][1]
Families == {FamilyOf(t) : t \in Trials}
NotRunning == [at |-> "off", program |-> "none", edition |-> 0, chosen |-> {}, written |-> 0]

ContestInit ==
    /\ edition = 1 /\ contest = NotRunning /\ trialLedger = <<>> /\ reports = {}
    /\ looks = [e \in 1..MaxEditions |-> 0] /\ lost = [e \in 1..MaxEditions |-> 0]

(* The klines grow: the files' checksums, and with them the holdout's id, change. *)
KlinesGrow ==
    /\ edition < MaxEditions
    /\ edition' = edition + 1
    /\ UNCHANGED <<kline, signal, sharp, contest, trialLedger, reports, looks, lost>>

HoldoutUsed(id) == \E i \in DOMAIN trialLedger : trialLedger[i].program = "tournament" /\ trialLedger[i].edition = id /\ trialLedger[i].used
(* The screen's rows end before the holdout: later klines leave its fingerprint as it is. *)
Screened == \E i \in DOMAIN trialLedger : trialLedger[i].program = "screen"

TournamentStarts ==
    /\ contest.at = "off"
    /\ Len(trialLedger) + Len(Specs) <= MaxRows
    /\ ~HoldoutUsed(edition) /\ Playable(Dataset)
    /\ contest' = [NotRunning EXCEPT !.at = "develop", !.program = "tournament", !.edition = edition]
    /\ UNCHANGED <<kline, signal, sharp, edition, trialLedger, reports, looks, lost>>
ScreenStarts ==
    /\ contest.at = "off"
    /\ Len(trialLedger) + Len(Specs) <= MaxRows
    /\ ~Screened /\ Playable(ScreenRows)
    /\ contest' = [NotRunning EXCEPT !.at = "screen", !.program = "screen", !.edition = 1]
    /\ UNCHANGED <<kline, signal, sharp, edition, trialLedger, reports, looks, lost>>

(* The baseline models are compared on purged folds; a strategy walks forward. *)
BaselinesStart ==
    /\ contest.at = "off"
    /\ contest' = [NotRunning EXCEPT !.at = "baselines"]
    /\ UNCHANGED <<kline, signal, sharp, edition, trialLedger, reports, looks, lost>>
WalkStarts ==
    /\ contest.at = "off"
    /\ contest' = [NotRunning EXCEPT !.at = "walk"]
    /\ UNCHANGED <<kline, signal, sharp, edition, trialLedger, reports, looks, lost>>
RunEnds ==
    /\ contest.at \in {"baselines", "walk"}
    /\ contest' = NotRunning
    /\ UNCHANGED <<kline, signal, sharp, edition, trialLedger, reports, looks, lost>>

(* A trial that cannot be fitted is kept as FAILED; the best of each family is  *)
(* the first of those with the highest score.                                  *)
Best(score, family) ==
    LET complete == {t \in Trials : FamilyOf(t) = family /\ score[t] # "failed"}
        high == {t \in complete : score[t] = "high"}
    IN  IF complete = {} THEN {} ELSE {LeastOf(IF high = {} THEN complete ELSE high)}
(* Without a complete trial there is nothing to evaluate on the holdout. *)
Develops ==
    /\ contest.at = "develop"
    /\ \E score \in [Trials -> {"failed", "low", "high"}] :
          LET chosen == UNION {Best(score, f) : f \in Families}
          IN  /\ contest' = [contest EXCEPT !.at = "holdout", !.chosen = chosen]
              /\ looks' = IF chosen = {} THEN looks ELSE [looks EXCEPT ![contest.edition] = @ + 1]
    /\ UNCHANGED <<kline, signal, sharp, edition, trialLedger, reports, lost>>

(* A run that ends has looked in vain when no trial it looked with is on the    *)
(* ledger: nothing tells the next run of the look.                              *)
LookIsLost ==
    /\ contest.at \in {"holdout", "record"} /\ contest.chosen # {}
    /\ \A t \in contest.chosen : t > contest.written
ContestEnds ==
    /\ contest' = NotRunning
    /\ IF LookIsLost
       THEN lost[contest.edition] < MaxLost /\ lost' = [lost EXCEPT ![contest.edition] = @ + 1]
       ELSE lost' = lost
    /\ UNCHANGED <<kline, signal, sharp, edition, trialLedger, reports, looks>>

(* The holdout is evaluated and the report must be finite before anything of it *)
(* is on the ledger.                                                            *)
OpensHoldout ==
    /\ contest.at = "holdout"
    /\ contest' = [contest EXCEPT !.at = "record"]
    /\ UNCHANGED <<kline, signal, sharp, edition, trialLedger, reports, looks, lost>>
EvaluationRaises ==
    /\ contest.at \in {"holdout", "screen"}
    /\ ContestEnds
(* The screen has no holdout, and a trial that cannot be fitted ends it. *)
Screens ==
    /\ contest.at = "screen"
    /\ contest' = [contest EXCEPT !.at = "record"]
    /\ UNCHANGED <<kline, signal, sharp, edition, trialLedger, reports, looks, lost>>

Mutant_UseUnrecorded(t) ==
    [program |-> contest.program, edition |-> contest.edition, trial |-> t, used |-> FALSE]
TrialRow(t) ==
    [program |-> contest.program, edition |-> contest.edition, trial |-> t,
     used |-> t \in contest.chosen]
RecordsTrial ==
    /\ contest.at = "record" /\ contest.written < Len(Specs)
    /\ trialLedger' = Append(trialLedger, TrialRow(contest.written + 1))
    /\ contest' = [contest EXCEPT !.written = @ + 1]
    /\ UNCHANGED <<kline, signal, sharp, edition, reports, looks, lost>>
ContestReports ==
    /\ contest.at = "record" /\ contest.written = Len(Specs)
    /\ reports' = reports \union {[program |-> contest.program, edition |-> contest.edition,
                                   chosen |-> contest.chosen, last |-> Len(trialLedger)]}
    /\ contest' = NotRunning
    /\ UNCHANGED <<kline, signal, sharp, edition, trialLedger, looks, lost>>
ContestDies ==
    /\ contest.at # "off"
    /\ ContestEnds

ContestNext ==
    \/ KlinesGrow \/ TournamentStarts \/ ScreenStarts \/ BaselinesStart \/ WalkStarts \/ RunEnds \/ Develops \/ OpensHoldout
    \/ Screens \/ EvaluationRaises \/ RecordsTrial \/ ContestReports \/ ContestDies

(***************************************************************************)
(* Properties.                                                              *)
(***************************************************************************)
LabelEnd(r, label) == IF label = "fixed" THEN r.fixed ELSE r.triple
Causal(split, label) == \A r \in split.train, x \in split.test : LabelEnd(r, label) < x.at
CausalFit(split, label) == Fittable(split) => Causal(split, label) /\ Causal(FitAndTail(split.train), label)
Gapless == \A s \in Asset : kline[s] = LeastOf(kline[s])..GreatestOf(kline[s])

FoldsPartition(s) ==
    LET n == LabelledBars(s)
    IN  \A i \in 1..n : Cardinality({fold \in 1..NFolds : i \in TestPositions(n, NFolds, fold)}) = 1
FoldsArePurged(s) ==
    LET bar == BarsOf(s)
        n == LabelledBars(s)
    IN  \A fold \in 1..NFolds :
            \A i \in TrainPositions(s, NFolds, fold, 1), j \in TestPositions(n, NFolds, fold) :
                    FixedEnd(bar, i) < bar[j] \/ bar[j] + 1 < bar[i]
(* Both backtests of a window read the bar of their seam: selection has seen   *)
(* one of the bars it is judged on, which walk_forward.py:3-9 says of none.    *)
OnlySeamIsShared(s) ==
    \A w \in Windows(0, LastBar, 4, 2, 3) :
        SelectionBars(s, w) \intersect JudgedBars(s, w) = kline[s] \intersect {w.test}

(***************************************************************************)
(* No model is fitted or calibrated on an outcome that was not known before  *)
(* the first row it is applied to: in the tournament, and in the screen,     *)
(* whose folds are purged by the fixed labels while its models learn the     *)
(* triple-barrier ones.  Nothing the screen reads reaches into the used      *)
(* holdout, and without gaps in the klines no label that decided the         *)
(* selection ends inside the tournament's holdout.  Purged folds test each   *)
(* labelled bar once, and train on no label that overlaps the tested time.   *)
(* Walk-forward is the exception: its selection sees the first of the bars   *)
(* it is judged on, and no other.                                            *)
(***************************************************************************)
NothingIsSeenEarly ==
    /\ contest.at = "develop" =>
          LET rows == Dataset
              holdout == HoldoutSplit(rows)
              folds == FoldSplits(rows)
          IN  /\ \A split \in folds \union {holdout} : CausalFit(split, "fixed")
              /\ Gapless => \A split \in folds : \A r \in split.test, x \in holdout.test : r.fixed < x.at
    /\ contest.at = "screen" =>
          LET rows == ScreenRows
          IN  /\ \A split \in FoldSplits(rows) : CausalFit(split, "triple")
              /\ \A r \in rows : r.triple < Consumed
    /\ contest.at = "baselines" => \A s \in Asset : FoldsPartition(s) /\ FoldsArePurged(s)
    /\ contest.at = "walk" => \A s \in Asset : OnlySeamIsShared(s)

(***************************************************************************)
(* A report that was returned has every one of its trials on the ledger,     *)
(* with the holdout marked as used for exactly the selected ones, and no two *)
(* reports were made of one holdout, or of the screen.                       *)
(***************************************************************************)
ReportsAreOnRecord ==
    /\ \A r \in reports : \A t \in Trials : \E i \in DOMAIN trialLedger :
          /\ i <= r.last /\ i > r.last - Len(Specs)
          /\ trialLedger[i] = [program |-> r.program, edition |-> r.edition, trial |-> t, used |-> t \in r.chosen]
    /\ \A r, q \in reports : 
          r.program = q.program /\ r.edition = q.edition /\ (r.program = "tournament" => r.chosen # {} /\ q.chosen # {})
          => r = q

(***************************************************************************)
(* A run looks at a holdout that another run has looked at only when that    *)
(* run ended before a trial it looked with was on the ledger, once for each  *)
(* run so lost.  More the code does not give: it evaluates first and records *)
(* afterwards, so "at most once" (ledger.py:126-130) fails with a run that   *)
(* raises or is killed in between.                                           *)
(***************************************************************************)
LooksAreOnRecord == \A e \in 1..MaxEditions : looks[e] <= lost[e] + 1

(***************************************************************************)
(* What a contest reports of a model can be believed: nothing that it is     *)
(* judged on was known when it was fitted or chosen, but for the one bar of  *)
(* a walk-forward seam; reports that were returned are on the ledger; and a  *)
(* holdout is looked at again only after a run whose look was lost           *)
(* (purged splits; run_tournament; _record_global_trials).                   *)
(***************************************************************************)
ContestIsHonest == NothingIsSeenEarly /\ ReportsAreOnRecord /\ LooksAreOnRecord
=============================================================================
