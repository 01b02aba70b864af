-------------------------------- MODULE Backfill --------------------------------
(***************************************************************************)
(* The REST history of one series of one venue: a download pages through the *)
(* venue's rows, assembles and validates them, and merges them into monthly  *)
(* partitions, while the clock moves on and the venue adds rows.  A slot is  *)
(* a candle (or a settlement of funding, or a sample of open interest) of    *)
(* the series; time is counted in slots.  Downloads of overlapping ranges    *)
(* follow each other, and one may be killed anywhere.                        *)
(***************************************************************************)
EXTENDS Naturals, Integers, FiniteSets

CONSTANTS MaxSlot,     \* bound: the last slot of the clock
          Limit,       \* rows of one page
          MaxPages,    \* requests of one download (MAX_PAGES)
          MaxRuns,     \* bound: downloads
          MaxBreaks    \* bound: downloads killed

(* A page has room for two rows at least: the venues' limits are 200 and up. *)
ASSUME BackfillAssumption == {MaxSlot, MaxRuns, MaxBreaks} \subseteq Nat /\ Limit \in Nat \ {0, 1}
                             /\ MaxPages \in Nat \ {0}

Hour == 0..MaxSlot
Klines == {"bybit", "binance", "okx"}
Feed == Klines \union {"hyperliquid", "funding", "interest"}
(* Series paged from the oldest row on; the others begin with the newest. *)
Forward == {"binance", "hyperliquid"}
(* Series whose partition is rewritten where it is, not merged into a copy. *)
InPlace == {"bybit", "funding", "interest"}

VARIABLES feed,        \* the series
          hour,        \* the slot that is now forming
          unlisted,      \* slots the venue has no row for
          run,         \* the download
          stored,      \* slot -> its row in the partitions
          torn,        \* partitions that a kill left unreadable
          runs, breaks

backfillVars == <<feed, hour, unlisted, run, stored, torn, runs, breaks>>

NoRows == [t \in Hour |-> "none"]
Has(rows) == {t \in Hour : rows[t] # "none"}
NoRun == [stage |-> "idle", from |-> 0, to |-> 0, cursor |-> 0, pages |-> 0,
          began |-> 0, got |-> NoRows]

Low(S) == CHOOSE t \in S : \A u \in S : t <= u
High(S) == CHOOSE t \in S : \A u \in S : t >= u
(* Two partitions; a row belongs to the month of its timestamp. *)
Months == {1, 2}
Month(t) == IF 2 * t < MaxSlot THEN 1 ELSE 2

BackfillInit ==
    /\ feed \in Feed /\ hour = 1
    /\ unlisted \in {S \in SUBSET Hour : Cardinality(S) <= 1}
    /\ run = NoRun /\ stored = NoRows /\ torn = {} /\ runs = 0 /\ breaks = 0

(* A candle is listed while it forms, other rows when their slot is over. *)
Listed == {t \in Hour : (IF feed \in Klines THEN t <= hour ELSE t < hour)} \ unlisted
RowNow(t) == IF t < hour THEN "final" ELSE "forming"

ClockTicks ==
    /\ hour < MaxSlot
    /\ hour' = hour + 1
    /\ UNCHANGED <<feed, unlisted, run, stored, torn, runs, breaks>>

(* A range that ends before it starts raises before any request. *)
FetchRange(from, to) ==
    /\ run.stage \in {"idle", "done"} /\ runs < MaxRuns /\ from <= to
    /\ run' = [stage |-> "fetch", from |-> from, to |-> to, began |-> hour, got |-> NoRows, pages |-> 0,
               cursor |-> IF feed \in Forward THEN from
                          ELSE IF feed = "okx" THEN to + 1 ELSE to]
    /\ runs' = runs + 1
    /\ UNCHANGED <<feed, hour, unlisted, stored, torn, breaks>>

(***************************************************************************)
(* What one request answers: its parameters bound the rows, at most Limit of *)
(* them from the newer or from the older end.                                *)
(***************************************************************************)
Newest(S) == {t \in S : Cardinality({u \in S : u > t}) < Limit}
Oldest(S) == {t \in S : Cardinality({u \in S : u < t}) < Limit}

BybitRows       == Newest(Listed \intersect (run.from..run.cursor))
BinanceRows     == Oldest(Listed \intersect (run.cursor..run.to))
OkxRows         == Newest({t \in Listed : t < run.cursor})    \* "after", and no lower bound
HyperliquidRows == Oldest(Listed \intersect (run.cursor..run.to))
FundingRows     == Newest(Listed \intersect (run.from..run.cursor))
InterestRows    == Newest(Listed \intersect (run.from..run.cursor))
(* The venue's own cursor: it gives one as long as rows remain. *)
InterestCursor  == {t \in Listed \intersect (run.from..run.cursor) : \A u \in InterestRows : t < u}

(***************************************************************************)
(* What the download makes of a page: the rows it keeps, the cursor of the   *)
(* next request, and whether this page was the last.                         *)
(***************************************************************************)
NoMore == [keep |-> {}, next |-> 0, last |-> TRUE]
Backward(rows, next) ==
    [keep |-> rows, next |-> next, last |-> Low(rows) <= run.from \/ Cardinality(rows) < Limit]

BybitPage == LET rows == BybitRows IN IF rows = {} THEN NoMore ELSE Backward(rows, Low(rows) - 1)

BinancePage ==
    LET rows == BinanceRows IN
    IF rows = {} THEN NoMore
    ELSE [keep |-> rows, next |-> High(rows) + 1,
          last |-> High(rows) >= run.to \/ Cardinality(rows) < Limit]

Confirmed(rows) == {t \in rows : RowNow(t) = "final"}

(* A slip: the cursor is taken for inclusive, and steps past the oldest row. *)
Mutant_OkxCursorInclusive ==
    LET rows == OkxRows IN
    IF rows = {} THEN NoMore
    ELSE [Backward(rows, Low(rows) - 1) EXCEPT !.keep = Confirmed(rows)]

(* The cursor moves by all rows of the page, those that are not kept too. *)
OkxPage ==
    LET rows == OkxRows IN
    IF rows = {} THEN NoMore
    ELSE [Backward(rows, Low(rows)) EXCEPT !.keep = Confirmed(rows)]

(* A short page does not end it: a single row does, or a page seen before. *)
HyperliquidPage ==
    LET rows == HyperliquidRows IN
    IF rows = {} THEN NoMore
    ELSE [keep |-> rows, next |-> High(rows) + 1,
          last |-> \/ Has(run.got) # {} /\ High(rows) <= High(Has(run.got))
                   \/ High(rows) >= run.to \/ Cardinality(rows) < 2]

FundingPage == LET rows == FundingRows IN IF rows = {} THEN NoMore ELSE Backward(rows, Low(rows) - 1)

InterestPage == [keep |-> InterestRows, last |-> InterestCursor = {},
                 next |-> IF InterestCursor = {} THEN 0 ELSE High(InterestCursor)]

Page == CASE feed = "bybit" -> BybitPage [] feed = "binance" -> BinancePage
          [] feed = "okx" -> OkxPage [] feed = "hyperliquid" -> HyperliquidPage
          [] feed = "funding" -> FundingPage [] feed = "interest" -> InterestPage

(* Of two rows of one slot the first stays. *)
FirstKept(rows, more) == [t \in Hour |-> IF rows[t] # "none" THEN rows[t] ELSE more[t]]

(* The loop of requests ends with the last page, and after MaxPages of them in any
   case: what is left of the range is not asked for, and nobody is told. *)
Mutant_OnePageLess == run.pages + 2 >= MaxPages
PagesUsedUp == run.pages + 1 = MaxPages

FetchPage ==
    /\ run.stage = "fetch"
    /\ LET fresh == [t \in Hour |-> IF t \in Page.keep THEN RowNow(t) ELSE "none"] IN
       run' = [run EXCEPT !.got = FirstKept(@, fresh), !.cursor = Page.next, !.pages = @ + 1,
                          !.stage = IF Page.last \/ PagesUsedUp THEN "fetched" ELSE "fetch"]
    /\ UNCHANGED <<feed, hour, unlisted, stored, torn, runs, breaks>>

(* A request that fails raises, and nothing of the job is written. *)
RequestFails ==
    /\ run.stage = "fetch"
    /\ run' = NoRun
    /\ UNCHANGED <<feed, hour, unlisted, stored, torn, runs, breaks>>

(***************************************************************************)
(* Validation: candles with a gap, or with prices that cannot be right, are  *)
(* not written; a candle that still forms is expected, and is.  The other    *)
(* series are written as they are.                                           *)
(***************************************************************************)
Within == [t \in Hour |-> IF t \in run.from..run.to THEN run.got[t] ELSE "none"]
HasGap(rows) == \E t \in Hour \ rows : \E u, v \in rows : u < t /\ t < v

IsValid(rows, anomalous) == feed \in Klines => ~anomalous /\ ~HasGap(rows)

Validate(anomalous) ==
    /\ run.stage = "fetched"
    /\ run' = IF Has(Within) = {} \/ ~IsValid(Has(Within), anomalous)
              THEN NoRun
              ELSE [run EXCEPT !.got = Within, !.cursor = 1, !.stage = "write"]
    /\ UNCHANGED <<feed, hour, unlisted, stored, torn, runs, breaks>>

(***************************************************************************)
(* The months of the frame, one after the other (the cursor): what is there  *)
(* is read, the new rows follow it, and of two rows of one slot the first    *)
(* stays.  A partition that cannot be read raises.                           *)
(***************************************************************************)
MonthOf(m, rows) == [t \in Hour |-> IF Month(t) = m THEN rows[t] ELSE "none"]

WriteMonth ==
    LET m == run.cursor
        group == MonthOf(m, run.got)
    IN
    /\ run.stage = "write" /\ m \in Months
    /\ IF m \in torn /\ Has(group) # {}
       THEN run' = NoRun /\ UNCHANGED stored
       ELSE /\ stored' = FirstKept(stored, group)
            /\ run' = [run EXCEPT !.cursor = @ + 1]
    /\ UNCHANGED <<feed, hour, unlisted, torn, runs, breaks>>

DownloadEnds ==
    /\ run.stage = "write" /\ run.cursor \notin Months
    /\ run' = [run EXCEPT !.stage = "done"]
    /\ UNCHANGED <<feed, hour, unlisted, stored, torn, runs, breaks>>

(* A merge is prepared in a temporary file; a file that is rewritten where it
   is has lost its rows when the process dies in between. *)
DownloadKilled ==
    /\ run.stage \in {"fetch", "fetched", "write"} /\ breaks < MaxBreaks
    /\ breaks' = breaks + 1 /\ run' = NoRun
    /\ \/ UNCHANGED <<stored, torn>>
       \/ /\ run.stage = "write" /\ feed \in InPlace
          /\ run.cursor \in Months \ torn /\ Has(MonthOf(run.cursor, run.got)) # {}
          /\ torn' = torn \union {run.cursor}
          /\ stored' = [t \in Hour |-> IF Month(t) = run.cursor THEN "none" ELSE stored[t]]
    /\ UNCHANGED <<feed, hour, unlisted, runs>>

BackfillNext ==
    \/ ClockTicks
    \/ \E from, to \in Hour : FetchRange(from, to)
    \/ FetchPage \/ RequestFails
    \/ \E anomalous \in BOOLEAN : Validate(anomalous)
    \/ WriteMonth \/ DownloadEnds \/ DownloadKilled

BackfillSpec == BackfillInit /\ [][BackfillNext]_backfillVars

(***************************************************************************)
(* Readers: the coverage audit of a job, and the candles that the            *)
(* point-in-time reader takes for closed.                                    *)
(***************************************************************************)
Coverage(from, to) ==
    LET rows == Has(stored) IN
    [errors |-> torn # {}, gaps |-> HasGap(rows),
     status |-> IF rows = {} THEN "MISSING"
                ELSE IF Low(rows) <= from + 1 /\ High(rows) >= to - 1 THEN "FULL" ELSE "PARTIAL"]

SelectClosed == {t \in Has(stored) : t + 1 <= hour}

(***************************************************************************)
(* Properties                                                                *)
(***************************************************************************)
(* A download that ends has brought every row of its range that the venue    *)
(* had when it began, whatever the paging, the direction of the cursor, the  *)
(* rows the venue added meanwhile, or the earlier downloads and kills; only  *)
(* a range of more slots than MaxPages pages hold may lack rows, and then    *)
(* none but those beyond all that the download brought, at the far end.      *)
RangeIsWhole ==
    run.stage = "done" =>
        \A t \in (run.from..run.to) \ unlisted : t < run.began /\ t \notin Has(stored) =>
            /\ run.to - run.from >= MaxPages * Limit
            /\ \A u \in Has(run.got) : IF feed \in Forward THEN u < t ELSE t < u

(* OKX's partitions hold no candle that was still forming. *)
OkxIsFinal == feed = "okx" => \A t \in Hour : stored[t] # "forming"

(* A job that the audit calls FULL, without gaps or errors, has every row    *)
(* between its ends.                                                         *)
FullIsWhole ==
    \A from, to \in Hour :
        LET audit == Coverage(from, to) IN
        audit.status = "FULL" /\ ~audit.gaps /\ ~audit.errors
            => \A t \in (from + 1)..(to - 1) : t \in Has(stored)

(* What a repeated download may rely on. *)
HistoryIsWhole == RangeIsWhole /\ OkxIsFinal /\ FullIsWhole

(* "The final 1-minute REST row can still be forming at download time and    *)
(* must be excluded by the point-in-time dataset builder": a candle that the *)
(* reader takes for closed holds what it was when it closed.                 *)
EligibleIsFinal == feed \in Klines => \A t \in SelectClosed : stored[t] = "final"
==================================================================================
