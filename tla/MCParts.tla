--------------------------------- MODULE MCParts ---------------------------------
(***************************************************************************)
(* Parts for TLC that share nothing: the order store and the lifecycle store *)
(* (two files), a venue's feed and the portfolio risk engine.  Their         *)
(* interleavings say no more than each of them, so an initial choice says    *)
(* which one moves.                                                          *)
(*   Order store: two orders of up to two units, three executions with two   *)
(* possible contents, one symbol, two leg groups.                            *)
(*   Lifecycle store: two observations, two order ids, one UTC day with room *)
(* for two entries.                                                          *)
(*   Feed: each of the five venues, two connections, two faults.             *)
(*   Risk engine: three keys over shared symbols and venues, two levels of   *)
(* equity, two UTC days (MCPortfolioRisk).                                   *)
(*   Gold of trades: every tape of three trades over one or two connections,  *)
(* or one tape whose parts are unsound or late and a build is killed.        *)
(*   Gold of the book: every five updates of a book around midnight, one     *)
(* pause, one message lost, a snapshot on the same or a new connection.      *)
(*   Silver rows: each venue's first two messages, every one of them also    *)
(* spoilt.                                                                   *)
(*   Gold of bars: every pair of bars missing, any partition unreadable.     *)
(*   Analogs: every history of six bars of three kinds, a query with up to   *)
(* two bars after it.  Calibration: every order beside two others and every  *)
(* quote tape of the list.  Stakes: a day of six moves.                      *)
(***************************************************************************)
EXTENDS PaperOrders, TradeState, VenueFeeds, MCPortfolioRisk, BookGold, SilverRows, HistoricalAnalogs, ExecutionCalibration, DemoStakes

VARIABLE focus    \* the part that moves

MCPnl == {-1, 0, 1}

(* Trades of a day, in the order of receipt, and the parts they are in. *)
TradeKind == {[side |-> "buy", price |-> 2], [side |-> "sell", price |-> 1]}
Tapes ==
    {t \in [1..3 -> [conn : {1, 2}, at : 0..5, late : {0, 2}, kind : TradeKind]] :
        t[1].conn = 1 /\ \A i \in 1..2 : t[i].at <= t[i + 1].at}
RowOfTape(t, i) ==
    [conn |-> t[i].conn, n |-> i, at |-> t[i].at, ts |-> t[i].at - t[i].late, side |-> t[i].kind.side, price |-> t[i].kind.price]
PartsOf(t) == {[rows |-> {RowOfTape(t, i) : i \in {j \in 1..3 : t[j].conn = c}}, sound |-> TRUE] : c \in {t[i].conn : i \in 1..3}}
PlainTape == [i \in 1..3 |-> [conn |-> IF i = 3 THEN 2 ELSE 1, at |-> 2 * i - 1, late |-> 0, kind |-> [side |-> "buy", price |-> 2]]]
Judged(ps, bad) == {[p EXCEPT !.sound = p \notin bad] : p \in ps}
AnyTape == \E t \in Tapes : parts = PartsOf(t) /\ sealedLate = {} /\ stops = MaxStops /\ builds = MaxBuilds - 1
OneTape ==
    \E waiting, bad \in SUBSET PartsOf(PlainTape) :
        parts = Judged(PartsOf(PlainTape) \ waiting, bad) /\ sealedLate = Judged(waiting, bad) /\ stops = 0 /\ builds = 0

(* Updates of a book and the messages that are received of them: from which  *)
(* on there is a pause, which is a snapshot again, which is lost.            *)
Deltas == {("bid" :> 2), ("bid" :> 1), ("ask" :> 2), ("ask" :> 0)}
BooksAfter(d) == LET b[i \in 0..5] == IF i = 0 THEN [s \in Sides |-> 1] ELSE Changed(b[i - 1], d[i]) IN b
BookMessage(d, snap, c, i, at) ==
    [conn |-> c, id |-> i, at |-> at, kind |-> IF i \in {1, snap} THEN "snapshot" ELSE "delta",
     levels |-> IF i \in {1, snap} THEN BooksAfter(d)[i] ELSE d[i]]
AnyBook ==
    \E d \in [1..5 -> Deltas], pause \in {-1, 0, 1, 3}, snap \in {0} \union 2..4, lost \in 0..5, reconnect, bad \in BOOLEAN :
        LET At(i) == IF i - 3 < pause THEN i - 3 ELSE i + 1
            Conn(i) == IF reconnect /\ i >= snap THEN 2 ELSE 1
            msgs == {BookMessage(d, snap, Conn(i), i, At(i)) : i \in 1..5 \ {lost}}
            part(c, early) == SetToSortSeq({m \in msgs : m.conn = c /\ (m.at < 0) = early}, LAMBDA a, b : a.at < b.at)
        IN  /\ d[1] = ("bid" :> 2) /\ \A i \in 1..4, s \in Sides : BooksAfter(d)[i][s] > 0
            /\ (bad => reconnect) /\ (reconnect => snap # 0)
            /\ venueBooks = BooksAfter(d)
            /\ bookParts = {[msgs |-> part(c, early), sound |-> ~(bad /\ c = 2)] :
                               <<c, early>> \in {x \in {1, 2} \X BOOLEAN : part(x[1], x[2]) # <<>>}}

AnyBars ==
    /\ have \in {0..7 \ {x, y} : x, y \in 0..8} /\ unreadable \in SUBSET {0, 1}
    /\ barClock \in 7..8

(* Six bars: which feature, which of them higher, of another regime, unsound. *)
AnyFrame ==
    \E f \in {g \in [1..6 -> {0, 1, 4}] : g[6] = 1}, up \in {{}, {2, 3}, {2, 4, 6}}, other \in {{}, {1, 4}, {2, 3}}, bad \in {0, 2, 5} :
        frame = [i \in 1..6 |-> [at |-> i, close |-> IF i \in up THEN 2 ELSE 1, regime |-> IF i \in other THEN "range" ELSE "trend",
                                 sound |-> i # bad, feature |-> f[i]]]

(* An order in every way it can go, beside two that went well, and quotes. *)
AnyOrder ==
    {[side |-> s, asked |-> 2, decided |-> d, sent |-> d + l, resolved |-> d + l + r, price |-> IF f = 0 THEN 0 ELSE p, filled |-> f] :
        s \in {"buy", "sell"}, d \in {2, 3}, l \in {0, 1}, r \in {0, 2}, p \in {5, 7}, f \in 0..2}
GoodOrder == [side |-> "buy", asked |-> 2, decided |-> 3, sent |-> 3, resolved |-> 3, price |-> 6, filled |-> 2]
QuoteAt(t, n, b) == [at |-> t, seq |-> n, bid |-> b, ask |-> b + n]
AnyObservations ==
    /\ \E o \in AnyOrder, s \in {"buy", "sell"}, f \in {0, 1} :
          observed = <<o, [GoodOrder EXCEPT !.side = s, !.filled = f, !.price = IF f = 0 THEN 0 ELSE 6], [GoodOrder EXCEPT !.resolved = 4]>>
    /\ \E ts \in {{}, {0}, {2}, {0, 4}, {2, 4, 6}, {6}}, two \in {5, 6} :
          quotes = {QuoteAt(t, 1, 5) : t \in ts} \union {QuoteAt(3, 2, two)}

(* Candles that do not move, that move, and that move far; a market that does. *)
CandleOf(high, low, close) == [high |-> high, low |-> low, close |-> close]
SomeCandles ==
    {<<CandleOf(1000, 1000, 1000), CandleOf(1001, 1000, 1000), CandleOf(1000, 1000, 1000)>>,
     <<CandleOf(1000, 999, 1000), CandleOf(1004, 1000, 1002), CandleOf(1003, 999, 1000)>>,
     <<CandleOf(1000, 999, 1000), CandleOf(1020, 1000, 1002), CandleOf(1030, 999, 1000)>>}
SomeMoves == {-3, 2}

PartsInit ==
    /\ OrdInit /\ StInit /\ FeedInit /\ RiskInit /\ TradeGoldIdle /\ BookGoldInit /\ built = {} /\ SilverRowsInit
    /\ focus \in {"orders", "trades", "feed", "risk", "tradegold", "bookgold", "bargold", "silver", "analogs", "calibration", "stakes"}
    /\ focus # "feed" => venue = "okx"
    /\ focus # "silver" => source = "okx"
    /\ IF focus = "tradegold" THEN AnyTape \/ OneTape
       ELSE parts = {} /\ sealedLate = {} /\ builds = 0 /\ stops = 0
    /\ IF focus = "bookgold" THEN AnyBook ELSE venueBooks = <<>> /\ bookParts = {}
    /\ IF focus = "bargold" THEN AnyBars ELSE have = {} /\ unreadable = {} /\ barClock = 0
    /\ AnalogInit /\ CalibrationInit /\ StakesInit
    /\ IF focus = "analogs" THEN AnyFrame /\ cutoff \in 4..6 ELSE frame = <<>> /\ cutoff = 0
    /\ IF focus = "calibration" THEN AnyObservations /\ calibratedAt \in {3, 6} ELSE observed = <<>> /\ quotes = {} /\ calibratedAt = 0

storeVars == <<ordVars, stVars>>
dayVars == <<goldVars, bookVars, barGoldVars, silverVars>>
lessonVars == <<analogVars, calVars, stakesVars>>
partsVars == <<storeVars, feedVars, riskVars, dayVars, lessonVars>>

DayNext ==
    \/ focus = "tradegold" /\ UNCHANGED <<bookVars, barGoldVars, silverVars>> /\ TradeGoldNext
    \/ focus = "bookgold" /\ UNCHANGED <<goldVars, barGoldVars, silverVars>> /\ BookGoldNext
    \/ focus = "bargold" /\ UNCHANGED <<goldVars, bookVars, silverVars>> /\ BarGoldNext
    \/ focus = "silver" /\ UNCHANGED <<goldVars, bookVars, barGoldVars>> /\ SilverRowsNext
LessonNext ==
    \/ focus = "analogs" /\ UNCHANGED <<calVars, stakesVars>> /\ Searches
    \/ focus = "calibration" /\ UNCHANGED <<analogVars, stakesVars>> /\ CalibrationNext
    \/ focus = "stakes" /\ UNCHANGED <<analogVars, calVars>> /\ StakesNext

PartsNext ==
    /\ UNCHANGED focus
    /\ \/ focus = "orders" /\ UNCHANGED <<stVars, feedVars, riskVars, dayVars, lessonVars>> /\ OrdNext
       \/ focus = "trades" /\ UNCHANGED <<ordVars, feedVars, riskVars, dayVars, lessonVars>> /\ StNext
       \/ focus = "feed" /\ UNCHANGED <<storeVars, riskVars, dayVars, lessonVars>> /\ FeedNext
       \/ focus = "risk" /\ UNCHANGED <<storeVars, feedVars, dayVars, lessonVars>> /\ RiskNext
       \/ UNCHANGED <<storeVars, feedVars, riskVars, lessonVars>> /\ DayNext
       \/ UNCHANGED <<storeVars, feedVars, riskVars, dayVars>> /\ LessonNext

PartsSpec == PartsInit /\ [][PartsNext]_<<partsVars, focus>>

-----------------------------------------------------------------------------
(* What is kept of a day says what happened on it: the rows of Silver what   *)
(* the venue said (normalize_*_events), the features of Gold what its closed *)
(* source says (features/*_materialization.py).                              *)
DayIsTrue == SilverIsTrue /\ GoldIsTrue

(* What is learnt from the past is of the past (find_historical_analogs,     *)
(* calibrate_execution): the analogs of a moment and the costs of an order   *)
(* rest on what was known then.                                              *)
LessonsAreCausal == AnalogsAreCausal /\ CalibrationIsCausal
================================================================================
