-------------------------------- MODULE SilverRows --------------------------------
(***************************************************************************)
(* One raw part becomes Silver rows (data/normalized_event.py and its four   *)
(* siblings): each venue names sides, aggressors, deletions and its own      *)
(* sequence in its own way, and the rows must not.                           *)
(*                                                                         *)
(* A raw event is [n, channel, type, about, body]: the order of receipt,     *)
(* which is also its id, the channel and the type the adapter gave it, the   *)
(* instrument that its body names ("own", "other", or "many" if the body     *)
(* names several, whose symbol is "MULTI"), and the body in the venue's       *)
(* words.  Prices and texts of numbers are left out: one price per side, and  *)
(* a size that is not a number is -1.                                        *)
(***************************************************************************)
EXTENDS Integers, Sequences, FiniteSets, SequencesExt

CONSTANT MaxMessages    \* bound: messages after the first snapshot

ASSUME SilverAssumption == MaxMessages \in Nat

VARIABLES
    source,      \* the venue
    published,   \* what happened there: a sequence of events in no venue's words
    rawPart,      \* the raw events of the part
    silver       \* [at, rows, skipped]

silverVars == <<source, published, rawPart, silver>>

SourceVenues == {"bybit", "binance", "okx", "deribit", "coinbase"}
Untold == "untold"
NoRows == [at |-> "open", rows |-> <<>>, skipped |-> 0]
Refusal == <<[record |-> "refused"]>>    \* NormalizationError

(* _side, _decimal_text and their copies. *)
Sided(side) == side \in {"buy", "sell"}
NotNegative(size) == size >= 0
Positive(size) == size > 0
ActionOf(size) == IF size = 0 THEN "delete" ELSE "upsert"

(* The rows of a sequence of levels: bids before asks, each in its order. *)
LevelRow(l) == [record |-> "book_level", side |-> l.side, action |-> ActionOf(l.size), size |-> l.size]
OnSide(levels, side) == SelectSeq(levels, LAMBDA l : l.side = side)
BidsThenAsks(levels) == OnSide(levels, "bid") \o OnSide(levels, "ask")
RowsOfLevels(levels) == LET seq == BidsThenAsks(levels) IN [i \in DOMAIN seq |-> LevelRow(seq[i])]
SizesHold(levels) == \A i \in DOMAIN levels : NotNegative(levels[i].size)
Typed(m) == m.type \in {"snapshot", "delta"}
TradeRow1(side, size) == <<[record |-> "trade", side |-> side, size |-> size]>>
Metrics(m) == <<[record |-> "ticker_metric", value |-> m.body.value]>>
Liquidated(side, size) == <<[record |-> "liquidation", side |-> side, size |-> size]>>

-----------------------------------------------------------------------------
(* Bybit: trades and liquidations carry "Buy" and "Sell" of the taker.       *)
BybitBookRows(m) == IF Typed(m) /\ SizesHold(m.body.levels) THEN RowsOfLevels(m.body.levels) ELSE Refusal
BybitTradeRows(m) == IF Sided(m.body.S) /\ Positive(m.body.size) THEN TradeRow1(m.body.S, m.body.size) ELSE Refusal
BybitLiquidationRows(m) ==
    IF Sided(m.body.S) /\ Positive(m.body.size) THEN Liquidated(m.body.S, m.body.size) ELSE Refusal
BybitTickerRows(m) == Metrics(m)
BybitSkips(m) == m.channel = "control"
BybitRows(m) ==
    IF BybitSkips(m) THEN <<>>
    ELSE CASE m.channel = "orderbook" -> BybitBookRows(m)
           [] m.channel = "trades" -> BybitTradeRows(m)
           [] m.channel = "liquidations" -> BybitLiquidationRows(m)
           [] OTHER -> BybitTickerRows(m)

(* Binance: the flag m says that the buyer was the maker; its ids are a      *)
(* range; the snapshots that the collector wrote itself have no rows.        *)
Mutant_EmptyRangePasses(m) == TRUE
BinanceRangeHolds(m) == m.body.first <= m.body.last
BinanceBookRows(m) ==
    IF BinanceRangeHolds(m) /\ SizesHold(m.body.levels) THEN RowsOfLevels(m.body.levels) ELSE Refusal
Mutant_MakerFlagIsSide(m) == IF m.body.m THEN "buy" ELSE "sell"
BinanceTaker(m) == IF m.body.m THEN "sell" ELSE "buy"
BinanceTradeRows(m) == IF Positive(m.body.size) THEN TradeRow1(BinanceTaker(m), m.body.size) ELSE Refusal
BinanceLiquidationRows(m) ==
    IF Sided(m.body.S) /\ Positive(m.body.size) THEN Liquidated(m.body.S, m.body.size) ELSE Refusal
BinanceTickerRows(m) == Metrics(m)
BinanceSkips(m) == m.channel = "control" \/ m.type = "snapshot"
BinanceRows(m) ==
    IF BinanceSkips(m) THEN <<>>
    ELSE CASE m.channel = "orderbook" -> BinanceBookRows(m)
           [] m.channel = "trades" -> BinanceTradeRows(m)
           [] m.channel = "liquidations" -> BinanceLiquidationRows(m)
           [] OTHER -> BinanceTickerRows(m)

(* OKX: the body may name its instrument again.                              *)
OkxNamesIt(m) == m.about \in {"own", Untold}
OkxBookRows(m) == IF Typed(m) /\ SizesHold(m.body.levels) THEN RowsOfLevels(m.body.levels) ELSE Refusal
OkxTradeRows(m) == IF Sided(m.body.side) /\ Positive(m.body.size) THEN TradeRow1(m.body.side, m.body.size) ELSE Refusal
OkxTickerRows(m) == Metrics(m)
OkxSkips(m) == m.channel = "control"
OkxRows(m) ==
    IF OkxSkips(m) THEN <<>>
    ELSE IF ~OkxNamesIt(m) THEN Refusal
    ELSE CASE m.channel = "orderbook" -> OkxBookRows(m)
           [] m.channel = "trades" -> OkxTradeRows(m)
           [] m.channel = "ticker" -> OkxTickerRows(m)
           [] OTHER -> Refusal

(* Deribit: levels say themselves that they are new, changed or deleted.     *)
DeribitNamesIt(m) == m.about = "own"
DeribitActionHolds(l) ==
    /\ l.action \in {"new", "change", "delete"}
    /\ l.action = "delete" => l.size = 0
Mutant_NewOnly(l) == IF l.action = "new" THEN "upsert" ELSE "delete"
DeribitAction(l) == IF l.action = "delete" THEN "delete" ELSE "upsert"
DeribitBookRows(m) ==
    IF Typed(m) /\ SizesHold(m.body.levels) /\ \A i \in DOMAIN m.body.levels : DeribitActionHolds(m.body.levels[i])
    THEN LET seq == BidsThenAsks(m.body.levels)
         IN  [i \in DOMAIN seq |-> [LevelRow(seq[i]) EXCEPT !.action = DeribitAction(seq[i])]]
    ELSE Refusal
DeribitTradeRows(m) ==
    IF Sided(m.body.direction) /\ Positive(m.body.size) THEN TradeRow1(m.body.direction, m.body.size) ELSE Refusal
DeribitTickerRows(m) == Metrics(m)
DeribitSkips(m) == m.channel = "control"
DeribitRows(m) ==
    IF DeribitSkips(m) THEN <<>>
    ELSE IF ~DeribitNamesIt(m) THEN Refusal
    ELSE CASE m.channel = "orderbook" -> DeribitBookRows(m)
           [] m.channel = "trades" -> DeribitTradeRows(m)
           [] m.channel = "ticker" -> DeribitTickerRows(m)
           [] OTHER -> Refusal

(* Coinbase: "offer" for ask, both sides in one list, and the maker's side.  *)
CoinbaseNamesIt(m) == m.about = "own"
CoinbaseSide(l) == IF l.side = "offer" THEN "ask" ELSE "bid"
CoinbaseBookRows(m) ==
    IF Typed(m) /\ SizesHold(m.body.levels)
    THEN [i \in DOMAIN m.body.levels |-> [LevelRow(m.body.levels[i]) EXCEPT !.side = CoinbaseSide(m.body.levels[i])]]
    ELSE Refusal
Mutant_MakerSideKept(m) == m.body.side
CoinbaseTaker(m) == IF m.body.side = "buy" THEN "sell" ELSE "buy"
CoinbaseTradeRows(m) ==
    IF Sided(m.body.side) /\ Positive(m.body.size) THEN TradeRow1(CoinbaseTaker(m), m.body.size) ELSE Refusal
CoinbaseTickerRows(m) == Metrics(m)
CoinbaseSkips(m) == m.channel = "control"
CoinbaseRows(m) ==
    IF CoinbaseSkips(m) THEN <<>>
    ELSE IF ~CoinbaseNamesIt(m) THEN Refusal
    ELSE CASE m.channel = "orderbook" -> CoinbaseBookRows(m)
           [] m.channel = "trades" -> CoinbaseTradeRows(m)
           [] m.channel = "ticker" -> CoinbaseTickerRows(m)
           [] OTHER -> Refusal

NormalizersByVenue(m) ==
    CASE source = "bybit" -> BybitRows(m) [] source = "binance" -> BinanceRows(m) [] source = "okx" -> OkxRows(m)
      [] source = "deribit" -> DeribitRows(m) [] OTHER -> CoinbaseRows(m)

(* A row's lineage: the raw event, its message type and the row's index.     *)
Built(m, rows) == [i \in DOMAIN rows |-> [of |-> m.n, type |-> m.type, index |-> i, row |-> rows[i]]]
Skipped(m) ==
    CASE source = "bybit" -> BybitSkips(m) [] source = "binance" -> BinanceSkips(m) [] source = "okx" -> OkxSkips(m)
      [] source = "deribit" -> DeribitSkips(m) [] OTHER -> CoinbaseSkips(m)

(* The whole part, in the order of receipt, or nothing of it. *)
NormalizedPart ==
    FoldLeft(LAMBDA st, m :
                IF st.at = "refused" \/ NormalizersByVenue(m) = Refusal THEN [NoRows EXCEPT !.at = "refused"]
                ELSE [st EXCEPT !.rows = @ \o Built(m, NormalizersByVenue(m)),
                                !.skipped = IF Skipped(m) THEN @ + 1 ELSE @],
             [NoRows EXCEPT !.at = "done"], SetToSortSeq(rawPart, LAMBDA a, b : a.n < b.n))
Normalizes ==
    /\ silver.at = "open" /\ rawPart # {}
    /\ silver' = NormalizedPart
    /\ UNCHANGED <<source, published, rawPart>>

-----------------------------------------------------------------------------
(* The venues: what happens and how each of them says it.  A book event      *)
(* lists new sizes, one after the other, of the sides it touches.            *)
BookSides == {"bid", "ask"}
Levels == UNION {[1..k -> [side : BookSides, size : 0..1]] : k \in 0..2}
Happenings ==
    [what : {"book"}, type : {"snapshot", "delta"}, levels : Levels]
      \union [what : {"trade"}, taker : {"buy", "sell"}]
      \union [what : {"liquidation"}, side : {"buy", "sell"}]
      \union {[what |-> "ticker"], [what |-> "control"]}

BookEvents == {i \in DOMAIN published : published[i].what = "book"}
Applied(book, levels) == FoldLeft(LAMBDA b, l : [b EXCEPT ![l.side] = l.size], book, levels)
BookAt(n) ==
    FoldLeft(LAMBDA b, i : IF published[i].what # "book" THEN b
                           ELSE Applied(IF published[i].type = "snapshot" THEN [s \in BookSides |-> 0] ELSE b, published[i].levels),
             [s \in BookSides |-> 0], [i \in 1..n |-> i])

OtherSide(side) == IF side = "buy" THEN "sell" ELSE "buy"
DeribitWord(before, l) == IF l.size = 0 THEN "delete" ELSE IF before = 0 THEN "new" ELSE "change"
LevelInWords(h, i, n) ==
    LET l == h.levels[i]
        from == IF h.type = "snapshot" THEN [s \in BookSides |-> 0] ELSE BookAt(n - 1)
        before == Applied(from, SubSeq(h.levels, 1, i - 1))[l.side]
    IN  CASE source = "deribit" -> [side |-> l.side, size |-> l.size, action |-> DeribitWord(before, l)]
          [] source = "coinbase" -> [side |-> IF l.side = "ask" THEN "offer" ELSE "bid", size |-> l.size]
          [] OTHER -> l
BookInWords(h, n) ==
    [levels |-> [i \in DOMAIN h.levels |-> LevelInWords(h, i, n)], first |-> 2 * n - 1, last |-> 2 * n]
TradeInWords(taker) ==
    CASE source = "bybit" -> [S |-> taker, size |-> 1]
      [] source = "binance" -> [m |-> taker = "sell", size |-> 1]
      [] source = "okx" -> [side |-> taker, size |-> 1]
      [] source = "deribit" -> [direction |-> taker, size |-> 1]
      [] OTHER -> [side |-> OtherSide(taker), size |-> 1]
InWords(h, n) ==
    CASE h.what = "book" -> [n |-> n, channel |-> "orderbook", type |-> h.type, about |-> "own", body |-> BookInWords(h, n)]
      [] h.what = "trade" -> [n |-> n, channel |-> "trades", type |-> "trade", about |-> "own", body |-> TradeInWords(h.taker)]
      [] h.what = "liquidation" ->
            [n |-> n, channel |-> "liquidations", type |-> "trade", about |-> "own", body |-> [S |-> h.side, size |-> 1]]
      [] h.what = "ticker" -> [n |-> n, channel |-> "ticker", type |-> "ticker", about |-> "own", body |-> [value |-> n]]
      [] OTHER -> [n |-> n, channel |-> "control", type |-> "control", about |-> Untold, body |-> [value |-> n]]

(* A body that cannot be right: sizes, sides, ids or the instrument.         *)
SpoiltBodies(m) ==
    (IF m.channel = "orderbook" /\ m.body.levels # <<>> /\ ~(source = "binance" /\ m.type = "snapshot")
     THEN {[m EXCEPT !.body.levels[1].size = -1]}
            \union (IF source = "binance" THEN {[m EXCEPT !.body.first = m.body.last + 1]} ELSE {})
            \union (IF source = "deribit" THEN {[m EXCEPT !.body.levels[1] = [@ EXCEPT !.action = "delete", !.size = 1]]} ELSE {})
     ELSE {})
      \union (IF m.channel \in {"trades", "liquidations"} THEN {[m EXCEPT !.body.size = 0]} ELSE {})
      \union (IF m.channel = "trades" /\ source = "bybit" THEN {[m EXCEPT !.body.S = Untold]} ELSE {})
      \union (IF m.channel = "trades" /\ source \in {"okx", "coinbase"} THEN {[m EXCEPT !.body.side = Untold]} ELSE {})
      \union (IF m.channel = "trades" /\ source = "deribit" THEN {[m EXCEPT !.body.direction = Untold]} ELSE {})
      \union (IF m.channel \in {"orderbook", "trades", "ticker"} /\ source \in {"okx", "deribit", "coinbase"}
              THEN {[m EXCEPT !.about = "other"]} ELSE {})
      \union (IF m.channel = "trades" /\ source \in {"deribit", "coinbase"} THEN {[m EXCEPT !.about = "many"]} ELSE {})

SilverRowsInit ==
    /\ source \in SourceVenues
    /\ published = <<>> /\ rawPart = {} /\ silver = NoRows

(* Liquidations are subscribed to on two venues; a venue's first book        *)
(* message is a snapshot.                                                    *)
Possible(h) ==
    /\ h.what = "liquidation" => source \in {"bybit", "binance"}
    /\ h.what = "book" /\ BookEvents = {} => h.type = "snapshot"
    /\ h.what = "book" /\ h.type = "snapshot" => \A i \in DOMAIN h.levels : h.levels[i].size > 0
Publishes ==
    /\ silver.at = "open" /\ Len(published) <= MaxMessages
    /\ \E h \in Happenings :
          /\ Possible(h)
          /\ published' = Append(published, h)
          /\ \E spoilt \in BOOLEAN :
                \E m \in IF spoilt THEN SpoiltBodies(InWords(h, Len(published) + 1)) ELSE {InWords(h, Len(published) + 1)} :
                    rawPart' = rawPart \union {m}
    /\ UNCHANGED <<source, silver>>

SilverRowsNext == Publishes \/ Normalizes

-----------------------------------------------------------------------------
AsPublished(m) == m = InWords(published[m.n], m.n)

(* The book that a reader of the rows has after the raw event n: the sides   *)
(* that it was told of.                                                      *)
ReadLevel(book, row) == [book EXCEPT ![row.side] = IF row.action = "delete" THEN 0 ELSE row.size]
ReadBook(n) ==
    FoldLeft(LAMBDA b, r : IF r.row.record # "book_level" \/ r.of > n THEN b ELSE ReadLevel(b, r.row),
             [s \in BookSides |-> -1], silver.rows)
StartsAfresh(n) == published[n].what = "book" /\ published[n].type = "snapshot"
LastFresh(n) == Max({i \in 1..n : StartsAfresh(i)} \union {0})
Told(n, s) ==
    \E r \in ToSet(silver.rows) : r.of \in LastFresh(n)..n /\ r.row.record = "book_level" /\ r.row.side = s
BooksAgree ==
    \A n \in BookEvents : \A s \in BookSides : Told(n, s) => ReadBook(n)[s] = BookAt(n)[s]
TradesAgree ==
    \A n \in DOMAIN published :
        published[n].what = "trade" =>
            \E r \in ToSet(silver.rows) : r.of = n /\ r.row.record = "trade" /\ r.row.side = published[n].taker

(* Every raw event has its rows, in order, or is counted as skipped, or says *)
(* nothing.                                                                  *)
NothingIsDropped ==
    LET heard == {silver.rows[i].of : i \in DOMAIN silver.rows}
        silent == {n \in BookEvents : published[n].levels = <<>>}
    IN  /\ Cardinality(DOMAIN published \ (heard \union silent)) <= silver.skipped
        /\ \A i, j \in DOMAIN silver.rows :
              i < j => \/ silver.rows[i].of < silver.rows[j].of
                       \/ silver.rows[i].of = silver.rows[j].of /\ silver.rows[i].index < silver.rows[j].index

(***************************************************************************)
(* Silver rows say what happened at the venue, whichever it is, all of it    *)
(* and in order, and a part with one message that cannot be right has none   *)
(* (normalize_*_events; normalized_event.py: "without guessing").            *)
(***************************************************************************)
SilverIsTrue ==
    /\ silver.at = "done" => BooksAgree /\ TradesAgree /\ NothingIsDropped
    /\ silver.at # "open" => (silver.at = "done" <=> \A m \in rawPart : AsPublished(m))
=================================================================================
