-------------------------------- MODULE BookGold --------------------------------
(***************************************************************************)
(* The Gold features of one UTC day of the order book                        *)
(* (features/l2_materialization.py): the books are replayed from the last    *)
(* snapshot before the day, two accumulators take the same messages, and     *)
(* what they emit is summed up per minute of receipt.                        *)
(*                                                                         *)
(* A message is [conn, id, at, kind, levels]: its connection, update id, time *)
(* of receipt, "snapshot" or "delta", and the new sizes of the sides it      *)
(* touches: each side has one price level, and size 0 deletes it.  The rows  *)
(* of one message stay together.                                            *)
(***************************************************************************)
EXTENDS TradeGold

CONSTANT ReplenishWindow    \* replenishment_window_updates

ASSUME BookGoldAssumption == ReplenishWindow \in Nat \ {0}

VARIABLES
    venueBooks,      \* the venue's book after each of its updates
    bookParts,    \* the Silver parts: a set of [msgs, sound], each of one connection and one day
    replay,       \* [at, todo]
    shown,        \* L2ImbalanceAccumulator: [book, id, conn]
    liquid,       \* BookLiquidityAccumulator: [book, id, conn, count, reduced]
    minute,       \* the current bucket and what was added to it
    minutes       \* the rows emitted

bookVars == <<venueBooks, bookParts, replay, shown, liquid, minute, minutes>>

Sides == {"bid", "ask"}
NoId == -1
EmptyBook == [s \in Sides |-> 0]
Long == 1000
FreshShown == [book |-> EmptyBook, id |-> NoId, conn |-> 0]
FreshLiquid == [book |-> EmptyBook, id |-> NoId, conn |-> 0, count |-> 0, reduced |-> [s \in Sides |-> -Long]]
NoMinute == [bucket |-> NoBucket, msgs |-> <<>>]
BookGoldInit ==
    /\ replay = [at |-> "idle", todo |-> <<>>]
    /\ shown = FreshShown /\ liquid = FreshLiquid /\ minute = NoMinute /\ minutes = <<>>

-----------------------------------------------------------------------------
(* The parts in the order of their first receipt, and the last snapshot at   *)
(* or before the day's start: found in the last part that has one.           *)
ByFirst(ps) == SetToSortSeq(ps, LAMBDA p, q : p.msgs[1].at < q.msgs[1].at)
Mutant_AnySnapshot(msgs) == {j \in DOMAIN msgs : msgs[j].kind = "snapshot"}
WarmUps(msgs) == {j \in DOMAIN msgs : msgs[j].kind = "snapshot" /\ msgs[j].at <= 0}
WarmPart(seq) == LET with == {i \in DOMAIN seq : WarmUps(seq[i].msgs) # {}} IN IF with = {} THEN 0 ELSE Max(with)
WarmUpOf(seq) == LET i == WarmPart(seq) IN seq[i].msgs[Max(WarmUps(seq[i].msgs))]

(* The selected parts merged by receipt, from that snapshot to the day's end. *)
SelectedRows(seq) ==
    LET i == WarmPart(seq)
        rows == SetToSortSeq(UNION {ToSet(seq[j].msgs) : j \in i..Len(seq)}, LAMBDA a, b : a.at < b.at)
    IN  SelectSeq(rows, LAMBDA m : m.at >= WarmUpOf(seq).at /\ m.at < DayEnd)

BookBegins ==
    /\ replay.at = "idle" /\ bookParts # {}
    /\ LET seq == ByFirst(bookParts)
       IN  /\ WarmPart(seq) # 0
           /\ \A j \in WarmPart(seq)..Len(seq) : seq[j].sound
           /\ \E j \in DOMAIN SelectedRows(seq) : SelectedRows(seq)[j].at >= 0
           /\ replay' = [at |-> "rows", todo |-> SelectedRows(seq)]
    /\ shown' = FreshShown /\ liquid' = FreshLiquid /\ minute' = NoMinute /\ minutes' = <<>>
    /\ UNCHANGED <<venueBooks, bookParts>>

-----------------------------------------------------------------------------
(* Each accumulator takes a delta only on the book it is the next of, and    *)
(* refuses a book that has an empty side.                                    *)
Changed(book, levels) == [s \in Sides |-> IF s \in DOMAIN levels THEN levels[s] ELSE book[s]]
NextBook(acc, m) == Changed(IF m.kind = "snapshot" THEN EmptyBook ELSE acc.book, m.levels)
Standing(book) == \A s \in Sides : book[s] > 0
Mutant_GapIsSkipped(acc, m) == m.kind = "snapshot" \/ (acc.id # NoId /\ m.conn = acc.conn /\ m.id > acc.id)
Follows(acc, m) == m.kind = "snapshot" \/ (acc.id # NoId /\ m.conn = acc.conn /\ m.id = acc.id + 1)
Accepts(acc, m) == Follows(acc, m) /\ Standing(NextBook(acc, m))

(* What a delta added to a side, took from it, and put back there within the *)
(* window of updates after a reduction.                                      *)
Change(m, s) == IF m.kind = "delta" /\ s \in DOMAIN m.levels THEN m.levels[s] - liquid.book[s] ELSE 0
Gain(m, s) == IF Change(m, s) > 0 THEN Change(m, s) ELSE 0
Loss(m, s) == IF Change(m, s) < 0 THEN -Change(m, s) ELSE 0
Mutant_RefillForEver(m, s) == IF liquid.reduced[s] # -Long THEN Gain(m, s) ELSE 0
Refill(m, s) == IF liquid.count + 1 - liquid.reduced[s] <= ReplenishWindow THEN Gain(m, s) ELSE 0
LiquidAfter(m) ==
    [book |-> NextBook(liquid, m), id |-> m.id, conn |-> m.conn, count |-> liquid.count + 1,
     reduced |-> IF m.kind = "snapshot" THEN FreshLiquid.reduced
                 ELSE [s \in Sides |-> IF Loss(m, s) > 0 THEN liquid.count + 1 ELSE liquid.reduced[s]]]

(* The pair of both, for the minute buckets: nothing before the day, and a   *)
(* minute is emitted when the next one begins.                               *)
Pair(m) ==
    [id |-> m.id, conn |-> m.conn, source |-> m.at, book |-> NextBook(shown, m),
     gained |-> [s \in Sides |-> Gain(m, s)], lost |-> [s \in Sides |-> Loss(m, s)],
     refilled |-> [s \in Sides |-> Refill(m, s)]]
Minute(at) == at \div BucketTicks
EmitsMinute == [at |-> BucketEnd(minute.bucket), pairs |-> minute.msgs, last |-> minute.msgs[Len(minute.msgs)].book]
AddsPair(m) ==
    IF m.at < 0 THEN UNCHANGED <<minute, minutes>>
    ELSE IF minute.bucket \in {NoBucket, Minute(m.at)}
    THEN minute' = [bucket |-> Minute(m.at), msgs |-> Append(minute.msgs, Pair(m))] /\ UNCHANGED minutes
    ELSE minutes' = Append(minutes, EmitsMinute) /\ minute' = [bucket |-> Minute(m.at), msgs |-> <<Pair(m)>>]

TakesMessage ==
    /\ replay.at = "rows" /\ replay.todo # <<>>
    /\ LET m == Head(replay.todo)
       IN  IF ~Accepts(shown, m) \/ ~Accepts(liquid, m)
           THEN replay' = [at |-> "refused", todo |-> <<>>] /\ UNCHANGED <<shown, liquid, minute, minutes>>
           ELSE /\ shown' = [book |-> NextBook(shown, m), id |-> m.id, conn |-> m.conn]
                /\ liquid' = LiquidAfter(m)
                /\ AddsPair(m)
                /\ replay' = [replay EXCEPT !.todo = Tail(@)]
    /\ UNCHANGED <<venueBooks, bookParts>>
EndsMessages ==
    /\ replay.at = "rows" /\ replay.todo = <<>>
    /\ minutes' = Append(minutes, EmitsMinute)
    /\ replay' = [replay EXCEPT !.at = "built"]
    /\ UNCHANGED <<venueBooks, bookParts, shown, liquid, minute>>

BookGoldNext == BookBegins \/ TakesMessage \/ EndsMessages

-----------------------------------------------------------------------------
(* The messages that the Silver parts hold, and what the venue's own books   *)
(* say of them.                                                              *)
Received == UNION {ToSet(p.msgs) : p \in bookParts}
MessageOf(p) == CHOOSE m \in Received : m.at = p.source
VenueChange(id, s) == venueBooks[id][s] - venueBooks[id - 1][s]
SnapshotBefore(p) == Max({m.id : m \in {x \in Received : x.kind = "snapshot" /\ x.at <= p.source}})

(* Every book is the venue's at that update, and what was gained, lost and   *)
(* refilled is what the venue's books say.                                   *)
PairIsTrue(p) ==
    /\ p.book = venueBooks[p.id]
    /\ MessageOf(p).kind = "delta" => \A s \in Sides :
          /\ p.gained[s] - p.lost[s] = VenueChange(p.id, s)
          /\ p.gained[s] = 0 \/ p.lost[s] = 0
          /\ p.refilled[s] =
                IF \E j \in SnapshotBefore(p) + 1 .. p.id - 1 : j >= p.id - ReplenishWindow /\ VenueChange(j, s) < 0
                THEN p.gained[s] ELSE 0

(* A minute holds every message received in it, and none that came later; a  *)
(* day that is built has all its minutes.                                    *)
MinuteIsWhole(row) ==
    /\ {row.pairs[i].source : i \in DOMAIN row.pairs}
         = {m.at : m \in {x \in Received : x.at \in row.at - BucketTicks..row.at - 1}}
    /\ row.last = venueBooks[row.pairs[Len(row.pairs)].id]

(***************************************************************************)
(* Daily book Gold shows the venue's books of that day, all of them, or is    *)
(* refused (materialize_daily_l2_microstructure, the two accumulators).      *)
(***************************************************************************)
BookGoldIsTrue ==
    /\ \A i \in DOMAIN minutes :
          MinuteIsWhole(minutes[i]) /\ \A j \in DOMAIN minutes[i].pairs : PairIsTrue(minutes[i].pairs[j])
    /\ replay.at = "built" =>
          {minutes[i].at : i \in DOMAIN minutes} = {BucketEnd(Minute(m.at)) : m \in {x \in Received : x.at \in 0..DayEnd - 1}}

-----------------------------------------------------------------------------
(***************************************************************************)
(* The Gold features of one UTC day of historical bars                       *)
(* (features/bar_materialization.py): the day's bars and a fixed number      *)
(* before them are read back from monthly partitions, newest first, and must *)
(* be complete and closed.  A bar is its number, which is its open time.     *)
(***************************************************************************)

CONSTANTS
    WarmupBars,       \* warmup_rows
    FirstOfDay,       \* the day's first bar
    BarsPerDay,
    BarsPerMonth,     \* bars of one partition
    LastBarOfAll      \* bound: bars there are

ASSUME BarGoldAssumption ==
    /\ {WarmupBars, BarsPerDay, BarsPerMonth} \subseteq Nat \ {0}
    /\ FirstOfDay \in Nat /\ LastBarOfAll \in Nat

VARIABLES
    have,        \* bars in the partitions
    unreadable,  \* partitions that cannot be read
    barClock,    \* bars below it have closed
    built        \* the selections that were built from

barGoldVars == <<have, unreadable, barClock, built>>

Month(b) == b \div BarsPerMonth
DayBars == FirstOfDay..FirstOfDay + BarsPerDay - 1
EndOfDay == FirstOfDay + BarsPerDay

(* _bounded_history: from the day's month backwards until the day is found   *)
(* and enough bars before it are.                                            *)
Newest(m) == [i \in 1..m + 1 |-> m + 1 - i]
Enough(rows) == rows \intersect DayBars # {} /\ Cardinality({b \in rows : b < FirstOfDay}) >= WarmupBars
BoundedHistory ==
    FoldLeft(LAMBDA st, m :
                LET bounded == {b \in have : Month(b) = m /\ b < EndOfDay}
                IN  IF ~st.ok \/ Enough(st.rows) THEN st
                    ELSE IF m \in unreadable THEN [st EXCEPT !.ok = FALSE]
                    ELSE [st EXCEPT !.rows = @ \union bounded],
             [ok |-> TRUE, rows |-> {}], Newest(Month(FirstOfDay)))

(* select_closed_klines, the context and the target, and their checks. *)
Closed(rows) == {b \in rows : b + 1 <= barClock}
LastOf(rows, n) == {b \in rows : Cardinality({x \in rows : x > b}) < n}
Mutant_GapsPass(rows) == TRUE
NoGap(rows) == \A b \in rows : b = Max(rows) \/ b + 1 \in rows
BuildsBars ==
    /\ barClock >= EndOfDay
    /\ BoundedHistory.ok
    /\ LET eligible == Closed(BoundedHistory.rows)
           target == eligible \intersect DayBars
           context == LastOf({b \in eligible : b < FirstOfDay}, WarmupBars)
       IN  /\ target # {} /\ Cardinality(context) >= WarmupBars
           /\ Min(target) = FirstOfDay /\ Max(target) = EndOfDay - 1
           /\ NoGap(context \union target)
           /\ built' = built \union {context \union target}
    /\ UNCHANGED <<have, unreadable, barClock>>

(* A download adds bars that have opened, the forming one included. *)
BarsDownloaded ==
    /\ \E b \in 0..LastBarOfAll : b <= barClock /\ b \notin have /\ have' = have \union {b}
    /\ UNCHANGED <<unreadable, barClock, built>>
BarCloses ==
    /\ barClock <= LastBarOfAll
    /\ barClock' = barClock + 1
    /\ UNCHANGED <<have, unreadable, built>>

BarGoldNext == BuildsBars \/ BarsDownloaded \/ BarCloses

-----------------------------------------------------------------------------
(* Whatever was in the partitions, early or late, a day is built from the    *)
(* same bars: all of the day, and exactly those that warm it up.             *)
BarGoldIsTrue == built \subseteq {FirstOfDay - WarmupBars..EndOfDay - 1}

(***************************************************************************)
(* Gold says of a day what its closed source says, all of it and nothing     *)
(* that came later, whichever way the source is cut into parts, connections  *)
(* and partitions (features/materialization.py, l2_materialization.py,       *)
(* bar_materialization.py, store.py).                                        *)
(***************************************************************************)
GoldIsTrue == TradeGoldIsTrue /\ BookGoldIsTrue /\ BarGoldIsTrue
=================================================================================
