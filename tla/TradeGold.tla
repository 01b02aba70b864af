-------------------------------- MODULE TradeGold --------------------------------
(***************************************************************************)
(* The Gold features of one UTC day of trades (features/materialization.py): *)
(* the parts of the day are assessed, their rows merged in the order of the  *)
(* exchange's time and fed one by one to three accumulators, and what these  *)
(* emit per bucket is written to the immutable feature store.                *)
(*                                                                         *)
(* Time is one clock in ticks: the day is 0 .. DayEnd - 1 and a part belongs *)
(* to it by the time of receipt.  A row is [conn, n, at, ts, side, price]:   *)
(* connection, receive sequence, time of receipt, time of the exchange, and  *)
(* one unit traded at a price.                                              *)
(***************************************************************************)
EXTENDS Integers, Sequences, FiniteSets, SequencesExt

CONSTANTS
    BucketTicks,      \* bucket_ms
    DayEnd,           \* the midnight that ends the day
    MaxBuilds,        \* bound: builds started
    MaxStops          \* bound: builds killed in the store

ASSUME TradeGoldAssumption ==
    /\ {BucketTicks, DayEnd} \subseteq Nat \ {0} /\ DayEnd % BucketTicks = 0
    /\ MaxBuilds \in Nat /\ MaxStops \in Nat

VARIABLES
    parts,        \* the Silver parts of the day: a set of [rows, sound]
    sealedLate,   \* parts that are not there yet
    build,        \* [at, from, todo, last]: stage, parts, rows to come, last row by connection
    flow,         \* TradeFlowAccumulator
    touch,        \* TradeInteractionAccumulator
    foot,         \* the footprint's current bucket and its rows
    frames,       \* set -> rows emitted
    files,        \* the store: <<set, date, version>> -> its rows, or Torso
    reports,      \* versions reported as built
    builds, stops

goldVars == <<parts, sealedLate, build, flow, touch, foot, frames, files, reports, builds, stops>>

FeatureSets == {"flow", "interaction", "footprint"}
NoBucket == -1
FreshFlow == [bucket |-> NoBucket, buy |-> 0, sell |-> 0, seen |-> 0, cvd |-> 0]
FreshTouch == [bucket |-> NoBucket, rows |-> <<>>, previous |-> <<>>]
FreshFoot == [bucket |-> NoBucket, rows |-> <<>>]
Unbuilt == [at |-> "idle", from |-> {}, todo |-> <<>>, last |-> <<>>]
NoFrames == [s \in FeatureSets |-> <<>>]

(* Memory at the start of a build. *)
FreshBuild ==
    /\ flow' = FreshFlow /\ touch' = FreshTouch /\ foot' = FreshFoot /\ frames' = NoFrames
TradeGoldIdle ==
    /\ build = Unbuilt /\ flow = FreshFlow /\ touch = FreshTouch /\ foot = FreshFoot /\ frames = NoFrames
    /\ files = <<>> /\ reports = {}

-----------------------------------------------------------------------------
(* The rows of a build. *)

BucketOf(row) == row.ts \div BucketTicks
BucketEnd(b) == (b + 1) * BucketTicks

RowsOf(ps) == UNION {p.rows : p \in ps}
EligibleRows(ps) == {r \in RowsOf(ps) : r.ts \in 0..DayEnd - 1}

(* Order of the merged stream: the exchange's time, then receipt. *)
InOrder(a, b) ==
    \/ a.ts < b.ts
    \/ a.ts = b.ts /\ a.at < b.at
    \/ a.ts = b.ts /\ a.at = b.at /\ a.n < b.n
    \/ a.ts = b.ts /\ a.at = b.at /\ a.n = b.n /\ a.conn < b.conn
Merged(ps) == SetToSortSeq(EligibleRows(ps), InOrder)

(* A connection's rows must come in the order in which it received them. *)
Regresses(row) ==
    row.conn \in DOMAIN build.last /\ (row.at < build.last[row.conn].at \/ row.n <= build.last[row.conn].n)

(* The clock has passed midnight: materialize_daily_trade_microstructure.    *)
(* Every part passes its quality checks, or there is no build.               *)
Mutant_SomeQualify(ps) == \E p \in ps : p.sound
AllQualify(ps) == \A p \in ps : p.sound
Begins ==
    /\ build.at = "idle" /\ builds < MaxBuilds
    /\ parts # {} /\ AllQualify(parts) /\ EligibleRows(parts) # {}
    /\ build' = [at |-> "rows", from |-> parts, todo |-> Merged(parts), last |-> <<>>]
    /\ FreshBuild
    /\ builds' = builds + 1
    /\ UNCHANGED <<parts, sealedLate, files, reports, stops>>

-----------------------------------------------------------------------------
(* TradeFlowAccumulator: aggressor volume of the bucket, and the volume      *)
(* delta accumulated since the first row.                                    *)
Mutant_StampedAtItsEnd ==
    [bucket |-> flow.bucket, at |-> BucketEnd(flow.bucket), source |-> flow.seen,
     buy |-> flow.buy, sell |-> flow.sell, cvd |-> flow.cvd + flow.buy - flow.sell]
FlowEmits ==
    [bucket |-> flow.bucket, at |-> Max({BucketEnd(flow.bucket), flow.seen}), source |-> flow.seen,
     buy |-> flow.buy, sell |-> flow.sell, cvd |-> flow.cvd + flow.buy - flow.sell]
Mutant_CvdPerBucket == FreshFlow
FlowAfterEmission == [FreshFlow EXCEPT !.cvd = FlowEmits.cvd]
FlowAdds(f, row) ==
    [f EXCEPT !.bucket = BucketOf(row), !.seen = Max({@, row.at}),
              !.buy = IF row.side = "buy" THEN @ + 1 ELSE @, !.sell = IF row.side = "sell" THEN @ + 1 ELSE @]

(* TradeInteractionAccumulator: sweeps, absorption and exhaustion of a        *)
(* bucket, the last against the bucket that was emitted before.              *)
PricesOf(side, rows) == LET of == SelectSeq(rows, LAMBDA r : r.side = side) IN [i \in DOMAIN of |-> of[i].price]
Sweeps(prices, up) ==
    /\ Cardinality(ToSet(prices)) >= 2
    /\ \A i \in 1..Len(prices) - 1 : IF up THEN prices[i + 1] >= prices[i] ELSE prices[i + 1] <= prices[i]
Span(rows) ==
    [high |-> Max({rows[i].price : i \in DOMAIN rows}), low |-> Min({rows[i].price : i \in DOMAIN rows}),
     buy |-> Len(PricesOf("buy", rows)), sell |-> Len(PricesOf("sell", rows))]
Mutant_ExhaustedAgainstItself(now, was) == [buy |-> was # <<>>, sell |-> FALSE]
Exhausted(now, was) ==
    [buy |-> was # <<>> /\ now.high > was[1].high /\ now.buy < was[1].buy,
     sell |-> was # <<>> /\ now.low < was[1].low /\ now.sell < was[1].sell]
TouchEmits ==
    LET now == Span(touch.rows)
        progress == touch.rows[Len(touch.rows)].price - touch.rows[1].price
        seen == Max({touch.rows[i].at : i \in DOMAIN touch.rows})
    IN  [bucket |-> touch.bucket, at |-> Max({BucketEnd(touch.bucket), seen}), source |-> seen,
         sweep |-> [buy |-> Sweeps(PricesOf("buy", touch.rows), TRUE), sell |-> Sweeps(PricesOf("sell", touch.rows), FALSE)],
         absorbed |-> [buy |-> now.buy > now.sell /\ progress <= 0, sell |-> now.sell > now.buy /\ progress >= 0],
         exhausted |-> Exhausted(now, touch.previous)]
TouchAfterEmission == [FreshTouch EXCEPT !.previous = <<Span(touch.rows)>>]
TouchAdds(t, row) == [t EXCEPT !.bucket = BucketOf(row), !.rows = Append(@, row)]

(* footprint_frame and its summary: volume by price and side of the bucket,  *)
(* the point of control being the lowest price of the largest volume.        *)
LevelVolume(rows, price) == Len(SelectSeq(rows, LAMBDA r : r.price = price))
PointOfControl(rows) ==
    LET prices == {rows[i].price : i \in DOMAIN rows}
        most == Max({LevelVolume(rows, p) : p \in prices})
    IN  Min({p \in prices : LevelVolume(rows, p) = most})
FootEmits ==
    LET seen == Max({foot.rows[i].at : i \in DOMAIN foot.rows})
    IN  [bucket |-> foot.bucket, at |-> Max({BucketEnd(foot.bucket), seen}), source |-> seen,
         total |-> Len(foot.rows), poc |-> PointOfControl(foot.rows)]
FootAdds(f, row) == [bucket |-> BucketOf(row), rows |-> Append(f.rows, row)]

-----------------------------------------------------------------------------
(* One row: the accumulators emit the bucket it leaves and take it in; an    *)
(* order they refuse ends the build.                                         *)
Fails == build' = Unbuilt /\ UNCHANGED <<flow, touch, foot, frames>>
Emitted == [flow |-> Append(frames["flow"], FlowEmits), interaction |-> Append(frames["interaction"], TouchEmits),
            footprint |-> Append(frames["footprint"], FootEmits)]
LeavesBucket(row) == flow.bucket # NoBucket /\ BucketOf(row) # flow.bucket
TakesRow ==
    /\ build.at = "rows" /\ build.todo # <<>>
    /\ LET row == Head(build.todo)
       IN  IF Regresses(row) \/ (flow.bucket # NoBucket /\ BucketOf(row) < flow.bucket) THEN Fails
           ELSE /\ flow' = FlowAdds(IF LeavesBucket(row) THEN FlowAfterEmission ELSE flow, row)
                /\ touch' = TouchAdds(IF LeavesBucket(row) THEN TouchAfterEmission ELSE touch, row)
                /\ foot' = FootAdds(IF LeavesBucket(row) THEN FreshFoot ELSE foot, row)
                /\ frames' = IF LeavesBucket(row) THEN Emitted ELSE frames
                /\ build' = [build EXCEPT !.todo = Tail(@),
                                          !.last = [c \in DOMAIN @ \union {row.conn} |-> IF c = row.conn THEN row ELSE @[c]]]
    /\ UNCHANGED <<parts, sealedLate, files, reports, builds, stops>>
EndsRows ==
    /\ build.at = "rows" /\ build.todo = <<>>
    /\ frames' = Emitted
    /\ build' = [build EXCEPT !.at = "store"]
    /\ UNCHANGED <<parts, sealedLate, flow, touch, foot, files, reports, builds, stops>>

-----------------------------------------------------------------------------
(* FeatureStore.write: the rows of a frame by the date of their timestamp,   *)
(* each date a part and then its manifest; the name holds the version, so a  *)
(* part that is there already must be whole and the same.                    *)
DateOf(row) == row.at \div DayEnd
DatesOf(frame) == {DateOf(frame[i]) : i \in DOMAIN frame}
Partition(s, d) == SelectSeq(frames[s], LAMBDA r : DateOf(r) = d)
IsPrepared(frame) ==
    /\ \A i, j \in DOMAIN frame : i # j => frame[i].at # frame[j].at
    /\ \A i \in DOMAIN frame : frame[i].source <= frame[i].at
Torso == <<>>    \* a part without its manifest

(* The exact parts make the version of the dataset. *)
DatasetVersion == build.from

FileKey(s, d) == <<s, d, DatasetVersion>>
ToStore == {k \in FeatureSets \X (0..2) : k[2] \in DatesOf(frames[k[1]])}
StoredWhole(k) == FileKey(k[1], k[2]) \in DOMAIN files /\ files[FileKey(k[1], k[2])] = Partition(k[1], k[2])
Stores(value, k) == files' = [f \in DOMAIN files \union {k} |-> IF f = k THEN value ELSE files[f]]
(* Set after set, and in each date after date. *)
Sooner(j, k) ==
    IF j[1] = k[1] THEN j[2] <= k[2] ELSE j[1] = "flow" \/ k[1] = "footprint"
Unwritten == {k \in ToStore : ~StoredWhole(k)}

WritesPart ==
    /\ build.at = "store" /\ Unwritten # {}
    /\ LET k == CHOOSE k \in Unwritten : \A j \in Unwritten : Sooner(k, j)
       IN  IF FileKey(k[1], k[2]) \in DOMAIN files \/ ~IsPrepared(frames[k[1]])
           THEN build' = Unbuilt /\ UNCHANGED <<files, stops>>    \* a collision, or rows it refuses
           ELSE \/ Stores(Partition(k[1], k[2]), FileKey(k[1], k[2])) /\ UNCHANGED <<build, stops>>
                \/ /\ stops < MaxStops    \* killed before the manifest
                   /\ Stores(Torso, FileKey(k[1], k[2]))
                   /\ build' = Unbuilt
                   /\ stops' = stops + 1
    /\ UNCHANGED <<parts, sealedLate, flow, touch, foot, frames, reports, builds>>

WritesReport ==
    /\ build.at = "store" /\ Unwritten = {}
    /\ reports' = reports \union {[version |-> DatasetVersion, files |-> {FileKey(k[1], k[2]) : k \in ToStore}, from |-> build.from]}
    /\ build' = Unbuilt
    /\ UNCHANGED <<parts, sealedLate, flow, touch, foot, frames, files, builds, stops>>

(* A part of the day that was flushed, or normalized, late. *)
PartArrives ==
    /\ sealedLate # {}
    /\ parts' = parts \union sealedLate /\ sealedLate' = {}
    /\ UNCHANGED <<build, flow, touch, foot, frames, files, reports, builds, stops>>

TradeGoldNext == Begins \/ TakesRow \/ EndsRows \/ WritesPart \/ WritesReport \/ PartArrives

-----------------------------------------------------------------------------
(* The rows of a bucket, and of all up to it, from the parts of the build.   *)
InBucket(b) == {r \in EligibleRows(build.from) : BucketOf(r) = b}
Until(b) == {r \in EligibleRows(build.from) : BucketOf(r) <= b}
Of(side, rows) == Cardinality({r \in rows : r.side = side})
Emissions == 1..Len(frames["flow"])

(* What a row says of a bucket is what its trades say, whatever connection   *)
(* they came by and in whatever order, and the three sets tell of the same   *)
(* buckets, each once and in order.                                          *)
FlowIsExact ==
    \A i \in Emissions : LET f == frames["flow"][i] IN
        /\ f.buy = Of("buy", InBucket(f.bucket)) /\ f.sell = Of("sell", InBucket(f.bucket))
        /\ f.cvd = Of("buy", Until(f.bucket)) - Of("sell", Until(f.bucket))
        /\ f.source = Max({r.at : r \in InBucket(f.bucket)})
BucketsAgree ==
    \A s \in FeatureSets :
        /\ Len(frames[s]) = Len(frames["flow"])
        /\ \A i \in Emissions : frames[s][i].bucket = frames["flow"][i].bucket /\ frames[s][i].at = frames["flow"][i].at
        /\ \A i \in Emissions : i > 1 => frames[s][i - 1].bucket < frames[s][i].bucket
        /\ build.at = "store" => {frames[s][i].bucket : i \in Emissions} = {BucketOf(r) : r \in EligibleRows(build.from)}
Highest(b) == Max({r.price : r \in InBucket(b)})
ExhaustionIsExact ==
    \A i \in Emissions : LET e == frames["interaction"][i] IN
        e.exhausted.buy = (i > 1 /\ LET was == frames["interaction"][i - 1].bucket IN
                              /\ Highest(e.bucket) > Highest(was)
                              /\ Of("buy", InBucket(e.bucket)) < Of("buy", InBucket(was)))

(* Nothing a row says was received after its timestamp, as long as every     *)
(* trade is received within a bucket of its time.                            *)
Prompt == \A r \in EligibleRows(build.from) : r.at < BucketEnd(BucketOf(r)) + BucketTicks
NothingFromTheFuture ==
    Prompt => \A i \in Emissions : \A r \in Until(frames["flow"][i].bucket) : r.at <= frames["flow"][i].at

(* What is reported is in the store, made of sound parts that were there.    *)
ReportsAreBacked ==
    \A r \in reports :
        /\ \A p \in r.from : p.sound
        /\ \A k \in r.files : k \in DOMAIN files /\ files[k] # Torso /\ k[3] = r.from
        /\ \A s \in FeatureSets :
              UNION {{files[k][i].bucket : i \in DOMAIN files[k]} : k \in {f \in r.files : f[1] = s}}
                = {BucketOf(x) : x \in EligibleRows(r.from)}

(***************************************************************************)
(* Daily trade Gold says what the trades of its parts say and no more than   *)
(* was known, and a report stands for complete files of one dataset          *)
(* (materialize_daily_trade_microstructure, the accumulators, FeatureStore). *)
(***************************************************************************)
TradeGoldIsTrue ==
    /\ build.at # "idle" => FlowIsExact /\ BucketsAgree /\ ExhaustionIsExact /\ NothingFromTheFuture
    /\ ReportsAreBacked
=================================================================================
