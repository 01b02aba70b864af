------------------------------ MODULE VenueFeeds ------------------------------
(***************************************************************************)
(* The sequence gates of the five venues, the order books and the replay    *)
(* sessions built on them (src/data/*_adapter.py and *_replay.py), for one  *)
(* symbol.  A message carries                                               *)
(*   chan  "book", "ticker" or "other";  kind  "snapshot" or "delta";       *)
(*   first .. last  the venue updates it covers, prev the one before them;  *)
(*   seq   the cross or connection-wide counter;  conn  its connection;     *)
(*   has   the updates whose effect it brings;  bad  its levels cannot be   *)
(*         parsed, or leave the book crossed or empty.                      *)
(* The contents of a book are the set of updates applied to it.             *)
(***************************************************************************)
EXTENDS Naturals, Sequences, FiniteSets, SequencesExt

Unset == 0        \* an identifier the code holds as None

(* What a gate or a book does with a message: the state it is left in,       *)
(* whether it raised, and whether the message is to be applied.              *)
Takes(s) == [ok |-> TRUE, use |-> TRUE, to |-> s]
Skips(s) == [ok |-> TRUE, use |-> FALSE, to |-> s]
Raises(s) == [ok |-> FALSE, use |-> FALSE, to |-> s]

NoBook == [id |-> Unset, seq |-> Unset, has |-> {}]
NoGate == [id |-> Unset, conn |-> Unset, fresh |-> TRUE]

Loaded(m) == [id |-> m.last, seq |-> m.seq, has |-> m.has]
Updated(b, m) == [id |-> m.last, seq |-> m.seq, has |-> b.has \union m.has]

Mutant_GapIsTaken(b, m) ==
    IF m.kind = "snapshot" THEN IF m.bad THEN Raises(b) ELSE Takes(Loaded(m))
    ELSE IF b.id = Unset THEN Raises(b)
    ELSE IF m.last <= b.id THEN Raises(NoBook)
    ELSE IF m.bad THEN Raises(b) ELSE Takes(Updated(b, m))
(* Bybit: u is contiguous, seq increases, and the book checks both itself.   *)
BybitBook(b, m) ==
    IF m.kind = "snapshot" THEN IF m.bad THEN Raises(b) ELSE Takes(Loaded(m))
    ELSE IF b.id = Unset THEN Raises(b)
    ELSE IF m.last # b.id + 1 THEN Raises(NoBook)
    ELSE IF m.seq <= b.seq THEN Raises(NoBook)
    ELSE IF m.bad THEN Raises(b) ELSE Takes(Updated(b, m))

(* The ticker only knows a counter that must increase.                       *)
BybitTicker(t, m) ==
    IF m.bad THEN Raises(t)
    ELSE IF m.kind = "snapshot" THEN Takes(Loaded(m))
    ELSE IF t.seq = Unset THEN Raises(t)
    ELSE IF m.seq <= t.seq THEN Raises(NoBook)
    ELSE Takes(Updated(t, m))

BinanceBootstrap(id, c) == [id |-> id, conn |-> c, fresh |-> TRUE]

Mutant_BridgeNotChecked(g, m) ==
    IF g.id = Unset THEN Raises(g)
    ELSE IF m.conn # g.conn THEN Raises(NoGate)
    ELSE IF m.first > m.last THEN Raises(NoGate)
    ELSE IF m.last <= g.id THEN Skips(g)
    ELSE IF ~g.fresh /\ m.prev # g.id THEN Raises(NoGate)
    ELSE Takes([g EXCEPT !.id = m.last, !.fresh = FALSE])
(* Binance: the first delta must bridge the REST snapshot, the next ones     *)
(* chain by pu, and what the snapshot already covers is dropped.             *)
BinanceGate(g, m) ==
    IF g.id = Unset THEN Raises(g)
    ELSE IF m.conn # g.conn THEN Raises(NoGate)
    ELSE IF m.first > m.last THEN Raises(NoGate)
    ELSE IF m.last <= g.id THEN Skips(g)
    ELSE IF g.fresh /\ g.id + 1 \notin m.first .. m.last THEN Raises(NoGate)
    ELSE IF ~g.fresh /\ m.prev # g.id THEN Raises(NoGate)
    ELSE Takes([g EXCEPT !.id = m.last, !.fresh = FALSE])

Chained(g, m) == [g EXCEPT !.id = m.last]
Opened(m) == [id |-> m.last, conn |-> m.conn, fresh |-> TRUE]

(* OKX: prevSeqId chains the messages; one that repeats seqId and brings no  *)
(* level is a heartbeat.                                                     *)
OkxGate(g, m) ==
    IF g.conn # Unset /\ m.conn # g.conn THEN Raises(NoGate)
    ELSE IF m.kind = "snapshot" THEN Takes(Opened(m))
    ELSE IF g.id = Unset THEN Raises(g)
    ELSE IF m.prev # g.id THEN Raises(NoGate)
    ELSE IF m.last < m.prev THEN Raises(NoGate)
    ELSE IF m.last = m.prev /\ m.has = {} THEN Skips(Chained(g, m))
    ELSE Takes(Chained(g, m))

(* Deribit: prev_change_id chains the messages and change_id advances.       *)
DeribitGate(g, m) ==
    IF g.conn # Unset /\ m.conn # g.conn THEN Raises(NoGate)
    ELSE IF m.kind = "snapshot" THEN Takes(Opened(m))
    ELSE IF g.id = Unset THEN Raises(g)
    ELSE IF m.prev # g.id THEN Raises(NoGate)
    ELSE IF m.last <= m.prev THEN Raises(NoGate)
    ELSE Takes(Chained(g, m))

Counting(m) == [id |-> m.seq, conn |-> m.conn, fresh |-> TRUE]

(* Coinbase: one counter for every message of a connection; a new connection *)
(* starts a new series at whatever number it is first seen with.             *)
CoinbaseGate(g, m) ==
    IF m.seq = Unset THEN Skips(g)
    ELSE IF g.conn = Unset \/ m.conn # g.conn THEN Takes(Counting(m))
    ELSE IF m.seq = g.id + 1 THEN Takes(Counting(m))
    ELSE Raises(NoGate)

-----------------------------------------------------------------------------
(* The books behind a gate: they take what the gate took, and only check the *)
(* levels and that a snapshot came first.                                    *)
GatedBook(b, m) ==
    IF m.kind = "snapshot" THEN IF m.bad THEN Raises(b) ELSE Takes(Loaded(m))
    ELSE IF b.id = Unset \/ m.bad THEN Raises(b)
    ELSE Takes(Updated(b, m))

BinanceBook(b, m) == GatedBook(b, m)
OkxBook(b, m) == GatedBook(b, m)
DeribitBook(b, m) == GatedBook(b, m)
CoinbaseBook(b, m) == GatedBook(b, m)

(* A replay session: the state a venue's replay keeps for a symbol, and the  *)
(* first error, which ends the replay.                                       *)
NewSession ==
    [gate |-> NoGate, book |-> NoBook, tick |-> NoBook, on |-> [book |-> Unset, ticker |-> Unset], ok |-> TRUE]

Failed(s) == [s EXCEPT !.ok = FALSE]

(* The message reaches the book once the gate has taken it.                  *)
Behind(s, gated, Book(_, _), m) ==
    IF ~gated.ok THEN Failed([s EXCEPT !.gate = gated.to])
    ELSE IF ~gated.use THEN [s EXCEPT !.gate = gated.to]
    ELSE LET booked == Book(s.book, m)
         IN  [s EXCEPT !.gate = gated.to, !.book = booked.to, !.ok = booked.ok]

(* A book or a ticker that belongs to an earlier connection is emptied first. *)
Mutant_OldBookKept(s, m) ==
    IF m.chan = "book" THEN
            LET r == BybitBook(s.book, m)
            IN  [s EXCEPT !.on.book = m.conn, !.book = r.to, !.ok = r.ok]
    ELSE IF m.chan = "ticker" THEN
            LET r == BybitTicker(s.tick, m)
            IN  [s EXCEPT !.on.ticker = m.conn, !.tick = r.to, !.ok = r.ok]
    ELSE s
BybitReplay(s, m) ==
    IF m.chan = "book" THEN
            LET r == BybitBook(IF s.on.book # m.conn THEN NoBook ELSE s.book, m)
            IN  [s EXCEPT !.on.book = m.conn, !.book = r.to, !.ok = r.ok]
    ELSE IF m.chan = "ticker" THEN
            LET r == BybitTicker(IF s.on.ticker # m.conn THEN NoBook ELSE s.tick, m)
            IN  [s EXCEPT !.on.ticker = m.conn, !.tick = r.to, !.ok = r.ok]
    ELSE s

BinanceReplay(s, m) ==
    IF m.chan # "book" THEN s
    ELSE IF m.kind = "snapshot" THEN
            IF m.bad THEN Failed(s)
            ELSE [s EXCEPT !.book = Loaded(m), !.gate = BinanceBootstrap(m.last, m.conn)]
    ELSE Behind(s, BinanceGate(s.gate, m), BinanceBook, m)

OkxReplay(s, m) == IF m.chan # "book" THEN s ELSE Behind(s, OkxGate(s.gate, m), OkxBook, m)

DeribitReplay(s, m) ==
    IF m.chan # "book" THEN s ELSE Behind(s, DeribitGate(s.gate, m), DeribitBook, m)

(* Every message is counted, whatever its channel.                           *)
Mutant_OnlyBooksCounted(s, m) ==
    IF m.chan # "book" THEN s ELSE Behind(s, CoinbaseGate(s.gate, m), CoinbaseBook, m)
CoinbaseReplay(s, m) ==
    LET counted == CoinbaseGate(s.gate, m)
    IN  IF m.chan = "book" THEN Behind(s, [counted EXCEPT !.use = counted.ok], CoinbaseBook, m)
        ELSE [s EXCEPT !.gate = counted.to, !.ok = counted.ok]

-----------------------------------------------------------------------------
(***************************************************************************)
(* A raw collector on one venue's public feed, from the sequence gates'     *)
(* side: every message is kept in Bronze, the live gate says when the feed  *)
(* became uncertain and has the connection rebuilt, and the replay of what  *)
(* was kept decides again.  The venue numbers its updates 1, 2, 3, ...; on  *)
(* the way a message may be lost, repeated or spoilt.  How events reach the *)
(* disk is RawCapture.tla; here Bronze is what the callback was given.      *)
(***************************************************************************)

CONSTANTS
    Venues,       \* the collectors looked at, a subset of AllVenues
    MaxUpdates,   \* bounds: updates of the venue's book,
    MaxConns,     \* connections,
    MaxEvents,    \* messages received,
    MaxFaults     \* messages lost, repeated or spoilt

AllVenues == {"bybit", "binance", "okx", "deribit", "coinbase"}

ASSUME FeedAssumption ==
    /\ Venues \subseteq AllVenues
    /\ {MaxUpdates, MaxConns, MaxEvents, MaxFaults} \subseteq Nat

VARIABLES
    venue,      \* whose feed it is
    exchange,   \* updates the venue's book went through
    sent,       \* what the venue pushed on this connection: last update, messages
    prior,      \* its last message, as a sequence of at most one
    faults,
    wire,       \* the connection: "down", "open", or "closing" after close()
    conn,       \* number of the connection, its connection_id
    live,       \* the collector's gates and books on this connection
    uncertain,  \* _sequence_uncertain
    alarms,     \* sequence_uncertainty_count
    bronze      \* the raw events in receive order

feedVars == <<venue, exchange, sent, prior, faults, wire, conn, live, uncertain, alarms, bronze>>

NothingSent == [id |-> Unset, n |-> 0]

FeedInit ==
    /\ venue \in Venues
    /\ exchange = 1
    /\ sent = NothingSent
    /\ prior = <<>>
    /\ faults = 0
    /\ wire = "down"
    /\ conn = 0
    /\ live = NewSession
    /\ uncertain = FALSE
    /\ alarms = 0
    /\ bronze = <<>>

-----------------------------------------------------------------------------
(* The live checks.  Only Bybit's keep the books themselves.                 *)
BybitLive(s, m) ==
    IF m.chan = "book" THEN LET r == BybitBook(s.book, m) IN [s EXCEPT !.book = r.to, !.ok = r.ok]
    ELSE IF m.chan = "ticker" THEN LET r == BybitTicker(s.tick, m) IN [s EXCEPT !.tick = r.to, !.ok = r.ok]
    ELSE s

GateOnly(s, r) == [s EXCEPT !.gate = r.to, !.ok = r.ok]

BinanceLive(s, m) == IF m.chan = "book" THEN GateOnly(s, BinanceGate(s.gate, m)) ELSE s
OkxLive(s, m) == IF m.chan = "book" THEN GateOnly(s, OkxGate(s.gate, m)) ELSE s
DeribitLive(s, m) == IF m.chan = "book" THEN GateOnly(s, DeribitGate(s.gate, m)) ELSE s
CoinbaseLive(s, m) == GateOnly(s, CoinbaseGate(s.gate, m))

(* handle_raw_message: the event is kept first, checked next; after the      *)
(* first failure of a connection nothing is checked until it was rebuilt.    *)
Handle(m, Check(_, _)) ==
    /\ bronze' = Append(bronze, m)
    /\ IF uncertain THEN UNCHANGED <<live, uncertain, alarms, wire>>
       ELSE LET after == Check(live, m) IN
            /\ live' = after
            /\ uncertain' = ~after.ok
            /\ alarms' = IF after.ok THEN alarms ELSE alarms + 1
            /\ wire' = IF after.ok THEN wire ELSE "closing"

BybitHandle(m) == venue = "bybit" /\ Handle(m, BybitLive)
BinanceHandle(m) == venue = "binance" /\ Handle(m, BinanceLive)
OkxHandle(m) == venue = "okx" /\ Handle(m, OkxLive)
DeribitHandle(m) == venue = "deribit" /\ Handle(m, DeribitLive)
CoinbaseHandle(m) == venue = "coinbase" /\ Handle(m, CoinbaseLive)

HandleRawMessage(m) ==
    \/ BybitHandle(m)
    \/ BinanceHandle(m)
    \/ OkxHandle(m)
    \/ DeribitHandle(m)
    \/ CoinbaseHandle(m)

-----------------------------------------------------------------------------
(* The venue's messages, as the parse_*_message functions read them.         *)
Message(chan, kind, first, last, has) ==
    [chan |-> chan, kind |-> kind, first |-> first, last |-> last, prev |-> sent.id,
     seq |-> sent.n + 1, has |-> has, conn |-> conn, bad |-> FALSE]

Snapshot == Message("book", "snapshot", exchange, exchange, 1 .. exchange)
Delta(upTo) == Message("book", "delta", sent.id + 1, upTo, sent.id + 1 .. upTo)
Heartbeat == Message("book", "delta", sent.id, sent.id, {})
Other == Message("other", "delta", Unset, sent.id, {})
Ticker(kind) == Message("ticker", kind, Unset, sent.id, {})

(* Coinbase acknowledges the subscription first; Binance's stream has no     *)
(* snapshot; Bybit's u is contiguous; only OKX repeats seqId, and only Bybit *)
(* has ticker deltas.                                                        *)
Pushable ==
    UNION {
        IF venue \in {"bybit", "okx", "deribit"} \/ (venue = "coinbase" /\ sent.n > 0)
        THEN IF sent.id = Unset THEN {Snapshot} ELSE {} ELSE {},
        IF sent.id # Unset
        THEN {Delta(k) : k \in {k \in sent.id + 1 .. exchange : venue = "bybit" => k = sent.id + 1}} ELSE {},
        IF venue = "okx" /\ sent.id # Unset THEN {Heartbeat} ELSE {},
        IF venue = "coinbase" THEN {Other} ELSE {},
        IF venue = "bybit" THEN {Ticker("snapshot"), Ticker("delta")} ELSE {} }

Spoilt(m) == [m EXCEPT !.bad = TRUE]

Fault == faults < MaxFaults /\ faults' = faults + 1

(* The venue pushes a message; on the way it may be spoilt, or lost.  The    *)
(* acknowledgement a Coinbase series starts with is not lost: a gate that    *)
(* starts at the first number it sees cannot know of an earlier one.         *)
Push(m) ==
    /\ wire \in {"open", "closing"}
    /\ sent' = [id |-> m.last, n |-> m.seq]
    /\ \/ HandleRawMessage(m) /\ prior' = <<m>> /\ UNCHANGED faults
       \/ m.chan = "book" /\ Fault /\ HandleRawMessage(Spoilt(m)) /\ prior' = <<m>>
       \/ sent.n > 0 /\ Fault /\ UNCHANGED <<prior, wire, live, uncertain, alarms, bronze>>
    /\ UNCHANGED <<venue, exchange, conn>>

Repeat ==
    /\ wire \in {"open", "closing"}
    /\ prior # <<>>
    /\ Fault
    /\ HandleRawMessage(prior[1])
    /\ UNCHANGED <<venue, exchange, conn, sent, prior>>

Update ==
    /\ exchange < MaxUpdates
    /\ exchange' = exchange + 1
    /\ UNCHANGED <<venue, sent, prior, faults, wire, conn, live, uncertain, alarms, bronze>>

-----------------------------------------------------------------------------
(* run_forever: a new connection has a new id and fresh gates.               *)
Prepared ==
    /\ wire = "down"
    /\ conn < MaxConns
    /\ conn' = conn + 1
    /\ wire' = "open"
    /\ uncertain' = FALSE
    /\ prior' = <<>>
    /\ UNCHANGED <<venue, exchange, faults, alarms>>

Subscribed == Prepared /\ live' = NewSession /\ sent' = NothingSent /\ UNCHANGED bronze

BybitConnect == venue = "bybit" /\ Subscribed
OkxConnect == venue = "okx" /\ Subscribed
DeribitConnect == venue = "deribit" /\ Subscribed
CoinbaseConnect == venue = "coinbase" /\ Subscribed

(* The REST depth, kept as a synthetic event and the start of the gate.      *)
Bootstrap(id) ==
    /\ live' = [NewSession EXCEPT !.gate = BinanceBootstrap(id, conn')]
    /\ bronze' = Append(bronze, [chan |-> "book", kind |-> "snapshot", first |-> id, last |-> id, prev |-> Unset,
                                 seq |-> Unset, has |-> 1 .. id, conn |-> conn', bad |-> FALSE])

(* Binance: the stream runs from the subscription on; the depth is fetched   *)
(* while it does, may be older or newer, and the fetch may fail.             *)
BinanceConnect ==
    /\ venue = "binance"
    /\ Prepared
    /\ sent' = [id |-> exchange, n |-> 1]
    /\ \/ \E id \in 1 .. exchange + 1 : id <= MaxUpdates /\ Bootstrap(id)
       \/ live' = NewSession /\ UNCHANGED bronze

Disconnect ==
    /\ wire \in {"open", "closing"}
    /\ wire' = "down"
    /\ UNCHANGED <<venue, exchange, sent, prior, faults, conn, live, uncertain, alarms, bronze>>

FeedNext ==
    \/ Update
    \/ Repeat
    \/ Len(bronze) < MaxEvents /\ \E m \in Pushable : Push(m)
    \/ BybitConnect
    \/ OkxConnect
    \/ DeribitConnect
    \/ CoinbaseConnect
    \/ BinanceConnect
    \/ Disconnect

FeedSpec == FeedInit /\ [][FeedNext]_feedVars

-----------------------------------------------------------------------------
(* The replay of Bronze, by the venue's session.                             *)
Replay(s, m) ==
    IF ~s.ok THEN s
    ELSE IF venue = "bybit" THEN BybitReplay(s, m)
    ELSE IF venue = "binance" THEN BinanceReplay(s, m)
    ELSE IF venue = "okx" THEN OkxReplay(s, m)
    ELSE IF venue = "deribit" THEN DeribitReplay(s, m)
    ELSE CoinbaseReplay(s, m)

Replayed == FoldLeft(Replay, NewSession, bronze)

Exact(b) == b.id # Unset => b.has = 1 .. b.id
NoneSpoilt == \A i \in DOMAIN bronze : ~bronze[i].bad

(* However messages were lost, repeated or spoilt, a book that a replay (or  *)
(* the live Bybit book) shows is the venue's book at the update it names:    *)
(* the gates let no hole through, on any of the five protocols.              *)
BookIsExact == Exact(Replayed.book) /\ Exact(live.book)

(* The replay agrees with the collector: it fails on every feed the          *)
(* collector found uncertain and, but for OKX and Deribit after a reconnect, *)
(* on no feed it found certain whose levels were sound.                      *)
ReplayMatchesLive ==
    /\ alarms > 0 => ~Replayed.ok
    /\ alarms = 0 /\ NoneSpoilt /\ (venue \in {"okx", "deribit"} => conn <= 1) => Replayed.ok

(* Both: what a replay shows is the venue's book, and it knows when it is not.*)
ReplayIsFaithful == BookIsExact /\ ReplayMatchesLive

(* okx_replay.py:16-18: "Every OKX Bronze file, old or new, is fully         *)
(* replayable as long as it starts from (or contains) a snapshot message for *)
(* each symbol."  A feed without a single gap, on two connections, is not.   *)
GapFreeFeedReplays == alarms = 0 /\ NoneSpoilt => Replayed.ok
===============================================================================
