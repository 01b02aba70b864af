------------------------------ MODULE PaperSession ------------------------------
(***************************************************************************)
(* A supervised PAPER session (scripts/run_paper_session.py): a strategy of  *)
(* the HoldForBarsStrategy kind in a trading node, its RiskEngine, the       *)
(* SessionRecorder that scores its fills, and the PaperSessionSupervisor     *)
(* that runs the node again when it fails and checkpoints that it did.       *)
(*                                                                         *)
(* The trading node and the venue are external: orders are market orders,    *)
(* matched at one moment in one or more fills, the rest cancelled; a close   *)
(* is reduce-only; events come in order, perhaps twice; while the node does  *)
(* not run they are lost, since execution reconciliation is switched off.    *)
(* Prices are left out: a signal, the session hours, a touched stop, and the *)
(* gain of a closed position are free choices.                               *)
(***************************************************************************)
EXTENDS Integers, Sequences, FiniteSets

CONSTANTS
    MaxRestarts,        \* SupervisorConfig.max_restarts
    HoldingBars,        \* BenchmarkStrategyConfig.holding_period_bars
    EntryDelay,         \* BenchmarkStrategyConfig.entry_delay_bars
    EntrySize,          \* units of an entry that the risk engine sizes
    DailyLossLimit,     \* RiskConfig.max_daily_loss of the equity, in units of loss
    MaxSent,            \* bound: orders
    MaxLaunches,        \* bound: processes, one after the other
    MaxTwice,           \* bound: events delivered twice
    NoCheckpoint, Torn

ASSUME SessionAssumption ==
    /\ {MaxRestarts, EntryDelay, MaxSent, MaxLaunches, MaxTwice} \subseteq Nat
    /\ {HoldingBars, EntrySize, DailyLossLimit} \subseteq Nat \ {0}
    /\ {NoCheckpoint, Torn} \intersect Nat = {}

VARIABLES
    session,     \* [at, restarts, launches]: the process and its supervisor
    checkpoint,  \* the file: a restart count, NoCheckpoint or Torn
    trader,      \* the strategy's memory: [entry, bars, stop, waited]
    limits,      \* the RiskEngine: [open, lost, day]
    position,    \* the node's cache
    recorder,    \* the SessionRecorder: [intents, seen, scored, refused]
    order,       \* the orders sent: [kind, size, working, got, lost]
    held,        \* the position at the venue
    news,        \* events on their way to the strategy
    twice,       \* events that were delivered twice
    deaf,        \* whether anything happened at the venue that this process was not told
    failures,    \* how often the node failed and the supervisor lived to count it
    utcDay, losses  \* the day; what closed positions have lost in this process, by day

sessionVars == <<session, checkpoint, trader, limits, position, recorder, order, held, news, twice, deaf, failures, utcDay, losses>>
nodeVars == <<trader, limits, position, recorder>>
venueVars == <<order, held, news, twice, deaf>>

Unset == -1
Flat == [entry |-> 0, bars |-> 0, stop |-> FALSE, waited |-> Unset]
ResetPositionState(t) == [t EXCEPT !.bars = 0, !.stop = FALSE]

PaperInit ==
    /\ session = [at |-> "down", restarts |-> 0, launches |-> 0]
    /\ checkpoint = NoCheckpoint
    /\ trader = Flat
    /\ limits = [open |-> FALSE, lost |-> 0, day |-> 0]
    /\ position = 0
    /\ recorder = [intents |-> {}, seen |-> {}, scored |-> <<>>, refused |-> {}]
    /\ order = <<>> /\ held = 0 /\ news = <<>> /\ twice = 0 /\ deaf = FALSE
    /\ failures = 0
    /\ utcDay = 0
    /\ losses = [d \in 0..1 |-> 0]

-----------------------------------------------------------------------------
(* The supervisor. *)

(* The memory of a process that has ended: the next one begins with a new    *)
(* strategy, risk engine, cache and recorder.                                *)
MemoryIsGone ==
    /\ trader' = Flat
    /\ limits' = [open |-> FALSE, lost |-> 0, day |-> 0]
    /\ position' = 0
    /\ recorder' = [intents |-> {}, seen |-> {}, scored |-> [i \in DOMAIN order |-> 0], refused |-> {}]
    /\ news' = <<>>
    /\ losses' = [d \in 0..1 |-> 0]

(* TRADING_MODE=LIVE needs a confirmation as well; a node is built for PAPER  *)
(* only, and only against one of Bybit's simulations.                        *)
ResolvedMode(raw, confirmed) == IF raw = "LIVE" /\ ~confirmed THEN "blocked" ELSE raw
NodeIsBuilt(raw, confirmed, backend) == ResolvedMode(raw, confirmed) = "PAPER" /\ backend \in {"testnet", "demo"}

(* A process starts: the checkpoint is read and written again, and a session *)
(* whose restarts are used up ends at once.                                  *)
Mutant_RestartsForgotten == 0
Resumed == IF checkpoint = NoCheckpoint THEN 0 ELSE checkpoint
Launches ==
    /\ session.at = "down" /\ session.launches < MaxLaunches
    /\ \E raw \in {"SHADOW", "PAPER", "LIVE"}, confirmed \in BOOLEAN, backend \in {"mainnet", "testnet", "demo"} :
          NodeIsBuilt(raw, confirmed, backend)
    /\ checkpoint # Torn
    /\ checkpoint' = Resumed
    /\ session' = [at |-> IF Resumed <= MaxRestarts THEN "running" ELSE "down",
                   restarts |-> Resumed, launches |-> session.launches + 1]
    /\ deaf' = (held > 0 \/ \E i \in DOMAIN order : order[i].working)
    /\ UNCHANGED <<nodeVars, order, held, news, twice, failures, utcDay, losses>>

(* The node raises: the failure is counted and checkpointed, and after the   *)
(* backoff the same node runs again, unless the limit is passed.             *)
Bumped(n) == n + 1
NodeFails ==
    /\ session.at = "running"
    /\ LET n == Bumped(session.restarts)
       IN  /\ session' = [session EXCEPT !.restarts = n, !.at = IF n > MaxRestarts THEN "down" ELSE "backoff"]
           /\ checkpoint' = n
           /\ IF n > MaxRestarts THEN MemoryIsGone
              ELSE news' = <<>> /\ UNCHANGED <<nodeVars, losses>>
    /\ failures' = failures + 1
    /\ deaf' = (deaf \/ news # <<>>)
    /\ UNCHANGED <<order, held, twice, utcDay>>
BackoffEnds ==
    /\ session.at = "backoff"
    /\ session' = [session EXCEPT !.at = "running"]
    /\ UNCHANGED <<checkpoint, nodeVars, venueVars, failures, utcDay, losses>>

(* The node returns: the session is checkpointed with its fill summary. *)
NodeReturns ==
    /\ session.at = "running"
    /\ session' = [session EXCEPT !.at = "down"]
    /\ checkpoint' = session.restarts
    /\ MemoryIsGone
    /\ UNCHANGED <<order, held, twice, deaf, failures, utcDay>>

(* A kill; one that falls into save_session_state leaves half a file. *)
SessionDies ==
    /\ session.at \in {"running", "backoff"}
    /\ session' = [session EXCEPT !.at = "down"]
    /\ checkpoint' \in {checkpoint, Torn}
    /\ MemoryIsGone
    /\ UNCHANGED <<order, held, twice, deaf, failures, utcDay>>

-----------------------------------------------------------------------------
(* The strategy, on a bar. *)

Sends(kind, size) == Append(order, [kind |-> kind, size |-> size, working |-> TRUE, got |-> 0, lost |-> losses[utcDay]])

(* close_all_positions: a reduce-only market order of what the cache shows. *)
ClosesAll ==
    /\ Len(order) < MaxSent
    /\ order' = Sends("close", position)
    /\ recorder' = [recorder EXCEPT !.scored = Append(@, 0)]
    /\ trader' = ResetPositionState(trader)
    /\ UNCHANGED limits

(* A position is closed outside the session hours, when the stop or target is *)
(* touched, and after its last bar at the latest.                            *)
MustClose(inSession, touched) ==
    \/ ~inSession
    \/ trader.stop /\ touched
    \/ trader.bars + 1 >= HoldingBars
HoldsPosition(inSession, touched) ==
    /\ position > 0
    /\ IF MustClose(inSession, touched) THEN ClosesAll
       ELSE trader' = [trader EXCEPT !.bars = @ + 1] /\ UNCHANGED <<order, recorder, limits>>

(* A new day begins a new ledger of losses; the engine takes one position    *)
(* at a time and none after the day's limit of losses.                       *)
Mutant_EveryEventIsANewDay == [limits EXCEPT !.day = utcDay, !.lost = 0]
RolledDay == IF utcDay > limits.day THEN [limits EXCEPT !.day = utcDay, !.lost = 0] ELSE limits
RiskApproves(l) == ~l.open /\ l.lost < DailyLossLimit

(* Whether this bar's signal, or the one that waited, is due. *)
SignalIsDue(signals) ==
    IF trader.waited # Unset THEN trader.waited + 1 >= EntryDelay ELSE signals /\ EntryDelay = 0
WaitsForDelay(signals) ==
    /\ ~SignalIsDue(signals)
    /\ trader' = [trader EXCEPT !.waited = IF @ # Unset THEN @ + 1 ELSE IF signals THEN 0 ELSE Unset]
    /\ UNCHANGED <<order, recorder, limits>>

(* The intent is recorded and the risk committed before the order is sent;   *)
(* an order that cannot be sent gives the risk back.                         *)
Commits(l) == [l EXCEPT !.open = TRUE]
Enters(signals, sent) ==
    /\ SignalIsDue(signals) /\ RiskApproves(RolledDay)
    /\ Len(order) < MaxSent
    /\ LET id == Len(order) + 1
       IN  IF sent
           THEN /\ order' = Sends("entry", EntrySize)
                /\ recorder' = [recorder EXCEPT !.intents = @ \union {id}, !.scored = Append(@, 0)]
                /\ limits' = Commits(RolledDay)
                /\ trader' = [trader EXCEPT !.entry = id, !.bars = 0, !.stop = TRUE, !.waited = Unset]
           ELSE /\ limits' = RolledDay
                /\ trader' = [trader EXCEPT !.waited = Unset]
                /\ UNCHANGED <<order, recorder>>
Refused(signals) ==
    /\ SignalIsDue(signals)
    /\ \/ ~RiskApproves(RolledDay) /\ limits' = RolledDay
       \/ UNCHANGED limits    \* too few bars for a stop
    /\ trader' = [trader EXCEPT !.waited = Unset]
    /\ UNCHANGED <<order, recorder>>

OnBar ==
    /\ session.at = "running"
    /\ \E inSession, touched, signals, sent \in BOOLEAN :
          \/ HoldsPosition(inSession, touched)
          \/ position = 0 /\ inSession /\ (WaitsForDelay(signals) \/ Enters(signals, sent) \/ Refused(signals))
    /\ UNCHANGED <<session, checkpoint, position, held, news, twice, deaf, failures, utcDay, losses>>

-----------------------------------------------------------------------------
(* The venue, and its events. *)

Told(events) ==
    IF session.at = "running" THEN news' = news \o events /\ UNCHANGED deaf
    ELSE news' = news /\ deaf' = TRUE

(* A market order is matched once; what is not filled is cancelled. Two      *)
(* fills may carry the same time, price and quantity.                        *)
Fills(i, n, same) ==
    [k \in 1..n |-> [type |-> "fill", order |-> i, mark |-> IF same THEN 1 ELSE k, again |-> FALSE]]
VenueMatches(i) ==
    /\ order[i].working
    /\ order[i].kind = "close" => held > 0
    /\ \E n \in 0..order[i].size : \E same \in BOOLEAN :
          /\ n <= held \/ order[i].kind = "entry"
          /\ held' = IF order[i].kind = "entry" THEN held + n ELSE held - n
          /\ Told(Fills(i, n, same))
          /\ order' = [order EXCEPT ![i].working = FALSE, ![i].got = n]
    /\ UNCHANGED <<session, checkpoint, nodeVars, twice, failures, utcDay, losses>>
VenueRejects(i) ==
    /\ order[i].working
    /\ Told(<<[type |-> "rejected", order |-> i, mark |-> 0, again |-> FALSE]>>)
    /\ order' = [order EXCEPT ![i].working = FALSE]
    /\ UNCHANGED <<session, checkpoint, nodeVars, held, twice, failures, utcDay, losses>>

(* on_order_filled of the recorder: a fill of a recorded intent that was not *)
(* seen before is scored; a filled intent is forgotten.                      *)
Mutant_DeliveryIsIdentity(e) == <<e.order, e.mark, e.again>>
Seen(e) == <<e.order, e.mark>>
Scores(e) ==
    IF e.order \notin recorder.intents \/ Seen(e) \in recorder.seen THEN recorder
    ELSE [recorder EXCEPT
            !.seen = @ \union {Seen(e)},
            !.scored[e.order] = @ + 1,
            !.intents = IF recorder.scored[e.order] + 1 >= order[e.order].size THEN @ \ {e.order} ELSE @]
ScoresRejection(e) ==
    IF e.order \notin recorder.intents THEN recorder
    ELSE [recorder EXCEPT !.intents = @ \ {e.order}, !.refused = @ \union {e.order}]

(* on_position_closed: the risk is given back and the result booked to the day. *)
BooksClose(loss) ==
    /\ limits' = [RolledDay EXCEPT !.open = FALSE, !.lost = @ + loss]
    /\ losses' = [losses EXCEPT ![utcDay] = @ + loss]
OnFill(e) ==
    /\ recorder' = Scores(e)
    /\ trader' = [trader EXCEPT !.entry = IF @ = e.order THEN 0 ELSE @]
    /\ position' = IF e.again THEN position ELSE IF order[e.order].kind = "entry" THEN position + 1 ELSE position - 1
    /\ IF position' = 0 /\ position > 0 THEN \E loss \in {-1, 1} : BooksClose(loss)
       ELSE UNCHANGED <<limits, losses>>

(* on_order_rejected: only a rejected entry gives its risk back. *)
Mutant_AnyRejection(e) == TRUE
IsPendingEntry(e) == trader.entry = e.order
OnRejected(e) ==
    /\ recorder' = ScoresRejection(e)
    /\ IF IsPendingEntry(e)
       THEN /\ trader' = ResetPositionState([trader EXCEPT !.entry = 0])
            /\ limits' = [RolledDay EXCEPT !.open = FALSE]
       ELSE UNCHANGED <<trader, limits>>
    /\ UNCHANGED <<position, losses>>

EventArrives ==
    /\ session.at = "running" /\ news # <<>>
    /\ LET e == Head(news)
       IN  /\ IF e.type = "fill" THEN OnFill(e) ELSE OnRejected(e)
           /\ \/ news' = Tail(news) /\ UNCHANGED twice
              \/ /\ e.type = "fill" /\ ~e.again /\ twice < MaxTwice
                 /\ news' = <<[e EXCEPT !.again = TRUE]>> \o Tail(news)
                 /\ twice' = twice + 1
    /\ UNCHANGED <<session, checkpoint, order, held, deaf, failures, utcDay>>

Midnight ==
    /\ utcDay = 0
    /\ utcDay' = 1
    /\ UNCHANGED <<session, checkpoint, nodeVars, venueVars, failures, losses>>

PaperNext ==
    \/ Launches \/ NodeFails \/ BackoffEnds \/ NodeReturns \/ SessionDies
    \/ OnBar \/ EventArrives \/ Midnight
    \/ \E i \in DOMAIN order : VenueMatches(i) \/ VenueRejects(i)

PaperSpec == PaperInit /\ [][PaperNext]_sessionVars

-----------------------------------------------------------------------------
(* Restarts are counted over all processes: the checkpoint knows every       *)
(* failure there was, and a session runs only while its restarts last.       *)
RestartsAreCounted ==
    /\ checkpoint \in Nat => checkpoint = failures
    /\ session.at = "running" => failures <= MaxRestarts

(* As long as a process was told everything, what it holds at the venue, or  *)
(* has on its way there, is one sized entry whose risk is committed.         *)
Outstanding == {i \in DOMAIN order : order[i].kind = "entry" /\ order[i].working}
BetsAreCommitted ==
    session.at = "running" /\ ~deaf =>
        /\ held > 0 \/ position > 0 \/ Outstanding # {} => limits.open
        /\ held + EntrySize * Cardinality(Outstanding) <= EntrySize
NoBetAfterTheLimit == \A i \in DOMAIN order : order[i].kind = "entry" => order[i].lost < DailyLossLimit

(* Nothing is scored that did not happen, and nothing twice. *)
ScoresAreTrue ==
    \A i \in DOMAIN recorder.scored :
        /\ recorder.scored[i] > 0 => order[i].kind = "entry" /\ ~order[i].working
        /\ recorder.scored[i] <= order[i].got
        /\ i \in recorder.refused => recorder.scored[i] = 0

(***************************************************************************)
(* A PAPER session is accounted for: its restarts over all its processes, its *)
(* risk at the venue, and the fills it is judged by (supervisor.run,         *)
(* HoldForBarsStrategy.on_bar and its event handlers, SessionRecorder).      *)
(***************************************************************************)
SessionIsAccounted == RestartsAreCounted /\ BetsAreCommitted /\ NoBetAfterTheLimit /\ ScoresAreTrue
=============================================================================
