------------------------------- MODULE RawCapture -------------------------------
(***************************************************************************)
(* A raw collector process: the WebSocket thread that envelopes and queues  *)
(* every message, the writer thread that turns batches into immutable parts *)
(* with manifests, the health thread that guards the disk, and the way the  *)
(* process ends (src/data/bybit_raw_collector.py; the collectors of the     *)
(* other venues have the same threads).  What the sequence gate says of a   *)
(* message is a free choice here, VenueFeeds.tla decides it.                *)
(***************************************************************************)
EXTENDS Naturals, Sequences, FiniteSets, SequencesExt

CONSTANTS
    Streams,      \* channel and symbol of a message
    QueueCap,     \* queue_capacity
    MaxBatch,     \* max_batch_events
    TicksPerDay,  \* length of a UTC day on the model's clock
    MaxTs,        \* bounds: the clock,
    MaxEvents,    \* messages received,
    MaxConns,     \* connections,
    MaxRuns,      \* starts of the process,
    MaxCapFaults  \* bad messages, failed writes, breaches, failed dials

ASSUME CaptureAssumption ==
    /\ {QueueCap, MaxBatch, TicksPerDay} \subseteq Nat \ {0}
    /\ {MaxTs, MaxEvents, MaxConns, MaxRuns, MaxCapFaults} \subseteq Nat

VARIABLES
    main,      \* the main thread
    ws,        \* the active socket: "none", "new" (not started), "open", "closed"
    shutdown,  \* _shutdown
    bgStop,    \* _background_stop
    guard,     \* the health thread runs
    writer,    \* the writer thread: "loop", "writing", "done"
    inbox,     \* _queue, between the socket and the writer
    batch,
    todo,      \* groups of the batch not yet published
    failure,   \* _writer_failure, _terminal_failure
    health,    \* CollectorHealth
    shown,     \* the snapshot published last, at the end of a run
    raised,    \* run_forever raised
    conn, seqno, run, clock, capFaults,
    parts,     \* the lake: parts and whether their manifest is there
    arrived    \* ghost: every message received

procVars == <<main, ws, shutdown, bgStop, guard, writer, inbox, batch, todo, failure, health, shown, raised>>
capVars == <<procVars, conn, seqno, run, clock, capFaults, parts, arrived>>

-----------------------------------------------------------------------------
(***************************************************************************)
(* The reader of an immutable lake: the parts of one stream merged row by   *)
(* row, a part opened only when its lower bound says it may hold the next   *)
(* row, and every connection's own rows checked as they are emitted         *)
(* (src/data/ordered_merge.py).  A row is [conn, ts, n]: its connection,    *)
(* receive_ts_ns and receive_sequence.                                      *)
(***************************************************************************)
Before(a, b) == a.ts < b.ts \/ (a.ts = b.ts /\ a.n < b.n)

(* A source is a part: its manifest's min_receive_ts_ns and its rows.        *)
Source(rows) == [lower |-> rows[1].ts, rows |-> rows]

Heads(open) == {i \in DOMAIN open : open[i] # <<>>}
TopTs(open) == Min({open[i][1].ts : i \in Heads(open)})

(* How many of the pending sources, in the order of their lower bounds, are  *)
(* opened before the next row is popped.                                     *)
Admissible(open, pending) ==
    LET With(k) == open \o [i \in 1 .. k |-> pending[i].rows]
    IN  Min({k \in 0 .. Len(pending) :
               \/ k = Len(pending)
               \/ Heads(With(k)) # {} /\ pending[k + 1].lower > TopTs(With(k))})

(* A connection's rows may neither repeat nor step back, in either field.    *)
InSequence(last, row) ==
    row.conn \in DOMAIN last =>
        LET was == last[row.conn]
        IN  row.ts >= was.ts /\ row.n >= was.n /\ <<row.ts, row.n>> # <<was.ts, was.n>>

MergeStep(st) ==
    LET k == Admissible(st.open, st.pending)
        open == st.open \o [i \in 1 .. k |-> st.pending[i].rows]
        idx == CHOOSE i \in Heads(open) : \A j \in Heads(open) \ {i} :
                  Before(open[i][1], open[j][1]) \/ (~Before(open[j][1], open[i][1]) /\ i < j)
        row == open[idx][1]
    IN  IF ~st.ok THEN st
        ELSE IF ~InSequence(st.last, row) THEN [st EXCEPT !.ok = FALSE]
        ELSE [open |-> [open EXCEPT ![idx] = Tail(@)],
              pending |-> SubSeq(st.pending, k + 1, Len(st.pending)),
              last |-> [c \in DOMAIN st.last \union {row.conn} |-> IF c = row.conn THEN row ELSE st.last[c]],
              out |-> Append(st.out, row),
              ok |-> TRUE]

ByLower(sources) == SetToSortSeq(sources, LAMBDA a, b : a.lower < b.lower)

NothingMerged(sources) ==
    [open |-> <<>>, pending |-> ByLower(sources), last |-> <<>>, out |-> <<>>, ok |-> TRUE]

(* merge_rows_by_connection: the rows in order, or the error (ok FALSE).     *)
MergeRows(sources) ==
    LET rows == FoldSet(LAMBDA s, total : total + Len(s.rows), 0, sources)
    IN  FoldLeft(LAMBDA st, i : MergeStep(st), NothingMerged(sources), [i \in 1 .. rows |-> i])

-----------------------------------------------------------------------------
NoFailure == [writer |-> FALSE, terminal |-> FALSE]
FreshHealth == [status |-> "starting", received |-> 0, written |-> 0, dropped |-> 0]
Snapshot(h, depth) == [h |-> h, depth |-> depth]

CapInit ==
    /\ main = "start"
    /\ ws = "none"
    /\ shutdown = FALSE
    /\ bgStop = FALSE
    /\ guard = TRUE
    /\ writer = "loop"
    /\ inbox = <<>>
    /\ batch = <<>>
    /\ todo = <<>>
    /\ failure = NoFailure
    /\ health = FreshHealth
    /\ shown = Snapshot(FreshHealth, 0)
    /\ raised = FALSE
    /\ conn = 0
    /\ seqno = 0
    /\ run = 1
    /\ clock = 1
    /\ capFaults = 0
    /\ parts = {}
    /\ arrived = <<>>

Running == main \notin {"ended", "dead"}

CapFault == capFaults < MaxCapFaults /\ capFaults' = capFaults + 1

-----------------------------------------------------------------------------
(* What several handlers do.  close() on a socket that run_forever has not   *)
(* started yet is forgotten when it starts.                                  *)
Closing == ws' = IF ws = "open" THEN "closed" ELSE ws

(* _publish_health: a snapshot, or a failure of the evidence itself, which   *)
(* asks the process to stop and leaves the socket alone.  Only the snapshots *)
(* from the joins on are kept: they replace the earlier ones.                *)
Shows(h, depth) == shown' = IF main \in {"join", "joined"} THEN Snapshot(h, depth) ELSE shown
PublishFails ==
    /\ failure' = [failure EXCEPT !.writer = TRUE]
    /\ shutdown' = TRUE
    /\ UNCHANGED shown
Publish(h, depth) ==
    \/ Shows(h, depth) /\ UNCHANGED <<failure, shutdown, capFaults>>
    \/ PublishFails /\ CapFault

Mutant_DropNotCounted ==
    /\ health' = [health EXCEPT !.status = "failed"]
    /\ (UNCHANGED failure /\ Shows(health', Len(inbox))) \/ PublishFails
    /\ shutdown' = TRUE
    /\ Closing
(* _fail_closed                                                              *)
FailClosed ==
    /\ health' = [health EXCEPT !.dropped = @ + 1, !.status = "failed"]
    /\ (UNCHANGED failure /\ Shows(health', Len(inbox))) \/ PublishFails
    /\ shutdown' = TRUE
    /\ Closing

(* _enforce_storage_reserve, when the reserve is breached or not known.      *)
ReserveBreached ==
    /\ CapFault
    /\ health' = [health EXCEPT !.status = "failed"]
    /\ failure' = [failure EXCEPT !.terminal = TRUE]
    /\ Shows(health', Len(inbox))
    /\ shutdown' = TRUE

-----------------------------------------------------------------------------
(* The main thread: run_forever and the WebSocket callbacks.                 *)
FirstReserve ==
    /\ main = "start"
    /\ main' = "loop"
    /\ \/ ReserveBreached
       \/ UNCHANGED <<health, failure, shown, shutdown, capFaults>>
    /\ UNCHANGED <<ws, bgStop, guard, writer, inbox, batch, todo, raised, conn, seqno, run, clock, parts, arrived>>

LoopTest ==
    /\ main = "loop"
    /\ main' = IF shutdown THEN "stop" ELSE IF conn < MaxConns THEN "prepare" ELSE main
    /\ UNCHANGED <<ws, shutdown, bgStop, guard, writer, inbox, batch, todo, failure, health, shown, raised,
                   conn, seqno, run, clock, capFaults, parts, arrived>>

PrepareConnection ==
    /\ main = "prepare"
    /\ main' = "dial"
    /\ conn' = conn + 1
    /\ ws' = "new"
    /\ UNCHANGED <<shutdown, bgStop, guard, writer, inbox, batch, todo, failure, health, shown, raised,
                   seqno, run, clock, capFaults, parts, arrived>>

OnOpen ==
    /\ main = "dial"
    /\ main' = "feed"
    /\ \/ /\ ReserveBreached
          /\ ws' = "closed"
       \/ /\ health' = [health EXCEPT !.status = "running"]
          /\ ws' = "open"
          /\ Publish(health', Len(inbox))
    /\ UNCHANGED <<bgStop, guard, writer, inbox, batch, todo, raised, conn, seqno, run, clock, parts, arrived>>

DialFails ==
    /\ main = "dial"
    /\ CapFault
    /\ main' = "feed"
    /\ ws' = "closed"
    /\ UNCHANGED <<shutdown, bgStop, guard, writer, inbox, batch, todo, failure, health, shown, raised,
                   conn, seqno, run, clock, parts, arrived>>

Event(s) == [run |-> run, conn |-> conn, stream |-> s, n |-> seqno', ts |-> clock']

Tick == clock' \in {clock, clock + 1} /\ clock' <= MaxTs

(* handle_raw_message: a message that cannot be enveloped ends the run, and  *)
(* so does a full queue; a message the gate refuses is kept, and the         *)
(* connection is rebuilt.                                                    *)
BadMessage ==
    /\ CapFault
    /\ arrived' = Append(arrived, Event("none"))
    /\ FailClosed
    /\ UNCHANGED inbox

Mutant_OldestGoes(s) ==
    /\ Len(inbox) = QueueCap
    /\ arrived' = Append(arrived, Event(s))
    /\ inbox' = Append(Tail(inbox), Event(s))
    /\ health' = [health EXCEPT !.received = @ + 1]
    /\ UNCHANGED <<capFaults, failure, shown, shutdown, ws>>
QueueIsFull(s) ==
    /\ Len(inbox) = QueueCap
    /\ arrived' = Append(arrived, Event(s))
    /\ FailClosed
    /\ UNCHANGED <<inbox, capFaults>>

Queued(s) ==
    /\ Len(inbox) < QueueCap
    /\ arrived' = Append(arrived, Event(s))
    /\ inbox' = Append(inbox, Event(s))
    /\ \/ /\ health' = [health EXCEPT !.received = @ + 1]
          /\ UNCHANGED <<capFaults, failure, shown, shutdown, ws>>
       \/ /\ health' = [health EXCEPT !.received = @ + 1, !.status = "sequence_uncertain"]
          /\ Publish(health', Len(inbox'))
          /\ Closing

Receive ==
    /\ main = "feed"
    /\ ws = "open"
    /\ Len(arrived) < MaxEvents
    /\ Tick
    /\ seqno' = seqno + 1
    /\ \/ BadMessage
       \/ \E s \in Streams : QueueIsFull(s) \/ Queued(s)
    /\ UNCHANGED <<main, bgStop, guard, writer, batch, todo, raised, conn, run, parts>>

(* The venue ends the connection, or close() did: _on_close, and the loop    *)
(* goes round, after a wait, or ends.                                        *)
OnClose ==
    /\ main = "feed"
    /\ ws \in {"open", "closed"}
    /\ ws' = "closed"
    /\ health' = [health EXCEPT !.status = "reconnecting"]
    /\ Publish(health', Len(inbox))
    /\ main' = IF shutdown' THEN "stop" ELSE "loop"
    /\ UNCHANGED <<bgStop, guard, writer, inbox, batch, todo, raised, conn, seqno, run, clock, parts, arrived>>

Mutant_WriterNotTold ==
    /\ main = "stop"
    /\ main' = "join"
    /\ health' = [health EXCEPT !.status = "stopping"]
    /\ shutdown' = TRUE
    /\ UNCHANGED <<ws, bgStop, guard, writer, inbox, batch, todo, failure, shown, raised,
                   conn, seqno, run, clock, capFaults, parts, arrived>>
(* stop(), up to the joins                                                   *)
Stop ==
    /\ main = "stop"
    /\ main' = "join"
    /\ health' = [health EXCEPT !.status = "stopping"]
    /\ shutdown' = TRUE
    /\ bgStop' = TRUE
    /\ UNCHANGED <<ws, guard, writer, inbox, batch, todo, failure, shown, raised,
                   conn, seqno, run, clock, capFaults, parts, arrived>>

(* The writer has ended or its join timed out: the last snapshot, and what   *)
(* run_forever raises.  The interpreter still waits for the writer thread.   *)
Joined ==
    /\ main = "join"
    /\ main' = "joined"
    /\ LET failed == failure.writer \/ failure.terminal IN
        health' = [health EXCEPT !.status = IF failed THEN "failed" ELSE "stopped"]
    /\ \/ shown' = Snapshot(health', Len(inbox)) /\ UNCHANGED <<failure, shutdown, capFaults>>
       \/ PublishFails /\ CapFault
    /\ raised' = (failure'.writer \/ failure'.terminal)
    /\ UNCHANGED <<ws, bgStop, guard, writer, inbox, batch, todo, conn, seqno, run, clock, parts, arrived>>

Exit ==
    /\ main = "joined"
    /\ writer = "done"
    /\ main' = "ended"
    /\ UNCHANGED <<ws, shutdown, bgStop, guard, writer, inbox, batch, todo, failure, health, shown, raised,
                   conn, seqno, run, clock, capFaults, parts, arrived>>

-----------------------------------------------------------------------------
(* The writer thread.                                                        *)
Get ==
    /\ Running /\ writer = "loop"
    /\ inbox # <<>> /\ Len(batch) < MaxBatch
    /\ batch' = Append(batch, Head(inbox))
    /\ inbox' = Tail(inbox)
    /\ UNCHANGED <<main, ws, shutdown, bgStop, guard, writer, todo, failure, health, shown, raised,
                   conn, seqno, run, clock, capFaults, parts, arrived>>

DayOf(e) == e.ts \div TicksPerDay
KeyOf(e) == <<e.stream, DayOf(e)>>

(* The order of the stream names is the order Streams is enumerated in.      *)
StreamRank == CHOOSE r \in [Streams -> 1 .. Cardinality(Streams)] : IsInjective(r)
KeyBefore(a, b) == StreamRank[a[1]] < StreamRank[b[1]] \/ (a[1] = b[1] /\ a[2] < b[2])

Mutant_FileOrder(a, b) == a.n > b.n
RowBefore(a, b) == Before(a, b)

(* write: the batch grouped by partition, the partitions in sorted order,    *)
(* the rows of each sorted by receive time and sequence.                     *)
Groups(events) ==
    LET keys == SetToSortSeq({KeyOf(e) : e \in events}, KeyBefore)
    IN  [i \in DOMAIN keys |-> SetToSortSeq({e \in events : KeyOf(e) = keys[i]}, RowBefore)]

Flush ==
    /\ Running /\ writer = "loop"
    /\ batch # <<>>
    /\ writer' = "writing"
    /\ todo' = Groups(Range(batch))
    /\ UNCHANGED <<main, ws, shutdown, bgStop, guard, inbox, batch, failure, health, shown, raised,
                   conn, seqno, run, clock, capFaults, parts, arrived>>

Part(rows, manifest) == [rows |-> rows, manifest |-> manifest]

(* _write_partition: the part is renamed into place, then its manifest.      *)
WritePart ==
    /\ Running /\ writer = "writing"
    /\ todo # <<>> /\ Part(todo[1], FALSE) \notin parts
    /\ parts' = parts \union {Part(todo[1], FALSE)}
    /\ UNCHANGED <<procVars, conn, seqno, run, clock, capFaults, arrived>>

WriteManifest ==
    /\ Running /\ writer = "writing"
    /\ todo # <<>> /\ Part(todo[1], FALSE) \in parts
    /\ parts' = (parts \ {Part(todo[1], FALSE)}) \union {Part(todo[1], TRUE)}
    /\ todo' = Tail(todo)
    /\ UNCHANGED <<main, ws, shutdown, bgStop, guard, writer, inbox, batch, failure, health, shown, raised,
                   conn, seqno, run, clock, capFaults, arrived>>

Flushed ==
    /\ Running /\ writer = "writing"
    /\ todo = <<>>
    /\ writer' = "loop"
    /\ health' = [health EXCEPT !.written = @ + Len(batch)]
    /\ batch' = <<>>
    /\ UNCHANGED <<main, ws, shutdown, bgStop, guard, inbox, todo, failure, shown, raised,
                   conn, seqno, run, clock, capFaults, parts, arrived>>

(* Any exception of the writer: the thread ends, the rest stays in memory.   *)
WriterFails ==
    /\ Running /\ writer = "writing"
    /\ CapFault
    /\ writer' = "done"
    /\ failure' = [failure EXCEPT !.writer = TRUE]
    /\ health' = [health EXCEPT !.dropped = @ + 1, !.status = "failed"]
    /\ shutdown' = TRUE
    /\ Closing
    /\ Shows(health', Len(inbox)) \/ UNCHANGED shown
    /\ UNCHANGED <<main, bgStop, guard, inbox, batch, todo, raised, conn, seqno, run, clock, parts, arrived>>

WriterEnds ==
    /\ Running /\ writer = "loop"
    /\ bgStop /\ inbox = <<>> /\ batch = <<>>
    /\ writer' = "done"
    /\ Publish(health, 0)
    /\ UNCHANGED <<main, ws, bgStop, guard, inbox, batch, todo, health, raised,
                   conn, seqno, run, clock, parts, arrived>>

-----------------------------------------------------------------------------
(* The health thread, and what comes from outside.                           *)
HealthTick ==
    /\ Running /\ guard
    /\ \/ bgStop /\ guard' = FALSE /\ UNCHANGED <<health, failure, shown, shutdown, ws, capFaults>>
       \/ ~bgStop /\ ReserveBreached /\ Closing /\ guard' = FALSE
       \/ ~bgStop /\ Publish(health, Len(inbox)) /\ UNCHANGED <<health, ws, guard>>
    /\ UNCHANGED <<main, bgStop, writer, inbox, batch, todo, raised, conn, seqno, run, clock, parts, arrived>>

(* SIGTERM or SIGINT, while the handlers are installed.                      *)
Signal ==
    /\ main \in {"start", "loop", "prepare", "dial", "feed"}
    /\ shutdown' = TRUE
    /\ Closing
    /\ UNCHANGED <<main, bgStop, guard, writer, inbox, batch, todo, failure, health, shown, raised,
                   conn, seqno, run, clock, capFaults, parts, arrived>>

(* SIGKILL, or the machine goes down: what is in memory is gone.             *)
Kill ==
    /\ Running
    /\ run < MaxRuns
    /\ main' = "dead"
    /\ UNCHANGED <<ws, shutdown, bgStop, guard, writer, inbox, batch, todo, failure, health, shown, raised,
                   conn, seqno, run, clock, capFaults, parts, arrived>>

(* restart: unless-stopped                                                   *)
Restart ==
    /\ ~Running
    /\ run < MaxRuns
    /\ run' = run + 1
    /\ seqno' = 0
    /\ main' = "start"
    /\ ws' = "none"
    /\ shutdown' = FALSE
    /\ bgStop' = FALSE
    /\ guard' = TRUE
    /\ writer' = "loop"
    /\ inbox' = <<>>
    /\ batch' = <<>>
    /\ todo' = <<>>
    /\ failure' = NoFailure
    /\ health' = FreshHealth
    /\ shown' = Snapshot(FreshHealth, 0)
    /\ raised' = FALSE
    /\ UNCHANGED <<conn, clock, capFaults, parts, arrived>>

MainStep ==
    \/ FirstReserve
    \/ LoopTest
    \/ PrepareConnection
    \/ OnOpen
    \/ Stop
    \/ Joined
    \/ Exit

WriterStep ==
    \/ Get
    \/ Flush
    \/ WritePart
    \/ WriteManifest
    \/ Flushed
    \/ WriterEnds

CapNext ==
    \/ MainStep
    \/ DialFails
    \/ Receive
    \/ OnClose
    \/ WriterStep
    \/ WriterFails
    \/ HealthTick
    \/ Signal
    \/ Kill
    \/ Restart

(* The threads are scheduled, and the venue ends every connection in the     *)
(* end: a stop signal that falls between the test of the loop and the start  *)
(* of the new socket has to wait for that.                                   *)
CapSpec ==
    /\ CapInit /\ [][CapNext]_capVars
    /\ WF_capVars(MainStep)
    /\ WF_capVars(WriterStep)
    /\ WF_capVars(OnClose)

-----------------------------------------------------------------------------
Visible == {p \in parts : p.manifest}
Stored(r, s) == {e \in UNION {Range(p.rows) : p \in Visible} : e.run = r /\ e.stream = s}
Arrived(r, s) == SelectSeq(arrived, LAMBDA e : e.run = r /\ e.stream = s)

(* However a run ends, a reader finds of each stream a prefix of what        *)
(* arrived in that run: no message is missing in the middle.                 *)
StoredIsPrefix ==
    \A r \in 1 .. run, s \in Streams :
        LET all == Arrived(r, s)
        IN  Stored(r, s) = {all[i] : i \in 1 .. Cardinality(Stored(r, s))}

(* A run that ends by itself with clean evidence (nothing raised; the last   *)
(* snapshot stopped, drained, received = written, nothing dropped) has       *)
(* stored every message it was sent, the unreadable ones included.           *)
CleanEndIsComplete ==
    LET h == shown.h IN
    (/\ main = "ended" /\ ~raised
     /\ h.status = "stopped" /\ shown.depth = 0 /\ h.received = h.written /\ h.dropped = 0)
        => /\ Arrived(run, "none") = <<>>
           /\ \A s \in Streams : Cardinality(Stored(run, s)) = Len(Arrived(run, s))

(* Both: what is stored has no hole, and a run that calls itself clean no end *)
(* missing.                                                                  *)
NothingIsSkipped == StoredIsPrefix /\ CleanEndIsComplete

(* However runs, connections and batches cut a stream into parts, the merge  *)
(* reads it back without an error, every connection in the order of arrival. *)
ReadsBackInOrder ==
    \A s \in Streams :
        LET read == MergeRows({Source(p.rows) : p \in {p \in Visible : p.rows[1].stream = s}})
            Of(c) == SelectSeq(read.out, LAMBDA e : e.conn = c)
        IN  read.ok /\ \A c \in 1 .. conn : IsPrefix(Of(c), SelectSeq(arrived, LAMBDA e : e.stream = s /\ e.conn = c))

(* All of it: what is stored is whole and comes back in order. *)
StoredIsReadBack == NothingIsSkipped /\ ReadsBackInOrder

(* RAW_COLLECTOR_V2.md, 7: "SIGINT and SIGTERM both close the socket, drain  *)
(* the queue, fsync final parts, publish final health, and exit."  A process *)
(* that was told to stop, or decided to, ends.                               *)
ShutdownEnds == shutdown ~> ~Running
===============================================================================
