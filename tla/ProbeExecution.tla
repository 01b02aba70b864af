----------------------------- MODULE ProbeExecution -----------------------------
(***************************************************************************)
(* The execution-quality probe, src/execution/paper_execution_probe.py: it   *)
(* has no signal, it enters once a request, flattens what was filled and     *)
(* journals the evidence (execution_probe_journal.py).  Stores, reconciler,  *)
(* exchange and faults are those of DemoExecution, on databases of the       *)
(* probe's own.  One call of run() is one cycle, and unlike the strategy's   *)
(* executor it polls inside the cycle until a deadline.                      *)
(*   Entry and exit are orders <<t, 0>> and <<t, n>> as there; reference     *)
(* quotes and markouts, which nothing waits for, are left out.               *)
(***************************************************************************)
EXTENDS DemoExecution

CONSTANT Requests      \* the observations that probe requests name

ASSUME ProbeAssumption == Requests \subseteq Trade

VARIABLES
    mode,     \* candidate_id of the trade: "TAKER" or "MAKER"
    age,      \* of the active trade: 0, 1 past the maker deadline, 2 past the overall one
    asked,    \* local: cancel_attempted
    journal   \* execution_probe_orders: the row of the trade's entry

probeVars == <<mode, age, asked, journal>>

NoRow == [filled |-> -1, rejected |-> FALSE]

ProbeInit ==
    /\ DemoInit
    /\ mode = [t \in Trade |-> None] /\ age = 0 /\ asked = FALSE
    /\ journal = [t \in Trade |-> NoRow]

(* A step that is DemoExecution's own. *)
Shared(A) == A /\ UNCHANGED probeVars

-----------------------------------------------------------------------------
(* run(): the active trade is continued, whatever request asks; without one  *)
(* the account must be flat and the day must authorize.                      *)
ProbeContinues(t) ==
    /\ pc = "idle" /\ t \in ActiveTrades
    /\ LET phase == trades[t].phase IN
       \/ /\ phase = "OBSERVED"
          /\ pc' = "begin order"
          /\ cur' = [NoCycle EXCEPT !.trade = t, !.day = day, !.order = Entry(t),
                                    !.caller = "entry", !.qty = MaxQty]
       \/ /\ phase = "ENTRY_SUBMITTED"
          /\ pc' = "fetch executions"
          /\ cur' = [NoCycle EXCEPT !.trade = t, !.day = day, !.order = trades[t].entryOrder,
                                    !.caller = "entry"]
       \/ /\ phase = "OPEN"
          /\ pc' = "positions"
          /\ cur' = [NoCycle EXCEPT !.trade = t, !.day = day]
       \/ /\ phase = "EXIT_SUBMITTED"
          /\ pc' = "fetch executions"
          /\ cur' = [NoCycle EXCEPT !.trade = t, !.day = day, !.order = trades[t].exitOrder,
                                    !.caller = "exit"]
       \/ /\ phase = "SAFETY_HOLD" /\ EndCycle
    /\ asked' = FALSE
    /\ ReadOnly /\ UNCHANGED <<mode, age, journal>>

ProbeOpenOrders ==
    /\ pc = "open orders"
    /\ IF \E o \in Order : Live(o)
       THEN EndCycle
       ELSE /\ \E t \in Requests : cur' = [cur EXCEPT !.trade = t, !.order = Entry(t),
                                                      !.caller = "entry", !.qty = MaxQty]
            /\ pc' = "authorize"
    /\ ReadOnly

(* A request that has its trade already is answered, with or without a conflict. *)
ProbeBeginTrade ==
    /\ pc = "begin trade"
    /\ \/ /\ ~Exists(cur.trade)
          /\ OnlyTrades(BeginTrade(cur.trade, cur.day))
          /\ mode' \in {[mode EXCEPT ![cur.trade] = m] : m \in {"TAKER", "MAKER"}}
          /\ age' = 0
          /\ Goto("record entry")
       \/ Exists(cur.trade) /\ Raise /\ UNCHANGED <<mode, age>>
    /\ asked' = FALSE /\ UNCHANGED journal

(* The entry is counted before anything of it is submitted. *)
ProbeRecordEntry ==
    /\ pc = "record entry"
    /\ OnlyTrades(RecordEntry(cur.day))
    /\ Goto("begin order")

(* The key of an exit is a new one each time, that of the entry the same. *)
ProbeBeginOrder ==
    /\ pc = "begin order"
    /\ OnlyOrders(BeginOrder(cur.order, OrderParams(cur.order, cur.qty)))
    /\ Goto("mark order")

ProbePlace ==
    /\ pc = "place"
    /\ exch[cur.order] = "absent"
    /\ exch' = [exch EXCEPT ![cur.order] = "New"]
    /\ Goto("fetch executions")
    /\ UNCHANGED <<orders, fills, net, trades, risk, executed, visible, envVars>>

-----------------------------------------------------------------------------
(* The reconciler, and the polling around it: an exit's deadline counts from *)
(* the start of its cycle, an entry's from the beginning of the trade.       *)
Overdue == age = 2 \/ ~IsEntry(cur.order)
InTime  == age < 2 \/ ~IsEntry(cur.order)
PollAgain == InTime /\ Goto("fetch executions")
GiveUp == Overdue /\ EndCycle

ProbeFetchOrder ==
    /\ pc = "apply fills" /\ cur.batch = {}
    /\ \/ exch[cur.order] = "absent" /\ Goto(Returns) /\ ReadOnly
       \/ /\ exch[cur.order] # "absent"
          /\ orders[cur.order].filled # Cumulative(cur.order)
          /\ PollAgain \/ GiveUp
          /\ ReadOnly
       \/ exch[cur.order] # "absent" /\ InAgreement

(* _await_and_resolve_entry, after a look that did not lag. *)
EntryFilled ==
    LET order == orders[cur.order] IN
    /\ \/ order.state = "FILLED"
       \/ order.state = "CANCELED" /\ order.filled > 0
       \/ /\ order.state = "PARTIALLY_FILLED"
          /\ age = 2 /\ (mode[cur.trade] = "MAKER" => asked)
    /\ OnlyTrades(MarkOpen(cur.trade))
    /\ Goto("journal fill")
    /\ UNCHANGED asked

EntryUnfilled ==
    /\ orders[cur.order].state \in {"REJECTED", "CANCELED"} /\ orders[cur.order].filled = 0
    /\ Goto("journal none") /\ ReadOnly /\ UNCHANGED asked

Waiting == orders[cur.order].state \notin Terminal

(* Cancelling an order that has just ended raises. *)
EntryCancel ==
    /\ Waiting /\ mode[cur.trade] = "MAKER" /\ age > 0 /\ ~asked
    /\ \/ Live(cur.order) /\ asked' = TRUE /\ Goto("fetch executions")
       \/ ~Live(cur.order) /\ asked' = FALSE /\ EndCycle
    /\ ReadOnly

EntryWaits ==
    /\ Waiting /\ (mode[cur.trade] = "MAKER" /\ age > 0 => asked)
    /\ \/ PollAgain
       \/ orders[cur.order].filled = 0 /\ GiveUp
    /\ ReadOnly /\ UNCHANGED asked

(* A canceled entry is taken for an unfilled one. *)
Mutant_PartialIsNothing ==
    /\ pc = "entry reconciled"
    /\ \/ EntryFilled
       \/ orders[cur.order].state \in {"REJECTED", "CANCELED"} /\ Goto("journal none")
            /\ ReadOnly /\ UNCHANGED asked
       \/ EntryCancel \/ EntryWaits
    /\ UNCHANGED <<mode, age, journal>>

ProbeEntryReconciled ==
    /\ pc = "entry reconciled"
    /\ EntryFilled \/ EntryUnfilled \/ EntryCancel \/ EntryWaits
    /\ UNCHANGED <<mode, age, journal>>

(* _journal_entry: what the store says of the entry now. *)
JournalStep ==
    /\ pc \in {"journal fill", "journal none"}
    /\ LET order == orders[Entry(cur.trade)] IN
       journal' = [journal EXCEPT ![cur.trade] =
           [filled |-> order.filled,
            rejected |-> order.filled = 0 /\ order.state \in {"REJECTED", "CANCELED"}]]
    /\ IF pc = "journal fill" THEN Goto("positions") ELSE Goto("close none")
    /\ ReadOnly /\ UNCHANGED <<mode, age, asked>>

(* A trade without a fill is no result of the day. *)
CloseZeroFill ==
    /\ pc = "close none"
    /\ OnlyTrades(MarkClosed(cur.trade, 0))
    /\ EndCycle

-----------------------------------------------------------------------------
(* _flatten and _continue_exit.                                              *)
Flatten ==
    /\ pc = "positions"
    /\ IF Position = 0 THEN Goto("hold mismatch")
       ELSE IF NextExitAttempt(cur.trade) > MaxExitAttempts THEN Goto("hold attempts")
       ELSE SubmitExit(cur.trade, "exit")
    /\ ReadOnly

(* The next exit does not wait for the end of the one before. *)
Mutant_ExitNotWaitedFor ==
    /\ pc = "exit reconciled"
    /\ IF Position = 0 /\ orders[cur.order].filled > 0 THEN Goto("close")
       ELSE Goto("positions")
    /\ ReadOnly

ProbeExitReconciled ==
    /\ pc = "exit reconciled"
    /\ LET ended == orders[cur.order].state \in {"CANCELED", "REJECTED"} IN
       IF Position = 0 /\ (orders[cur.order].filled > 0 \/ ended) THEN Goto("close")
       ELSE IF ended THEN Goto("positions")
       ELSE PollAgain \/ GiveUp
    /\ ReadOnly

Deadline ==
    /\ age < 2 /\ \E t \in ActiveTrades : trades[t].phase \in {"OBSERVED", "ENTRY_SUBMITTED"}
    /\ age' = age + 1
    /\ UNCHANGED <<demoVars, mode, asked, journal>>

ProbeStep ==
    \/ \E t \in Requests : ProbeContinues(t)
    \/ ProbeBeginTrade \/ ProbeEntryReconciled \/ JournalStep
    \/ Shared(StartNoTrade) \/ Shared(ReadPositions) \/ Shared(ProbeOpenOrders)
    \/ Shared(AuthorizeStep) \/ Shared(ProbeRecordEntry)
    \/ Shared(ProbeBeginOrder) \/ Shared(MarkOrderStep) \/ Shared(WriteAhead) \/ Shared(ProbePlace)
    \/ Shared(FetchExecutions) \/ Shared(ApplyNext) \/ Shared(ProbeFetchOrder)
    \/ Shared(CloseZeroFill) \/ Shared(Flatten) \/ Shared(ProbeExitReconciled)
    \/ Shared(HoldStep) \/ Shared(Close) \/ Shared(RecordCloseStep)

ExchangeStep ==
    \/ \E o \in Order : Execute(o) \/ EndEarly(o)
    \/ \E f \in FillId : Publish(f)

ProbeNext == ProbeStep \/ Deadline \/ Shared(ExchangeStep) \/ Shared(Fault)

ProbeSpec == ProbeInit /\ [][ProbeNext]_<<demoVars, probeVars>>

-----------------------------------------------------------------------------
(* Through crashes at any point, a probe whose entry the store knows to be   *)
(* over is closed flat, its exits never ask for more than it holds, and what *)
(* is journalled of it is what the exchange did: the evidence tells no more  *)
(* and no less than the executions.  Without a crash every closed probe is   *)
(* in the journal.  (_close, _close_zero_fill, _journal_entry.)              *)
ProbeEvidenceIsTrue ==
    /\ ExitFitsPosition
    /\ \A t \in Requests : mode[t] # None =>
        LET closed == trades[t].phase = "CLOSED" IN
        /\ orders[Entry(t)].state \in Terminal =>
              /\ closed => Exposure(t) = 0 /\ \A o \in Order : o[1] = t => ~Live(o)
              /\ journal[t] # NoRow => /\ journal[t].filled = Cumulative(Entry(t))
                                       /\ journal[t].rejected <=> Cumulative(Entry(t)) = 0
        /\ closed /\ faults = 0 => journal[t] # NoRow

(* As long as no cycle was cut short, an entry on its way is resolved in the *)
(* end (one that the exchange cancels is not resolved by the strategy's      *)
(* executor, whose cycle has no branch for it), and an exit that was sent    *)
(* after its entry was over closes its trade, or holds it.  For the          *)
(* strategy's executor and for the probe (_advance_active and _advance).     *)
PhasesResolve ==
    \A t \in Trade :
        /\ trades[t].phase = "ENTRY_SUBMITTED" ~>
              \/ trades[t].phase # "ENTRY_SUBMITTED" \/ faults > 0
              \/ mode[t] = None /\ orders[Entry(t)].state = "CANCELED"
        /\ trades[t].phase = "EXIT_SUBMITTED" /\ orders[Entry(t)].state \in Terminal ~>
              trades[t].phase \in {"CLOSED", "SAFETY_HOLD"} \/ faults > 0

(* "Every probe order is unconditionally reduce-only-flattened the moment    *)
(* any quantity fills" (paper_execution_probe.py:28): no closed probe has    *)
(* exposure.                                                                 *)
ClosedProbeIsFlattened ==
    \A t \in Requests : trades[t].phase = "CLOSED" => Exposure(t) = 0
=================================================================================
