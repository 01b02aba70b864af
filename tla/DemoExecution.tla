------------------------------ MODULE DemoExecution ------------------------------
(***************************************************************************)
(* The autonomous Demo executor, src/execution/demo_strategy_executor.py,   *)
(* over the two durable stores it writes (PaperOrders, TradeState), with    *)
(* the reconciler (demo_order_reconciler.py), the exchange as the gateway   *)
(* shows it, and the operator's script that clears an unsubmitted hold.     *)
(*                                                                          *)
(* One call of advance() is one cycle.  The executor is one process; every  *)
(* network call and every store transaction is one step of it, and a fault  *)
(* (a crash, or an exception out of any call) may end the cycle between any *)
(* two: the local variables are lost, the stores and the exchange are not.  *)
(* The exchange works between any two steps.                                *)
(*                                                                          *)
(* Order <<t, 0>> is the entry of trade t ("entry-v1"), <<t, n>> its n-th   *)
(* exit ("exit-v<n>").  Every execution is one quantity step: execution     *)
(* <<o, k>> is the k-th of order o.  A SHORT trade mirrors a LONG one, so   *)
(* the position is measured in the direction of the trade.                  *)
(***************************************************************************)
EXTENDS PaperOrders, TradeState

CONSTANTS
    MaxExits,          \* bound on the exit orders of one trade
    MaxExitAttempts,   \* the literal 5 of _advance_active
    MaxFaults          \* bound on the faults

ASSUME DemoAssumption ==
    /\ MaxExits \in Nat \ {0}
    /\ MaxExitAttempts \in Nat \ {0}
    /\ MaxFaults \in Nat
    /\ Order = Trade \X (0..MaxExits)
    /\ TradeOrder = Order
    /\ Group = Trade
    /\ FillId = Order \X (1..MaxQty)
    /\ {"position mismatch", "attempts exhausted", "flat mismatch"} \subseteq HoldReason
    /\ Reason # {} /\ Body # {} /\ Symbol # {}

VARIABLES
    exch,       \* exchange: the status of every order, "absent" before it is accepted
    executed,   \* exchange: the executions that happened
    visible,    \* exchange: those the execution feed returns
    day,        \* the current UTC date
    pc,         \* executor: the next call of the cycle, "idle" between cycles
    cur,        \* executor: local variables of the cycle
    operator,   \* the clearing script: "idle", or "flat" after its exposure check
    faults      \* faults so far

exchVars == <<exch, executed, visible>>
procVars == <<pc, cur>>
envVars == <<day, operator, faults>>
demoVars == <<orders, fills, net, trades, risk, exch, executed, visible, day, pc, cur,
              operator, faults>>

Entry(t) == <<t, 0>>
Exits(t) == {<<t, n>> : n \in 1..MaxExits}
IsEntry(o) == o[2] = 0
ExecutionsOf(o) == {f \in executed : f[1] = o}
Cumulative(o) == Cardinality(ExecutionsOf(o))
Live(o) == exch[o] \in {"New", "PartiallyFilled"}

Exposure(t) ==
    Cardinality({f \in executed : f[1] = Entry(t)})
      - Cardinality({f \in executed : f[1] \in Exits(t)})
Position ==
    Cardinality({f \in executed : IsEntry(f[1])})
      - Cardinality({f \in executed : ~IsEntry(f[1])})

(* side, quantity and leg group that _submit passes to begin_order.          *)
TheBody == CHOOSE b \in Body : TRUE
TheSymbol == CHOOSE s \in Symbol : TRUE
OrderParams(o, q) == [symbol |-> TheSymbol, side |-> IF IsEntry(o) THEN "BUY" ELSE "SELL",
                      qty |-> q, group |-> o[1]]
FillOf(f) == [order |-> f[1], qty |-> 1, body |-> TheBody]

PcValue == {"idle", "open orders", "exposure", "authorize", "begin trade", "begin order",
            "mark order", "write ahead", "place", "record entry", "fetch executions",
            "apply fills", "entry reconciled", "positions", "exit reconciled",
            "hold mismatch", "hold attempts", "close", "record close"}

(* Who called the reconciler: the first look at a new entry or exit, a later *)
(* cycle, or the replacement of a terminal exit that left a residue.         *)
Caller == {"new entry", "entry", "new exit", "exit", "replacement"}

NoCycle == [trade |-> None, order |-> None, day |-> None, caller |-> None, qty |-> 0, batch |-> {}]

DemoInit ==
    /\ OrdInit
    /\ StInit
    /\ exch = [o \in Order |-> "absent"]
    /\ executed = {}
    /\ visible = {}
    /\ day \in Day
    /\ pc = "idle"
    /\ cur = NoCycle
    /\ operator = "idle"
    /\ faults = 0

-----------------------------------------------------------------------------
(* Control.                                                                  *)
Goto(label) == pc' = label /\ UNCHANGED cur
EndCycle == pc' = "idle" /\ cur' = NoCycle

OnlyOrders(A) == A /\ UNCHANGED <<trades, risk, exchVars, envVars>>
OnlyTrades(A) == A /\ UNCHANGED <<orders, fills, net, exchVars, envVars>>
ReadOnly == UNCHANGED <<orders, fills, net, trades, risk, exchVars, envVars>>

(* A call that raises ends the cycle and writes nothing.                     *)
Raise == EndCycle /\ ReadOnly

Reconcile(o, caller) ==
    /\ pc' = "fetch executions"
    /\ cur' = [cur EXCEPT !.order = o, !.caller = caller]

(* _next_exit_attempt: one more than the exit orders on record.              *)
NextExitAttempt(t) == 1 + Cardinality({o \in Exits(t) : Begun(o)})

Mutant_ExitForEntryQuantity(t, caller) ==
    /\ NextExitAttempt(t) <= MaxExits
    /\ pc' = "begin order"
    /\ cur' = [cur EXCEPT !.order = <<t, NextExitAttempt(t)>>, !.caller = caller,
                          !.qty = orders[Entry(t)].filled]
SubmitExit(t, caller) ==
    /\ NextExitAttempt(t) <= MaxExits
    /\ pc' = "begin order"
    /\ cur' = [cur EXCEPT !.order = <<t, NextExitAttempt(t)>>, !.caller = caller, !.qty = Position]

-----------------------------------------------------------------------------
(* advance(): the dispatch on the durable active trade.                      *)
StartNoTrade ==
    /\ pc = "idle"
    /\ ActiveTrades = {}
    /\ pc' = "exposure"
    /\ cur' = [NoCycle EXCEPT !.day = day]
    /\ ReadOnly

StartActive(t) ==
    /\ pc = "idle"
    /\ t \in ActiveTrades
    /\ \/ /\ trades[t].phase = "ENTRY_SUBMITTED"
          /\ pc' = "fetch executions"
          /\ cur' = [NoCycle EXCEPT !.trade = t, !.day = day, !.order = trades[t].entryOrder,
                                    !.caller = "entry"]
       \/ /\ trades[t].phase = "EXIT_SUBMITTED"
          /\ pc' = "fetch executions"
          /\ cur' = [NoCycle EXCEPT !.trade = t, !.day = day, !.order = trades[t].exitOrder,
                                    !.caller = "exit"]
       \/ /\ trades[t].phase \in {"OBSERVED", "OPEN"}
          /\ pc' = "positions"
          /\ cur' = [NoCycle EXCEPT !.trade = t, !.day = day]
       \/ /\ trades[t].phase = "SAFETY_HOLD"      \* waits for manual review
          /\ EndCycle
    /\ ReadOnly

(* account_exposure: positions first, open orders in a second request.       *)
ReadPositions ==
    /\ pc = "exposure"
    /\ IF Position # 0 THEN EndCycle ELSE Goto("open orders")
    /\ ReadOnly

(* No exposure: the strategy adapter answers WAIT, or names an observation.  *)
ReadOpenOrders ==
    /\ pc = "open orders"
    /\ \/ EndCycle
       \/ /\ \A o \in Order : ~Live(o)
          /\ \E t \in Trade : cur' = [cur EXCEPT !.trade = t, !.order = Entry(t),
                                                 !.caller = "new entry", !.qty = MaxQty]
          /\ pc' = "authorize"
    /\ ReadOnly

AuthorizeStep ==
    /\ pc = "authorize"
    /\ \/ /\ OnlyTrades(AuthorizeEntry(cur.day))
          /\ Goto("begin trade")
       \/ ~Authorized(cur.day) /\ Raise

(* An observation already on record: its prices may or may not be the same.  *)
BeginTradeStep ==
    /\ pc = "begin trade"
    /\ \/ /\ OnlyTrades(BeginTrade(cur.trade, cur.day))
          /\ Goto("begin order")
       \/ (Exists(cur.trade) \/ ActiveTrades # {}) /\ Raise

-----------------------------------------------------------------------------
(* _submit: begin_order, mark_*_submitted, mark_submitted, the network call. *)
BeginOrderStep ==
    /\ pc = "begin order"
    /\ \/ /\ OnlyOrders(BeginOrder(cur.order, OrderParams(cur.order, cur.qty)))
          /\ Goto("mark order")
       \/ Begun(cur.order) /\ Raise

MarkAllowed ==
    IF IsEntry(cur.order)
    THEN trades[cur.trade].phase \in {"OBSERVED", "ENTRY_SUBMITTED"}
    ELSE trades[cur.trade].phase \in {"OPEN", "EXIT_SUBMITTED"}

MarkOrderStep ==
    /\ pc = "mark order"
    /\ \/ /\ IF IsEntry(cur.order)
             THEN OnlyTrades(MarkEntrySubmitted(cur.trade, cur.order))
             ELSE \E r \in Reason : OnlyTrades(MarkExitSubmitted(cur.trade, cur.order, r))
          /\ IF orders[cur.order].state = "PENDING_SUBMIT"
             THEN Goto("write ahead")
             ELSE IF IsEntry(cur.order) THEN Goto("record entry") ELSE Goto("fetch executions")
       \/ ~MarkAllowed /\ Raise

Mutant_PlaceFirst ==
    /\ pc = "write ahead"
    /\ Goto("place") /\ ReadOnly
WriteAhead ==
    /\ pc = "write ahead"
    /\ OnlyOrders(MarkSubmitted(cur.order))
    /\ Goto("place")

(* place_market or place_post_only: the order reaches the exchange, which    *)
(* takes an orderLinkId once.                                                *)
Mutant_PlaceRetried ==
    /\ pc = "place"
    /\ exch' = [exch EXCEPT ![cur.order] = "New"]
    /\ UNCHANGED <<orders, fills, net, trades, risk, executed, visible, envVars, procVars>>
Place ==
    /\ pc = "place"
    /\ exch[cur.order] = "absent"
    /\ exch' = [exch EXCEPT ![cur.order] = "New"]
    /\ IF IsEntry(cur.order) THEN Goto("record entry") ELSE Goto("fetch executions")
    /\ UNCHANGED <<orders, fills, net, trades, risk, executed, visible, envVars>>

RecordEntryStep ==
    /\ pc = "record entry"
    /\ \/ /\ OnlyTrades(RecordEntry(cur.day))
          /\ Goto("fetch executions")
       \/ ~Authorized(cur.day) /\ Raise

-----------------------------------------------------------------------------
(* DemoOrderReconciler.reconcile: fetch the executions, apply them one       *)
(* transaction each, then fetch the order and compare.                       *)
FetchExecutions ==
    /\ pc = "fetch executions"
    /\ pc' = "apply fills"
    /\ cur' = [cur EXCEPT !.batch = {f \in visible : f[1] = cur.order}]
    /\ ReadOnly

ApplyNext ==
    /\ pc = "apply fills"
    /\ \E f \in cur.batch :
          /\ \A g \in cur.batch : f[2] <= g[2]
          /\ cur' = [cur EXCEPT !.batch = @ \ {f}]
          /\ OnlyOrders(RecordFill(cur.order, f, FillOf(f)))
    /\ UNCHANGED pc

Returns ==
    CASE cur.caller \in {"new entry", "entry"} -> "entry reconciled"
      [] cur.caller \in {"new exit", "exit", "replacement"} -> "exit reconciled"

(* The order is ahead of the execution feed: every caller gives up until the *)
(* next cycle but the replacement, which goes on to look at the position.    *)
Lagging ==
    /\ orders[cur.order].filled # Cumulative(cur.order)
    /\ IF cur.caller = "replacement" THEN Goto(Returns) ELSE EndCycle
    /\ ReadOnly

Mutant_LagIgnored ==
    /\ exch[cur.order] = "Cancelled"
    /\ OnlyOrders(MarkCanceled(cur.order))
    /\ Goto(Returns)
Mutant_CancelIgnored ==
    /\ orders[cur.order].filled = Cumulative(cur.order)
    /\ Goto(Returns) /\ ReadOnly
InAgreement ==
    /\ orders[cur.order].filled = Cumulative(cur.order)
    /\ \/ /\ Live(cur.order)
          /\ Goto(Returns) /\ ReadOnly
       \/ /\ exch[cur.order] = "Filled"
          /\ IF orders[cur.order].state = "FILLED" THEN Goto(Returns) ELSE EndCycle
          /\ ReadOnly
       \/ /\ \/ exch[cur.order] = "Cancelled"
             \/ exch[cur.order] = "Rejected" /\ orders[cur.order].filled > 0
          /\ OnlyOrders(MarkCanceled(cur.order))
          /\ Goto(Returns)
       \/ /\ exch[cur.order] = "Rejected"
          /\ orders[cur.order].filled = 0
          /\ IF orders[cur.order].state = "REJECTED"
             THEN ReadOnly ELSE OnlyOrders(RecordRejection(cur.order))
          /\ Goto(Returns)

FetchOrder ==
    /\ pc = "apply fills"
    /\ cur.batch = {}
    /\ \/ exch[cur.order] = "absent" /\ Goto(Returns) /\ ReadOnly
       \/ exch[cur.order] # "absent" /\ (Lagging \/ InAgreement)

-----------------------------------------------------------------------------
(* What the executor makes of a reconciled entry; a fill seen in a later     *)
(* cycle falls through to the position check of an open trade.               *)
Mutant_CanceledEntryCloses ==
    /\ pc = "entry reconciled"
    /\ IF orders[cur.order].state = "CANCELED"
       THEN OnlyTrades(MarkClosed(cur.trade, 0))
       ELSE OnlyTrades(MarkOpen(cur.trade))
    /\ EndCycle
EntryReconciled ==
    /\ pc = "entry reconciled"
    /\ \/ /\ orders[cur.order].state = "FILLED"
          /\ OnlyTrades(MarkOpen(cur.trade))
          /\ IF cur.caller = "entry" THEN Goto("positions") ELSE EndCycle
       \/ /\ orders[cur.order].state = "REJECTED"
          /\ orders[cur.order].filled = 0
          /\ OnlyTrades(MarkClosed(cur.trade, 0))
          /\ EndCycle
       \/ /\ orders[cur.order].state \notin {"FILLED", "REJECTED"}
          /\ EndCycle /\ ReadOnly

(* The open trade: flat is a mismatch, else the price and the clock decide.  *)
ReadPosition ==
    /\ pc = "positions"
    /\ \/ /\ Position = 0 \/ ~trades[cur.trade].opened
          /\ Goto("hold mismatch")
       \/ /\ Position # 0 /\ trades[cur.trade].opened
          /\ EndCycle \/ SubmitExit(cur.trade, "new exit")
    /\ ReadOnly

ExitReconciled ==
    /\ pc = "exit reconciled"
    /\ LET state == orders[cur.order].state
           filled == orders[cur.order].filled
       IN CASE cur.caller = "new exit" ->
                 IF Position = 0 /\ state = "FILLED" THEN Goto("close") ELSE EndCycle
            [] cur.caller = "replacement" ->
                 IF Position = 0 THEN Goto("close") ELSE EndCycle
            [] cur.caller = "exit" ->
                 \/ /\ Position = 0
                    /\ filled > 0 \/ state \in {"CANCELED", "REJECTED"}
                    /\ Goto("close")
                 \/ /\ Position # 0 /\ state \in {"CANCELED", "REJECTED"}
                    /\ IF NextExitAttempt(cur.trade) > MaxExitAttempts
                       THEN Goto("hold attempts")
                       ELSE SubmitExit(cur.trade, "replacement")
                 \/ /\ ~(Position = 0 /\ filled > 0)
                    /\ state \notin {"CANCELED", "REJECTED"}
                    /\ EndCycle
    /\ ReadOnly

HoldStep ==
    /\ \/ /\ pc = "hold mismatch"
          /\ OnlyTrades(MarkSafetyHold(cur.trade, "position mismatch"))
       \/ /\ pc = "hold attempts"
          /\ OnlyTrades(MarkSafetyHold(cur.trade, "attempts exhausted"))
    /\ EndCycle

(* _close: the durable books must balance; the result goes to the trade row  *)
(* first and to the daily ledger, another transaction, afterwards.           *)
ExitedQuantity(t) == SumOf([o \in {e \in Exits(t) : Begun(e)} |-> orders[o].filled])

Close ==
    /\ pc = "close"
    /\ IF ExitedQuantity(cur.trade) # orders[Entry(cur.trade)].filled
       THEN OnlyTrades(MarkSafetyHold(cur.trade, "flat mismatch")) /\ EndCycle
       ELSE /\ \E p \in Pnl : OnlyTrades(MarkClosed(cur.trade, p))
            /\ Goto("record close")

RecordCloseStep ==
    /\ pc = "record close"
    /\ OnlyTrades(RecordClose(cur.day, trades[cur.trade].pnl))
    /\ EndCycle

Executor ==
    \/ StartNoTrade \/ (\E t \in Trade : StartActive(t))
    \/ ReadPositions \/ ReadOpenOrders \/ AuthorizeStep \/ BeginTradeStep
    \/ BeginOrderStep \/ MarkOrderStep \/ WriteAhead \/ Place \/ RecordEntryStep
    \/ FetchExecutions \/ ApplyNext \/ FetchOrder
    \/ EntryReconciled \/ ReadPosition \/ ExitReconciled \/ HoldStep \/ Close \/ RecordCloseStep

-----------------------------------------------------------------------------
(* The exchange.  It may fill an order in steps, end it early, or refuse it; *)
(* a reduce-only exit never takes more than the position.                    *)
Execute(o) ==
    /\ Live(o)
    /\ ~IsEntry(o) => Position > 0
    /\ executed' = executed \cup {<<o, Cumulative(o) + 1>>}
    /\ exch' = [exch EXCEPT ![o] =
           IF Cumulative(o) + 1 = orders[o].params.qty THEN "Filled" ELSE "PartiallyFilled"]
    /\ UNCHANGED <<orders, fills, net, trades, risk, visible, procVars, envVars>>

EndEarly(o) ==
    /\ Live(o)
    /\ \E s \in {"Cancelled", "Rejected"} :
          /\ s = "Rejected" => exch[o] = "New"
          /\ exch' = [exch EXCEPT ![o] = s]
    /\ UNCHANGED <<orders, fills, net, trades, risk, executed, visible, procVars, envVars>>

Publish(f) ==
    /\ f \in executed \ visible
    /\ visible' = visible \cup {f}
    /\ UNCHANGED <<orders, fills, net, trades, risk, exch, executed, procVars, envVars>>

(* The clearing script: the account looked flat, then the hold is cleared.   *)
OperatorLooks ==
    /\ operator = "idle"
    /\ Position = 0 /\ \A o \in Order : ~Live(o)
    /\ operator' = "flat"
    /\ UNCHANGED <<orders, fills, net, trades, risk, exchVars, procVars, day, faults>>

OperatorClears ==
    /\ operator = "flat"
    /\ operator' = "idle"
    /\ \/ \E t \in Trade : CloseUnsubmittedHold(t)
       \/ UNCHANGED <<trades, risk>>
    /\ UNCHANGED <<orders, fills, net, exchVars, procVars, day, faults>>

NextDay ==
    /\ \E d \in Day : d > day /\ day' = d
    /\ UNCHANGED <<orders, fills, net, trades, risk, exchVars, procVars, operator, faults>>

CoolDown ==
    /\ \E d \in Day : CooldownElapses(d)
    /\ UNCHANGED <<orders, fills, net, exchVars, procVars, envVars>>

Fault ==
    /\ pc # "idle"
    /\ faults < MaxFaults
    /\ faults' = faults + 1
    /\ EndCycle
    /\ UNCHANGED <<orders, fills, net, trades, risk, exchVars, day, operator>>

DemoNext ==
    \/ Executor
    \/ \E o \in Order : Execute(o) \/ EndEarly(o)
    \/ \E f \in FillId : Publish(f)
    \/ OperatorLooks \/ OperatorClears
    \/ NextDay \/ CoolDown
    \/ Fault

DemoSpec == DemoInit /\ [][DemoNext]_demoVars

-----------------------------------------------------------------------------
CurRow == [trade : Trade \cup {None}, order : Order \cup {None}, day : Day \cup {None},
           caller : Caller \cup {None}, qty : 0..MaxQty, batch : SUBSET FillId]

(* Both stores, the exchange and the cycle in progress keep their types.     *)
DemoTypeOK ==
    /\ OrdTypeOK
    /\ StTypeOK
    /\ exch \in [Order -> {"absent", "New", "PartiallyFilled", "Filled", "Cancelled", "Rejected"}]
    /\ executed \in SUBSET FillId
    /\ visible \in SUBSET executed
    /\ day \in Day
    /\ pc \in PcValue
    /\ cur \in CurRow
    /\ operator \in {"idle", "flat"}
    /\ faults \in 0..MaxFaults

(* Whatever is live or open at the exchange belongs to the one active trade, *)
(* so the "unowned Demo exposure" refusal can never meet the executor's own  *)
(* orders, and no trade is ever closed or cleared over a running order.      *)
ExposureIsOwned ==
    \A t \in Trade :
        Exposure(t) # 0 \/ (\E o \in Order : o[1] = t /\ Live(o)) =>
            /\ Active(t)
            /\ trades[t].phase # "OBSERVED"
            /\ trades[t].entryOrder = Entry(t)

(* Write-ahead: an order the exchange knows is on record as submitted, under *)
(* a trade row that names it or named it, whatever fault hit the cycle.      *)
WriteAheadHolds ==
    \A o \in Order : exch[o] # "absent" =>
        /\ orders[o].state \notin {"ABSENT", "PENDING_SUBMIT"}
        /\ IF IsEntry(o) THEN trades[o[1]].entryOrder = o ELSE trades[o[1]].exitOrder # None

(* "callers must ingest all executions observed by the exchange before       *)
(* marking the order canceled": once the durable order is terminal, so is    *)
(* the exchange's, and the store holds every execution it will ever have.    *)
TerminalIsComplete ==
    \A o \in Order : orders[o].state \in Terminal =>
        /\ exch[o] \in {"Filled", "Cancelled", "Rejected"}
        /\ FillsOf(o) = ExecutionsOf(o)

(* No orderLinkId is ever offered to the exchange twice: a fault, a retry or *)
(* a repeated observation never sends an order that was sent before.         *)
NeverResent ==
    pc = "place" => exch[cur.order] = "absent" /\ orders[cur.order].attempts = 1

(* Both: an order reaches the exchange once, and never before its record.    *)
SentOnceOnRecord == WriteAheadHolds /\ NeverResent

(* The exits in flight never ask for more than the position, so the residual *)
(* replacement neither stacks on a running exit nor leans on reduce-only.    *)
ExitFitsPosition ==
    \A t \in Trade :
        LET inFlight == {o \in Exits(t) : Live(o)} IN
        SumOf([o \in inFlight |-> orders[o].params.qty - Cumulative(o)]) <= Exposure(t)

(* A trade is closed on complete books: it is flat for good and every        *)
(* execution of its orders is recorded.                                      *)
ClosedIsFlat ==
    \A t \in Trade : trades[t].phase = "CLOSED" =>
        /\ Exposure(t) = 0
        /\ \A o \in Order : o[1] = t => ~Live(o) /\ FillsOf(o) = ExecutionsOf(o)

(* What is over is over on complete books: an order that is terminal on      *)
(* record, and a trade that is closed (reconcile_demo_order, run_once).      *)
DoneIsComplete == TerminalIsComplete /\ ClosedIsFlat

(* Between cycles the daily ledger holds the result of every closed trade.   *)
ResultsReachTheLedger ==
    pc = "idle" =>
        SumOf([d \in Day |-> risk[d].pnl])
            = SumOf([t \in {u \in Trade : trades[u].phase = "CLOSED"} |-> trades[t].pnl])

(* The trades of a UTC day whose entry reached the exchange.                 *)
SentOn(d) == {t \in Trade : trades[t].day = d /\ exch[Entry(t)] # "absent"}

(* maximum_trades_per_utc_day: no UTC day sees more entries sent, at least   *)
(* until a fault strikes between the sending of an entry and its count.      *)
DailyTradeLimit == faults = 0 => \A d \in Day : Cardinality(SentOn(d)) <= MaxTrades

(* How far a trade has come, as TradeSlot tells it.                          *)
StageOf(t) ==
    CASE trades[t].phase = "ABSENT" -> "free"
      [] trades[t].phase = "CLOSED" -> "done"
      [] trades[t].phase = "SAFETY_HOLD" -> "held"
      [] OTHER -> "working"

Slot == INSTANCE TradeSlot WITH
            stage <- [t \in Trade |-> StageOf(t)],
            exposure <- [t \in Trade |-> Exposure(t)],
            sent <- [t \in Trade |-> exch[Entry(t)] # "absent"]

(* The executor, its stores, the exchange and the operator together keep the *)
(* promise of TradeSlot, faults included.                                    *)
ImplementsSlot == Slot!SlotSpec

=============================================================================
