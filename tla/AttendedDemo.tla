------------------------------ MODULE AttendedDemo ------------------------------
(***************************************************************************)
(* What an operator runs by hand against the Demo account: the BTC round     *)
(* trip (src/execution/demo_btc_round_trip.py), a market buy that is closed  *)
(* again, and the smoke test (demo_paper_coordinator.py, demo_operator.py),  *)
(* a passive limit order that is canceled.  A request is repeated with the   *)
(* same id until it is done.  The order store, the reconciler, the exchange  *)
(* and the faults are those of DemoExecution; no trade rows are kept.        *)
(*   Order <<t, 0>> is the entry of request t, <<t, n>> its close-<n>.       *)
(***************************************************************************)
EXTENDS DemoExecution

CONSTANTS Trips, Smokes     \* requests of either kind

ASSUME AttendedAssumption == Trips \subseteq Trade /\ Smokes \subseteq Trade

VARIABLES
    attempt,   \* local: the close attempt, 0 while the entry is looked at
    lagging,   \* local: in _close_during_entry_execution_lag
    sized,     \* local: exchange_size
    complete   \* requests that were ever reported COMPLETE

tripVars == <<attempt, lagging, sized, complete>>

TripInit ==
    /\ DemoInit
    /\ attempt = 0 /\ lagging = FALSE /\ sized = 0 /\ complete = {}

Kept == UNCHANGED <<trades, risk>>
Local == UNCHANGED <<lagging, sized, complete>>
Returned == EndCycle /\ attempt' = 0 /\ lagging' = FALSE /\ sized' = 0
Ends == Returned /\ ReadOnly /\ UNCHANGED complete
At(label) == Goto(label) /\ ReadOnly /\ UNCHANGED attempt /\ Local

-----------------------------------------------------------------------------
(* A request that is on record is taken up where it was left; a new round    *)
(* trip needs an account without orders or position.                         *)
TripStarts(t) ==
    /\ pc = "idle"
    /\ pc' = IF ~Begun(Entry(t)) THEN "open orders"
             ELSE IF orders[Entry(t)].state = "PENDING_SUBMIT" THEN "write ahead"
             ELSE IF t \in Smokes /\ orders[Entry(t)].state \notin Terminal THEN "cancel"
             ELSE "fetch executions"
    /\ cur' = [NoCycle EXCEPT !.trade = t, !.order = Entry(t), !.caller = "entry", !.qty = MaxQty]
    /\ ReadOnly /\ UNCHANGED tripVars

TripOpenOrders ==
    /\ pc = "open orders" /\ cur.trade \in Trips
    /\ IF \E o \in Order : Live(o) THEN Ends ELSE At("exposure")

TripExposure ==
    /\ pc = "exposure"
    /\ IF Position # 0 THEN Ends ELSE At("begin order")

(* The smoke order asks nothing of the account. *)
SmokeBegins ==
    /\ pc = "open orders" /\ cur.trade \in Smokes
    /\ At("begin order")

AttendedBeginOrder ==
    /\ pc = "begin order"
    /\ OnlyOrders(BeginOrder(cur.order, OrderParams(cur.order, cur.qty)))
    /\ Goto("write ahead") /\ UNCHANGED attempt /\ Local

AttendedWriteAhead ==
    /\ pc = "write ahead"
    /\ OnlyOrders(MarkSubmitted(cur.order))
    /\ Goto("place") /\ UNCHANGED attempt /\ Local

AttendedPlace ==
    /\ pc = "place" /\ exch[cur.order] = "absent"
    /\ exch' = [exch EXCEPT ![cur.order] = "New"]
    /\ Goto(IF cur.trade \in Smokes THEN "cancel" ELSE "fetch executions")
    /\ UNCHANGED <<orders, fills, net, trades, risk, executed, visible, envVars, tripVars>>

(* cancel_and_reconcile: the exchange ends the order in its own time, and an *)
(* order that has ended raises.                                              *)
SmokeCancels ==
    /\ pc = "cancel"
    /\ IF Live(cur.order) THEN At("fetch executions") ELSE Ends

-----------------------------------------------------------------------------
(* The reconciler as in DemoExecution; a lag has its own way on.             *)
AttendedFetch ==
    /\ pc \in {"fetch executions", "apply fills"}
    /\ FetchExecutions \/ ApplyNext
    /\ UNCHANGED tripVars

(* The exposure of an entry that lags is closed by what the exchange holds.  *)
LagFound ==
    /\ pc = "apply fills" /\ cur.batch = {}
    /\ exch[cur.order] # "absent" /\ orders[cur.order].filled # Cumulative(cur.order)
    /\ IF cur.trade \in Trips /\ attempt = 0
       THEN /\ attempt' = 1 /\ lagging' = TRUE
            /\ Goto("positions") /\ ReadOnly /\ UNCHANGED <<sized, complete>>
       ELSE IF lagging THEN At("exit reconciled") ELSE Ends

(* The smoke test only reports what it found. *)
AttendedFetchOrder ==
    /\ pc = "apply fills" /\ cur.batch = {}
    /\ \/ exch[cur.order] = "absent" /\ ReadOnly
             /\ Goto(IF attempt = 0 THEN "entry reconciled" ELSE "exit reconciled")
       \/ /\ exch[cur.order] # "absent" /\ InAgreement
    /\ UNCHANGED tripVars

TripEntryReconciled ==
    LET order == orders[cur.order] IN
    /\ pc = "entry reconciled"
    /\ IF cur.trade \in Trips /\ order.state \in {"FILLED", "CANCELED"} /\ order.filled > 0
       THEN /\ attempt' = 1
            /\ Goto("positions") /\ ReadOnly /\ Local
       ELSE Ends

-----------------------------------------------------------------------------
(* The close loop, both with the entry reconciled and while it lags.         *)
EntryQuantity == IF lagging THEN orders[Entry(cur.trade)].params.qty ELSE orders[Entry(cur.trade)].filled
CloseOrder == <<cur.trade, attempt>>

(* After the last attempt: a position that is left raises, and so it does    *)
(* while the entry lags, whatever is left.                                   *)
TripPositions ==
    /\ pc = "positions"
    /\ IF attempt > MaxExitAttempts
       THEN IF Position # 0 \/ lagging THEN Ends ELSE At("complete")
       ELSE IF Position = 0 /\ ~Begun(CloseOrder)
       THEN IF lagging THEN Ends ELSE At("complete")
       ELSE IF Position > EntryQuantity THEN Ends
       ELSE /\ sized' = Position
            /\ pc' = IF ~Begun(CloseOrder) THEN "begin order"
                     ELSE IF orders[CloseOrder].state = "PENDING_SUBMIT" THEN "write ahead"
                     ELSE "fetch executions"
            /\ cur' = [cur EXCEPT !.order = CloseOrder, !.caller = "exit", !.qty = Position]
            /\ ReadOnly /\ UNCHANGED <<attempt, lagging, complete>>

Ended(o) == orders[o].state \in {"CANCELED", "REJECTED"}

(* A close that was filled is not followed by another one. *)
TripExitReconciled ==
    /\ pc = "exit reconciled"
    /\ LET flat == Position = 0
           over == orders[cur.order].state \in Terminal
       IN IF ~lagging /\ over /\ flat THEN At("complete")
          ELSE IF Ended(cur.order) /\ ~flat
          THEN attempt' = attempt + 1 /\ Goto("positions") /\ ReadOnly /\ Local
          ELSE Ends

(* The books are not compared with the exchange. *)
Mutant_BooksNotCompared ==
    /\ pc = "complete"
    /\ complete' = IF Position = 0 THEN complete \union {cur.trade} ELSE complete
    /\ Returned /\ ReadOnly

TripComplete ==
    /\ pc = "complete"
    /\ complete' = IF Position = 0 /\ net[TheSymbol] = 0
                   THEN complete \union {cur.trade} ELSE complete
    /\ Returned /\ ReadOnly

AttendedFault == Fault /\ attempt' = 0 /\ lagging' = FALSE /\ sized' = 0 /\ UNCHANGED complete

TripStep ==
    \/ \E t \in Trips \union Smokes : TripStarts(t)
    \/ TripOpenOrders \/ TripExposure \/ SmokeBegins
    \/ AttendedBeginOrder \/ AttendedWriteAhead \/ AttendedPlace \/ SmokeCancels
    \/ AttendedFetch \/ LagFound \/ AttendedFetchOrder \/ TripEntryReconciled
    \/ TripPositions \/ TripExitReconciled \/ TripComplete

TripExchange ==
    /\ \/ \E o \in Order : Execute(o) \/ EndEarly(o)
       \/ \E f \in FillId : Publish(f)
    /\ UNCHANGED tripVars

TripNext == TripStep \/ TripExchange \/ AttendedFault

-----------------------------------------------------------------------------
(* A round trip that was reported COMPLETE is over: nothing of it is at the  *)
(* exchange any more, neither a position nor an order that could still make  *)
(* one, and the durable books hold every execution of its orders; and no     *)
(* close ever asks for more than the position.  Through crashes, lagging     *)
(* executions and repeated calls.  (advance, _complete.)                     *)
CompleteIsOver ==
    /\ ExitFitsPosition
    /\ \A t \in complete :
          /\ Exposure(t) = 0
          /\ \A o \in Order : o[1] = t => ~Live(o) /\ FillsOf(o) = ExecutionsOf(o)
=================================================================================
