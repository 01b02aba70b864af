------------------------------- MODULE StoreProofs -------------------------------
(***************************************************************************)
(* Theorems about the two stores of Demo trading, each for every value of   *)
(* its constants and for arbitrary callers.                                 *)
(*                                                                          *)
(* The durable PAPER order store (PaperOrders) takes two inductions.        *)
(* OrdInv, the inductive invariant of the first, adds to the types and to   *)
(* what the rows say what only the order of the calls provides: an order    *)
(* that was ever SUBMITTED has been counted as an attempt, and a fill names *)
(* an order that was.  BooksInv, that of the second, adds the sums.         *)
(*                                                                          *)
(* For the lifecycle and the daily risk ledger (TradeState) one induction   *)
(* carries everything.  StInv adds to the invariants what the phases alone  *)
(* do not say: a trade that was never submitted carries no trace of an      *)
(* entry or an exit, and a day at its loss limit is killed.  Every call     *)
(* rewrites one row of one table, so the induction is about that row        *)
(* (RowInv, DayInv) and about what the UNIQUE columns and the one slot say  *)
(* of the others (TradeRewrite).                                            *)
(***************************************************************************)
EXTENDS PaperOrders, TradeState, TLAPS

-----------------------------------------------------------------------------
(* The order store.                                                          *)

SubmittedWasAttempted ==
    \A o \in Order :
        Begun(o) /\ orders[o].state \in {"SUBMITTED", "PARTIALLY_FILLED"} =>
            orders[o].attempts > 0

OrdInv ==
    /\ OrdTypeOK
    /\ StateMatchesFilled
    /\ SubmittedWasAttempted
    /\ FillsHaveSubmittedOrders

(* A begun order has a full row: every guard that reads its quantity is      *)
(* defined.                                                                  *)
LEMMA BegunHasRow ==
    ASSUME OrdTypeOK, NEW o \in Order, Begun(o)
    PROVE  /\ orders[o] \in OrderRow
           /\ orders[o].params.qty \in 1..MaxQty
           /\ orders[o].params.symbol \in Symbol
           /\ orders[o].filled \in 0..MaxQty
           /\ orders[o].attempts \in 0..MaxAttempts
BY DEF OrdTypeOK, Begun, OrderRow, AbsentRow, Params

(* What _record_fill does to the two tables when it applies a new execution. *)
FilledRow(o, q) ==
    [orders[o] EXCEPT !.filled = @ + q,
                      !.state = IF orders[o].filled + q = orders[o].params.qty
                                THEN "FILLED" ELSE "PARTIALLY_FILLED"]

(* Applying an execution to a begun order leaves a well-typed row.           *)
LEMMA ApplyFillRows ==
    ASSUME OrdTypeOK, NEW o \in Order, NEW f \in FillId, NEW q \in 1..MaxQty, NEW b \in Body,
           ApplyFill(o, f, [order |-> o, qty |-> q, body |-> b])
    PROVE  /\ Begun(o)
           /\ FilledRow(o, q) \in OrderRow
           /\ orders' = [orders EXCEPT ![o] = FilledRow(o, q)]
           /\ fills' = [fills EXCEPT ![f] = [order |-> o, qty |-> q, body |-> b]]
<1>1. Begun(o) /\ orders[o].filled + q <= orders[o].params.qty
  BY DEF ApplyFill, NewFillAllowed, Begun
<1>2. /\ orders[o] \in OrderRow
      /\ orders[o].params.qty \in 1..MaxQty
      /\ orders[o].filled \in 0..MaxQty
  BY <1>1, BegunHasRow
<1>3. orders[o].filled + q \in 0..MaxQty
  BY <1>1, <1>2, BoundAssumption
<1>4. FilledRow(o, q) \in OrderRow
  BY <1>2, <1>3 DEF FilledRow, OrderRow, OrderState
<1>5. orders' = [orders EXCEPT ![o] = FilledRow(o, q)]
  BY <1>2 DEF ApplyFill, FilledRow, OrdTypeOK, OrderRow
<1> QED BY <1>1, <1>4, <1>5 DEF ApplyFill

(* Every transaction of the store keeps the types: one case per transaction. *)
LEMMA OrdTypeInductive == OrdTypeOK /\ [OrdNext]_ordVars => OrdTypeOK'
<1> SUFFICES ASSUME OrdTypeOK, [OrdNext]_ordVars PROVE OrdTypeOK'
  OBVIOUS
<1>1. ASSUME NEW o \in Order, NEW p \in Params, BeginOrder(o, p) PROVE OrdTypeOK'
  BY <1>1, BoundAssumption DEF BeginOrder, OrdTypeOK, OrderRow, OrderState
<1>2. ASSUME NEW o \in Order, MarkSubmitted(o) PROVE OrdTypeOK'
  BY <1>2, BoundAssumption DEF MarkSubmitted, OrdTypeOK, OrderRow, AbsentRow, OrderState
<1>3. ASSUME NEW o \in Order, NEW f \in FillId, NEW q \in 1..MaxQty, NEW b \in Body,
             RecordFill(o, f, [order |-> o, qty |-> q, body |-> b])
      PROVE OrdTypeOK'
  <2>1. CASE UNCHANGED ordVars
    BY <2>1 DEF ordVars, OrdTypeOK
  <2>2. CASE ApplyFill(o, f, [order |-> o, qty |-> q, body |-> b])
    <3>1. FilledRow(o, q) \in OrderRow /\ orders' = [orders EXCEPT ![o] = FilledRow(o, q)]
      BY <2>2, ApplyFillRows
    <3>2. orders' \in [Order -> OrderRow \cup {AbsentRow}]
      BY <3>1 DEF OrdTypeOK
    <3>3. fills' \in [FillId -> FillRow \cup {NoFill}]
      BY <2>2 DEF ApplyFill, OrdTypeOK, FillRow
    <3>4. Begun(o) /\ orders[o].params.symbol \in Symbol
      BY <2>2, ApplyFillRows, BegunHasRow
    <3>5. Signed(orders[o].params.side, q) \in Int
      BY DEF Signed
    <3>6. net' \in [Symbol -> Int]
      BY <2>2, <3>4, <3>5 DEF ApplyFill, OrdTypeOK
    <3> QED BY <3>2, <3>3, <3>6 DEF OrdTypeOK
  <2> QED BY <1>3, <2>1, <2>2 DEF RecordFill
<1>4. ASSUME NEW o \in Order, RecordRejection(o) PROVE OrdTypeOK'
  BY <1>4 DEF RecordRejection, OrdTypeOK, OrderRow, AbsentRow, OrderState
<1>5. ASSUME NEW o \in Order, MarkCanceled(o) PROVE OrdTypeOK'
  BY <1>5 DEF MarkCanceled, OrdTypeOK, OrderRow, AbsentRow, OrderState
<1>6. CASE UNCHANGED ordVars
  BY <1>6 DEF ordVars, OrdTypeOK
<1> QED BY <1>1, <1>2, <1>3, <1>4, <1>5, <1>6 DEF OrdNext

(* Whatever calls are made, every row of the three tables keeps its type: in *)
(* particular filled_quantity never exceeds MaxQty, since _record_fill       *)
(* refuses an execution beyond the ordered quantity.                         *)
THEOREM OrdTypeCorrect == OrdSpec => []OrdTypeOK
<1>1. OrdInit => OrdTypeOK
  BY DEF OrdInit, OrdTypeOK
<1> QED BY <1>1, OrdTypeInductive, PTL DEF OrdSpec

-----------------------------------------------------------------------------
(* The induction.  Only the row of the order at hand changes, so each step    *)
(* is about that row and about the fill it may add.                           *)
LEMMA OrdInvInductive == OrdInv /\ [OrdNext]_ordVars => OrdInv'
<1> SUFFICES ASSUME OrdInv, [OrdNext]_ordVars PROVE OrdInv'
  OBVIOUS
<1>0. OrdTypeOK /\ OrdTypeOK'
  BY OrdTypeInductive DEF OrdInv
<1> DEFINE RowOK(o) ==
             /\ orders'[o].state \in {"PENDING_SUBMIT", "SUBMITTED", "REJECTED"} =>
                   orders'[o].filled = 0
             /\ orders'[o].state \in {"PARTIALLY_FILLED", "CANCELED"} =>
                   orders'[o].filled < orders'[o].params.qty
             /\ orders'[o].state = "PARTIALLY_FILLED" => orders'[o].filled > 0
             /\ orders'[o].state = "FILLED" => orders'[o].filled = orders'[o].params.qty
             /\ orders'[o].state \in {"SUBMITTED", "PARTIALLY_FILLED"} =>
                   orders'[o].attempts > 0
(* A step that rewrites one row, soundly, and keeps the fills.                *)
<1>1. ASSUME NEW o \in Order, NEW row \in OrderRow,
             orders' = [orders EXCEPT ![o] = row], RowOK(o)
      PROVE  StateMatchesFilled' /\ SubmittedWasAttempted'
  BY <1>0, <1>1 DEF OrdInv, OrdTypeOK, StateMatchesFilled, SubmittedWasAttempted, Begun
<1>2. ASSUME NEW o \in Order, NEW row \in OrderRow,
             orders' = [orders EXCEPT ![o] = row], UNCHANGED fills,
             Begun(o) => row.attempts >= orders[o].attempts
      PROVE  FillsHaveSubmittedOrders'
  <2> SUFFICES ASSUME NEW f \in FillId, Recorded(f)
               PROVE  /\ orders'[fills[f].order].state # "ABSENT"
                      /\ orders'[fills[f].order].attempts > 0
    BY <1>2 DEF FillsHaveSubmittedOrders, Recorded, Begun
  <2> DEFINE u == fills[f].order
  <2>1. u \in Order /\ Begun(u) /\ orders[u].attempts > 0
    BY <1>0 DEF OrdInv, OrdTypeOK, FillsHaveSubmittedOrders, Recorded, FillRow, NoFill
  <2>2. CASE u # o
    BY <1>0, <1>2, <2>1, <2>2 DEF OrdTypeOK, Begun
  <2>3. CASE u = o
    BY <1>0, <1>2, <2>1, <2>3, BegunHasRow, BoundAssumption
       DEF OrdTypeOK, OrderRow, OrderState, Begun
  <2> QED BY <2>2, <2>3
<1>3. ASSUME NEW o \in Order, NEW p \in Params, BeginOrder(o, p) PROVE OrdInv'
  <2>1. CASE Begun(o)
    BY <1>0, <1>3, <2>1
       DEF BeginOrder, OrdInv, StateMatchesFilled, SubmittedWasAttempted,
           FillsHaveSubmittedOrders, Begun, Recorded
  <2>2. CASE ~Begun(o)
    <3> DEFINE row == [state |-> "PENDING_SUBMIT", params |-> p, filled |-> 0, attempts |-> 0]
    <3>1. row \in OrderRow /\ orders' = [orders EXCEPT ![o] = row] /\ UNCHANGED fills
      BY <1>3, <2>2, BoundAssumption DEF BeginOrder, OrderRow, OrderState
    <3>2. RowOK(o)
      BY <1>0, <3>1 DEF OrdTypeOK
    <3> HIDE DEF row
    <3> QED BY <1>0, <1>1, <1>2, <2>2, <3>1, <3>2 DEF OrdInv
  <2> QED BY <2>1, <2>2
<1>4. ASSUME NEW o \in Order, MarkSubmitted(o) \/ RecordRejection(o) \/ MarkCanceled(o)
      PROVE OrdInv'
  <2>1. Begun(o) /\ orders[o] \in OrderRow /\ UNCHANGED fills
    BY <1>0, <1>4, BegunHasRow DEF MarkSubmitted, RecordRejection, MarkCanceled, Begun
  <2>2. orders'[o] \in OrderRow
    BY <1>0, <1>4, <2>1 DEF MarkSubmitted, RecordRejection, MarkCanceled, OrdTypeOK, AbsentRow,
                            OrderRow, OrderState
  <2>3. orders' = [orders EXCEPT ![o] = orders'[o]]
    BY <1>0, <1>4 DEF MarkSubmitted, RecordRejection, MarkCanceled, OrdTypeOK
  <2>4. /\ orders'[o].filled = orders[o].filled
        /\ orders'[o].params = orders[o].params
        /\ orders'[o].attempts >= orders[o].attempts
        /\ MarkSubmitted(o) => orders'[o].attempts = orders[o].attempts + 1
    BY <1>0, <1>4, <2>1, BoundAssumption
       DEF MarkSubmitted, RecordRejection, MarkCanceled, OrdTypeOK, OrderRow
  <2>5. /\ MarkSubmitted(o) =>
              orders[o].state \in {"PENDING_SUBMIT", "SUBMITTED"}
                /\ orders'[o].state = "SUBMITTED"
        /\ RecordRejection(o) =>
              orders[o].state \in {"PENDING_SUBMIT", "SUBMITTED"}
                /\ orders'[o].state = "REJECTED"
        /\ MarkCanceled(o) =>
              orders[o].state \in {"SUBMITTED", "PARTIALLY_FILLED", "CANCELED"}
                /\ orders'[o].state = "CANCELED"
    BY <1>0, <2>1 DEF MarkSubmitted, RecordRejection, MarkCanceled, OrdTypeOK, OrderRow
  <2>6. RowOK(o)
    BY <1>0, <1>4, <2>1, <2>4, <2>5, BegunHasRow DEF OrdInv, StateMatchesFilled, Begun
  <2> QED BY <1>0, <1>1, <1>2, <2>1, <2>2, <2>3, <2>4, <2>6 DEF OrdInv
<1>5. ASSUME NEW o \in Order, NEW f \in FillId, NEW q \in 1..MaxQty, NEW b \in Body,
             ApplyFill(o, f, [order |-> o, qty |-> q, body |-> b])
      PROVE OrdInv'
  <2> DEFINE row == FilledRow(o, q)
  <2>1. row \in OrderRow /\ orders' = [orders EXCEPT ![o] = row]
    BY <1>0, <1>5, ApplyFillRows
  <2>2. Begun(o) /\ fills' = [fills EXCEPT ![f] = [order |-> o, qty |-> q, body |-> b]]
    BY <1>0, <1>5, ApplyFillRows
  <2>3. /\ orders[o] \in OrderRow
        /\ orders[o].params.qty \in 1..MaxQty
        /\ orders[o].filled \in 0..MaxQty
        /\ orders[o].attempts \in 0..MaxAttempts
    BY <1>0, <2>2, BegunHasRow
  <2>4. /\ orders[o].filled + q <= orders[o].params.qty
        /\ orders[o].attempts > 0
    BY <1>5, <2>2 DEF ApplyFill, NewFillAllowed, OrdInv, SubmittedWasAttempted
  <2>5. /\ row.filled = orders[o].filled + q
        /\ row.params = orders[o].params
        /\ row.attempts = orders[o].attempts
        /\ row.state = IF orders[o].filled + q = orders[o].params.qty
                       THEN "FILLED" ELSE "PARTIALLY_FILLED"
    BY <2>3 DEF FilledRow, OrderRow
  <2> HIDE DEF row
  <2>6. orders'[o] = row
    BY <1>0, <2>1 DEF OrdTypeOK
  <2>7. RowOK(o)
    BY <2>3, <2>4, <2>5, <2>6, BoundAssumption
  <2>8. FillsHaveSubmittedOrders'
    <3> SUFFICES ASSUME NEW g \in FillId, fills'[g] # NoFill
                 PROVE  /\ orders'[fills'[g].order].state # "ABSENT"
                        /\ orders'[fills'[g].order].attempts > 0
      BY DEF FillsHaveSubmittedOrders, Recorded, Begun
    <3>1. CASE fills'[g].order = o
      BY <2>3, <2>4, <2>5, <2>6, <3>1
    <3>2. CASE fills'[g].order # o
      <4>1. g # f /\ fills'[g] = fills[g]
        BY <1>0, <2>2, <3>2 DEF OrdTypeOK
      <4>2. /\ fills[g].order \in Order
            /\ Begun(fills[g].order)
            /\ orders[fills[g].order].attempts > 0
        BY <1>0, <4>1 DEF OrdInv, OrdTypeOK, FillsHaveSubmittedOrders, Recorded, FillRow, NoFill
      <4> QED BY <1>0, <2>1, <3>2, <4>1, <4>2 DEF OrdTypeOK, Begun
    <3> QED BY <3>1, <3>2
  <2> QED BY <1>0, <1>1, <2>1, <2>7, <2>8 DEF OrdInv
<1>6. CASE UNCHANGED ordVars
  BY <1>0, <1>6 DEF ordVars, OrdInv, StateMatchesFilled, SubmittedWasAttempted,
                    FillsHaveSubmittedOrders, Begun, Recorded
<1> QED BY <1>3, <1>4, <1>5, <1>6 DEF OrdNext, RecordFill

(* The strengthened invariant holds in every reachable state: orders, their  *)
(* submissions and their executions agree under arbitrary callers.           *)
THEOREM OrdInvariant == OrdSpec => []OrdInv
<1>1. OrdInit => OrdInv
  BY DEF OrdInit, OrdInv, OrdTypeOK, StateMatchesFilled, SubmittedWasAttempted,
         FillsHaveSubmittedOrders, Begun, Recorded, AbsentRow
<1> QED BY <1>1, OrdInvInductive, PTL DEF OrdSpec

(* No order is ever overfilled and its state always says how much of it is    *)
(* filled: begin_order, mark_submitted, _record_fill, _record_rejection and   *)
(* mark_canceled keep this in every order of calls.                           *)
THEOREM StateMatchesFilledAlways == OrdSpec => []StateMatchesFilled
BY OrdInvariant, PTL DEF OrdInv

(* No execution is ever on record for an order that was not submitted first.  *)
THEOREM FillsHaveSubmittedOrdersAlways == OrdSpec => []FillsHaveSubmittedOrders
BY OrdInvariant, PTL DEF OrdInv

-----------------------------------------------------------------------------
(* One step never rewrites a recorded fill, a terminal row or the parameters  *)
(* of a begun order.                                                          *)
LEMMA HistoryOneStep == OrdTypeOK /\ [OrdNext]_ordVars => [HistoryStep]_ordVars
<1> SUFFICES ASSUME OrdTypeOK, OrdNext PROVE HistoryStep
  BY DEF OrdNext
<1>1. ASSUME NEW o \in Order, NEW p \in Params, BeginOrder(o, p) PROVE HistoryStep
  BY <1>1 DEF BeginOrder, HistoryStep, OrdTypeOK, Begun, Terminal
<1>2. ASSUME NEW o \in Order, MarkSubmitted(o) \/ RecordRejection(o) PROVE HistoryStep
  BY <1>2 DEF MarkSubmitted, RecordRejection, HistoryStep, OrdTypeOK, OrderRow, AbsentRow,
              Begun, Terminal
<1>3. ASSUME NEW o \in Order, MarkCanceled(o) PROVE HistoryStep
  <2>1. CASE orders[o].state = "CANCELED"
    BY <1>3, <2>1 DEF MarkCanceled, HistoryStep, OrdTypeOK, OrderRow, AbsentRow
  <2>2. CASE orders[o].state # "CANCELED"
    BY <1>3, <2>2 DEF MarkCanceled, HistoryStep, OrdTypeOK, OrderRow, AbsentRow, Begun, Terminal
  <2> QED BY <2>1, <2>2
<1>4. ASSUME NEW o \in Order, NEW f \in FillId, NEW q \in 1..MaxQty, NEW b \in Body,
             RecordFill(o, f, [order |-> o, qty |-> q, body |-> b])
      PROVE HistoryStep
  <2>1. CASE UNCHANGED ordVars
    BY <2>1 DEF ordVars, HistoryStep
  <2>2. CASE ~Recorded(f) /\ ApplyFill(o, f, [order |-> o, qty |-> q, body |-> b])
    <3>1. /\ Begun(o)
          /\ orders' = [orders EXCEPT ![o] = FilledRow(o, q)]
          /\ fills' = [fills EXCEPT ![f] = [order |-> o, qty |-> q, body |-> b]]
      BY <2>2, ApplyFillRows
    <3>2. FilledRow(o, q).params = orders[o].params
      BY <3>1, BegunHasRow DEF FilledRow, OrderRow
    <3>3. orders[o].state \notin Terminal
      BY <2>2 DEF ApplyFill, NewFillAllowed, Terminal
    <3> QED BY <2>2, <3>1, <3>2, <3>3 DEF HistoryStep, OrdTypeOK
  <2> QED BY <1>4, <2>1, <2>2 DEF RecordFill
<1> QED BY <1>1, <1>2, <1>3, <1>4 DEF OrdNext

(* apply_fill_result and mark_canceled may be called again, late or out of    *)
(* order: nothing already recorded changes.                                   *)
THEOREM HistoryIsAlwaysKept == OrdSpec => HistoryIsKept
BY OrdTypeCorrect, HistoryOneStep, PTL DEF OrdSpec, HistoryIsKept

(* A verdict of leg_group_status that says a group is settled or cleanly      *)
(* rejected rests on terminal legs only, and those keep their rows: it can    *)
(* only change when another leg of the group is begun.                        *)
THEOREM VerdictIsAlwaysStable == OrdSpec => VerdictIsStable
<1> DEFINE VerdictStep ==
             \A g \in Group : LegGroupStatus(g) \in {"SETTLED", "CLEANLY_REJECTED"} =>
                 \/ LegGroupStatus(g)' = LegGroupStatus(g)
                 \/ Members(g)' # Members(g)
<1>1. HistoryStep => VerdictStep
  <2> SUFFICES ASSUME HistoryStep,
                      NEW g \in Group, LegGroupStatus(g) \in {"SETTLED", "CLEANLY_REJECTED"},
                      Members(g)' = Members(g)
               PROVE  LegGroupStatus(g)' = LegGroupStatus(g)
    OBVIOUS
  <2>1. MemberStates(g) \subseteq Terminal
    BY DEF LegGroupStatus, Terminal
  <2>2. \A o \in Members(g) : o \in Order /\ orders'[o] = orders[o]
    BY <2>1 DEF MemberStates, Members, HistoryStep
  <2>3. MemberStates(g)' = MemberStates(g)
    BY <2>2 DEF MemberStates
  <2>4. HasExposure(g)' <=> HasExposure(g)
    BY <2>2 DEF HasExposure
  <2> QED BY <2>3, <2>4, Zenon DEF LegGroupStatus
<1>2. UNCHANGED ordVars => VerdictStep
  <2> SUFFICES ASSUME UNCHANGED ordVars PROVE HistoryStep
    BY <1>1
  <2> QED BY DEF ordVars, HistoryStep
<1>3. [HistoryStep]_ordVars => [VerdictStep]_ordVars
  BY <1>1, <1>2
<1> QED BY HistoryIsAlwaysKept, <1>3, PTL DEF HistoryIsKept, VerdictIsStable

-----------------------------------------------------------------------------
(* The books.  The store keeps totals; that they are the sums of what it      *)
(* recorded is an induction over the steps of its history, each of which adds *)
(* at most one execution to one order and one symbol.                         *)
BooksInv ==
    /\ OrdInv
    /\ IsFiniteSet({f \in FillId : Recorded(f)})
    /\ BooksMatchFills

(* What a recorded fill refers to is there.                                   *)
LEMMA RecordedFill ==
    ASSUME OrdInv, NEW f \in FillId, Recorded(f)
    PROVE  /\ fills[f] \in FillRow
           /\ fills[f].order \in Order
           /\ fills[f].qty \in Int
           /\ Begun(fills[f].order)
           /\ \A side : Signed(side, fills[f].qty) \in Int
BY BoundAssumption
   DEF OrdInv, OrdTypeOK, FillsHaveSubmittedOrders, Recorded, FillRow, Signed

(* A step that records no execution leaves the sums as they are.              *)
LEMMA BooksKept ==
    ASSUME BooksInv, UNCHANGED <<fills, net>>,
           \A o \in Order : Begun(o) => /\ orders'[o].filled = orders[o].filled
                                        /\ orders'[o].params = orders[o].params,
           \A o \in Order : ~Begun(o) /\ Begun(o)' => orders'[o].filled = 0
    PROVE  BooksMatchFills' /\ IsFiniteSet({f \in FillId : Recorded(f)})'
<1>1. IsFiniteSet({f \in FillId : Recorded(f)})'
  BY DEF BooksInv, Recorded
<1>2. ASSUME NEW o \in Order, Begun(o)'
      PROVE  orders'[o].filled = SumOf([f \in FillsOf(o)' |-> fills'[f].qty])
  <2>1. FillsOf(o)' = FillsOf(o) /\ [f \in FillsOf(o)' |-> fills'[f].qty] = [f \in FillsOf(o) |-> fills[f].qty]
    BY DEF FillsOf, Recorded
  <2>2. CASE Begun(o)
    BY <2>1, <2>2 DEF BooksInv, BooksMatchFills
  <2>3. CASE ~Begun(o)
    <3>1. FillsOf(o) = {}
      BY <2>3, RecordedFill DEF FillsOf, BooksInv
    <3>2. SumOf([f \in FillsOf(o) |-> fills[f].qty]) = 0
      BY <3>1, SumEmpty DEF SumOf
    <3> QED BY <1>2, <2>1, <2>3, <3>2
  <2> QED BY <2>2, <2>3
<1>3. ASSUME NEW s \in Symbol
      PROVE  net'[s] = SumOf([f \in FillsIn(s)' |->
                                 Signed(orders'[fills'[f].order].params.side, fills'[f].qty)])
  <2>1. \A f \in FillId : Recorded(f) => orders'[fills[f].order].params = orders[fills[f].order].params
    BY RecordedFill DEF BooksInv
  <2>2. FillsIn(s)' = FillsIn(s)
    BY <2>1 DEF FillsIn, Recorded
  <2>3. [f \in FillsIn(s)' |-> Signed(orders'[fills'[f].order].params.side, fills'[f].qty)]
          = [f \in FillsIn(s) |-> Signed(orders[fills[f].order].params.side, fills[f].qty)]
    BY <2>1, <2>2 DEF FillsIn
  <2> QED BY <2>3 DEF BooksInv, BooksMatchFills
<1> QED BY <1>1, <1>2, <1>3 DEF BooksMatchFills

(* A new execution adds its quantity to its order and, signed, to its symbol. *)
LEMMA BooksGrow ==
    ASSUME BooksInv, NEW o \in Order, NEW f \in FillId, NEW q \in 1..MaxQty, NEW b \in Body,
           ~Recorded(f), ApplyFill(o, f, [order |-> o, qty |-> q, body |-> b])
    PROVE  BooksMatchFills' /\ IsFiniteSet({g \in FillId : Recorded(g)})'
<1> DEFINE r == [order |-> o, qty |-> q, body |-> b]
           old == {g \in FillId : Recorded(g)}
           symbol == orders[o].params.symbol
           side == orders[o].params.side
<1>0. OrdTypeOK /\ IsFiniteSet(old) /\ q \in Int
  BY BoundAssumption DEF BooksInv, OrdInv
<1>1. /\ Begun(o)
      /\ orders[o].filled \in Int
      /\ symbol \in Symbol
      /\ orders' = [orders EXCEPT ![o] = FilledRow(o, q)]
      /\ fills' = [fills EXCEPT ![f] = r]
      /\ net' = [net EXCEPT ![symbol] = @ + Signed(side, q)]
  <2>1. Begun(o) /\ orders' = [orders EXCEPT ![o] = FilledRow(o, q)] /\ fills' = [fills EXCEPT ![f] = r]
    BY <1>0, ApplyFillRows
  <2>2. orders[o].filled \in Int /\ symbol \in Symbol
    BY <1>0, <2>1, BegunHasRow
  <2>3. net' = [net EXCEPT ![symbol] = @ + Signed(side, q)]
    BY DEF ApplyFill
  <2> QED BY <2>1, <2>2, <2>3
<1>2. /\ FilledRow(o, q).filled = orders[o].filled + q
      /\ FilledRow(o, q).params = orders[o].params
  BY <1>0, <1>1, BegunHasRow DEF FilledRow, OrderRow
<1>3. /\ fills'[f] = r /\ Recorded(f)'
      /\ \A g \in FillId \ {f} : fills'[g] = fills[g] /\ (Recorded(g)' <=> Recorded(g))
      /\ \A g \in FillId : Recorded(g) => g # f
  BY <1>0, <1>1 DEF OrdTypeOK, Recorded, NoFill
<1>4. /\ orders'[o].filled = orders[o].filled + q
      /\ \A u \in Order : orders'[u].params = orders[u].params
      /\ \A u \in Order \ {o} : orders'[u] = orders[u]
  BY <1>0, <1>1, <1>2 DEF OrdTypeOK
<1>5. IsFiniteSet({g \in FillId : Recorded(g)})'
  <2>1. {g \in FillId : Recorded(g)'} = old \cup {f}
    BY <1>3
  <2> QED BY <1>0, <2>1, FS_AddElement
<1>6. ASSUME NEW u \in Order, Begun(u)'
      PROVE  orders'[u].filled = SumOf([g \in FillsOf(u)' |-> fills'[g].qty])
  <2> DEFINE S == FillsOf(u)
             F == [g \in S |-> fills[g].qty]
             G == [g \in FillsOf(u)' |-> fills'[g].qty]
  <2>1. IsFiniteSet(S)
    BY <1>0, FS_Subset DEF FillsOf
  <2>2. Begun(u)
    BY <1>1, <1>4, <1>6 DEF Begun
  <2>3. orders[u].filled = SumOver(F, S)
    BY <2>2 DEF BooksInv, BooksMatchFills, SumOf
  <2>4. \A g \in S : fills[g].qty \in Int
    BY RecordedFill DEF FillsOf, BooksInv
  <2>5. CASE u # o
    <3>1. FillsOf(u)' = S
      BY <1>3, <2>5 DEF FillsOf
    <3>2. G = F
      BY <1>3, <3>1 DEF FillsOf
    <3> QED BY <1>4, <2>3, <2>5, <3>2 DEF SumOf
  <2>6. CASE u = o
    <3>1. FillsOf(u)' = S \cup {f} /\ f \notin S
      BY <1>3, <2>6 DEF FillsOf
    <3>2. \A g \in S : G[g] = F[g] /\ F[g] \in Int
      BY <1>3, <2>4, <3>1 DEF FillsOf
    <3>3. G[f] = q
      BY <1>3, <3>1
    <3> HIDE DEF F, G, S
    <3>4. SumOver(G, S \cup {f}) = q + SumOver(G, S)
      BY <1>0, <2>1, <3>1, <3>2, <3>3, SumAdd
    <3>5. SumOver(G, S) = SumOver(F, S)
      BY <2>1, <3>2, SumSame
    <3>6. SumOf(G) = SumOver(G, S \cup {f})
      BY <3>1 DEF SumOf, G
    <3> QED BY <1>0, <1>1, <1>4, <2>3, <2>6, <3>4, <3>5, <3>6 DEF G
  <2> QED BY <2>5, <2>6
<1>7. ASSUME NEW s \in Symbol
      PROVE  net'[s] = SumOf([g \in FillsIn(s)' |->
                                 Signed(orders'[fills'[g].order].params.side, fills'[g].qty)])
  <2> DEFINE S == FillsIn(s)
             F == [g \in S |-> Signed(orders[fills[g].order].params.side, fills[g].qty)]
             G == [g \in FillsIn(s)' |-> Signed(orders'[fills'[g].order].params.side, fills'[g].qty)]
  <2>1. IsFiniteSet(S)
    BY <1>0, FS_Subset DEF FillsIn
  <2>2. net[s] = SumOver(F, S) /\ net[s] \in Int
    BY DEF BooksInv, BooksMatchFills, SumOf, OrdInv, OrdTypeOK
  <2>3. \A g \in S : F[g] \in Int
    BY RecordedFill DEF FillsIn, BooksInv
  <2>4. \A g \in FillId : Recorded(g) =>
           orders'[fills'[g].order].params = orders[fills[g].order].params /\ fills'[g] = fills[g]
    BY <1>3, <1>4, RecordedFill DEF BooksInv
  <2>5. CASE s # symbol
    <3>1. FillsIn(s)' = S
      BY <1>3, <1>4, <2>4, <2>5 DEF FillsIn
    <3>2. G = F
      BY <2>4, <3>1 DEF FillsIn
    <3>3. net'[s] = net[s]
      BY <1>0, <1>1, <2>5 DEF OrdTypeOK
    <3> QED BY <2>2, <3>2, <3>3 DEF SumOf
  <2>6. CASE s = symbol
    <3>1. FillsIn(s)' = S \cup {f} /\ f \notin S
      BY <1>3, <1>4, <2>4, <2>6 DEF FillsIn
    <3>2. \A g \in S : G[g] = F[g] /\ F[g] \in Int
      BY <2>3, <2>4, <3>1 DEF FillsIn
    <3>3. G[f] = Signed(side, q) /\ Signed(side, q) \in Int
      BY <1>0, <1>3, <1>4, <3>1 DEF Signed
    <3> HIDE DEF F, G, S
    <3>4. SumOver(G, S \cup {f}) = G[f] + SumOver(G, S)
      BY <2>1, <3>1, <3>2, <3>3, SumAdd
    <3>5. SumOver(G, S) = SumOver(F, S)
      BY <2>1, <3>2, SumSame
    <3>6. SumOf(G) = SumOver(G, S \cup {f})
      BY <3>1 DEF SumOf, G
    <3>7. net'[s] = net[s] + Signed(side, q)
      BY <1>0, <1>1, <2>6 DEF OrdTypeOK
    <3> QED BY <2>2, <3>3, <3>4, <3>5, <3>6, <3>7 DEF G
  <2> QED BY <2>5, <2>6
<1> QED BY <1>5, <1>6, <1>7 DEF BooksMatchFills

LEMMA BooksInductive == BooksInv /\ [OrdNext]_ordVars => BooksInv'
<1> SUFFICES ASSUME BooksInv, [OrdNext]_ordVars PROVE BooksInv'
  OBVIOUS
<1>0. OrdInv /\ OrdInv' /\ OrdTypeOK
  BY OrdInvInductive DEF BooksInv, OrdInv
<1> DEFINE Kept ==
             /\ UNCHANGED <<fills, net>>
             /\ \A o \in Order : Begun(o) => /\ orders'[o].filled = orders[o].filled
                                             /\ orders'[o].params = orders[o].params
             /\ \A o \in Order : ~Begun(o) /\ Begun(o)' => orders'[o].filled = 0
<1>1. Kept => BooksInv'
  BY <1>0, BooksKept DEF BooksInv
<1>2. ASSUME NEW o \in Order, NEW p \in Params, BeginOrder(o, p) PROVE Kept
  BY <1>0, <1>2 DEF BeginOrder, OrdTypeOK, Begun
<1>3. ASSUME NEW o \in Order, MarkSubmitted(o) \/ RecordRejection(o) \/ MarkCanceled(o)
      PROVE  Kept
  BY <1>0, <1>3 DEF MarkSubmitted, RecordRejection, MarkCanceled, OrdTypeOK, OrderRow, AbsentRow,
                    Begun
<1>4. ASSUME NEW o \in Order, NEW f \in FillId, NEW q \in 1..MaxQty, NEW b \in Body,
             RecordFill(o, f, [order |-> o, qty |-> q, body |-> b])
      PROVE BooksInv'
  <2>1. CASE UNCHANGED ordVars
    <3>1. Kept
      BY <2>1 DEF ordVars, Begun
    <3> QED BY <1>1, <3>1
  <2>2. CASE ~Recorded(f) /\ ApplyFill(o, f, [order |-> o, qty |-> q, body |-> b])
    BY <1>0, <2>2, BooksGrow DEF BooksInv
  <2> QED BY <1>4, <2>1, <2>2 DEF RecordFill
<1>5. CASE UNCHANGED ordVars
  <2>1. Kept
    BY <1>5 DEF ordVars, Begun
  <2> QED BY <1>1, <2>1
<1> QED BY <1>1, <1>2, <1>3, <1>4, <1>5 DEF OrdNext

(* "An unseen fill_id is inserted and applied exactly once": whatever is      *)
(* called, in whatever order and however often, filled_quantity of an order   *)
(* and net_quantity of a symbol are the sums of the executions on record.     *)
THEOREM BooksAlwaysMatchFills == OrdSpec => []BooksMatchFills
<1>1. OrdInit => BooksInv
  <2> SUFFICES ASSUME OrdInit PROVE BooksInv
    OBVIOUS
  <2>1. OrdInv
    BY DEF OrdInit, OrdInv, OrdTypeOK, StateMatchesFilled, SubmittedWasAttempted,
           FillsHaveSubmittedOrders, Begun, Recorded, AbsentRow
  <2>2. \A f \in FillId : ~Recorded(f)
    BY DEF OrdInit, Recorded
  <2>3. IsFiniteSet({f \in FillId : Recorded(f)})
    <3>1. {f \in FillId : Recorded(f)} = {}
      BY <2>2
    <3> QED BY <3>1, FS_EmptySet
  <2>4. ASSUME NEW s \in Symbol
        PROVE  net[s] = SumOf([f \in FillsIn(s) |->
                                  Signed(orders[fills[f].order].params.side, fills[f].qty)])
    <3>1. FillsIn(s) = {}
      BY <2>2 DEF FillsIn
    <3> QED BY <3>1, SumEmpty DEF SumOf, OrdInit
  <2>5. \A o \in Order : ~Begun(o)
    BY DEF OrdInit, Begun, AbsentRow
  <2> QED BY <2>1, <2>3, <2>4, <2>5 DEF BooksInv, BooksMatchFills
<1>2. BooksInv => BooksMatchFills
  BY DEF BooksInv
<1> QED BY <1>1, <1>2, BooksInductive, PTL DEF OrdSpec

-----------------------------------------------------------------------------
(* The lifecycle and the daily ledger.                                       *)

RowInv(r) ==
    /\ r.phase \in {"ABSENT", "OBSERVED"} => r.entryOrder = None /\ r.exitOrder = None
    /\ r.phase = "ENTRY_SUBMITTED" => r.entryOrder # None /\ ~r.opened
    /\ r.phase \in {"OPEN", "EXIT_SUBMITTED"} => r.entryOrder # None /\ r.opened
    /\ r.phase = "EXIT_SUBMITTED" => r.exitOrder # None
    /\ r.exitOrder # None => r.opened
    /\ r.exitReason = Cleared => r.entryOrder = None
    /\ r.phase \in {"ABSENT", "OBSERVED"} => ~r.opened
    /\ r.phase \in {"ABSENT", "OBSERVED", "ENTRY_SUBMITTED", "OPEN"} => r.exitReason = None

DayInv(r) == r.pnl <= -LossLimit => r.kill

StInv ==
    /\ StTypeOK
    /\ OneActiveTrade
    /\ OrdersAreNotShared
    /\ \A t \in Trade : RowInv(trades[t])
    /\ \A d \in Day : DayInv(risk[d])

-----------------------------------------------------------------------------
(* A call that rewrites the row of trade t keeps the invariant when the new  *)
(* row is sound, takes the slot only if it was t's or free, and takes no     *)
(* order of another trade.                                                   *)
LEMMA TradeRewrite ==
    ASSUME StInv, NEW t \in Trade, NEW row \in TradeRow, RowInv(row),
           trades' = [trades EXCEPT ![t] = row], UNCHANGED risk,
           row.phase \in ActivePhase => Active(t) \/ ActiveTrades = {},
           row.entryOrder # None => \A u \in Trade \ {t} : trades[u].entryOrder # row.entryOrder,
           row.exitOrder # None => \A u \in Trade \ {t} : trades[u].exitOrder # row.exitOrder
    PROVE  StInv'
<1>1. StTypeOK'
  BY DEF StInv, StTypeOK
<1>2. /\ trades'[t] = row
      /\ \A u \in Trade \ {t} : trades'[u] = trades[u]
  BY DEF StInv, StTypeOK
<1>3. OneActiveTrade'
  BY <1>2 DEF StInv, OneActiveTrade, Active, ActiveTrades
<1>4. OrdersAreNotShared'
  BY <1>2 DEF StInv, OrdersAreNotShared
<1>5. (\A u \in Trade : RowInv(trades[u]))'
  BY <1>2 DEF StInv
<1>6. (\A d \in Day : DayInv(risk[d]))'
  BY DEF StInv
<1> QED BY <1>1, <1>3, <1>4, <1>5, <1>6 DEF StInv

(* A call that rewrites the row of day d keeps it when the new row is sound. *)
LEMMA DayRewrite ==
    ASSUME StInv, NEW d \in Day, NEW row \in DayRow, DayInv(row),
           risk' = [risk EXCEPT ![d] = row], UNCHANGED trades
    PROVE  StInv'
<1>1. StTypeOK'
  BY DEF StInv, StTypeOK
<1>2. (\A e \in Day : DayInv(risk[e]))'
  BY DEF StInv, StTypeOK
<1>3. OneActiveTrade' /\ OrdersAreNotShared' /\ (\A u \in Trade : RowInv(trades[u]))'
  BY DEF StInv, OneActiveTrade, OrdersAreNotShared, Active
<1> QED BY <1>1, <1>2, <1>3 DEF StInv

(* Facts about the row at hand, used by every step below.                    *)
LEMMA RowFacts ==
    ASSUME StInv, NEW t \in Trade
    PROVE  /\ trades[t] \in TradeRow
           /\ RowInv(trades[t])
           /\ trades[t].entryOrder # None =>
                 \A u \in Trade \ {t} : trades[u].entryOrder # trades[t].entryOrder
           /\ trades[t].exitOrder # None =>
                 \A u \in Trade \ {t} : trades[u].exitOrder # trades[t].exitOrder
BY DEF StInv, StTypeOK, OrdersAreNotShared

-----------------------------------------------------------------------------
(* Every method of the store keeps the invariant: one case per method.       *)
LEMMA StInvInductive == StInv /\ [StNext]_stVars => StInv'
<1> SUFFICES ASSUME StInv, [StNext]_stVars PROVE StInv'
  OBVIOUS
<1> USE RowFacts
<1>1. ASSUME NEW t \in Trade, NEW d \in Day, BeginTrade(t, d) PROVE StInv'
  <2>1. CASE UNCHANGED stVars
    BY <2>1 DEF stVars, StInv, StTypeOK, OneActiveTrade, OrdersAreNotShared, Active
  <2>2. CASE ~UNCHANGED stVars
    <3> DEFINE row == [trades[t] EXCEPT !.phase = "OBSERVED", !.day = d]
    <3>1. ~Exists(t) /\ ActiveTrades = {} /\ trades' = [trades EXCEPT ![t] = row] /\ risk' = risk
      BY <1>1, <2>2 DEF BeginTrade, stVars
    <3>2. row \in TradeRow /\ RowInv(row)
      BY <3>1 DEF TradeRow, Phase, RowInv, Exists
    <3>3. row.entryOrder = trades[t].entryOrder /\ row.exitOrder = trades[t].exitOrder
      BY DEF TradeRow
    <3> HIDE DEF row
    <3> QED BY <3>1, <3>2, <3>3, TradeRewrite
  <2> QED BY <2>1, <2>2
<1>2. ASSUME NEW t \in Trade, NEW o \in TradeOrder, MarkEntrySubmitted(t, o) PROVE StInv'
  <2> DEFINE row == [trades[t] EXCEPT !.phase = "ENTRY_SUBMITTED", !.entryOrder = o]
  <2>0. o # None /\ trades[t].phase \in {"OBSERVED", "ENTRY_SUBMITTED"}
    BY <1>2, RiskAssumption DEF MarkEntrySubmitted
  <2>1. row \in TradeRow /\ RowInv(row)
    <3>1. trades[t] \in TradeRow /\ RowInv(trades[t])
      OBVIOUS
    <3>2. /\ row \in TradeRow
          /\ row.phase = "ENTRY_SUBMITTED"
          /\ row.entryOrder = o
          /\ row.opened = trades[t].opened
          /\ row.exitOrder = trades[t].exitOrder
          /\ row.exitReason = trades[t].exitReason
      BY <3>1 DEF TradeRow, Phase
    <3>3. ~trades[t].opened /\ trades[t].exitReason = None
      BY <2>0, <3>1 DEF RowInv
    <3> QED BY <2>0, <3>1, <3>2, <3>3, RiskAssumption DEF RowInv
  <2>2. row.entryOrder = o /\ row.exitOrder = trades[t].exitOrder
    BY DEF TradeRow
  <2>3. Active(t)
    BY <1>2 DEF MarkEntrySubmitted, Active, ActivePhase, Phase
  <2> HIDE DEF row
  <2> QED BY <1>2, <2>1, <2>2, <2>3, TradeRewrite DEF MarkEntrySubmitted, row
<1>3. ASSUME NEW t \in Trade, MarkOpen(t) PROVE StInv'
  <2> DEFINE row == [trades[t] EXCEPT !.phase = "OPEN", !.opened = TRUE]
  <2>1. row \in TradeRow /\ RowInv(row)
    BY <1>3 DEF MarkOpen, TradeRow, Phase, RowInv
  <2>2. row.entryOrder = trades[t].entryOrder /\ row.exitOrder = trades[t].exitOrder
    BY DEF TradeRow
  <2>3. Active(t)
    BY <1>3 DEF MarkOpen, Active, ActivePhase, Phase
  <2> QED BY <1>3, <2>1, <2>2, <2>3, TradeRewrite DEF MarkOpen
<1>4. ASSUME NEW t \in Trade, NEW o \in TradeOrder, NEW r \in Reason, MarkExitSubmitted(t, o, r)
      PROVE StInv'
  <2> DEFINE row == [trades[t] EXCEPT !.phase = "EXIT_SUBMITTED", !.exitOrder = o,
                                      !.exitReason = r]
  <2>0. o # None /\ r # Cleared /\ trades[t].phase \in {"OPEN", "EXIT_SUBMITTED"}
    BY <1>4, RiskAssumption DEF MarkExitSubmitted
  <2>1. row \in TradeRow /\ RowInv(row)
    BY <2>0 DEF TradeRow, Phase, RowInv
  <2>2. row.entryOrder = trades[t].entryOrder /\ row.exitOrder = o
    BY DEF TradeRow
  <2>3. Active(t)
    BY <1>4 DEF MarkExitSubmitted, Active, ActivePhase, Phase
  <2> QED BY <1>4, <2>1, <2>2, <2>3, TradeRewrite DEF MarkExitSubmitted
<1>5. ASSUME NEW t \in Trade, NEW p \in Pnl, MarkClosed(t, p) PROVE StInv'
  <2> DEFINE row == [trades[t] EXCEPT !.phase = "CLOSED", !.pnl = p]
  <2>1. row \in TradeRow /\ RowInv(row)
    BY <1>5 DEF MarkClosed, TradeRow, Phase, RowInv
  <2>2. /\ row.entryOrder = trades[t].entryOrder
        /\ row.exitOrder = trades[t].exitOrder
        /\ row.phase \notin ActivePhase
    BY DEF TradeRow, ActivePhase
  <2> QED BY <1>5, <2>1, <2>2, TradeRewrite DEF MarkClosed
<1>6. ASSUME NEW t \in Trade, NEW h \in HoldReason, MarkSafetyHold(t, h) PROVE StInv'
  <2> DEFINE row == [trades[t] EXCEPT !.phase = "SAFETY_HOLD", !.hold = h]
  <2>1. row \in TradeRow /\ RowInv(row)
    BY <1>6 DEF MarkSafetyHold, TradeRow, Phase, RowInv
  <2>2. row.entryOrder = trades[t].entryOrder /\ row.exitOrder = trades[t].exitOrder
    BY DEF TradeRow
  <2> QED BY <1>6, <2>1, <2>2, TradeRewrite DEF MarkSafetyHold
<1>7. ASSUME NEW t \in Trade, CloseUnsubmittedHold(t) PROVE StInv'
  <2> DEFINE row == [trades[t] EXCEPT !.phase = "CLOSED", !.pnl = 0, !.exitReason = Cleared]
  <2>0. /\ 0 \in Pnl
        /\ trades[t].entryOrder = None
        /\ trades[t].exitOrder = None
    BY <1>7, RiskAssumption DEF CloseUnsubmittedHold
  <2>1. row \in TradeRow /\ RowInv(row)
    BY <2>0 DEF TradeRow, Phase, RowInv
  <2>2. /\ row.entryOrder = trades[t].entryOrder
        /\ row.exitOrder = trades[t].exitOrder
        /\ row.phase \notin ActivePhase
    BY DEF TradeRow, ActivePhase
  <2> QED BY <1>7, <2>1, <2>2, TradeRewrite DEF CloseUnsubmittedHold
<1>8. ASSUME NEW d \in Day,
             \/ AuthorizeEntry(d)
             \/ RecordEntry(d)
             \/ \E p \in Pnl : RecordClose(d, p)
             \/ ActivateKillSwitch(d)
             \/ CooldownElapses(d)
      PROVE StInv'
  <2>0. /\ risk[d] \in DayRow
        /\ risk[d].entries \in 0..MaxTrades
        /\ risk[d].pnl \in Int
        /\ risk[d].kill \in BOOLEAN
        /\ DayInv(risk[d])
    BY RiskAssumption DEF StInv, StTypeOK, DayRow
  <2>1. CASE AuthorizeEntry(d)
    <3>1. [risk[d] EXCEPT !.known = TRUE] \in DayRow /\ DayInv([risk[d] EXCEPT !.known = TRUE])
      BY <2>0 DEF DayRow, DayInv
    <3> QED BY <2>1, <3>1, DayRewrite DEF AuthorizeEntry
  <2>2. CASE RecordEntry(d)
    <3> DEFINE row == [risk[d] EXCEPT !.known = TRUE, !.entries = risk[d].entries + 1]
    <3>1. risk[d].entries + 1 \in 0..MaxTrades
      BY <2>0, <2>2, RiskAssumption DEF RecordEntry, Authorized
    <3>2. row \in DayRow /\ DayInv(row)
      BY <2>0, <3>1 DEF DayRow, DayInv
    <3>3. risk' = [risk EXCEPT ![d] = row] /\ UNCHANGED trades
      BY <2>2 DEF RecordEntry
    <3> HIDE DEF row
    <3> QED BY <3>2, <3>3, DayRewrite
  <2>3. ASSUME NEW p \in Pnl, RecordClose(d, p) PROVE StInv'
    <3> DEFINE row == [risk[d] EXCEPT !.known = TRUE, !.pnl = risk[d].pnl + p,
                                      !.kill = risk[d].kill \/ risk[d].pnl + p <= -LossLimit,
                                      !.cooling = TRUE]
    <3>1. risk[d].pnl + p \in (-MaxAbsPnl)..MaxAbsPnl
      BY <2>3 DEF RecordClose
    <3>2. row \in DayRow /\ DayInv(row)
      BY <2>0, <3>1 DEF DayRow, DayInv
    <3>3. risk' = [risk EXCEPT ![d] = row] /\ UNCHANGED trades
      BY <2>3 DEF RecordClose
    <3> HIDE DEF row
    <3> QED BY <3>2, <3>3, DayRewrite
  <2>4. CASE ActivateKillSwitch(d)
    <3> DEFINE row == [risk[d] EXCEPT !.known = TRUE, !.kill = TRUE]
    <3>1. row \in DayRow /\ DayInv(row)
      BY <2>0 DEF DayRow, DayInv
    <3> QED BY <2>4, <3>1, DayRewrite DEF ActivateKillSwitch
  <2>5. CASE CooldownElapses(d)
    <3> DEFINE row == [risk[d] EXCEPT !.cooling = FALSE]
    <3>1. row \in DayRow /\ DayInv(row)
      BY <2>0 DEF DayRow, DayInv
    <3> QED BY <2>5, <3>1, DayRewrite DEF CooldownElapses
  <2> QED BY <1>8, <2>1, <2>2, <2>3, <2>4, <2>5
<1>9. CASE UNCHANGED stVars
  BY <1>9 DEF stVars, StInv, StTypeOK, OneActiveTrade, OrdersAreNotShared, Active
<1> QED BY <1>1, <1>2, <1>3, <1>4, <1>5, <1>6, <1>7, <1>8, <1>9 DEF StNext

(* The strengthened invariant holds in every reachable state: the slot, the  *)
(* UNIQUE columns, every trade row and every day row are sound together.     *)
THEOREM StInvariant == StSpec => []StInv
<1>1. StInit => StInv
  BY RiskAssumption DEF StInit, StInv, StTypeOK, OneActiveTrade, OrdersAreNotShared, Active,
     ActivePhase, RowInv, DayInv, NoTrade, NoDay, TradeRow, DayRow, Phase
<1> QED BY <1>1, StInvInductive, PTL DEF StSpec

(* Whatever calls are made, every row keeps its type: in particular the day's *)
(* entry counter never passes maximum_trades_per_utc_day, since record_entry  *)
(* validates the authorization again in its own transaction.                  *)
THEOREM StTypeCorrect == StSpec => []StTypeOK
BY StInvariant, PTL DEF StInv

(* maximum_open_positions = 1: no order of calls gives two trades the slot,   *)
(* since begin_trade looks for an active trade in its own transaction and no  *)
(* other call makes a trade active.                                           *)
THEOREM OneActiveTradeAlways == StSpec => []OneActiveTrade
BY StInvariant, PTL DEF StInv

(* The phase of a trade says which orders of it may be at the exchange, which *)
(* is what the executor and the clearing script decide by.                    *)
THEOREM PhaseMatchesOrdersAlways == StSpec => []PhaseMatchesOrders
<1>1. StInv => PhaseMatchesOrders
  BY DEF StInv, RowInv, PhaseMatchesOrders
<1> QED BY <1>1, StInvariant, PTL

(* The UNIQUE columns keep every entry and every exit to one trade.           *)
THEOREM OrdersAreNeverShared == StSpec => []OrdersAreNotShared
BY StInvariant, PTL DEF StInv

-----------------------------------------------------------------------------
(* A closed row is frozen and a hold is left only by the clearing of a trade  *)
(* that never had an order, whatever is called on it.                         *)
THEOREM ClosedIsAlwaysFinal == StSpec => ClosedIsFinal
<1> DEFINE FinalStep ==
             \A t \in Trade :
                 /\ trades[t].phase = "CLOSED" => trades'[t] = trades[t]
                 /\ trades[t].phase = "SAFETY_HOLD" /\ trades'[t].phase # "SAFETY_HOLD" =>
                       trades[t].entryOrder = None /\ trades'[t].phase = "CLOSED"
<1>1. StTypeOK /\ [StNext]_stVars => [FinalStep]_stVars
  <2> SUFFICES ASSUME StTypeOK, StNext PROVE FinalStep
    OBVIOUS
  <2>1. ASSUME UNCHANGED trades PROVE FinalStep
    BY <2>1
  (* A rewrite of one row that was neither closed nor held, or kept that.     *)
  <2>2. ASSUME NEW t \in Trade, NEW row, trades' = [trades EXCEPT ![t] = row],
               trades[t].phase = "CLOSED" => row = trades[t],
               trades[t].phase = "SAFETY_HOLD" /\ row.phase # "SAFETY_HOLD" =>
                   trades[t].entryOrder = None /\ row.phase = "CLOSED"
        PROVE  FinalStep
    BY <2>2 DEF StTypeOK
  <2>3. \A t \in Trade : trades[t] \in TradeRow
    BY DEF StTypeOK
  <2>4. ASSUME NEW t \in Trade, NEW d \in Day, BeginTrade(t, d) PROVE FinalStep
    BY <2>1, <2>2, <2>4 DEF BeginTrade, Exists
  <2>5. ASSUME NEW t \in Trade, NEW o \in TradeOrder, MarkEntrySubmitted(t, o) PROVE FinalStep
    BY <2>2, <2>5 DEF MarkEntrySubmitted
  <2>6. ASSUME NEW t \in Trade, MarkOpen(t) PROVE FinalStep
    BY <2>2, <2>6 DEF MarkOpen
  <2>7. ASSUME NEW t \in Trade, NEW o \in TradeOrder, NEW r \in Reason,
               MarkExitSubmitted(t, o, r)
        PROVE  FinalStep
    BY <2>2, <2>7 DEF MarkExitSubmitted
  <2>8. ASSUME NEW t \in Trade, NEW p \in Pnl, MarkClosed(t, p) PROVE FinalStep
    <3> DEFINE row == [trades[t] EXCEPT !.phase = "CLOSED", !.pnl = p]
    <3>1. trades' = [trades EXCEPT ![t] = row] /\ trades[t].phase # "SAFETY_HOLD"
      BY <2>8 DEF MarkClosed
    <3>2. trades[t].phase = "CLOSED" => row = trades[t]
      BY <2>3, <2>8 DEF MarkClosed, TradeRow
    <3> HIDE DEF row
    <3> QED BY <2>2, <3>1, <3>2
  <2>9. ASSUME NEW t \in Trade, NEW h \in HoldReason, MarkSafetyHold(t, h) PROVE FinalStep
    <3> DEFINE row == [trades[t] EXCEPT !.phase = "SAFETY_HOLD", !.hold = h]
    <3>1. /\ trades' = [trades EXCEPT ![t] = row]
          /\ trades[t].phase # "CLOSED"
          /\ row.phase = "SAFETY_HOLD"
      BY <2>3, <2>9 DEF MarkSafetyHold, Active, ActivePhase, TradeRow
    <3> HIDE DEF row
    <3> QED BY <2>2, <3>1
  <2>10. ASSUME NEW t \in Trade, CloseUnsubmittedHold(t) PROVE FinalStep
    <3> DEFINE row == [trades[t] EXCEPT !.phase = "CLOSED", !.pnl = 0, !.exitReason = Cleared]
    <3>1. /\ trades' = [trades EXCEPT ![t] = row]
          /\ trades[t].phase = "SAFETY_HOLD"
          /\ trades[t].entryOrder = None
          /\ row.phase = "CLOSED"
      BY <2>3, <2>10 DEF CloseUnsubmittedHold, TradeRow
    <3> HIDE DEF row
    <3> QED BY <2>2, <3>1
  <2>11. ASSUME NEW d \in Day,
               \/ AuthorizeEntry(d)
               \/ RecordEntry(d)
               \/ \E p \in Pnl : RecordClose(d, p)
               \/ ActivateKillSwitch(d)
               \/ CooldownElapses(d)
        PROVE  FinalStep
    BY <2>1, <2>11 DEF AuthorizeEntry, RecordEntry, RecordClose, ActivateKillSwitch,
                       CooldownElapses
  <2> QED BY <2>4, <2>5, <2>6, <2>7, <2>8, <2>9, <2>10, <2>11 DEF StNext
<1> QED BY <1>1, StTypeCorrect, PTL DEF StSpec, ClosedIsFinal

(* The daily loss envelope: once the realised result of a day is at the limit *)
(* its kill switch is set, and from then on no entry of that day is recorded. *)
THEOREM LossAlwaysKillsTheDay == StSpec => LossKillsTheDay
<1> DEFINE KillStep ==
             \A d \in Day :
                 /\ risk'[d].pnl <= -LossLimit => risk'[d].kill
                 /\ risk[d].kill => risk'[d].kill /\ risk'[d].entries = risk[d].entries
<1>1. StInv /\ StInv' /\ [StNext]_stVars => [KillStep]_stVars
  <2> SUFFICES ASSUME StInv, StInv', StNext,
                      NEW d \in Day, risk[d].kill
               PROVE  risk'[d].kill /\ risk'[d].entries = risk[d].entries
    BY DEF StInv, DayInv
  <2>1. CASE UNCHANGED risk
    BY <2>1
  <2>2. \A e \in Day : risk[e] \in DayRow
    BY DEF StInv, StTypeOK
  <2>3. ASSUME NEW e \in Day,
               \/ AuthorizeEntry(e)
               \/ RecordEntry(e)
               \/ ActivateKillSwitch(e)
               \/ CooldownElapses(e)
        PROVE  risk'[d].kill /\ risk'[d].entries = risk[d].entries
    <3>1. d # e => risk'[d] = risk[d]
      BY <2>3 DEF StInv, StTypeOK, AuthorizeEntry, RecordEntry, ActivateKillSwitch,
                  CooldownElapses
    <3>2. CASE d = e
      BY <2>2, <2>3, <3>2 DEF StInv, StTypeOK, DayRow, AuthorizeEntry, RecordEntry, Authorized,
                              ActivateKillSwitch, CooldownElapses
    <3> QED BY <3>1, <3>2
  <2>4. ASSUME NEW e \in Day, NEW p \in Pnl, RecordClose(e, p)
        PROVE  risk'[d].kill /\ risk'[d].entries = risk[d].entries
    BY <2>2, <2>4 DEF StInv, StTypeOK, DayRow, RecordClose
  <2>5. (\E t \in Trade :
            \/ \E e \in Day : BeginTrade(t, e)
            \/ \E o \in TradeOrder :
                  \/ MarkEntrySubmitted(t, o)
                  \/ \E r \in Reason : MarkExitSubmitted(t, o, r)
            \/ MarkOpen(t)
            \/ \E p \in Pnl : MarkClosed(t, p)
            \/ \E h \in HoldReason : MarkSafetyHold(t, h)
            \/ CloseUnsubmittedHold(t)) => UNCHANGED risk
    BY DEF BeginTrade, MarkEntrySubmitted, MarkExitSubmitted, MarkOpen, MarkClosed,
           MarkSafetyHold, CloseUnsubmittedHold
  <2> QED BY <2>1, <2>3, <2>4, <2>5 DEF StNext
<1> QED BY <1>1, StInvariant, PTL DEF StSpec, LossKillsTheDay
=================================================================================
