------------------------------ MODULE PaperOrders ------------------------------
(***************************************************************************)
(* The durable PAPER order store, src/execution/paper_reconciliation.py:    *)
(* three SQLite tables (orders, fills, positions), every method one         *)
(* BEGIN IMMEDIATE transaction, hence one action.  A call that raises rolls *)
(* its transaction back and is not a step.  The callers are arbitrary: any  *)
(* process, in any order, with any argument.                                *)
(*                                                                          *)
(* Quantities are whole numbers of the venue's quantity step.  A fill's     *)
(* price, costs and timestamp are one opaque "body": the code compares them *)
(* when a fill id is delivered again, and only that comparison matters.     *)
(*                                                                          *)
(* A definition named Mutant_... is a plausible slip in the definition that *)
(* follows it; the specification never uses one.                            *)
(***************************************************************************)
EXTENDS Integers, SetSums

CONSTANTS
    Order,        \* client order ids; an id is a function of its idempotency key
    FillId,       \* execution ids of the venue
    Symbol,       \* instruments
    Group,        \* leg group ids: the trade or setup an order belongs to
    Body,         \* the price, costs and timestamp of a fill
    MaxQty,       \* largest order quantity
    MaxAttempts   \* bound on the submit attempts that are counted

ASSUME BoundAssumption == MaxQty \in Nat \ {0} /\ MaxAttempts \in Nat \ {0}

VARIABLES
    orders,   \* paper_orders: a row for every order id, state "ABSENT" before begin_order
    fills,    \* paper_fills: a row for every fill id, NoFill before it is recorded
    net       \* paper_positions.net_quantity of every symbol

ordVars == <<orders, fills, net>>

Side == {"BUY", "SELL"}
OrderState == {"PENDING_SUBMIT", "SUBMITTED", "PARTIALLY_FILLED", "FILLED",
               "CANCELED", "REJECTED"}
Terminal == {"FILLED", "CANCELED", "REJECTED"}

Params == [symbol : Symbol, side : Side, qty : 1..MaxQty, group : Group]
OrderRow == [state : OrderState, params : Params, filled : 0..MaxQty, attempts : 0..MaxAttempts]
AbsentRow == [state |-> "ABSENT"]

FillRow == [order : Order, qty : 1..MaxQty, body : Body]
NoFill == [order |-> "NONE"]

Begun(o) == orders[o].state # "ABSENT"
Recorded(f) == fills[f] # NoFill

OrdInit ==
    /\ orders = [o \in Order |-> AbsentRow]
    /\ fills = [f \in FillId |-> NoFill]
    /\ net = [s \in Symbol |-> 0]

-----------------------------------------------------------------------------
(* begin_order: a new row, or the existing one when every parameter agrees.  *)
BeginOrder(o, p) ==
    /\ IF Begun(o)
       THEN orders[o].params = p /\ UNCHANGED orders
       ELSE orders' = [orders EXCEPT ![o] =
                [state |-> "PENDING_SUBMIT", params |-> p, filled |-> 0, attempts |-> 0]]
    /\ UNCHANGED <<fills, net>>

(* mark_submitted: the write-ahead before the network call, or its retry.    *)
MarkSubmitted(o) ==
    /\ orders[o].state \in {"PENDING_SUBMIT", "SUBMITTED"}
    /\ orders[o].attempts < MaxAttempts
    /\ orders' = [orders EXCEPT ![o].state = "SUBMITTED",
                                ![o].attempts = @ + 1]
    /\ UNCHANGED <<fills, net>>

(* _apply_fill_to_position, as far as the net quantity goes.                 *)
Signed(side, q) == IF side = "BUY" THEN q ELSE -q

NewFillAllowed(o, q) ==
    /\ orders[o].state \in {"SUBMITTED", "PARTIALLY_FILLED"}
    /\ orders[o].filled + q <= orders[o].params.qty

(* A new execution updates the fill, the order and the position together.    *)
ApplyFill(o, f, r) ==
    /\ NewFillAllowed(o, r.qty)
    /\ fills' = [fills EXCEPT ![f] = r]
    /\ orders' = [orders EXCEPT
           ![o].filled = @ + r.qty,
           ![o].state = IF orders[o].filled + r.qty = orders[o].params.qty
                        THEN "FILLED" ELSE "PARTIALLY_FILLED"]
    /\ net' = [net EXCEPT ![orders[o].params.symbol] =
                              @ + Signed(orders[o].params.side, r.qty)]

(* apply_fill_result with a fill: an id already recorded with the same       *)
(* content changes nothing, one recorded with other content raises.          *)
Mutant_NoFillDedupe(o, f, r) == ApplyFill(o, f, r)
RecordFill(o, f, r) ==
    \/ Recorded(f) /\ fills[f] = r /\ UNCHANGED ordVars
    \/ ~Recorded(f) /\ ApplyFill(o, f, r)

(* apply_fill_result with a rejection.                                       *)
RecordRejection(o) ==
    /\ orders[o].state \in {"PENDING_SUBMIT", "SUBMITTED"}
    /\ orders' = [orders EXCEPT ![o].state = "REJECTED"]
    /\ UNCHANGED <<fills, net>>

(* mark_canceled: idempotent, keeps the fills already applied.               *)
Mutant_CancelFilled(o) ==
    /\ orders[o].state \in {"SUBMITTED", "PARTIALLY_FILLED", "FILLED", "CANCELED"}
    /\ orders' = [orders EXCEPT ![o].state = "CANCELED"]
    /\ UNCHANGED <<fills, net>>
MarkCanceled(o) ==
    /\ orders[o].state \in {"SUBMITTED", "PARTIALLY_FILLED", "CANCELED"}
    /\ orders' = [orders EXCEPT ![o].state = "CANCELED"]
    /\ UNCHANGED <<fills, net>>

OrdNext ==
    \E o \in Order :
        \/ \E p \in Params : BeginOrder(o, p)
        \/ MarkSubmitted(o)
        \/ \E f \in FillId, q \in 1..MaxQty, b \in Body :
               RecordFill(o, f, [order |-> o, qty |-> q, body |-> b])
        \/ RecordRejection(o)
        \/ MarkCanceled(o)

OrdSpec == OrdInit /\ [][OrdNext]_ordVars

-----------------------------------------------------------------------------
(* leg_group_status: what a set of legs amounts to.                          *)
Members(g) == {o \in Order : Begun(o) /\ orders[o].params.group = g}
MemberStates(g) == {orders[o].state : o \in Members(g)}
HasExposure(g) == \E o \in Members(g) : orders[o].filled > 0

LegGroupStatus(g) ==
    CASE Members(g) = {} -> "UNKNOWN"
      [] Members(g) # {} /\ MemberStates(g) \subseteq {"REJECTED", "CANCELED"} /\ ~HasExposure(g)
            -> "CLEANLY_REJECTED"
      [] Members(g) # {} /\ MemberStates(g) = {"FILLED"} -> "SETTLED"
      [] HasExposure(g) /\ MemberStates(g) \cap
              {"REJECTED", "CANCELED", "SUBMITTED", "PENDING_SUBMIT"} # {} -> "ORPHANED"
      [] OTHER -> "PENDING"

-----------------------------------------------------------------------------
(* Every row of the three tables keeps its type: no filled quantity and no   *)
(* attempt count ever leaves its bounds.                                     *)
OrdTypeOK ==
    /\ orders \in [Order -> OrderRow \cup {AbsentRow}]
    /\ fills \in [FillId -> FillRow \cup {NoFill}]
    /\ net \in [Symbol -> Int]

(* The state of an order says how much of it is filled, and no order is ever *)
(* overfilled: the guards of every transaction together keep this, whatever  *)
(* order the callers use them in.                                            *)
StateMatchesFilled ==
    \A o \in Order : Begun(o) =>
        LET r == orders[o] IN
        /\ r.state \in {"PENDING_SUBMIT", "SUBMITTED", "REJECTED"} => r.filled = 0
        /\ r.state \in {"PARTIALLY_FILLED", "CANCELED"} => r.filled < r.params.qty
        /\ r.state = "PARTIALLY_FILLED" => r.filled > 0
        /\ r.state = "FILLED" => r.filled = r.params.qty

(* A fill is only ever recorded for an order that was submitted first.       *)
FillsHaveSubmittedOrders ==
    \A f \in FillId : Recorded(f) =>
        /\ Begun(fills[f].order)
        /\ orders[fills[f].order].attempts > 0

(* "An unseen fill_id is inserted and applied exactly once" and the position *)
(* "can never drift out of sync with the fills that produced it": what the   *)
(* store reports of an order and of a symbol is the sum of the executions it *)
(* recorded, however often and in whatever order they were delivered.        *)
FillsOf(o) == {f \in FillId : Recorded(f) /\ fills[f].order = o}
FillsIn(s) == {f \in FillId : Recorded(f) /\ orders[fills[f].order].params.symbol = s}
BooksMatchFills ==
    /\ \A o \in Order : Begun(o) =>
           orders[o].filled = SumOf([f \in FillsOf(o) |-> fills[f].qty])
    /\ \A s \in Symbol :
           net[s] = SumOf([f \in FillsIn(s) |->
                               Signed(orders[fills[f].order].params.side, fills[f].qty)])

(* No transaction rewrites history: a recorded execution keeps its content,  *)
(* a terminal order its state and quantity, a begun order its parameters.    *)
HistoryStep ==
    /\ \A f \in FillId : Recorded(f) => fills'[f] = fills[f]
    /\ \A o \in Order :
           /\ orders[o].state \in Terminal => orders'[o] = orders[o]
           /\ Begun(o) => orders'[o].params = orders[o].params
HistoryIsKept == [][HistoryStep]_ordVars

(* A leg group reported SETTLED or CLEANLY_REJECTED stays that way until     *)
(* somebody begins another leg of it: a verdict the caller may act upon.     *)
VerdictIsStable ==
    [][\A g \in Group : LegGroupStatus(g) \in {"SETTLED", "CLEANLY_REJECTED"} =>
           \/ LegGroupStatus(g)' = LegGroupStatus(g)
           \/ Members(g)' # Members(g)]_ordVars

=============================================================================
