--------------------------- MODULE DemoExecutionProofs ---------------------------
(***************************************************************************)
(* Theorems about the autonomous Demo executor with its two stores, the     *)
(* exchange, the operator's clearing script and any number of faults: for   *)
(* every set of trades, days and prices, every quantity and every limit.    *)
(*                                                                          *)
(* One induction carries them all.  DemoInv, the inductive invariant, joins *)
(* the invariants of the two stores (OrdInv, StInv) with what ties the two  *)
(* stores, the exchange and the cycle in progress to one another.  A step   *)
(* is a step of each store or leaves it alone (StoreSteps), so their own    *)
(* inductions are used again; what is left is shown in three parts: what no *)
(* cycle is needed to say (Standing), what a cycle may rely on at each of   *)
(* its calls (CycleIsSound), and the count of a day's entries.              *)
(***************************************************************************)
EXTENDS DemoExecution, StoreProofs

(***************************************************************************)
(* The inductive invariant.                                                  *)
(***************************************************************************)

(* The exchange numbers the executions of an order one after the other.      *)
ExecutionsAreNumbered ==
    /\ IsFiniteSet(executed)
    /\ \A o \in Order : \A k \in 1..MaxQty : <<o, k>> \in executed <=> k <= Cumulative(o)

(* What the exchange knows of an order was on record first, and it executes  *)
(* no more than was ordered.                                                 *)
ExchangeFollows ==
    \A o \in Order :
        /\ exch[o] = "absent" => Cumulative(o) = 0
        /\ exch[o] # "absent" =>
              /\ orders[o].state \notin {"ABSENT", "PENDING_SUBMIT"}
              /\ Cumulative(o) <= orders[o].params.qty
        /\ Live(o) => Cumulative(o) < orders[o].params.qty

(* The store holds executions that happened, each as one unit of its order.  *)
RecordsAreExecutions ==
    /\ \A f \in FillId : Recorded(f) => f \in executed /\ fills[f] = FillOf(f)
    /\ \A o \in Order : Begun(o) => orders[o].filled = Cardinality(FillsOf(o))
    /\ \A o \in Order : orders[o].state = "PENDING_SUBMIT" => orders[o].attempts = 0

(* A trade row names the trade's own orders, and its phase says which of     *)
(* them were begun, sent and filled; exits are begun one after the other.    *)
TradesNameOrders ==
    \A t \in Trade :
        LET r == trades[t] IN
        /\ r.entryOrder \in {None, Entry(t)}
        /\ r.exitOrder \in Exits(t) \cup {None}
        /\ r.entryOrder # None => Begun(Entry(t))
        /\ r.exitOrder # None => Begun(r.exitOrder)
        /\ exch[Entry(t)] # "absent" => r.entryOrder = Entry(t)
        /\ \A o \in Exits(t) : exch[o] # "absent" => r.exitOrder # None
        /\ r.opened => orders[Entry(t)].state = "FILLED"
        /\ r.phase = "ABSENT" => ~Begun(Entry(t))
        /\ \E k \in 0..MaxExits : \A n \in 1..MaxExits : Begun(<<t, n>>) <=> n <= k

(* A running order is the one its trade waits for, and a running exit asks   *)
(* for exactly what is left of the position.                                 *)
LiveIsAwaited ==
    \A o \in Order : Live(o) =>
        IF IsEntry(o)
        THEN trades[o[1]].phase = "ENTRY_SUBMITTED"
        ELSE /\ trades[o[1]].phase = "EXIT_SUBMITTED"
             /\ trades[o[1]].exitOrder = o
             /\ orders[o].params.qty - Cumulative(o) = Position

(* The position of the account is the exposure of the active trade.          *)
PositionIsOwned ==
    /\ \A t \in Trade : Exposure(t) >= 0
    /\ \A t \in Trade : trades[t].phase \in {"ABSENT", "OBSERVED", "CLOSED"} => Exposure(t) = 0
    /\ \A t \in Trade : Active(t) => Position = Exposure(t)
    /\ ActiveTrades = {} => Position = 0

(* What a cycle may rely on at every call, whatever happened since it read   *)
(* the stores.  Sending an entry:                                            *)
EntryPath ==
    /\ cur.caller = "new entry"
    /\ cur.order = Entry(cur.trade)
    /\ Authorized(cur.day)
    /\ pc = "begin order" => cur.qty = MaxQty
    /\ pc \in {"begin order", "mark order"} /\ trades[cur.trade].phase # "CLOSED" =>
          /\ trades[cur.trade].phase = "OBSERVED"
          /\ trades[cur.trade].day = cur.day
          /\ pc = "begin order" => ~Begun(cur.order)
          /\ pc = "mark order" => orders[cur.order].state = "PENDING_SUBMIT"
    /\ pc \in {"write ahead", "place", "record entry"} =>
          /\ trades[cur.trade].phase = "ENTRY_SUBMITTED"
          /\ trades[cur.trade].day = cur.day

(* sending an exit:                                                          *)
ExitPath ==
    /\ cur.caller \in {"new exit", "replacement"}
    /\ cur.order \in Exits(cur.trade)
    /\ pc # "record entry"
    /\ \A o \in Order : ~Live(o)
    /\ Position > 0
    /\ pc = "begin order" =>
          /\ cur.qty = Position
          /\ \A n \in 1..MaxExits : Begun(<<cur.trade, n>>) <=> n < cur.order[2]
    /\ pc = "mark order" => orders[cur.order].state = "PENDING_SUBMIT"
    /\ pc \in {"begin order", "mark order"} =>
          trades[cur.trade].phase \in {"OPEN", "EXIT_SUBMITTED"}
    /\ pc \in {"write ahead", "place"} =>
          trades[cur.trade].phase = "EXIT_SUBMITTED" /\ trades[cur.trade].exitOrder = cur.order
    /\ pc \in {"mark order", "write ahead", "place"} => orders[cur.order].params.qty = Position

(* comparing an order with the exchange:                                     *)
Reconciling ==
    \/ /\ cur.caller \in {"new entry", "entry"}
       /\ pc # "exit reconciled"
       /\ cur.order = Entry(cur.trade)
       /\ trades[cur.trade].phase = "ENTRY_SUBMITTED"
    \/ /\ cur.caller \in {"new exit", "exit", "replacement"}
       /\ pc # "entry reconciled"
       /\ cur.order \in Exits(cur.trade)
       /\ trades[cur.trade].exitOrder = cur.order
       /\ trades[cur.trade].phase = "EXIT_SUBMITTED"

CycleIsSound ==
    /\ pc # "idle" => cur.day \in Day
    /\ pc \notin {"idle", "exposure", "open orders"} => cur.trade \in Trade
    /\ pc \in {"exposure", "open orders", "authorize", "begin trade"} => ActiveTrades = {}
    /\ pc \in {"authorize", "begin trade"} =>
          cur.caller = "new entry" /\ cur.order = Entry(cur.trade) /\ cur.qty = MaxQty
    /\ pc = "begin trade" => Authorized(cur.day)
    /\ pc \in {"begin order", "mark order", "write ahead", "place", "record entry"} =>
          EntryPath \/ ExitPath
    /\ pc = "write ahead" => orders[cur.order].state = "PENDING_SUBMIT"
    /\ pc = "place" =>
          /\ orders[cur.order].state = "SUBMITTED"
          /\ orders[cur.order].attempts = 1
          /\ exch[cur.order] = "absent"
    /\ pc \in {"fetch executions", "apply fills", "entry reconciled", "exit reconciled"} =>
          Reconciling
    /\ pc = "apply fills" => cur.batch \subseteq ExecutionsOf(cur.order)
    /\ pc \in {"positions", "hold mismatch"} => trades[cur.trade].phase \in {"OBSERVED", "OPEN"}
    /\ pc = "hold attempts" =>
          trades[cur.trade].phase = "EXIT_SUBMITTED" /\ \A o \in Order : ~Live(o)
    /\ pc = "close" => trades[cur.trade].phase = "EXIT_SUBMITTED" /\ Position = 0

(* Without faults the ledger counts every entry as soon as it was sent.      *)
EntriesAreCounted ==
    faults = 0 => \A d \in Day :
        /\ IsFiniteSet(SentOn(d))
        /\ Cardinality(SentOn(d))
              <= risk[d].entries + IF pc = "record entry" /\ cur.day = d THEN 1 ELSE 0

(* What holds of the stores and of the exchange whatever the executor does.   *)
Standing ==
    /\ ExecutionsAreNumbered
    /\ ExchangeFollows
    /\ RecordsAreExecutions
    /\ TradesNameOrders
    /\ LiveIsAwaited
    /\ PositionIsOwned
    /\ TerminalIsComplete

(* The orders of a closed trade have no execution that is not on record.      *)
ClosedBooks ==
    \A o \in Order : trades[o[1]].phase = "CLOSED" => FillsOf(o) = ExecutionsOf(o)

DemoInv ==
    /\ DemoTypeOK
    /\ OrdInv
    /\ StInv
    /\ Standing
    /\ ClosedBooks
    /\ CycleIsSound
    /\ EntriesAreCounted

-----------------------------------------------------------------------------
(* The names of orders and executions.                                        *)
LEMMA OrderShape ==
    /\ \A t \in Trade : /\ Entry(t) \in Order /\ Entry(t)[1] = t /\ IsEntry(Entry(t))
                        /\ Exits(t) \subseteq Order /\ Entry(t) \notin Exits(t)
    /\ \A t \in Trade : \A o \in Exits(t) : /\ o[1] = t /\ ~IsEntry(o)
                                            /\ o[2] \in 1..MaxExits /\ o = <<t, o[2]>>
    /\ \A t \in Trade : \A n \in 1..MaxExits : <<t, n>> \in Exits(t) /\ <<t, n>>[2] = n
    /\ \A o \in Order : /\ o[1] \in Trade
                        /\ IsEntry(o) => o = Entry(o[1])
                        /\ ~IsEntry(o) => o \in Exits(o[1])
<1>1. Order = Trade \X (0..MaxExits) /\ MaxExits \in Nat \ {0}
  BY DemoAssumption
<1>2. \A t \in Trade : /\ Entry(t) \in Order /\ Entry(t)[1] = t /\ IsEntry(Entry(t))
                       /\ Exits(t) \subseteq Order /\ Entry(t) \notin Exits(t)
  BY <1>1 DEF Entry, Exits, IsEntry
<1>3. \A t \in Trade : \A o \in Exits(t) : /\ o[1] = t /\ ~IsEntry(o)
                                           /\ o[2] \in 1..MaxExits /\ o = <<t, o[2]>>
  BY <1>1 DEF Exits, IsEntry
<1>4. \A t \in Trade : \A n \in 1..MaxExits : <<t, n>> \in Exits(t) /\ <<t, n>>[2] = n
  BY <1>1 DEF Exits
<1>5. ASSUME NEW o \in Order
      PROVE  /\ o[1] \in Trade
             /\ IsEntry(o) => o = Entry(o[1])
             /\ ~IsEntry(o) => o \in Exits(o[1])
  <2>1. PICK t \in Trade, n \in 0..MaxExits : o = <<t, n>>
    BY <1>1
  <2>2. o[1] = t /\ o[2] = n /\ (n # 0 => n \in 1..MaxExits)
    BY <1>1, <2>1
  <2> QED BY <2>1, <2>2 DEF IsEntry, Entry, Exits
<1> QED BY <1>2, <1>3, <1>4, <1>5

LEMMA FillShape ==
    /\ \A f \in FillId : f[1] \in Order /\ f[2] \in 1..MaxQty /\ f = <<f[1], f[2]>>
    /\ \A o \in Order : \A k \in 1..MaxQty : /\ <<o, k>> \in FillId
                                             /\ <<o, k>>[1] = o /\ <<o, k>>[2] = k
<1>1. FillId = Order \X (1..MaxQty)
  BY DemoAssumption
<1> QED BY <1>1

(* The quantities that are counted from the executions.                       *)
LEMMA Counts ==
    ASSUME ExecutionsAreNumbered
    PROVE  /\ \A o : IsFiniteSet(ExecutionsOf(o)) /\ Cumulative(o) \in Nat
           /\ \A t : Exposure(t) \in Int /\ Exposure(t) <= Cumulative(Entry(t))
           /\ Position \in Int
<1>1. \A S : S \subseteq executed => IsFiniteSet(S) /\ Cardinality(S) \in Nat
  BY FS_Subset, FS_CardinalityType DEF ExecutionsAreNumbered
<1>2. ASSUME NEW o PROVE IsFiniteSet(ExecutionsOf(o)) /\ Cumulative(o) \in Nat
  <2>1. ExecutionsOf(o) \subseteq executed
    BY DEF ExecutionsOf
  <2> QED BY <1>1, <2>1 DEF Cumulative
<1>3. ASSUME NEW t PROVE Exposure(t) \in Int /\ Exposure(t) <= Cumulative(Entry(t))
  <2>1. {f \in executed : f[1] \in Exits(t)} \subseteq executed
    OBVIOUS
  <2>2. Exposure(t) = Cumulative(Entry(t)) - Cardinality({f \in executed : f[1] \in Exits(t)})
    BY DEF Exposure, Cumulative, ExecutionsOf
  <2> HIDE DEF Exposure
  <2> QED BY <1>1, <1>2, <2>1, <2>2
<1>4. Position \in Int
  <2>1. /\ {f \in executed : IsEntry(f[1])} \subseteq executed
        /\ {f \in executed : ~IsEntry(f[1])} \subseteq executed
    OBVIOUS
  <2>2. /\ Cardinality({f \in executed : IsEntry(f[1])}) \in Nat
        /\ Cardinality({f \in executed : ~IsEntry(f[1])}) \in Nat
    BY <1>1, <2>1
  <2> QED BY <2>2 DEF Position
<1> QED BY <1>2, <1>3, <1>4

(* They stay as they are while nothing is executed.                           *)
LEMMA CountsStay ==
    ASSUME UNCHANGED executed
    PROVE  /\ \A o : ExecutionsOf(o)' = ExecutionsOf(o) /\ Cumulative(o)' = Cumulative(o)
           /\ \A t : Exposure(t)' = Exposure(t)
           /\ Position' = Position
BY DEF ExecutionsOf, Cumulative, Exposure, Position

(* One more element counts for the sets it belongs to.                        *)
LEMMA OneMore ==
    ASSUME NEW E, IsFiniteSet(E), NEW new, new \notin E, NEW X
    PROVE  Cardinality({f \in E \cup {new} : f[1] \in X})
             = Cardinality({f \in E : f[1] \in X}) + (IF new[1] \in X THEN 1 ELSE 0)
<1>1. IsFiniteSet({f \in E : f[1] \in X}) /\ new \notin {f \in E : f[1] \in X}
  BY FS_Subset
<1>2. Cardinality({f \in E : f[1] \in X}) \in Nat
  BY <1>1, FS_CardinalityType
<1>3. CASE new[1] \in X
  <2>1. {f \in E \cup {new} : f[1] \in X} = {f \in E : f[1] \in X} \cup {new}
    BY <1>3
  <2>2. Cardinality({f \in E : f[1] \in X} \cup {new}) = Cardinality({f \in E : f[1] \in X}) + 1
    BY <1>1, FS_AddElement
  <2> QED BY <1>3, <2>1, <2>2
<1>4. CASE new[1] \notin X
  <2>1. {f \in E \cup {new} : f[1] \in X} = {f \in E : f[1] \in X}
    BY <1>4
  <2>2. Cardinality({f \in E : f[1] \in X}) = Cardinality({f \in E : f[1] \in X}) + 0
    BY <1>2
  <2>3. Cardinality({f \in E \cup {new} : f[1] \in X}) = Cardinality({f \in E : f[1] \in X})
    BY <2>1
  <2> QED BY <1>4, <2>2, <2>3
<1> QED BY <1>3, <1>4

(* What one execution of order o changes in them.                             *)
LEMMA ExecuteCounts ==
    ASSUME DemoTypeOK, ExecutionsAreNumbered, ExchangeFollows, NEW o \in Order, Execute(o)
    PROVE  /\ ExecutionsAreNumbered'
           /\ Cumulative(o)' = Cumulative(o) + 1
           /\ ExecutionsOf(o) \subseteq ExecutionsOf(o)'
           /\ \A u \in Order \ {o} : /\ Cumulative(u)' = Cumulative(u)
                                     /\ ExecutionsOf(u)' = ExecutionsOf(u)
           /\ Exposure(o[1])' = Exposure(o[1]) + (IF IsEntry(o) THEN 1 ELSE -1)
           /\ \A t \in Trade \ {o[1]} : Exposure(t)' = Exposure(t)
           /\ Position' = Position + (IF IsEntry(o) THEN 1 ELSE -1)
<1> DEFINE c == Cumulative(o)
           new == <<o, c + 1>>
<1>1. c \in Nat /\ c + 1 \in 1..MaxQty
  <2>1. Live(o) /\ c < orders[o].params.qty
    BY DEF Execute, ExchangeFollows
  <2>2. Begun(o)
    BY <2>1 DEF ExchangeFollows, Live, Begun
  <2>3. orders[o].params.qty \in 1..MaxQty
    BY <2>2, BegunHasRow DEF DemoTypeOK
  <2> QED BY <2>1, <2>3, Counts, BoundAssumption
<1>2. executed' = executed \cup {new} /\ new \notin executed /\ new[1] = o /\ IsFiniteSet(executed)
  BY <1>1 DEF Execute, ExecutionsAreNumbered
<1> HIDE DEF new
<1>3. ASSUME NEW X
      PROVE  /\ Cardinality({f \in executed' : f[1] \in X})
                  = Cardinality({f \in executed : f[1] \in X}) + (IF o \in X THEN 1 ELSE 0)
             /\ Cardinality({f \in executed : f[1] \in X}) \in Nat
  <2>1. IsFiniteSet({f \in executed : f[1] \in X})
    BY <1>2, FS_Subset
  <2> QED BY <1>2, <2>1, OneMore, FS_CardinalityType
<1>4. \A u : Cumulative(u) = Cardinality({f \in executed : f[1] \in {u}})
             /\ Cumulative(u)' = Cardinality({f \in executed' : f[1] \in {u}})
  BY DEF Cumulative, ExecutionsOf
<1>5. ASSUME NEW u PROVE Cumulative(u)' = Cumulative(u) + (IF u = o THEN 1 ELSE 0) /\ Cumulative(u) \in Nat
  <2>1. o \in {u} <=> u = o
    OBVIOUS
  <2> QED BY <1>3, <1>4, <2>1
<1>6. ASSUME NEW t \in Trade
      PROVE  Exposure(t)' = Exposure(t) + (IF t # o[1] THEN 0 ELSE IF IsEntry(o) THEN 1 ELSE -1)
  <2>1. Exposure(t) = Cumulative(Entry(t)) - Cardinality({f \in executed : f[1] \in Exits(t)})
        /\ Exposure(t)' = Cumulative(Entry(t))' - Cardinality({f \in executed' : f[1] \in Exits(t)})
    BY DEF Exposure, Cumulative, ExecutionsOf, Entry, Exits
  <2>2. (Entry(t) = o <=> t = o[1] /\ IsEntry(o)) /\ (o \in Exits(t) <=> t = o[1] /\ ~IsEntry(o))
    BY OrderShape
  <2>3. Cumulative(Entry(t))' = Cumulative(Entry(t)) + (IF t = o[1] /\ IsEntry(o) THEN 1 ELSE 0)
        /\ Cumulative(Entry(t)) \in Nat
    <3>1. Cumulative(Entry(t))' = (Cumulative(Entry(t)))'
      OBVIOUS
    <3> QED BY <1>5, <2>2 DEF Entry
  <2>4. Cardinality({f \in executed' : f[1] \in Exits(t)})
          = Cardinality({f \in executed : f[1] \in Exits(t)}) + (IF t = o[1] /\ ~IsEntry(o) THEN 1 ELSE 0)
        /\ Cardinality({f \in executed : f[1] \in Exits(t)}) \in Nat
    BY <1>3, <2>2
  <2> QED BY <2>1, <2>3, <2>4
<1>7. Position' = Position + (IF IsEntry(o) THEN 1 ELSE -1)
  <2> DEFINE X == {u \in Order : IsEntry(u)}
             Y == {u \in Order : ~IsEntry(u)}
  <2>1. \A f \in FillId : (IsEntry(f[1]) <=> f[1] \in X) /\ (~IsEntry(f[1]) <=> f[1] \in Y)
    BY FillShape
  <2>2. executed \subseteq FillId /\ executed' \subseteq FillId
    <3>1. new \in FillId
      BY <1>1, FillShape DEF new
    <3> QED BY <1>2, <3>1 DEF DemoTypeOK
  <2>3. Position = Cardinality({f \in executed : f[1] \in X}) - Cardinality({f \in executed : f[1] \in Y})
    <3>1. /\ {f \in executed : IsEntry(f[1])} = {f \in executed : f[1] \in X}
          /\ {f \in executed : ~IsEntry(f[1])} = {f \in executed : f[1] \in Y}
      BY <2>1, <2>2
    <3> QED BY <3>1 DEF Position
  <2>4. Position' = Cardinality({f \in executed' : f[1] \in X}) - Cardinality({f \in executed' : f[1] \in Y})
    <3>1. /\ {f \in executed' : IsEntry(f[1])} = {f \in executed' : f[1] \in X}
          /\ {f \in executed' : ~IsEntry(f[1])} = {f \in executed' : f[1] \in Y}
      BY <2>1, <2>2
    <3> QED BY <3>1 DEF Position, IsEntry
  <2>5. (o \in X <=> IsEntry(o)) /\ (o \in Y <=> ~IsEntry(o))
    OBVIOUS
  <2> HIDE DEF X, Y
  <2>6. /\ Cardinality({f \in executed' : f[1] \in X})
             = Cardinality({f \in executed : f[1] \in X}) + (IF IsEntry(o) THEN 1 ELSE 0)
        /\ Cardinality({f \in executed' : f[1] \in Y})
             = Cardinality({f \in executed : f[1] \in Y}) + (IF IsEntry(o) THEN 0 ELSE 1)
        /\ Cardinality({f \in executed : f[1] \in X}) \in Nat
        /\ Cardinality({f \in executed : f[1] \in Y}) \in Nat
    BY <1>3, <2>5
  <2> QED BY <2>3, <2>4, <2>6
<1>8. ExecutionsOf(o) \subseteq ExecutionsOf(o)' /\ \A u \in Order \ {o} : ExecutionsOf(u)' = ExecutionsOf(u)
  BY <1>2 DEF ExecutionsOf
<1>9. ExecutionsAreNumbered'
  <2>1. IsFiniteSet(executed')
    BY <1>2, FS_AddElement
  <2>2. ASSUME NEW u \in Order, NEW k \in 1..MaxQty
        PROVE  <<u, k>> \in executed' <=> k <= Cumulative(u)'
    <3>1. <<u, k>> \in executed <=> k <= Cumulative(u)
      BY DEF ExecutionsAreNumbered
    <3>2. CASE u = o
      BY <1>1, <1>2, <1>5, <3>1, <3>2 DEF new
    <3>3. CASE u # o
      BY <1>1, <1>2, <1>5, <3>1, <3>3 DEF new
    <3> QED BY <3>2, <3>3
  <2> QED BY <2>1, <2>2 DEF ExecutionsAreNumbered
<1>10. \A t \in Trade \ {o[1]} : Exposure(t)' = Exposure(t)
  BY <1>6, Counts
<1>11. \A u \in Order \ {o} : Cumulative(u)' = Cumulative(u)
  BY <1>5
<1>12. Exposure(o[1])' = Exposure(o[1]) + (IF IsEntry(o) THEN 1 ELSE -1)
  BY <1>6, OrderShape
<1> QED BY <1>5, <1>7, <1>8, <1>9, <1>10, <1>11, <1>12

-----------------------------------------------------------------------------
(* Standing, for every way a step touches the stores or the exchange.         *)

LEMMA StandingStays ==
    ASSUME Standing, UNCHANGED <<orders, fills, trades, exch, executed>>
    PROVE  Standing'
<1> USE CountsStay DEF Standing
<1>1. ExecutionsAreNumbered'
  BY DEF ExecutionsAreNumbered
<1>2. ExchangeFollows'
  BY DEF ExchangeFollows, Live
<1>3. RecordsAreExecutions'
  BY DEF RecordsAreExecutions, Recorded, FillsOf, Begun
<1>4. TradesNameOrders'
  BY DEF TradesNameOrders, Begun
<1>5. LiveIsAwaited'
  BY DEF LiveIsAwaited, Live
<1>6. PositionIsOwned'
  BY DEF PositionIsOwned, Active, ActiveTrades
<1>7. TerminalIsComplete'
  BY DEF TerminalIsComplete, FillsOf, Recorded
<1> QED BY <1>1, <1>2, <1>3, <1>4, <1>5, <1>6, <1>7

(* The executions on record for an order are some of those that happened.     *)
LEMMA RecordedPart ==
    ASSUME DemoTypeOK, Standing, NEW o \in Order
    PROVE  /\ FillsOf(o) \subseteq ExecutionsOf(o)
           /\ IsFiniteSet(FillsOf(o)) /\ Cardinality(FillsOf(o)) \in Nat
           /\ Cardinality(FillsOf(o)) <= Cumulative(o)
           /\ Cardinality(FillsOf(o)) = Cumulative(o) => FillsOf(o) = ExecutionsOf(o)
           /\ Cumulative(o) \in Nat
           /\ ~Begun(o) => FillsOf(o) = {}
<1>1. FillsOf(o) \subseteq ExecutionsOf(o)
  <2> SUFFICES ASSUME NEW f \in FillsOf(o) PROVE f \in ExecutionsOf(o)
    OBVIOUS
  <2>1. f \in executed /\ fills[f] = FillOf(f) /\ fills[f].order = o
    BY DEF FillsOf, Standing, RecordsAreExecutions
  <2>2. f[1] = o
    BY <2>1 DEF FillOf
  <2> QED BY <2>1, <2>2 DEF ExecutionsOf
<1>2. IsFiniteSet(ExecutionsOf(o)) /\ Cumulative(o) \in Nat
  BY Counts DEF Standing
<1>3. /\ IsFiniteSet(FillsOf(o))
      /\ Cardinality(FillsOf(o)) <= Cardinality(ExecutionsOf(o))
      /\ Cardinality(FillsOf(o)) = Cardinality(ExecutionsOf(o)) => FillsOf(o) = ExecutionsOf(o)
  BY <1>1, <1>2, FS_Subset
<1>4. ASSUME ~Begun(o) PROVE FillsOf(o) = {}
  <2>1. exch[o] = "absent"
    BY <1>4 DEF Begun, Standing, ExchangeFollows
  <2>2. Cumulative(o) = 0
    BY <2>1 DEF Standing, ExchangeFollows
  <2>3. ExecutionsOf(o) = {}
    BY <1>2, <2>2, FS_EmptySet DEF Cumulative
  <2> QED BY <1>1, <2>3
<1> QED BY <1>1, <1>2, <1>3, <1>4, FS_CardinalityType DEF Cumulative

(* begin_order adds a row for an order the exchange does not know.            *)
LEMMA StandingBegin ==
    ASSUME DemoTypeOK, Standing, NEW o \in Order, ~Begun(o), NEW p \in Params,
           orders' = [orders EXCEPT ![o] =
               [state |-> "PENDING_SUBMIT", params |-> p, filled |-> 0, attempts |-> 0]],
           UNCHANGED <<fills, trades, exch, executed>>,
           IsEntry(o) => trades[o[1]].phase # "ABSENT",
           ~IsEntry(o) => \A n \in 1..MaxExits : Begun(<<o[1], n>>) <=> n < o[2]
    PROVE  Standing'
<1> USE CountsStay DEF Standing
<1>0. /\ orders \in [Order -> OrderRow \cup {AbsentRow}]
      /\ orders'[o] = [state |-> "PENDING_SUBMIT", params |-> p, filled |-> 0, attempts |-> 0]
      /\ \A u \in Order \ {o} : orders'[u] = orders[u]
      /\ \A u \in Order : Begun(u)' <=> Begun(u) \/ u = o
      /\ exch[o] = "absent" /\ ~Live(o)
      /\ \A u \in Order : FillsOf(u)' = FillsOf(u)
  BY DEF DemoTypeOK, OrdTypeOK, Begun, ExchangeFollows, Live, FillsOf, Recorded
<1>1. ExecutionsAreNumbered'
  BY DEF ExecutionsAreNumbered
<1>2. ExchangeFollows'
  BY <1>0 DEF ExchangeFollows, Live
<1>3. RecordsAreExecutions'
  <2>1. FillsOf(o) = {} /\ Cardinality({}) = 0
    BY RecordedPart, FS_EmptySet
  <2>2. \A f \in FillId : Recorded(f)' => f \in executed' /\ fills'[f] = FillOf(f)
    BY DEF RecordsAreExecutions, Recorded
  <2>3. \A u \in Order : Begun(u)' => orders'[u].filled = Cardinality(FillsOf(u)')
    BY <1>0, <2>1 DEF RecordsAreExecutions
  <2>4. \A u \in Order : orders'[u].state = "PENDING_SUBMIT" => orders'[u].attempts = 0
    BY <1>0 DEF RecordsAreExecutions
  <2> QED BY <2>2, <2>3, <2>4 DEF RecordsAreExecutions, FillOf
<1>4. TradesNameOrders'
  <2> SUFFICES ASSUME NEW t \in Trade
               PROVE  /\ trades[t].entryOrder \in {None, Entry(t)}
                      /\ trades[t].exitOrder \in Exits(t) \cup {None}
                      /\ trades[t].entryOrder # None => Begun(Entry(t))'
                      /\ trades[t].exitOrder # None => Begun(trades[t].exitOrder)'
                      /\ exch[Entry(t)] # "absent" => trades[t].entryOrder = Entry(t)
                      /\ \A u \in Exits(t) : exch[u] # "absent" => trades[t].exitOrder # None
                      /\ trades[t].opened => orders'[Entry(t)].state = "FILLED"
                      /\ trades[t].phase = "ABSENT" => ~Begun(Entry(t))'
                      /\ \E k \in 0..MaxExits : \A n \in 1..MaxExits : Begun(<<t, n>>)' <=> n <= k
    BY DEF TradesNameOrders, Begun, Entry, Exits
  <2>1. /\ trades[t].entryOrder \in {None, Entry(t)}
        /\ trades[t].exitOrder \in Exits(t) \cup {None}
        /\ exch[Entry(t)] # "absent" => trades[t].entryOrder = Entry(t)
        /\ \A u \in Exits(t) : exch[u] # "absent" => trades[t].exitOrder # None
    BY DEF TradesNameOrders
  <2>2. trades[t].entryOrder # None => Begun(Entry(t))'
    BY <1>0, OrderShape DEF TradesNameOrders
  <2>3. trades[t].exitOrder # None => Begun(trades[t].exitOrder)'
    BY <1>0, <2>1, OrderShape DEF TradesNameOrders
  <2>4. trades[t].opened => orders'[Entry(t)].state = "FILLED"
    BY <1>0, OrderShape DEF TradesNameOrders, Begun
  <2>5. trades[t].phase = "ABSENT" => ~Begun(Entry(t))'
    BY <1>0, OrderShape DEF TradesNameOrders
  <2>6. \E k \in 0..MaxExits : \A n \in 1..MaxExits : Begun(<<t, n>>)' <=> n <= k
    <3>1. PICK k \in 0..MaxExits : \A n \in 1..MaxExits : Begun(<<t, n>>) <=> n <= k
      BY DEF TradesNameOrders
    <3>2. CASE ~IsEntry(o) /\ o[1] = t
      <4>1. o[2] \in 1..MaxExits /\ o = <<t, o[2]>>
        BY <3>2, OrderShape
      <4>2. \A n \in 1..MaxExits : <<t, n>> \in Order /\ (<<t, n>> = o <=> n = o[2])
        BY <4>1, OrderShape
      <4>3. \A n \in 1..MaxExits : Begun(<<t, n>>)' <=> n <= o[2]
        BY <1>0, <3>2, <4>1, <4>2
      <4> QED BY <4>1, <4>3
    <3>3. CASE ~(~IsEntry(o) /\ o[1] = t)
      <4>1. \A n \in 1..MaxExits : <<t, n>> \in Order /\ <<t, n>> # o
        BY <3>3, OrderShape
      <4>2. \A n \in 1..MaxExits : Begun(<<t, n>>)' <=> n <= k
        BY <1>0, <3>1, <4>1
      <4> QED BY <4>2
    <3> QED BY <3>2, <3>3
  <2> QED BY <2>1, <2>2, <2>3, <2>4, <2>5, <2>6
<1>5. LiveIsAwaited'
  BY <1>0 DEF LiveIsAwaited, Live
<1>6. PositionIsOwned'
  BY DEF PositionIsOwned, Active, ActiveTrades
<1>7. TerminalIsComplete'
  BY <1>0 DEF TerminalIsComplete, Terminal
<1> QED BY <1>1, <1>2, <1>3, <1>4, <1>5, <1>6, <1>7

(* mark_submitted, mark_canceled and a rejection change the state of one row; *)
(* a terminal one is only written over an ended order whose executions are    *)
(* all on record.                                                             *)
LEMMA StandingRow ==
    ASSUME DemoTypeOK, Standing, NEW o \in Order, Begun(o), NEW row \in OrderRow,
           orders' = [orders EXCEPT ![o] = row],
           UNCHANGED <<fills, trades, exch, executed>>,
           row.params = orders[o].params, row.filled = orders[o].filled,
           row.state # "PENDING_SUBMIT",
           orders[o].state = "FILLED" => row.state = "FILLED",
           row.state \in Terminal => /\ exch[o] \in {"Filled", "Cancelled", "Rejected"}
                                     /\ orders[o].filled = Cumulative(o)
    PROVE  Standing'
<1> USE CountsStay DEF Standing
<1>0. /\ orders'[o] = row /\ row.state # "ABSENT"
      /\ \A u \in Order \ {o} : orders'[u] = orders[u]
      /\ \A u \in Order : (Begun(u)' <=> Begun(u)) /\ orders'[u].params = orders[u].params
      /\ \A u \in Order : FillsOf(u)' = FillsOf(u)
  BY DEF DemoTypeOK, OrdTypeOK, Begun, FillsOf, Recorded, OrderRow, OrderState
<1>1. ExecutionsAreNumbered'
  BY DEF ExecutionsAreNumbered
<1>2. ExchangeFollows'
  BY <1>0 DEF ExchangeFollows, Live
<1>3. RecordsAreExecutions'
  BY <1>0 DEF RecordsAreExecutions, Recorded, FillOf
<1>4. TradesNameOrders'
  <2>1. \A t \in Trade : trades[t].opened => orders'[Entry(t)].state = "FILLED"
    BY <1>0, OrderShape DEF TradesNameOrders
  <2>2. \A t \in Trade : /\ Begun(Entry(t))' <=> Begun(Entry(t))
                         /\ \A n \in 1..MaxExits : Begun(<<t, n>>)' <=> Begun(<<t, n>>)
                         /\ trades[t].exitOrder # None =>
                               (Begun(trades[t].exitOrder)' <=> Begun(trades[t].exitOrder))
    BY <1>0, OrderShape DEF TradesNameOrders
  <2> QED BY <2>1, <2>2 DEF TradesNameOrders, Begun, Entry, Exits
<1>5. LiveIsAwaited'
  BY <1>0 DEF LiveIsAwaited, Live
<1>6. PositionIsOwned'
  BY DEF PositionIsOwned, Active, ActiveTrades
<1>7. TerminalIsComplete'
  <2>1. row.state \in Terminal => FillsOf(o) = ExecutionsOf(o)
    BY RecordedPart DEF RecordsAreExecutions
  <2> QED BY <1>0, <2>1 DEF TerminalIsComplete
<1> QED BY <1>1, <1>2, <1>3, <1>4, <1>5, <1>6, <1>7

(* One more execution of an order is put on record.                           *)
LEMMA StandingFill ==
    ASSUME DemoTypeOK, Standing, NEW o \in Order, NEW f \in ExecutionsOf(o), f \in FillId,
           ~Recorded(f), ApplyFill(o, f, FillOf(f)), UNCHANGED <<trades, exch, executed>>
    PROVE  Standing'
<1> USE CountsStay DEF Standing
<1>a. f \in executed /\ f[1] = o /\ 1 \in 1..MaxQty /\ TheBody \in Body /\ OrdTypeOK
  <2>1. TheBody \in Body
    BY DemoAssumption DEF TheBody
  <2>2. f \in executed /\ f[1] = o /\ OrdTypeOK
    BY DEF ExecutionsOf, DemoTypeOK
  <2> QED BY <2>1, <2>2, BoundAssumption
<1>b. FillOf(f) = [order |-> o, qty |-> 1, body |-> TheBody]
  BY <1>a DEF FillOf
<1>c. /\ Begun(o)
      /\ FilledRow(o, 1) \in OrderRow
      /\ orders' = [orders EXCEPT ![o] = FilledRow(o, 1)]
      /\ fills' = [fills EXCEPT ![f] = FillOf(f)]
  BY <1>a, <1>b, ApplyFillRows
<1>d. /\ orders[o].state \in {"SUBMITTED", "PARTIALLY_FILLED"}
      /\ orders[o].filled + 1 <= orders[o].params.qty
      /\ orders[o].filled \in Nat /\ orders[o].params.qty \in Nat
  <2>1. /\ orders[o].state \in {"SUBMITTED", "PARTIALLY_FILLED"}
        /\ orders[o].filled + 1 <= orders[o].params.qty
    BY <1>b DEF ApplyFill, NewFillAllowed
  <2> QED BY <1>a, <1>c, <2>1, BegunHasRow, BoundAssumption
<1>e. /\ FilledRow(o, 1).filled = orders[o].filled + 1
      /\ FilledRow(o, 1).params = orders[o].params
      /\ FilledRow(o, 1).state = IF orders[o].filled + 1 = orders[o].params.qty
                                 THEN "FILLED" ELSE "PARTIALLY_FILLED"
  BY <1>a, <1>c, BegunHasRow DEF FilledRow, OrderRow
<1>0. /\ orders'[o] = FilledRow(o, 1)
      /\ \A u \in Order \ {o} : orders'[u] = orders[u]
      /\ \A u \in Order : (Begun(u)' <=> Begun(u)) /\ orders'[u].params = orders[u].params
  BY <1>a, <1>c, <1>e DEF OrdTypeOK, Begun
<1>f. /\ fills'[f] = FillOf(f) /\ Recorded(f)'
      /\ \A g \in FillId \ {f} : fills'[g] = fills[g] /\ (Recorded(g)' <=> Recorded(g))
  BY <1>a, <1>b, <1>c DEF OrdTypeOK, Recorded, NoFill
<1>g. /\ FillsOf(o)' = FillsOf(o) \cup {f} /\ f \notin FillsOf(o)
      /\ \A u \in Order \ {o} : FillsOf(u)' = FillsOf(u)
  BY <1>b, <1>f DEF FillsOf
<1>h. Cardinality(FillsOf(o)') = Cardinality(FillsOf(o)) + 1 /\ orders[o].filled = Cardinality(FillsOf(o))
  BY <1>c, <1>g, RecordedPart, FS_AddElement DEF RecordsAreExecutions
<1>i. FillsOf(o)' \subseteq ExecutionsOf(o)
  BY <1>g, RecordedPart
<1>1. ExecutionsAreNumbered'
  BY DEF ExecutionsAreNumbered
<1>2. ExchangeFollows'
  BY <1>0, <1>e DEF ExchangeFollows, Live
<1>3. RecordsAreExecutions'
  <2>1. \A g \in FillId : Recorded(g)' => g \in executed' /\ fills'[g] = FillOf(g)
    BY <1>a, <1>f DEF RecordsAreExecutions
  <2>2. \A u \in Order : Begun(u)' => orders'[u].filled = Cardinality(FillsOf(u)')
    BY <1>0, <1>e, <1>g, <1>h DEF RecordsAreExecutions
  <2>3. \A u \in Order : orders'[u].state = "PENDING_SUBMIT" => orders'[u].attempts = 0
    BY <1>0, <1>e DEF RecordsAreExecutions
  <2> QED BY <2>1, <2>2, <2>3 DEF RecordsAreExecutions, FillOf
<1>4. TradesNameOrders'
  <2>1. \A t \in Trade : trades[t].opened => orders'[Entry(t)].state = "FILLED"
    BY <1>0, <1>d, OrderShape DEF TradesNameOrders
  <2>2. \A t \in Trade : /\ Begun(Entry(t))' <=> Begun(Entry(t))
                         /\ \A n \in 1..MaxExits : Begun(<<t, n>>)' <=> Begun(<<t, n>>)
                         /\ trades[t].exitOrder # None =>
                               (Begun(trades[t].exitOrder)' <=> Begun(trades[t].exitOrder))
    BY <1>0, OrderShape DEF TradesNameOrders
  <2> QED BY <2>1, <2>2 DEF TradesNameOrders, Begun, Entry, Exits
<1>5. LiveIsAwaited'
  BY <1>0 DEF LiveIsAwaited, Live
<1>6. PositionIsOwned'
  BY DEF PositionIsOwned, Active, ActiveTrades
<1>7. TerminalIsComplete'
  <2>1. ASSUME orders'[o].state \in Terminal
        PROVE  exch[o] \in {"Filled", "Cancelled", "Rejected"} /\ FillsOf(o)' = ExecutionsOf(o)
    <3>1. orders[o].filled + 1 = orders[o].params.qty
      BY <1>0, <1>e, <2>1 DEF Terminal
    <3>2. IsFiniteSet(ExecutionsOf(o)) /\ Cumulative(o) \in Nat
      BY Counts
    <3>3. Cardinality(FillsOf(o)') <= Cumulative(o)
          /\ (Cardinality(FillsOf(o)') = Cumulative(o) => FillsOf(o)' = ExecutionsOf(o))
      BY <1>i, <3>2, FS_Subset DEF Cumulative
    <3>4. exch[o] # "absent" /\ Cumulative(o) <= orders[o].params.qty
      BY <1>d, <1>h, <3>1, <3>2, <3>3 DEF ExchangeFollows
    <3>5. ~Live(o) /\ Cardinality(FillsOf(o)') = Cumulative(o)
      BY <1>d, <1>h, <3>1, <3>2, <3>3, <3>4 DEF ExchangeFollows
    <3> QED BY <3>3, <3>4, <3>5 DEF Live, DemoTypeOK
  <2> QED BY <1>0, <1>g, <2>1 DEF TerminalIsComplete
<1> QED BY <1>1, <1>2, <1>3, <1>4, <1>5, <1>6, <1>7

(* A call on the trades table rewrites the row of one trade.                  *)
NamesOrders(t, r) ==
    /\ r.entryOrder \in {None, Entry(t)}
    /\ r.exitOrder \in Exits(t) \cup {None}
    /\ r.entryOrder # None => Begun(Entry(t))
    /\ r.exitOrder # None => Begun(r.exitOrder)
    /\ exch[Entry(t)] # "absent" => r.entryOrder = Entry(t)
    /\ \A o \in Exits(t) : exch[o] # "absent" => r.exitOrder # None
    /\ r.opened => orders[Entry(t)].state = "FILLED"
    /\ r.phase = "ABSENT" => ~Begun(Entry(t))

AwaitsLive(t, r) ==
    \A o \in Order : o[1] = t /\ Live(o) =>
        IF IsEntry(o) THEN r.phase = "ENTRY_SUBMITTED"
        ELSE r.phase = "EXIT_SUBMITTED" /\ r.exitOrder = o

LEMMA StandingTrade ==
    ASSUME StInv, Standing, NEW t \in Trade, NEW row,
           trades' = [trades EXCEPT ![t] = row], UNCHANGED <<orders, fills, exch, executed>>,
           NamesOrders(t, row), AwaitsLive(t, row),
           row.phase \in ActivePhase => Active(t) \/ ActiveTrades = {},
           row.phase \in Phase \cup {"ABSENT"},
           row.phase \in {"ABSENT", "OBSERVED", "CLOSED"} => Exposure(t) = 0
    PROVE  Standing'
<1> USE CountsStay DEF Standing
<1>0. trades'[t] = row /\ \A u \in Trade \ {t} : trades'[u] = trades[u]
  BY DEF StInv, StTypeOK
<1>1. ExecutionsAreNumbered' /\ ExchangeFollows'
  BY DEF ExecutionsAreNumbered, ExchangeFollows, Live
<1>2. RecordsAreExecutions'
  BY DEF RecordsAreExecutions, Recorded, FillsOf, Begun
<1>3. TradesNameOrders'
  <2>1. \A u \in Trade : NamesOrders(u, trades[u])
                         /\ \E k \in 0..MaxExits : \A n \in 1..MaxExits : Begun(<<u, n>>) <=> n <= k
    BY DEF TradesNameOrders, NamesOrders
  <2>2. \A u \in Trade : NamesOrders(u, trades'[u])
    BY <1>0, <2>1
  <2> QED BY <2>1, <2>2 DEF TradesNameOrders, NamesOrders, Begun
<1>4. LiveIsAwaited'
  <2> SUFFICES ASSUME NEW o \in Order, Live(o)
               PROVE  IF IsEntry(o) THEN trades'[o[1]].phase = "ENTRY_SUBMITTED"
                      ELSE /\ trades'[o[1]].phase = "EXIT_SUBMITTED"
                           /\ trades'[o[1]].exitOrder = o
                           /\ orders[o].params.qty - Cumulative(o) = Position
    BY DEF LiveIsAwaited, Live
  <2>1. o[1] \in Trade
    BY OrderShape
  <2> QED BY <1>0, <2>1 DEF LiveIsAwaited, AwaitsLive
<1>5. PositionIsOwned'
  <2>1. \A u \in Trade : Active(u)' <=> IF u = t THEN row.phase \in ActivePhase ELSE Active(u)
    BY <1>0 DEF Active
  <2>2. \A u \in Trade : trades'[u].phase \in {"ABSENT", "OBSERVED", "CLOSED"} => Exposure(u) = 0
    BY <1>0 DEF PositionIsOwned
  <2>3. ASSUME NEW u \in Trade, Active(u)' PROVE Position = Exposure(u)
    <3>1. CASE u # t
      BY <2>1, <2>3, <3>1 DEF PositionIsOwned
    <3>2. CASE u = t /\ Active(t)
      BY <3>2 DEF PositionIsOwned
    <3>3. CASE u = t /\ ~Active(t)
      <4>1. ActiveTrades = {}
        BY <2>1, <2>3, <3>3
      <4>2. trades[t].phase \in {"ABSENT", "CLOSED"}
        BY <3>3 DEF Active, ActivePhase, StInv, StTypeOK, TradeRow
      <4> QED BY <3>3, <4>1, <4>2 DEF PositionIsOwned
    <3> QED BY <3>1, <3>2, <3>3
  <2>4. ASSUME ActiveTrades' = {} PROVE Position = 0
    <3>1. \A u \in Trade : ~Active(u)'
      BY <2>4 DEF ActiveTrades
    <3>2. CASE ActiveTrades = {}
      BY <3>2 DEF PositionIsOwned
    <3>3. CASE ActiveTrades # {}
      <4>1. Active(t)
        BY <2>1, <3>1, <3>3 DEF ActiveTrades
      <4>2. row.phase \notin ActivePhase
        BY <2>1, <3>1
      <4>3. row.phase \in {"ABSENT", "CLOSED"}
        BY <4>2 DEF ActivePhase
      <4> QED BY <4>1, <4>3 DEF PositionIsOwned
    <3> QED BY <3>2, <3>3
  <2>5. \A u \in Trade : Exposure(u) >= 0
    BY DEF PositionIsOwned
  <2> HIDE DEF Standing
  <2> QED BY <2>2, <2>3, <2>4, <2>5 DEF PositionIsOwned
<1>6. TerminalIsComplete'
  BY DEF TerminalIsComplete, FillsOf, Recorded
<1> QED BY <1>1, <1>2, <1>3, <1>4, <1>5, <1>6

-----------------------------------------------------------------------------
(* Only one order is ever running: the one the active trade waits for.        *)
LEMMA OneLive ==
    ASSUME StInv, Standing, NEW o \in Order, Live(o)
    PROVE  /\ o[1] \in Trade /\ Active(o[1]) /\ Position = Exposure(o[1])
           /\ \A u \in Trade : Active(u) => u = o[1]
           /\ \A u \in Order : Live(u) => u = o
<1>1. \A u \in Order : Live(u) => u[1] \in Trade /\ Active(u[1])
  BY OrderShape DEF Standing, LiveIsAwaited, Active, ActivePhase, Phase
<1>2. \A u \in Trade : Active(u) => u = o[1]
  BY <1>1 DEF StInv, OneActiveTrade
<1>3. ASSUME NEW u \in Order, Live(u) PROVE u = o
  <2>1. u[1] = o[1]
    BY <1>1, <1>2, <1>3
  <2>2. IsEntry(u) <=> IsEntry(o)
    BY <1>3, <2>1 DEF Standing, LiveIsAwaited
  <2>3. CASE IsEntry(o)
    BY <2>1, <2>2, <2>3, OrderShape
  <2>4. CASE ~IsEntry(o)
    BY <1>3, <2>1, <2>2, <2>4 DEF Standing, LiveIsAwaited
  <2> QED BY <2>3, <2>4
<1> QED BY <1>1, <1>2, <1>3 DEF Standing, PositionIsOwned

(* The exchange executes one quantity step of a running order.                *)
LEMMA StandingExecute ==
    ASSUME DemoTypeOK, StInv, Standing, NEW o \in Order, Execute(o)
    PROVE  Standing'
<1> USE DEF Standing
<1>0. /\ Live(o) /\ (~IsEntry(o) => Position > 0)
      /\ UNCHANGED <<orders, fills, trades>>
      /\ exch' = [exch EXCEPT ![o] = IF Cumulative(o) + 1 = orders[o].params.qty
                                     THEN "Filled" ELSE "PartiallyFilled"]
      /\ executed \subseteq executed'
  BY DEF Execute
<1>1. /\ exch[o] \notin {"absent", "Filled", "Cancelled", "Rejected"}
      /\ exch'[o] = IF Cumulative(o) + 1 = orders[o].params.qty THEN "Filled" ELSE "PartiallyFilled"
      /\ \A u \in Order \ {o} : exch'[u] = exch[u]
      /\ \A u \in Order : exch'[u] = "absent" <=> exch[u] = "absent"
      /\ \A u \in Order \ {o} : Live(u)' <=> Live(u)
      /\ Live(o)' <=> Cumulative(o) + 1 # orders[o].params.qty
  BY <1>0 DEF Live, DemoTypeOK
<1>2. /\ ExecutionsAreNumbered'
      /\ Cumulative(o)' = Cumulative(o) + 1
      /\ \A u \in Order \ {o} : /\ Cumulative(u)' = Cumulative(u)
                                /\ ExecutionsOf(u)' = ExecutionsOf(u)
      /\ Exposure(o[1])' = Exposure(o[1]) + (IF IsEntry(o) THEN 1 ELSE -1)
      /\ \A t \in Trade \ {o[1]} : Exposure(t)' = Exposure(t)
      /\ Position' = Position + (IF IsEntry(o) THEN 1 ELSE -1)
  BY ExecuteCounts
<1>3. /\ Cumulative(o) \in Nat /\ Position \in Int /\ Exposure(o[1]) \in Int
      /\ orders[o].params.qty \in Int
  <2>1. Begun(o)
    BY <1>1 DEF ExchangeFollows, Begun
  <2> QED BY <2>1, Counts, BegunHasRow, BoundAssumption DEF DemoTypeOK
<1>4. ExchangeFollows'
  BY <1>0, <1>1, <1>2, <1>3 DEF ExchangeFollows
<1>5. RecordsAreExecutions'
  BY <1>0 DEF RecordsAreExecutions, Recorded, FillsOf, Begun, FillOf
<1>6. TradesNameOrders'
  <2>1. \A t \in Trade :
           /\ exch'[Entry(t)] # "absent" => trades[t].entryOrder = Entry(t)
           /\ \A u \in Exits(t) : exch'[u] # "absent" => trades[t].exitOrder # None
    BY <1>1, OrderShape DEF TradesNameOrders
  <2> QED BY <1>0, <2>1 DEF TradesNameOrders, Begun, Entry, Exits
<1>7. LiveIsAwaited'
  <2> SUFFICES ASSUME NEW u \in Order, Live(u)'
               PROVE  IF IsEntry(u) THEN trades[u[1]].phase = "ENTRY_SUBMITTED"
                      ELSE /\ trades[u[1]].phase = "EXIT_SUBMITTED"
                           /\ trades[u[1]].exitOrder = u
                           /\ orders[u].params.qty - Cumulative(u)' = Position'
    BY <1>0 DEF LiveIsAwaited, IsEntry
  <2>1. u = o
    BY <1>0, <1>1, OneLive
  <2> QED BY <1>0, <1>2, <1>3, <2>1 DEF LiveIsAwaited
<1>8. PositionIsOwned'
  <2>1. \A t \in Trade : Active(t)' <=> Active(t)
    BY <1>0 DEF Active
  <2>2. o[1] \in Trade /\ Active(o[1]) /\ Position = Exposure(o[1]) /\ \A t \in Trade : Active(t) => t = o[1]
    BY <1>0, OneLive
  <2>3. \A t \in Trade : Exposure(t)' >= 0
    BY <1>0, <1>2, <1>3, <2>2 DEF PositionIsOwned
  <2>4. trades[o[1]].phase \notin {"ABSENT", "OBSERVED", "CLOSED"}
    BY <1>0 DEF LiveIsAwaited
  <2>5. \A t \in Trade : trades'[t].phase \in {"ABSENT", "OBSERVED", "CLOSED"} => Exposure(t)' = 0
    BY <1>0, <1>2, <2>4 DEF PositionIsOwned
  <2>6. \A t \in Trade : Active(t)' => Position' = Exposure(t)'
    BY <1>2, <2>1, <2>2
  <2>7. ActiveTrades' # {}
    BY <2>1, <2>2 DEF ActiveTrades
  <2> HIDE DEF Standing
  <2> QED BY <2>3, <2>5, <2>6, <2>7 DEF PositionIsOwned
<1>9. TerminalIsComplete'
  <2>1. orders[o].state \notin Terminal
    BY <1>1 DEF TerminalIsComplete
  <2>2. \A u \in Order : FillsOf(u)' = FillsOf(u)
    BY <1>0 DEF FillsOf, Recorded
  <2> QED BY <1>0, <1>1, <1>2, <2>1, <2>2 DEF TerminalIsComplete
<1> QED BY <1>2, <1>4, <1>5, <1>6, <1>7, <1>8, <1>9

(* An order ends at the exchange, early, or reaches it under its record.      *)
LEMMA StandingExchange ==
    ASSUME DemoTypeOK, Standing, NEW o \in Order, NEW s,
           exch' = [exch EXCEPT ![o] = s], UNCHANGED <<orders, fills, trades, executed>>,
           \/ Live(o) /\ s \in {"Cancelled", "Rejected"}
           \/ /\ s = "New" /\ exch[o] = "absent" /\ orders[o].state = "SUBMITTED"
              /\ orders[o].params.qty > 0
              /\ IF IsEntry(o)
                 THEN trades[o[1]].entryOrder = o /\ trades[o[1]].phase = "ENTRY_SUBMITTED"
                 ELSE /\ trades[o[1]].phase = "EXIT_SUBMITTED" /\ trades[o[1]].exitOrder = o
                      /\ trades[o[1]].exitOrder # None
                      /\ orders[o].params.qty = Position
    PROVE  Standing'
<1> USE CountsStay DEF Standing
<1>0. /\ exch'[o] = s /\ \A u \in Order \ {o} : exch'[u] = exch[u]
      /\ \A u \in Order \ {o} : Live(u)' <=> Live(u)
      /\ Live(o)' <=> s = "New"
      /\ s # "absent"
  BY DEF DemoTypeOK, Live
<1>1. ExecutionsAreNumbered'
  BY DEF ExecutionsAreNumbered
<1>2. ExchangeFollows'
  <2>1. exch[o] = "absent" => Cumulative(o) = 0
    BY DEF ExchangeFollows
  <2>2. exch'[o] # "absent" => /\ orders[o].state \notin {"ABSENT", "PENDING_SUBMIT"}
                               /\ Cumulative(o) <= orders[o].params.qty
    <3>1. CASE Live(o)
      BY <3>1 DEF ExchangeFollows, Live
    <3>2. CASE ~Live(o)
      <4>1. orders[o].params.qty \in 1..MaxQty
        BY <3>2, BegunHasRow DEF Begun, DemoTypeOK
      <4> QED BY <2>1, <3>2, <4>1, BoundAssumption
    <3> QED BY <3>1, <3>2
  <2>3. Live(o)' => Cumulative(o) < orders[o].params.qty
    BY <1>0, <2>1
  <2>4. \A u \in Order \ {o} : /\ exch[u] = "absent" => Cumulative(u) = 0
                               /\ exch[u] # "absent" =>
                                    /\ orders[u].state \notin {"ABSENT", "PENDING_SUBMIT"}
                                    /\ Cumulative(u) <= orders[u].params.qty
                               /\ Live(u) => Cumulative(u) < orders[u].params.qty
    BY DEF ExchangeFollows
  <2> HIDE DEF Standing
  <2> QED BY <1>0, <2>2, <2>3, <2>4 DEF ExchangeFollows
<1>3. RecordsAreExecutions'
  BY DEF RecordsAreExecutions, Recorded, FillsOf, Begun
<1>4. TradesNameOrders'
  <2>1. \A t \in Trade : exch'[Entry(t)] # "absent" => trades[t].entryOrder = Entry(t)
    BY <1>0, OrderShape DEF TradesNameOrders, ExchangeFollows, Live
  <2>2. \A t \in Trade : \A u \in Exits(t) : exch'[u] # "absent" => trades[t].exitOrder # None
    BY <1>0, OrderShape DEF TradesNameOrders, Live
  <2> QED BY <2>1, <2>2 DEF TradesNameOrders, Begun, Entry, Exits
<1>5. LiveIsAwaited'
  <2>1. s = "New" /\ exch[o] = "absent" => orders[o].params.qty - Cumulative(o) = orders[o].params.qty
    <3>1. ASSUME s = "New", exch[o] = "absent" PROVE Cumulative(o) = 0 /\ orders[o].params.qty \in 1..MaxQty
      BY <3>1, BegunHasRow DEF ExchangeFollows, Begun, DemoTypeOK, Live
    <3> QED BY <3>1, BoundAssumption
  <2> SUFFICES ASSUME NEW u \in Order, Live(u)'
               PROVE  IF IsEntry(u) THEN trades[u[1]].phase = "ENTRY_SUBMITTED"
                      ELSE /\ trades[u[1]].phase = "EXIT_SUBMITTED"
                           /\ trades[u[1]].exitOrder = u
                           /\ orders[u].params.qty - Cumulative(u) = Position
    BY DEF LiveIsAwaited, IsEntry
  <2> QED BY <1>0, <2>1 DEF LiveIsAwaited
<1>6. PositionIsOwned'
  BY DEF PositionIsOwned, Active, ActiveTrades
<1>7. TerminalIsComplete'
  <2>1. orders[o].state \notin Terminal
    BY DEF TerminalIsComplete, Terminal, Live
  <2>2. \A u \in Order : FillsOf(u)' = FillsOf(u)
    BY DEF FillsOf, Recorded
  <2> QED BY <1>0, <2>1, <2>2 DEF TerminalIsComplete
<1> QED BY <1>1, <1>2, <1>3, <1>4, <1>5, <1>6, <1>7

-----------------------------------------------------------------------------
(* What every step has to show, and what it may leave to the stores.          *)
OwnTypeOK ==
    /\ exch \in [Order -> {"absent", "New", "PartiallyFilled", "Filled", "Cancelled", "Rejected"}]
    /\ executed \in SUBSET FillId
    /\ visible \in SUBSET executed
    /\ day \in Day
    /\ pc \in PcValue
    /\ cur \in CurRow
    /\ operator \in {"idle", "flat"}
    /\ faults \in 0..MaxFaults

LEMMA Together ==
    ASSUME DemoInv, [OrdNext]_ordVars, [StNext]_stVars,
           OwnTypeOK', Standing', ClosedBooks', CycleIsSound', EntriesAreCounted'
    PROVE  DemoInv'
<1>1. OrdInv'
  BY OrdInvInductive DEF DemoInv
<1>2. StInv'
  BY StInvInductive DEF DemoInv
<1>3. DemoTypeOK'
  BY <1>1, <1>2 DEF DemoTypeOK, OwnTypeOK, OrdInv, StInv
<1> QED BY <1>1, <1>2, <1>3 DEF DemoInv

(* A cycle that ends relies on nothing.                                       *)
LEMMA EndIsSound ==
    ASSUME EndCycle
    PROVE  CycleIsSound' /\ pc' \in PcValue /\ cur' \in CurRow
<1>1. CycleIsSound'
  BY DEF EndCycle, CycleIsSound
<1>2. NoCycle \in CurRow
  BY BoundAssumption DEF NoCycle, CurRow
<1> QED BY <1>1, <1>2 DEF EndCycle, PcValue

(* A closed trade's books stay complete while no order of it is executed.     *)
LEMMA ClosedBooksStay ==
    ASSUME Standing', ClosedBooks,
           \A f \in FillId : Recorded(f) => fills'[f] = fills[f],
           \A o \in Order : trades'[o[1]].phase = "CLOSED" =>
               trades[o[1]].phase = "CLOSED" /\ ExecutionsOf(o)' = ExecutionsOf(o)
    PROVE  ClosedBooks'
<1> SUFFICES ASSUME NEW o \in Order, trades'[o[1]].phase = "CLOSED"
             PROVE  FillsOf(o)' = ExecutionsOf(o)'
  BY DEF ClosedBooks
<1>1. FillsOf(o) = ExecutionsOf(o) /\ ExecutionsOf(o)' = ExecutionsOf(o)
  BY DEF ClosedBooks
<1>2. FillsOf(o) \subseteq FillsOf(o)'
  BY DEF FillsOf, Recorded
<1>3. ASSUME NEW f \in FillsOf(o)' PROVE f \in ExecutionsOf(o)'
  <2>1. f \in executed' /\ fills'[f] = FillOf(f) /\ fills'[f].order = o
    BY <1>3 DEF FillsOf, Standing, RecordsAreExecutions, FillOf
  <2>2. f[1] = o
    BY <2>1 DEF FillOf
  <2> QED BY <2>1, <2>2 DEF ExecutionsOf
<1> QED BY <1>1, <1>2, <1>3

LEMMA DayCounts == ASSUME StInv, NEW d \in Day
                   PROVE  risk[d].entries \in Nat /\ risk[d].entries <= MaxTrades
<1>1. risk[d] \in DayRow /\ MaxTrades \in Nat
  BY RiskAssumption DEF StInv, StTypeOK
<1> QED BY <1>1 DEF DayRow

LEMMA Within ==
    ASSUME NEW n \in Nat, NEW e \in Nat, NEW a \in {0, 1}, NEW b \in {0, 1},
           a = 0 \/ b = a, n <= e + a
    PROVE  n <= e + b
OBVIOUS

(* The count of a day's entries stays while no entry is sent.                 *)
LEMMA CountStays ==
    ASSUME DemoInv, faults' = 0 => faults = 0,
           pc # "record entry" \/ UNCHANGED <<pc, cur>>,
           \A t \in Trade : /\ exch'[Entry(t)] = "absent" <=> exch[Entry(t)] = "absent"
                            /\ exch[Entry(t)] # "absent" => trades'[t].day = trades[t].day,
           \A d \in Day : risk'[d].entries = risk[d].entries
    PROVE  EntriesAreCounted'
<1> SUFFICES ASSUME faults' = 0, NEW d \in Day
             PROVE  /\ IsFiniteSet(SentOn(d)')
                    /\ Cardinality(SentOn(d)')
                          <= risk'[d].entries + IF pc' = "record entry" /\ cur'.day = d THEN 1 ELSE 0
  BY DEF EntriesAreCounted, SentOn, Entry
<1>1. SentOn(d)' = SentOn(d)
  BY DEF SentOn, Entry
<1>2. /\ IsFiniteSet(SentOn(d))
      /\ Cardinality(SentOn(d)) <= risk[d].entries + IF pc = "record entry" /\ cur.day = d THEN 1 ELSE 0
  BY DEF DemoInv, EntriesAreCounted
<1>3. risk[d].entries \in Nat /\ Cardinality(SentOn(d)) \in Nat
  <2>2. risk[d].entries \in Nat
    BY DayCounts DEF DemoInv
  <2>3. IsFiniteSet(SentOn(d))
    BY <1>2
  <2>4. Cardinality(SentOn(d)) \in Nat
    BY <2>3, FS_CardinalityType
  <2> QED BY <2>2, <2>4
<1> DEFINE allowed == IF pc = "record entry" /\ cur.day = d THEN 1 ELSE 0
           allowedNext == IF pc' = "record entry" /\ cur'.day = d THEN 1 ELSE 0
<1>4. allowed \in {0, 1} /\ allowedNext \in {0, 1} /\ (allowed = 0 \/ allowedNext = allowed)
  BY Zenon
<1>5. Cardinality(SentOn(d)) <= risk[d].entries + allowed
  BY <1>2
<1> HIDE DEF allowed, allowedNext
<1>6. Cardinality(SentOn(d)) <= risk[d].entries + allowedNext
  BY <1>3, <1>4, <1>5, Within
<1>7. IsFiniteSet(SentOn(d)') /\ Cardinality(SentOn(d)') <= risk'[d].entries + allowedNext
  BY <1>1, <1>2, <1>6
<1> QED BY <1>7 DEF allowedNext

(* A step of the executor that writes nothing.                                *)
LEMMA QuietStep ==
    ASSUME DemoInv, ReadOnly, pc # "record entry",
           pc' \in PcValue, cur' \in CurRow, CycleIsSound'
    PROVE  DemoInv'
<1>1. UNCHANGED <<orders, fills, net, trades, risk, exch, executed, visible, day, operator, faults>>
  BY DEF ReadOnly, exchVars, envVars
<1>2. Standing'
  BY <1>1, StandingStays DEF DemoInv
<1>3. ClosedBooks'
  BY <1>1, CountsStay DEF DemoInv, ClosedBooks, FillsOf, Recorded
<1>4. EntriesAreCounted'
  BY <1>1, CountStays
<1>5. OwnTypeOK'
  BY <1>1 DEF OwnTypeOK, DemoInv, DemoTypeOK
<1> QED BY <1>1, <1>2, <1>3, <1>4, <1>5, Together DEF ordVars, stVars

LEMMA RaiseStep == ASSUME DemoInv, Raise, pc # "record entry" PROVE DemoInv'
BY QuietStep, EndIsSound DEF Raise

(* A step of the executor that writes the order store only.                   *)
LEMMA OrderStep ==
    ASSUME DemoInv, OrdNext \/ UNCHANGED ordVars, UNCHANGED <<trades, risk, exchVars, envVars>>,
           pc # "record entry", Standing', pc' \in PcValue, cur' \in CurRow, CycleIsSound'
    PROVE  DemoInv'
<1>1. UNCHANGED <<trades, risk, exch, executed, visible, day, operator, faults>>
  BY DEF exchVars, envVars
<1>2. \A f \in FillId : Recorded(f) => fills'[f] = fills[f]
  BY HistoryOneStep DEF HistoryStep, ordVars, DemoInv, OrdInv
<1>3. ClosedBooks'
  BY <1>1, <1>2, ClosedBooksStay, CountsStay DEF DemoInv
<1>4. EntriesAreCounted'
  BY <1>1, CountStays
<1>5. OwnTypeOK'
  BY <1>1 DEF OwnTypeOK, DemoInv, DemoTypeOK
<1> QED BY <1>1, <1>3, <1>4, <1>5, Together DEF stVars

(* A step that writes the trades table or the risk ledger only, and closes no *)
(* trade.                                                                     *)
LEMMA TradeStep ==
    ASSUME DemoInv, StNext \/ UNCHANGED stVars, UNCHANGED <<orders, fills, net, exchVars, envVars>>,
           pc # "record entry", Standing', pc' \in PcValue, cur' \in CurRow, CycleIsSound',
           \A t \in Trade : trades'[t].phase = "CLOSED" => trades[t].phase = "CLOSED",
           \A t \in Trade : exch[Entry(t)] # "absent" => trades'[t].day = trades[t].day,
           \A d \in Day : risk'[d].entries = risk[d].entries
    PROVE  DemoInv'
<1>1. UNCHANGED <<orders, fills, net, exch, executed, visible, day, operator, faults>>
  BY DEF exchVars, envVars
<1>2. ClosedBooks'
  BY <1>1, ClosedBooksStay, CountsStay, OrderShape DEF DemoInv
<1>3. EntriesAreCounted'
  BY <1>1, CountStays
<1>4. OwnTypeOK'
  BY <1>1 DEF OwnTypeOK, DemoInv, DemoTypeOK
<1> QED BY <1>1, <1>2, <1>3, <1>4, Together DEF ordVars

(* What a trade's row tells while DemoInv holds.                              *)
LEMMA RowSays ==
    ASSUME DemoInv, NEW t \in Trade
    PROVE  /\ trades[t] \in TradeRow
           /\ RowInv(trades[t])
           /\ Active(t) \/ trades[t].phase \in {"ABSENT", "CLOSED"}
           /\ None \notin Order
           /\ trades[t].entryOrder \in {None, Entry(t)}
           /\ trades[t].exitOrder \in Exits(t) \cup {None}
           /\ exch[Entry(t)] # "absent" => trades[t].entryOrder = Entry(t)
           /\ Active(t) => Position = Exposure(t)
           /\ Exposure(t) \in Nat
           /\ Position \in Int
<1>1. trades[t] \in TradeRow /\ RowInv(trades[t])
  BY RowFacts DEF DemoInv
<1>2. Active(t) \/ trades[t].phase \in {"ABSENT", "CLOSED"}
  BY <1>1 DEF TradeRow, Active, ActivePhase
<1>3. None \notin Order
  BY RiskAssumption, DemoAssumption
<1>4. Exposure(t) \in Int /\ Position \in Int
  BY Counts DEF DemoInv, Standing
<1> QED BY <1>1, <1>2, <1>3, <1>4 DEF DemoInv, Standing, TradesNameOrders, PositionIsOwned

(* A trade in a phase without a running order has none, and nobody else does. *)
LEMMA NothingLive ==
    ASSUME DemoInv, NEW t \in Trade, Active(t),
           \/ trades[t].phase \notin {"ENTRY_SUBMITTED", "EXIT_SUBMITTED"}
           \/ trades[t].phase = "ENTRY_SUBMITTED" /\ ~Live(Entry(t))
           \/ trades[t].phase = "EXIT_SUBMITTED" /\ (~Live(trades[t].exitOrder) \/ Position = 0)
    PROVE  \A o \in Order : ~Live(o)
<1> SUFFICES ASSUME NEW o \in Order, Live(o) PROVE FALSE
  OBVIOUS
<1>1. o[1] = t
  BY OneLive DEF DemoInv
<1>2. IF IsEntry(o) THEN trades[t].phase = "ENTRY_SUBMITTED" /\ o = Entry(t)
      ELSE /\ trades[t].phase = "EXIT_SUBMITTED" /\ trades[t].exitOrder = o
           /\ orders[o].params.qty - Cumulative(o) = Position
  BY <1>1, OrderShape DEF DemoInv, Standing, LiveIsAwaited
<1>3. Cumulative(o) < orders[o].params.qty /\ orders[o].params.qty \in Int /\ Cumulative(o) \in Int
  <2>1. Begun(o)
    BY DEF DemoInv, Standing, ExchangeFollows, Live, Begun
  <2> QED BY <2>1, BegunHasRow, BoundAssumption, Counts
          DEF DemoInv, Standing, ExchangeFollows, DemoTypeOK
<1> QED BY <1>2, <1>3

-----------------------------------------------------------------------------
(* The steps of the executor, one lemma each.                                 *)

LEMMA StepStart ==
    ASSUME DemoInv, StartNoTrade \/ (\E t \in Trade : StartActive(t))
    PROVE  DemoInv'
<1> USE DEF DemoInv
<1>0. ReadOnly /\ pc = "idle" /\ UNCHANGED <<orders, trades, exch, executed>> /\ day \in Day
  BY DEF StartNoTrade, StartActive, ReadOnly, exchVars, DemoTypeOK
<1>1. ASSUME NEW t \in Trade \cup {None}, NEW o \in Order \cup {None}, NEW c \in Caller \cup {None}
      PROVE  /\ [NoCycle EXCEPT !.trade = t, !.day = day, !.order = o, !.caller = c] \in CurRow
             /\ [NoCycle EXCEPT !.trade = t, !.day = day] \in CurRow
             /\ [NoCycle EXCEPT !.day = day] \in CurRow
  <2>1. NoCycle \in CurRow
    BY BoundAssumption DEF NoCycle, CurRow
  <2> QED BY <1>0, <2>1 DEF CurRow
<1>2. CASE StartNoTrade
  <2>1. cur' = [NoCycle EXCEPT !.day = day]
    BY <1>2 DEF StartNoTrade
  <2>2. pc' = "exposure" /\ cur'.day = day /\ ActiveTrades' = {}
    BY <1>0, <1>2 DEF StartNoTrade, NoCycle, ActiveTrades, Active
  <2>3. CycleIsSound'
    BY <1>0, <2>2 DEF CycleIsSound
  <2>4. cur' \in CurRow
    BY <1>1, <2>1
  <2> QED BY <1>0, <2>2, <2>3, <2>4, QuietStep DEF PcValue
<1>3. ASSUME NEW t \in Trade, StartActive(t) PROVE DemoInv'
  <2>0. RowInv(trades[t]) /\ trades[t].entryOrder \in {None, Entry(t)}
        /\ trades[t].exitOrder \in Exits(t) \cup {None} /\ None \notin Order
    BY RowSays
  <2>1. CASE trades[t].phase = "ENTRY_SUBMITTED" /\ pc' = "fetch executions"
             /\ cur' = [NoCycle EXCEPT !.trade = t, !.day = day, !.order = trades[t].entryOrder,
                                       !.caller = "entry"]
    <3>1. trades[t].entryOrder = Entry(t) /\ Entry(t) \in Order
      BY <2>0, <2>1, OrderShape DEF RowInv
    <3>2. cur'.trade = t /\ cur'.day = day /\ cur'.order = Entry(t) /\ cur'.caller = "entry"
      BY <2>1, <3>1 DEF NoCycle
    <3>3. Reconciling'
      BY <1>0, <2>1, <3>2 DEF Reconciling, Entry
    <3>4. CycleIsSound'
      BY <1>0, <2>1, <3>2, <3>3 DEF CycleIsSound
    <3>5. cur' \in CurRow
      BY <1>1, <2>1, <3>1 DEF Caller
    <3> QED BY <1>0, <2>1, <3>4, <3>5, QuietStep DEF PcValue
  <2>2. CASE trades[t].phase = "EXIT_SUBMITTED" /\ pc' = "fetch executions"
             /\ cur' = [NoCycle EXCEPT !.trade = t, !.day = day, !.order = trades[t].exitOrder,
                                       !.caller = "exit"]
    <3>1. trades[t].exitOrder \in Exits(t) /\ trades[t].exitOrder \in Order
      BY <2>0, <2>2, OrderShape DEF RowInv
    <3>2. cur'.trade = t /\ cur'.day = day /\ cur'.order = trades[t].exitOrder /\ cur'.caller = "exit"
      BY <2>2, <3>1 DEF NoCycle
    <3>3. Reconciling'
      BY <1>0, <2>2, <3>1, <3>2 DEF Reconciling, Exits
    <3>4. CycleIsSound'
      BY <1>0, <2>2, <3>2, <3>3 DEF CycleIsSound
    <3>5. cur' \in CurRow
      BY <1>1, <2>2, <3>1 DEF Caller
    <3> QED BY <1>0, <2>2, <3>4, <3>5, QuietStep DEF PcValue
  <2>3. CASE trades[t].phase \in {"OBSERVED", "OPEN"} /\ pc' = "positions"
             /\ cur' = [NoCycle EXCEPT !.trade = t, !.day = day]
    <3>2. cur'.trade = t /\ cur'.day = day
      BY <2>3 DEF NoCycle
    <3>3. CycleIsSound'
      BY <1>0, <2>3, <3>2 DEF CycleIsSound
    <3>4. cur' \in CurRow
      BY <1>1, <2>3
    <3> QED BY <1>0, <2>3, <3>3, <3>4, QuietStep DEF PcValue
  <2>4. CASE EndCycle
    BY <1>0, <2>4, RaiseStep DEF Raise
  <2> QED BY <1>3, <2>1, <2>2, <2>3, <2>4 DEF StartActive
<1> QED BY <1>2, <1>3

LEMMA StepExposure ==
    ASSUME DemoInv, ReadPositions \/ ReadOpenOrders
    PROVE  DemoInv'
<1> USE DEF DemoInv
<1>0. ReadOnly /\ pc \in {"exposure", "open orders"}
      /\ UNCHANGED <<orders, trades, exch, executed>> /\ cur \in CurRow
      /\ ActiveTrades = {} /\ ActiveTrades' = {} /\ cur.day \in Day
  BY DEF ReadPositions, ReadOpenOrders, ReadOnly, exchVars, DemoTypeOK, CycleIsSound,
         ActiveTrades, Active
<1>1. CASE EndCycle
  BY <1>0, <1>1, RaiseStep DEF Raise
<1>2. CASE pc' = "open orders" /\ UNCHANGED cur
  <2>1. CycleIsSound'
    BY <1>0, <1>2 DEF CycleIsSound
  <2> QED BY <1>0, <1>2, <2>1, QuietStep DEF PcValue
<1>3. ASSUME pc' = "authorize", NEW t \in Trade,
             cur' = [cur EXCEPT !.trade = t, !.order = Entry(t), !.caller = "new entry",
                                !.qty = MaxQty]
      PROVE  DemoInv'
  <2>1. cur'.trade = t /\ cur'.order = Entry(t) /\ cur'.caller = "new entry"
        /\ cur'.qty = MaxQty /\ cur'.day = cur.day
    BY <1>0, <1>3 DEF CurRow
  <2>2. CycleIsSound'
    BY <1>0, <1>3, <2>1 DEF CycleIsSound, Entry
  <2>3. cur' \in CurRow
    <3>1. Entry(t) \in Order /\ MaxQty \in 0..MaxQty /\ "new entry" \in Caller
      BY OrderShape, BoundAssumption DEF Caller
    <3> QED BY <1>0, <1>3, <3>1 DEF CurRow
  <2> QED BY <1>0, <1>3, <2>2, <2>3, QuietStep DEF PcValue
<1> QED BY <1>1, <1>2, <1>3 DEF ReadPositions, ReadOpenOrders, Goto

LEMMA StepAuthorize ==
    ASSUME DemoInv, AuthorizeStep
    PROVE  DemoInv'
<1> USE DEF DemoInv
<1>0. /\ pc = "authorize" /\ cur \in CurRow /\ ActiveTrades = {} /\ cur.day \in Day
      /\ cur.trade \in Trade /\ cur.caller = "new entry" /\ cur.order = Entry(cur.trade)
      /\ cur.qty = MaxQty
  BY DEF AuthorizeStep, CycleIsSound, DemoTypeOK
<1>1. CASE Raise
  BY <1>0, <1>1, RaiseStep
<1>2. CASE OnlyTrades(AuthorizeEntry(cur.day)) /\ Goto("begin trade")
  <2>1. /\ UNCHANGED <<orders, fills, net, trades, exchVars, envVars>>
        /\ Authorized(cur.day) /\ pc' = "begin trade" /\ cur' = cur
        /\ risk' = [risk EXCEPT ![cur.day] = [@ EXCEPT !.known = TRUE]]
    BY <1>2 DEF OnlyTrades, AuthorizeEntry, Goto
  <2>2. StNext
    BY <1>0, <1>2 DEF OnlyTrades, StNext
  <2>3. \A d \in Day : /\ risk'[d].entries = risk[d].entries /\ risk'[d].kill = risk[d].kill
                       /\ risk'[d].cooling = risk[d].cooling /\ risk'[d].pnl = risk[d].pnl
    BY <2>1 DEF StInv, StTypeOK, DayRow
  <2>4. Authorized(cur.day)'
    BY <1>0, <2>1, <2>3 DEF Authorized
  <2>5. CycleIsSound'
    <3>1. ActiveTrades' = {}
      BY <1>0, <2>1 DEF ActiveTrades, Active
    <3> QED BY <1>0, <2>1, <2>4, <3>1 DEF CycleIsSound, Entry
  <2>6. Standing'
    BY <2>1, StandingStays DEF exchVars
  <2>7. pc' \in PcValue /\ cur' \in CurRow /\ pc # "record entry"
    BY <1>0, <2>1 DEF PcValue
  <2> HIDE DEF DemoInv
  <2> QED BY <2>1, <2>2, <2>3, <2>5, <2>6, <2>7, TradeStep
<1> QED BY <1>1, <1>2 DEF AuthorizeStep

LEMMA StepBeginTrade ==
    ASSUME DemoInv, BeginTradeStep
    PROVE  DemoInv'
<1> USE DEF DemoInv
<1> DEFINE t == cur.trade
<1>0. /\ pc = "begin trade" /\ cur \in CurRow /\ ActiveTrades = {} /\ cur.day \in Day
      /\ t \in Trade /\ cur.caller = "new entry" /\ cur.order = Entry(t)
      /\ cur.qty = MaxQty /\ Authorized(cur.day)
  BY DEF BeginTradeStep, CycleIsSound, DemoTypeOK
<1>1. CASE Raise
  BY <1>0, <1>1, RaiseStep
<1>2. CASE OnlyTrades(BeginTrade(t, cur.day)) /\ Goto("begin order")
  <2>1. /\ UNCHANGED <<orders, fills, net, risk, exchVars, envVars>>
        /\ pc' = "begin order" /\ cur' = cur
    BY <1>2 DEF OnlyTrades, BeginTrade, Goto
  <2>2. StNext
    BY <1>0, <1>2 DEF OnlyTrades, StNext
  <2>3. Authorized(cur.day)'
    BY <1>0, <2>1 DEF Authorized
  <2>4. pc' \in PcValue /\ cur' \in CurRow /\ pc # "record entry"
    BY <1>0, <2>1 DEF PcValue
  <2>5. RowInv(trades[t]) /\ trades[t] \in TradeRow /\ ~Active(t)
        /\ (trades[t].phase = "ABSENT" => ~Begun(Entry(t)) /\ exch[Entry(t)] = "absent")
    <3>1. trades[t].phase = "ABSENT" => ~Begun(Entry(t))
      BY <1>0 DEF Standing, TradesNameOrders
    <3>2. ~Begun(Entry(t)) => exch[Entry(t)] = "absent"
      BY <1>0, OrderShape DEF Standing, ExchangeFollows, Begun
    <3> QED BY <1>0, <3>1, <3>2, RowSays DEF ActiveTrades
  <2>6. CASE UNCHANGED trades /\ Exists(t)
    <3>1. trades[t].phase = "CLOSED"
      BY <2>5, <2>6 DEF TradeRow, Active, ActivePhase, Exists
    <3>2. EntryPath'
      BY <1>0, <2>1, <2>3, <2>6, <3>1 DEF EntryPath, Entry
    <3>3. CycleIsSound'
      BY <1>0, <2>1, <3>2 DEF CycleIsSound
    <3>4. Standing'
      BY <2>1, <2>6, StandingStays DEF exchVars
    <3> HIDE DEF DemoInv
    <3> QED BY <2>1, <2>2, <2>4, <2>6, <3>3, <3>4, TradeStep
  <2>7. CASE /\ ~Exists(t)
             /\ trades' = [trades EXCEPT ![t] = [@ EXCEPT !.phase = "OBSERVED", !.day = cur.day]]
    <3> DEFINE row == [trades[t] EXCEPT !.phase = "OBSERVED", !.day = cur.day]
    <3>0. trades' = [trades EXCEPT ![t] = row] /\ trades'[t] = row
          /\ \A u \in Trade \ {t} : trades'[u] = trades[u]
      BY <1>0, <2>7 DEF StInv, StTypeOK
    <3>1. /\ row.phase = "OBSERVED" /\ row.day = cur.day /\ row.entryOrder = None
          /\ row.exitOrder = None /\ ~row.opened /\ trades[t].phase = "ABSENT"
          /\ trades[t].entryOrder = None /\ trades[t].exitOrder = None
      BY <2>5, <2>7 DEF Exists, RowInv, TradeRow
    <3> HIDE DEF row
    <3>2. NamesOrders(t, row)
      BY <1>0, <2>5, <3>1 DEF NamesOrders, Standing, TradesNameOrders
    <3>3. AwaitsLive(t, row)
      BY <3>1 DEF AwaitsLive, Standing, LiveIsAwaited
    <3>4. Exposure(t) = 0
      BY <1>0, <3>1 DEF Standing, PositionIsOwned
    <3>5. Standing'
      BY <1>0, <2>1, <3>0, <3>1, <3>2, <3>3, <3>4, StandingTrade DEF exchVars, Phase
    <3>6. EntryPath'
      <4>1. ~Begun(cur.order)'
        BY <1>0, <2>1, <2>5, <3>1 DEF Begun
      <4> QED BY <1>0, <2>1, <2>3, <3>0, <3>1, <4>1 DEF EntryPath, Entry
    <3>7. CycleIsSound'
      BY <1>0, <2>1, <3>6 DEF CycleIsSound
    <3>8. \A u \in Trade : /\ trades'[u].phase = "CLOSED" => trades[u].phase = "CLOSED"
                           /\ exch[Entry(u)] # "absent" => trades'[u].day = trades[u].day
      BY <2>5, <3>0, <3>1
    <3> HIDE DEF DemoInv
    <3> QED BY <2>1, <2>2, <2>4, <3>5, <3>7, <3>8, TradeStep
  <2> QED BY <1>2, <2>6, <2>7 DEF OnlyTrades, BeginTrade
<1> QED BY <1>1, <1>2 DEF BeginTradeStep

(* The order on its way to the exchange is one of the trade's own.            *)
LEMMA PathOrder ==
    ASSUME cur.trade \in Trade, EntryPath \/ ExitPath
    PROVE  /\ cur.order \in Order /\ cur.order[1] = cur.trade
           /\ EntryPath => cur.order = Entry(cur.trade) /\ IsEntry(cur.order)
           /\ ExitPath => cur.order \in Exits(cur.trade) /\ ~IsEntry(cur.order)
<1>1. EntryPath => cur.order = Entry(cur.trade)
  BY DEF EntryPath
<1>2. ExitPath => cur.order \in Exits(cur.trade)
  BY DEF ExitPath
<1> QED BY <1>1, <1>2, OrderShape

LEMMA StepBeginOrder ==
    ASSUME DemoInv, BeginOrderStep
    PROVE  DemoInv'
<1> USE DEF DemoInv
<1> DEFINE t == cur.trade
           o == cur.order
           p == OrderParams(o, cur.qty)
<1>0. /\ pc = "begin order" /\ cur \in CurRow /\ cur.day \in Day /\ t \in Trade
      /\ EntryPath \/ ExitPath
  BY DEF BeginOrderStep, CycleIsSound, DemoTypeOK
<1>1. CASE Raise
  BY <1>0, <1>1, RaiseStep
<1>2. CASE OnlyOrders(BeginOrder(o, p)) /\ Goto("mark order")
  <2>1. /\ UNCHANGED <<trades, risk, exchVars, envVars>> /\ UNCHANGED <<fills, exch, executed>>
        /\ BeginOrder(o, p) /\ pc' = "mark order" /\ cur' = cur
    BY <1>2 DEF OnlyOrders, BeginOrder, Goto, exchVars
  <2>2. o \in Order /\ o[1] = t /\ cur.qty \in 1..MaxQty
    <3>1. CASE EntryPath
      <4>1. cur.qty = MaxQty
        BY <1>0, <3>1 DEF EntryPath
      <4>2. MaxQty \in 1..MaxQty
        BY BoundAssumption
      <4> QED BY <1>0, <3>1, <4>1, <4>2, PathOrder
    <3>2. CASE ExitPath
      <4>1. cur.qty = Position /\ Position > 0 /\ cur.qty \in 0..MaxQty
        BY <1>0, <3>2 DEF ExitPath, CurRow
      <4>2. cur.qty \in 1..MaxQty
        BY <4>1, BoundAssumption
      <4> QED BY <1>0, <3>2, <4>2, PathOrder
    <3> QED BY <1>0, <3>1, <3>2
  <2>3. p \in Params /\ p.qty = cur.qty
    <3>1. TheSymbol \in Symbol
      BY DemoAssumption DEF TheSymbol
    <3>2. t \in Group
      BY <1>0, DemoAssumption
    <3> QED BY <2>2, <3>1, <3>2 DEF OrderParams, Params, Side
  <2> HIDE DEF p
  <2>4. OrdNext
    BY <2>1, <2>2, <2>3 DEF OrdNext
  <2>5. pc' \in PcValue /\ cur' \in CurRow /\ pc # "record entry"
    BY <1>0, <2>1 DEF PcValue
  <2>6. Authorized(cur.day) => Authorized(cur.day)'
    BY <2>1 DEF Authorized
  <2>7. /\ Begun(o) => EntryPath /\ trades[t].phase = "CLOSED"
        /\ EntryPath => trades[t].phase \in {"CLOSED", "OBSERVED"}
    <3>1. ExitPath => ~Begun(o)
      <4>1. ASSUME ExitPath PROVE o = <<t, o[2]>> /\ o[2] \in 1..MaxExits
        BY <1>0, <4>1, OrderShape DEF ExitPath
      <4>2. ASSUME ExitPath PROVE \A n \in 1..MaxExits : Begun(<<t, n>>) <=> n < o[2]
        BY <1>0, <4>2 DEF ExitPath
      <4> QED BY <4>1, <4>2
    <3>2. EntryPath => trades[t].phase = "CLOSED" \/ (trades[t].phase = "OBSERVED" /\ ~Begun(o))
      BY <1>0 DEF EntryPath
    <3> QED BY <1>0, <3>1, <3>2
  <2>8. CASE Begun(o)
    <3>1. UNCHANGED orders
      BY <2>1, <2>8 DEF BeginOrder
    <3>2. Standing'
      BY <2>1, <3>1, StandingStays
    <3>3. EntryPath'
      BY <1>0, <2>1, <2>6, <2>7, <2>8, <3>1 DEF EntryPath, Entry
    <3>4. CycleIsSound'
      BY <1>0, <2>1, <3>3 DEF CycleIsSound
    <3> HIDE DEF DemoInv
    <3> QED BY <2>1, <2>4, <2>5, <3>2, <3>4, OrderStep
  <2>9. CASE ~Begun(o)
    <3>1. orders' = [orders EXCEPT ![o] =
              [state |-> "PENDING_SUBMIT", params |-> p, filled |-> 0, attempts |-> 0]]
      BY <2>1, <2>9 DEF BeginOrder
    <3>2. orders'[o].state = "PENDING_SUBMIT" /\ orders'[o].params.qty = cur.qty
      BY <2>2, <2>3, <3>1 DEF DemoTypeOK, OrdTypeOK
    <3>3. (IsEntry(o) => EntryPath) /\ (~IsEntry(o) => ExitPath)
      <4> HIDE DEF DemoInv
      <4> QED BY <1>0, PathOrder
    <3>4. ~IsEntry(o) => \A n \in 1..MaxExits : Begun(<<t, n>>) <=> n < o[2]
      BY <1>0, <3>3 DEF ExitPath
    <3>5. Standing'
      BY <2>1, <2>2, <2>3, <2>7, <2>9, <3>1, <3>3, <3>4, StandingBegin
    <3>6. EntryPath => EntryPath'
      BY <1>0, <2>1, <2>6, <3>2 DEF EntryPath, Entry
    <3>7. ExitPath => ExitPath'
      BY <1>0, <2>1, <3>2, CountsStay DEF ExitPath, Exits, Live
    <3>8. CycleIsSound'
      BY <1>0, <2>1, <3>6, <3>7 DEF CycleIsSound
    <3> HIDE DEF DemoInv
    <3> QED BY <2>1, <2>4, <2>5, <3>5, <3>8, OrderStep
  <2> QED BY <2>8, <2>9
<1> QED BY <1>1, <1>2 DEF BeginOrderStep

LEMMA StepMarkOrder ==
    ASSUME DemoInv, MarkOrderStep
    PROVE  DemoInv'
<1> USE DEF DemoInv
<1> DEFINE t == cur.trade
           o == cur.order
<1>0. /\ pc = "mark order" /\ cur \in CurRow /\ cur.day \in Day /\ t \in Trade
      /\ EntryPath \/ ExitPath
      /\ EntryPath => o = Entry(t) /\ IsEntry(o)
      /\ ExitPath => o \in Exits(t) /\ ~IsEntry(o)
  <2>1. /\ pc = "mark order" /\ cur \in CurRow /\ cur.day \in Day /\ t \in Trade
        /\ EntryPath \/ ExitPath
    BY DEF MarkOrderStep, CycleIsSound, DemoTypeOK
  <2> QED BY <2>1, PathOrder
<1>1. CASE Raise
  BY <1>0, <1>1, RaiseStep
<1>2. o \in Order /\ trades[t] \in TradeRow /\ RowInv(trades[t]) /\ None \notin Order
  BY <1>0, PathOrder, RowSays
<1>3. ASSUME NEW row, trades' = [trades EXCEPT ![t] = row], row \in TradeRow, StNext,
             UNCHANGED <<orders, fills, net, risk, exchVars, envVars>>, cur' = cur,
             NamesOrders(t, row), AwaitsLive(t, row),
             row.phase \in {"ENTRY_SUBMITTED", "EXIT_SUBMITTED"}, row.day = trades[t].day,
             Active(t), orders[o].state = "PENDING_SUBMIT", pc' = "write ahead",
             trades'[t] = row => EntryPath' \/ ExitPath'
      PROVE  DemoInv'
  <2>1. trades'[t] = row /\ \A u \in Trade \ {t} : trades'[u] = trades[u]
    BY <1>0, <1>3 DEF StInv, StTypeOK
  <2>2. UNCHANGED <<orders, fills, exch, executed>>
    BY <1>3 DEF exchVars
  <2>3. Standing'
    BY <1>0, <1>3, <2>2, StandingTrade DEF Phase
  <2>4. CycleIsSound'
    BY <1>0, <1>3, <2>1, <2>2 DEF CycleIsSound
  <2>5. pc' \in PcValue /\ cur' \in CurRow /\ pc # "record entry"
    BY <1>0, <1>3 DEF PcValue
  <2>6. \A u \in Trade : /\ trades'[u].phase = "CLOSED" => trades[u].phase = "CLOSED"
                         /\ trades'[u].day = trades[u].day
    BY <1>3, <2>1
  <2> HIDE DEF DemoInv
  <2> QED BY <1>3, <2>3, <2>4, <2>5, <2>6, TradeStep
<1>4. CASE IsEntry(o) /\ OnlyTrades(MarkEntrySubmitted(t, o))
           /\ (orders[o].state = "PENDING_SUBMIT" => Goto("write ahead"))
  <2> DEFINE row == [trades[t] EXCEPT !.phase = "ENTRY_SUBMITTED", !.entryOrder = o]
  <2>1. EntryPath /\ trades[t].phase = "OBSERVED" /\ orders[o].state = "PENDING_SUBMIT"
        /\ o = Entry(t) /\ trades[t].day = cur.day /\ Authorized(cur.day)
    BY <1>0, <1>4 DEF OnlyTrades, MarkEntrySubmitted, EntryPath
  <2>2. /\ UNCHANGED <<orders, fills, net, risk, exchVars, envVars>>
        /\ pc' = "write ahead" /\ cur' = cur /\ trades' = [trades EXCEPT ![t] = row]
    BY <1>4, <2>1 DEF OnlyTrades, MarkEntrySubmitted, Goto
  <2>3. /\ row.phase = "ENTRY_SUBMITTED" /\ row.entryOrder = Entry(t) /\ row.exitOrder = None
        /\ ~row.opened /\ row.day = cur.day /\ row \in TradeRow
        /\ trades[t].entryOrder = None /\ trades[t].exitOrder = None
    <3>1. o \in TradeOrder
      BY <1>2, DemoAssumption
    <3> QED BY <1>2, <2>1, <3>1 DEF TradeRow, RowInv, Phase
  <2> HIDE DEF row
  <2>4. StNext
    BY <1>0, <1>2, <1>4, DemoAssumption DEF OnlyTrades, StNext
  <2>5. NamesOrders(t, row)
    <3>1. Begun(Entry(t))
      BY <2>1 DEF Begun
    <3> QED BY <1>0, <2>3, <3>1 DEF NamesOrders, Standing, TradesNameOrders
  <2>6. AwaitsLive(t, row)
    BY <2>1, <2>3 DEF AwaitsLive, Standing, LiveIsAwaited
  <2>7. trades'[t] = row => EntryPath'
    <3>1. Authorized(cur.day)'
      BY <2>1, <2>2 DEF Authorized
    <3> QED BY <1>0, <2>1, <2>2, <2>3, <3>1 DEF EntryPath, Entry
  <2>8. Active(t)
    BY <2>1 DEF Active, ActivePhase, Phase
  <2> QED BY <1>3, <2>1, <2>2, <2>3, <2>4, <2>5, <2>6, <2>7, <2>8
<1>5. ASSUME ~IsEntry(o), NEW r \in Reason, OnlyTrades(MarkExitSubmitted(t, o, r)),
             orders[o].state = "PENDING_SUBMIT" => Goto("write ahead")
      PROVE  DemoInv'
  <2> DEFINE row == [trades[t] EXCEPT !.phase = "EXIT_SUBMITTED", !.exitOrder = o, !.exitReason = r]
  <2>1. ExitPath /\ orders[o].state = "PENDING_SUBMIT" /\ o \in Exits(t)
        /\ trades[t].phase \in {"OPEN", "EXIT_SUBMITTED"}
        /\ \A u \in Order : ~Live(u)
    BY <1>0, <1>5 DEF ExitPath
  <2>2. /\ UNCHANGED <<orders, fills, net, risk, exchVars, envVars>>
        /\ pc' = "write ahead" /\ cur' = cur /\ trades' = [trades EXCEPT ![t] = row]
    BY <1>5, <2>1 DEF OnlyTrades, MarkExitSubmitted, Goto
  <2>3. /\ row.phase = "EXIT_SUBMITTED" /\ row.entryOrder = trades[t].entryOrder
        /\ row.exitOrder = o /\ row.opened = trades[t].opened /\ row.day = trades[t].day
        /\ row \in TradeRow
    <3>1. o \in TradeOrder
      BY <1>2, DemoAssumption
    <3> QED BY <1>2, <2>1, <3>1 DEF TradeRow, Phase
  <2> HIDE DEF row
  <2>4. StNext
    BY <1>0, <1>2, <1>5, DemoAssumption DEF OnlyTrades, StNext
  <2>5. NamesOrders(t, row)
    <3>1. Begun(o) /\ o # None
      BY <1>2, <2>1 DEF Begun
    <3> QED BY <1>0, <2>1, <2>3, <3>1 DEF NamesOrders, Standing, TradesNameOrders
  <2>6. AwaitsLive(t, row)
    BY <2>1 DEF AwaitsLive
  <2>7. trades'[t] = row => ExitPath'
    BY <1>0, <2>1, <2>2, <2>3, CountsStay DEF ExitPath, Exits, Live, exchVars
  <2>8. Active(t)
    BY <2>1 DEF Active, ActivePhase, Phase
  <2> QED BY <1>3, <2>1, <2>2, <2>3, <2>4, <2>5, <2>6, <2>7, <2>8
<1> QED BY <1>1, <1>4, <1>5 DEF MarkOrderStep

LEMMA StepWriteAhead ==
    ASSUME DemoInv, WriteAhead
    PROVE  DemoInv'
<1> USE DEF DemoInv
<1> DEFINE t == cur.trade
           o == cur.order
           row == [orders[o] EXCEPT !.state = "SUBMITTED", !.attempts = @ + 1]
<1>0. /\ pc = "write ahead" /\ cur \in CurRow /\ cur.day \in Day /\ t \in Trade
      /\ EntryPath \/ ExitPath
      /\ orders[o].state = "PENDING_SUBMIT"
      /\ pc' = "place" /\ cur' = cur
      /\ UNCHANGED <<trades, risk, exchVars, envVars>> /\ UNCHANGED <<fills, exch, executed>>
  BY DEF WriteAhead, CycleIsSound, DemoTypeOK, OnlyOrders, MarkSubmitted, Goto, exchVars
<1>1. /\ o \in Order /\ Begun(o) /\ orders[o] \in OrderRow /\ orders[o].attempts = 0
      /\ exch[o] = "absent"
  <2>1. o \in Order /\ Begun(o)
    BY <1>0, PathOrder DEF Begun
  <2>2. orders[o] \in OrderRow
    BY <2>1, BegunHasRow DEF DemoTypeOK
  <2> QED BY <1>0, <2>1, <2>2 DEF Standing, RecordsAreExecutions, ExchangeFollows
<1>2. MarkSubmitted(o) /\ orders' = [orders EXCEPT ![o] = row]
  BY <1>1 DEF WriteAhead, OnlyOrders, MarkSubmitted, DemoTypeOK, OrdTypeOK
<1>3. /\ row \in OrderRow /\ row.state = "SUBMITTED" /\ row.attempts = 1
      /\ row.params = orders[o].params /\ row.filled = orders[o].filled
  <2>1. 1 \in 0..MaxAttempts /\ orders[o].attempts + 1 = 1
    BY <1>1, BoundAssumption
  <2>2. row = [orders[o] EXCEPT !.state = "SUBMITTED", !.attempts = 1]
    BY <2>1
  <2> HIDE DEF row
  <2> QED BY <1>1, <2>1, <2>2 DEF OrderRow, OrderState
<1>4. orders'[o] = row
  BY <1>1, <1>2 DEF DemoTypeOK, OrdTypeOK
<1> HIDE DEF row
<1>5. Standing'
  BY <1>0, <1>1, <1>2, <1>3, StandingRow DEF Terminal
<1>6. EntryPath => EntryPath'
  <2>1. Authorized(cur.day) => Authorized(cur.day)'
    BY <1>0 DEF Authorized
  <2> QED BY <1>0, <2>1 DEF EntryPath, Entry
<1>7. ExitPath => ExitPath'
  BY <1>0, <1>3, <1>4, CountsStay DEF ExitPath, Exits, Live
<1>8. CycleIsSound'
  BY <1>0, <1>1, <1>3, <1>4, <1>6, <1>7 DEF CycleIsSound
<1>9. OrdNext
  BY <1>1, <1>2 DEF OrdNext
<1>10. pc' \in PcValue /\ cur' \in CurRow /\ pc # "record entry"
  BY <1>0 DEF PcValue
<1> HIDE DEF DemoInv
<1> QED BY <1>0, <1>5, <1>8, <1>9, <1>10, OrderStep

LEMMA StepPlace ==
    ASSUME DemoInv, Place
    PROVE  DemoInv'
<1> USE DEF DemoInv
<1> DEFINE t == cur.trade
           o == cur.order
<1>0. /\ pc = "place" /\ cur \in CurRow /\ cur.day \in Day /\ t \in Trade
      /\ EntryPath \/ ExitPath
      /\ orders[o].state = "SUBMITTED" /\ exch[o] = "absent" /\ exch' = [exch EXCEPT ![o] = "New"]
      /\ cur' = cur
      /\ UNCHANGED <<orders, fills, net, trades, risk, executed, visible, day, operator, faults>>
  BY DEF Place, CycleIsSound, DemoTypeOK, Goto, envVars
<1>1. /\ o \in Order /\ o[1] = t /\ orders[o].params.qty > 0
      /\ EntryPath => o = Entry(t) /\ IsEntry(o)
      /\ ExitPath => o \in Exits(t) /\ ~IsEntry(o)
  <2>1. o \in Order /\ Begun(o)
    BY <1>0, PathOrder DEF Begun
  <2>2. orders[o].params.qty \in 1..MaxQty
    BY <2>1, BegunHasRow DEF DemoTypeOK
  <2>3. orders[o].params.qty > 0
    BY <2>2, BoundAssumption
  <2> QED BY <1>0, <2>3, PathOrder
<1>2. /\ EntryPath => /\ trades[t].phase = "ENTRY_SUBMITTED" /\ trades[t].entryOrder = o
                      /\ trades[t].day = cur.day /\ Authorized(cur.day)
                      /\ cur.caller = "new entry" /\ pc' = "record entry"
      /\ ExitPath => /\ trades[t].phase = "EXIT_SUBMITTED" /\ trades[t].exitOrder = o /\ o # None
                     /\ orders[o].params.qty = Position
                     /\ cur.caller \in {"new exit", "replacement"} /\ pc' = "fetch executions"
  <2>1. None \notin Order /\ trades[t].entryOrder \in {None, Entry(t)} /\ RowInv(trades[t])
    BY <1>0, RowSays
  <2>2. EntryPath => /\ trades[t].phase = "ENTRY_SUBMITTED" /\ trades[t].day = cur.day
                     /\ Authorized(cur.day) /\ cur.caller = "new entry"
    BY <1>0 DEF EntryPath
  <2>3. EntryPath => trades[t].entryOrder = o
    BY <1>1, <2>1, <2>2 DEF RowInv
  <2>4. ExitPath => /\ trades[t].phase = "EXIT_SUBMITTED" /\ trades[t].exitOrder = o
                    /\ orders[o].params.qty = Position
                    /\ cur.caller \in {"new exit", "replacement"}
    BY <1>0 DEF ExitPath
  <2>5. (IsEntry(o) => pc' = "record entry") /\ (~IsEntry(o) => pc' = "fetch executions")
    BY DEF Place, Goto
  <2> QED BY <1>1, <2>1, <2>2, <2>3, <2>4, <2>5
<1>3. Standing'
  <2>1. CASE EntryPath
    BY <1>0, <1>1, <1>2, <2>1, StandingExchange
  <2>2. CASE ExitPath
    BY <1>0, <1>1, <1>2, <2>2, StandingExchange
  <2> QED BY <1>0, <2>1, <2>2
<1>4. ClosedBooks'
  BY <1>0, CountsStay DEF ClosedBooks, FillsOf, Recorded
<1>5. OwnTypeOK'
  BY <1>0, <1>1, <1>2 DEF OwnTypeOK, DemoTypeOK, PcValue
<1>6. exch'[o] = "New" /\ \A u \in Order \ {o} : exch'[u] = exch[u]
  BY <1>0, <1>1 DEF DemoTypeOK
<1>7. CASE EntryPath
  <2>1. EntryPath'
    <3>1. Authorized(cur.day)'
      BY <1>0, <1>2, <1>7 DEF Authorized
    <3> QED BY <1>0, <1>1, <1>2, <1>7, <3>1 DEF EntryPath, Entry
  <2>2. CycleIsSound'
    BY <1>0, <1>2, <1>7, <2>1 DEF CycleIsSound
  <2>3. EntriesAreCounted'
    <3> SUFFICES ASSUME faults' = 0, NEW d \in Day
                 PROVE  /\ IsFiniteSet(SentOn(d)')
                        /\ Cardinality(SentOn(d)')
                              <= risk'[d].entries + IF pc' = "record entry" /\ cur'.day = d THEN 1 ELSE 0
      BY DEF EntriesAreCounted, SentOn, Entry
    <3>1. IsFiniteSet(SentOn(d)) /\ Cardinality(SentOn(d)) <= risk[d].entries + 0
      BY <1>0 DEF EntriesAreCounted
    <3>2. Cardinality(SentOn(d)) \in Nat /\ risk[d].entries \in Nat
      BY <3>1, DayCounts, FS_CardinalityType
    <3>a. \A u \in Trade : exch'[Entry(u)] # "absent" <=> exch[Entry(u)] # "absent" \/ u = t
      BY <1>1, <1>6, <1>7, OrderShape
    <3>b. t \in Trade /\ trades[t].day = cur.day /\ trades' = trades
      BY <1>0, <1>2, <1>7
    <3>c. SentOn(d)' = {u \in Trade : trades'[u].day = d /\ exch'[Entry(u)] # "absent"}
      BY DEF SentOn, Entry
    <3>3. CASE d = cur.day
      <4>1. SentOn(d)' = SentOn(d) \cup {t}
        BY <3>a, <3>b, <3>c, <3>3 DEF SentOn
      <4>2. t \notin SentOn(d)
        BY <1>0, <1>1, <1>7 DEF SentOn
      <4>3. IsFiniteSet(SentOn(d)') /\ Cardinality(SentOn(d)') = Cardinality(SentOn(d)) + 1
        BY <3>1, <4>1, <4>2, FS_AddElement
      <4>4. Cardinality(SentOn(d)') <= risk[d].entries + 1
        BY <3>1, <3>2, <4>3
      <4> QED BY <1>0, <1>2, <1>7, <3>3, <4>3, <4>4
    <3>4. CASE d # cur.day
      <4>1. SentOn(d)' = SentOn(d)
        BY <3>a, <3>b, <3>c, <3>4 DEF SentOn
      <4> QED BY <1>0, <3>1, <3>4, <4>1
    <3> QED BY <3>3, <3>4
  <2> HIDE DEF DemoInv
  <2> QED BY <1>0, <1>3, <1>4, <1>5, <2>2, <2>3, Together DEF ordVars, stVars
<1>8. CASE ExitPath
  <2>1. Reconciling'
    BY <1>0, <1>1, <1>2, <1>8 DEF Reconciling, Exits
  <2>2. CycleIsSound'
    BY <1>0, <1>2, <1>8, <2>1 DEF CycleIsSound
  <2>3. \A u \in Trade : exch'[Entry(u)] = exch[Entry(u)]
    BY <1>1, <1>6, <1>8, OrderShape
  <2>4. EntriesAreCounted'
    BY <1>0, <2>3, CountStays
  <2> HIDE DEF DemoInv
  <2> QED BY <1>0, <1>3, <1>4, <1>5, <2>2, <2>4, Together DEF ordVars, stVars
<1> QED BY <1>0, <1>7, <1>8

LEMMA StepRecordEntry ==
    ASSUME DemoInv, RecordEntryStep
    PROVE  DemoInv'
<1> USE DEF DemoInv
<1> DEFINE t == cur.trade
<1>0. /\ pc = "record entry" /\ cur \in CurRow /\ cur.day \in Day /\ t \in Trade
      /\ Authorized(cur.day) /\ cur.order = Entry(t)
      /\ trades[t].phase = "ENTRY_SUBMITTED" /\ cur.caller = "new entry"
  <2>1. pc = "record entry" /\ cur \in CurRow /\ cur.day \in Day /\ t \in Trade /\ EntryPath
    BY DEF RecordEntryStep, CycleIsSound, DemoTypeOK, ExitPath
  <2> QED BY <2>1 DEF EntryPath
<1>1. /\ RecordEntry(cur.day) /\ pc' = "fetch executions" /\ cur' = cur
      /\ UNCHANGED <<orders, fills, net, trades, exch, executed, visible, day, operator, faults>>
      /\ risk' = [risk EXCEPT ![cur.day] = [@ EXCEPT !.known = TRUE, !.entries = risk[cur.day].entries + 1]]
  BY <1>0 DEF RecordEntryStep, Raise, OnlyTrades, RecordEntry, Goto, exchVars, envVars
<1>2. StNext
  BY <1>0, <1>1 DEF StNext
<1>3. Standing'
  BY <1>1, StandingStays
<1>4. ClosedBooks'
  BY <1>1, CountsStay DEF ClosedBooks, FillsOf, Recorded
<1>5. OwnTypeOK'
  BY <1>0, <1>1 DEF OwnTypeOK, DemoTypeOK, PcValue
<1>6. Reconciling'
  BY <1>0, <1>1 DEF Reconciling, Entry
<1>7. CycleIsSound'
  BY <1>0, <1>1, <1>6 DEF CycleIsSound
<1>8. EntriesAreCounted'
  <2> SUFFICES ASSUME faults' = 0, NEW d \in Day
               PROVE  /\ IsFiniteSet(SentOn(d)')
                      /\ Cardinality(SentOn(d)')
                            <= risk'[d].entries + IF pc' = "record entry" /\ cur'.day = d THEN 1 ELSE 0
    BY DEF EntriesAreCounted, SentOn, Entry
  <2>1. SentOn(d)' = SentOn(d)
    BY <1>1 DEF SentOn, Entry
  <2>2. /\ IsFiniteSet(SentOn(d)) /\ Cardinality(SentOn(d)) \in Nat /\ risk[d].entries \in Nat
        /\ Cardinality(SentOn(d)) <= risk[d].entries + (IF cur.day = d THEN 1 ELSE 0)
    BY <1>0, <1>1, DayCounts, FS_CardinalityType DEF EntriesAreCounted
  <2>3. risk'[d].entries = risk[d].entries + (IF cur.day = d THEN 1 ELSE 0)
    <3>1. risk[d] \in DayRow
      BY DEF StInv, StTypeOK
    <3>2. CASE cur.day = d
      <4>1. risk'[d] = [risk[d] EXCEPT !.known = TRUE, !.entries = risk[d].entries + 1]
        BY <1>1, <3>2 DEF StInv, StTypeOK
      <4>2. risk'[d].entries = risk[d].entries + 1
        BY <3>1, <4>1 DEF DayRow
      <4> QED BY <3>2, <4>2
    <3>3. CASE cur.day # d
      <4>1. risk'[d] = risk[d]
        BY <1>1, <3>3 DEF StInv, StTypeOK
      <4>2. risk[d].entries = risk[d].entries + 0
        BY <2>2
      <4> QED BY <3>3, <4>1, <4>2
    <3> QED BY <3>2, <3>3
  <2>4. Cardinality(SentOn(d)) <= risk'[d].entries + 0
    BY <2>2, <2>3
  <2> QED BY <1>1, <2>1, <2>2, <2>4
<1> HIDE DEF DemoInv
<1> QED BY <1>1, <1>2, <1>3, <1>4, <1>5, <1>7, <1>8, Together DEF ordVars

LEMMA StepFetchExecutions ==
    ASSUME DemoInv, FetchExecutions
    PROVE  DemoInv'
<1> USE DEF DemoInv
<1>0. /\ pc = "fetch executions" /\ cur \in CurRow /\ cur.day \in Day /\ cur.trade \in Trade
      /\ Reconciling /\ ReadOnly /\ pc' = "apply fills"
      /\ cur' = [cur EXCEPT !.batch = {f \in visible : f[1] = cur.order}]
      /\ UNCHANGED <<orders, trades, exch, executed>>
      /\ visible \subseteq executed /\ executed \subseteq FillId
  BY DEF FetchExecutions, CycleIsSound, DemoTypeOK, ReadOnly, exchVars
<1>1. /\ cur'.day = cur.day /\ cur'.trade = cur.trade /\ cur'.order = cur.order
      /\ cur'.caller = cur.caller /\ cur'.batch = {f \in visible : f[1] = cur.order}
  BY <1>0 DEF CurRow
<1>2. Reconciling'
  BY <1>0, <1>1 DEF Reconciling, Entry, Exits
<1>3. (cur.batch \subseteq ExecutionsOf(cur.order))'
  BY <1>0, <1>1 DEF ExecutionsOf
<1>4. CycleIsSound'
  BY <1>0, <1>1, <1>2, <1>3 DEF CycleIsSound, ExecutionsOf
<1>5. cur' \in CurRow
  <2>1. {f \in visible : f[1] = cur.order} \in SUBSET FillId
    BY <1>0
  <2> QED BY <1>0, <2>1 DEF CurRow
<1> QED BY <1>0, <1>4, <1>5, QuietStep DEF PcValue

LEMMA StepApplyNext ==
    ASSUME DemoInv, ApplyNext
    PROVE  DemoInv'
<1> USE DEF DemoInv
<1> DEFINE o == cur.order
<1>0. PICK f \in cur.batch :
        /\ pc = "apply fills" /\ cur \in CurRow /\ cur.day \in Day /\ cur.trade \in Trade
        /\ Reconciling /\ pc' = pc /\ cur' = [cur EXCEPT !.batch = @ \ {f}]
        /\ RecordFill(o, f, FillOf(f))
        /\ UNCHANGED <<trades, risk, exchVars, envVars>> /\ UNCHANGED <<exch, executed>>
        /\ cur.batch \subseteq ExecutionsOf(o)
  BY DEF ApplyNext, CycleIsSound, DemoTypeOK, OnlyOrders, exchVars
<1>1. /\ o \in Order /\ f \in FillId /\ f \in ExecutionsOf(o)
      /\ FillOf(f) = [order |-> o, qty |-> 1, body |-> TheBody]
      /\ 1 \in 1..MaxQty /\ TheBody \in Body
  <2>1. f \in ExecutionsOf(o) /\ f[1] = o /\ f \in FillId
    BY <1>0 DEF ExecutionsOf, DemoTypeOK
  <2>2. o \in Order
    BY <2>1, FillShape
  <2>3. FillOf(f) = [order |-> o, qty |-> 1, body |-> TheBody]
    BY <2>1 DEF FillOf
  <2>4. TheBody \in Body
    BY DemoAssumption DEF TheBody
  <2>5. 1 \in 1..MaxQty
    BY BoundAssumption
  <2> QED BY <2>1, <2>2, <2>3, <2>4, <2>5
<1>2. OrdNext
  BY <1>0, <1>1 DEF OrdNext
<1>3. Standing'
  <2>1. CASE UNCHANGED ordVars
    BY <1>0, <2>1, StandingStays DEF ordVars
  <2>2. CASE ~Recorded(f) /\ ApplyFill(o, f, FillOf(f))
    BY <1>0, <1>1, <2>2, StandingFill
  <2> QED BY <1>0, <2>1, <2>2 DEF RecordFill
<1>4. /\ cur'.day = cur.day /\ cur'.trade = cur.trade /\ cur'.order = cur.order
      /\ cur'.caller = cur.caller /\ cur'.batch \subseteq cur.batch
  BY <1>0 DEF CurRow
<1>5. Reconciling'
  BY <1>0, <1>4 DEF Reconciling, Entry, Exits
<1>6. (cur.batch \subseteq ExecutionsOf(cur.order))'
  BY <1>0, <1>4 DEF ExecutionsOf
<1>7. CycleIsSound'
  BY <1>0, <1>4, <1>5, <1>6 DEF CycleIsSound, ExecutionsOf
<1>8. cur' \in CurRow
  BY <1>0 DEF CurRow
<1>9. pc' \in PcValue /\ pc # "record entry"
  BY <1>0 DEF PcValue
<1> HIDE DEF DemoInv
<1> QED BY <1>0, <1>2, <1>3, <1>7, <1>8, <1>9, OrderStep

(* Where the reconciler returns to, the caller may rely on the same facts.    *)
LEMMA ReturnIsSound ==
    ASSUME DemoInv, pc = "apply fills", Goto(Returns), UNCHANGED trades
    PROVE  CycleIsSound' /\ pc' \in PcValue /\ cur' \in CurRow
<1>0. /\ cur \in CurRow /\ cur.day \in Day /\ cur.trade \in Trade /\ Reconciling /\ cur' = cur
  BY DEF DemoInv, CycleIsSound, DemoTypeOK, Goto
<1>1. CASE cur.caller \in {"new entry", "entry"}
  <2>1. pc' = "entry reconciled"
    BY <1>1 DEF Goto, Returns
  <2>2. Reconciling'
    BY <1>0, <1>1, <2>1 DEF Reconciling, Entry
  <2> QED BY <1>0, <2>1, <2>2 DEF CycleIsSound, PcValue
<1>2. CASE cur.caller \in {"new exit", "exit", "replacement"}
  <2>1. pc' = "exit reconciled"
    BY <1>2 DEF Goto, Returns
  <2>2. Reconciling'
    BY <1>0, <1>2, <2>1 DEF Reconciling, Exits
  <2> QED BY <1>0, <2>1, <2>2 DEF CycleIsSound, PcValue
<1> QED BY <1>0, <1>1, <1>2 DEF Reconciling

LEMMA StepFetchOrder ==
    ASSUME DemoInv, FetchOrder
    PROVE  DemoInv'
<1> USE DEF DemoInv
<1> DEFINE o == cur.order
<1>0. pc = "apply fills" /\ Reconciling /\ cur.trade \in Trade /\ o \in Order
  <2>1. pc = "apply fills" /\ Reconciling /\ cur.trade \in Trade
    <3>1. CycleIsSound
      OBVIOUS
    <3> HIDE DEF DemoInv
    <3> QED BY <3>1 DEF FetchOrder, CycleIsSound
  <2>2. Entry(cur.trade) \in Order /\ Exits(cur.trade) \subseteq Order
    BY <2>1, OrderShape
  <2> HIDE DEF DemoInv
  <2> QED BY <2>1, <2>2 DEF Reconciling
<1>1. CASE ReadOnly /\ EndCycle
  BY <1>0, <1>1, RaiseStep DEF Raise
<1>2. CASE ReadOnly /\ Goto(Returns)
  BY <1>0, <1>2, ReturnIsSound, QuietStep DEF ReadOnly
<1>3. ASSUME OnlyOrders(MarkCanceled(o)), Goto(Returns), exch[o] \in {"Cancelled", "Rejected"},
             orders[o].filled = Cumulative(o)
      PROVE  DemoInv'
  <2> DEFINE row == [orders[o] EXCEPT !.state = "CANCELED"]
  <2>1. /\ UNCHANGED <<trades, risk, exchVars, envVars>> /\ UNCHANGED <<fills, trades, exch, executed>>
        /\ orders' = [orders EXCEPT ![o].state = "CANCELED"]
        /\ orders[o].state \in {"SUBMITTED", "PARTIALLY_FILLED", "CANCELED"}
    BY <1>3 DEF OnlyOrders, MarkCanceled, exchVars
  <2>2. Begun(o) /\ orders[o] \in OrderRow
    BY <1>0, <2>1, BegunHasRow DEF Begun, DemoTypeOK
  <2>3. /\ row \in OrderRow /\ row.state = "CANCELED" /\ row.params = orders[o].params
        /\ row.filled = orders[o].filled /\ orders' = [orders EXCEPT ![o] = row]
    BY <1>0, <2>1, <2>2 DEF OrderRow, OrderState, DemoTypeOK, OrdTypeOK
  <2> HIDE DEF row
  <2>4. Standing'
    BY <1>0, <1>3, <2>1, <2>2, <2>3, StandingRow
  <2>5. OrdNext
    BY <1>0, <1>3 DEF OnlyOrders, OrdNext
  <2> HIDE DEF DemoInv
  <2> QED BY <1>0, <1>3, <2>1, <2>4, <2>5, ReturnIsSound, OrderStep
<1>4. ASSUME OnlyOrders(RecordRejection(o)), Goto(Returns), exch[o] = "Rejected",
             orders[o].filled = Cumulative(o)
      PROVE  DemoInv'
  <2> DEFINE row == [orders[o] EXCEPT !.state = "REJECTED"]
  <2>1. /\ UNCHANGED <<trades, risk, exchVars, envVars>> /\ UNCHANGED <<fills, trades, exch, executed>>
        /\ orders' = [orders EXCEPT ![o].state = "REJECTED"]
        /\ orders[o].state \in {"PENDING_SUBMIT", "SUBMITTED"}
    BY <1>4 DEF OnlyOrders, RecordRejection, exchVars
  <2>2. Begun(o) /\ orders[o] \in OrderRow
    BY <1>0, <2>1, BegunHasRow DEF Begun, DemoTypeOK
  <2>3. /\ row \in OrderRow /\ row.state = "REJECTED" /\ row.params = orders[o].params
        /\ row.filled = orders[o].filled /\ orders' = [orders EXCEPT ![o] = row]
    BY <1>0, <2>1, <2>2 DEF OrderRow, OrderState, DemoTypeOK, OrdTypeOK
  <2> HIDE DEF row
  <2>4. Standing'
    BY <1>0, <1>4, <2>1, <2>2, <2>3, StandingRow
  <2>5. OrdNext
    BY <1>0, <1>4 DEF OnlyOrders, OrdNext
  <2> HIDE DEF DemoInv
  <2> QED BY <1>0, <1>4, <2>1, <2>4, <2>5, ReturnIsSound, OrderStep
<1>5. CASE Lagging
  BY <1>1, <1>2, <1>5 DEF Lagging
<1>6. CASE InAgreement
  BY <1>1, <1>2, <1>3, <1>4, <1>6 DEF InAgreement
<1> QED BY <1>2, <1>5, <1>6 DEF FetchOrder

LEMMA StepEntryReconciled ==
    ASSUME DemoInv, EntryReconciled
    PROVE  DemoInv'
<1> USE DEF DemoInv
<1> DEFINE t == cur.trade
           o == cur.order
<1>0. /\ pc = "entry reconciled" /\ cur \in CurRow /\ cur.day \in Day /\ t \in Trade
      /\ o = Entry(t) /\ trades[t].phase = "ENTRY_SUBMITTED"
  BY DEF EntryReconciled, CycleIsSound, DemoTypeOK, Reconciling
<1>1. /\ o \in Order /\ o[1] = t /\ IsEntry(o)
      /\ trades[t] \in TradeRow /\ RowInv(trades[t]) /\ Active(t)
      /\ trades[t].entryOrder = o /\ trades[t].exitOrder = None /\ ~trades[t].opened
  <2>1. o \in Order /\ o[1] = t /\ IsEntry(o)
    <3>1. t \in Trade /\ o = Entry(t)
      BY <1>0
    <3> HIDE DEF t, o
    <3> QED BY <3>1, OrderShape
  <2>2. /\ trades[t] \in TradeRow /\ RowInv(trades[t])
        /\ trades[t].entryOrder \in {None, Entry(t)} /\ trades[t].exitOrder \in Exits(t) \cup {None}
    BY <1>0, RowSays
  <2>3. trades[t].entryOrder = o /\ trades[t].exitOrder = None /\ ~trades[t].opened
    BY <1>0, <2>2 DEF RowInv
  <2>4. Active(t)
    BY <1>0 DEF Active, ActivePhase, Phase
  <2> QED BY <2>1, <2>2, <2>3, <2>4
<1>2. CASE EndCycle /\ ReadOnly
  BY <1>0, <1>2, RaiseStep DEF Raise
<1>3. CASE orders[o].state = "FILLED" /\ OnlyTrades(MarkOpen(t))
           /\ (Goto("positions") \/ EndCycle)
  <2> DEFINE row == [trades[t] EXCEPT !.phase = "OPEN", !.opened = TRUE]
  <2>1. /\ UNCHANGED <<orders, fills, net, risk, exchVars, envVars>>
        /\ UNCHANGED <<orders, fills, exch, executed>>
        /\ trades' = [trades EXCEPT ![t] = row] /\ StNext
    BY <1>0, <1>3 DEF OnlyTrades, MarkOpen, exchVars, StNext
  <2>2. /\ row.phase = "OPEN" /\ row.opened /\ row.entryOrder = o /\ row.exitOrder = None
        /\ row.day = trades[t].day
    BY <1>1 DEF TradeRow
  <2> HIDE DEF row
  <2>3. trades'[t] = row /\ \A u \in Trade \ {t} : trades'[u] = trades[u]
    BY <1>0, <2>1 DEF StInv, StTypeOK
  <2>4. \A u \in Order : ~Live(u)
    <3>1. ~Live(Entry(t))
      BY <1>0, <1>1, <1>3 DEF Standing, TerminalIsComplete, Terminal, Live
    <3> QED BY <1>0, <1>1, <3>1, NothingLive
  <2>5. NamesOrders(t, row)
    BY <1>0, <1>1, <1>3, <2>2 DEF NamesOrders, Standing, TradesNameOrders, Begun
  <2>6. Standing'
    BY <1>0, <1>1, <2>1, <2>2, <2>4, <2>5, StandingTrade DEF AwaitsLive, Phase
  <2>7. CycleIsSound' /\ pc' \in PcValue /\ cur' \in CurRow
    <3>1. CASE EndCycle
      BY <3>1, EndIsSound
    <3>2. CASE Goto("positions")
      BY <1>0, <2>2, <2>3, <3>2 DEF Goto, CycleIsSound, PcValue
    <3> QED BY <1>3, <3>1, <3>2
  <2>8. \A u \in Trade : /\ trades'[u].phase = "CLOSED" => trades[u].phase = "CLOSED"
                         /\ trades'[u].day = trades[u].day
    BY <2>2, <2>3
  <2> HIDE DEF DemoInv
  <2> QED BY <1>0, <2>1, <2>6, <2>7, <2>8, TradeStep
<1>4. CASE orders[o].state = "REJECTED" /\ orders[o].filled = 0
           /\ OnlyTrades(MarkClosed(t, 0)) /\ EndCycle
  <2> DEFINE row == [trades[t] EXCEPT !.phase = "CLOSED", !.pnl = 0]
  <2>1. /\ UNCHANGED <<orders, fills, net, risk, exch, executed, visible, day, operator, faults>>
        /\ trades' = [trades EXCEPT ![t] = row] /\ StNext
    <3>1. 0 \in Pnl
      BY RiskAssumption
    <3> QED BY <1>0, <1>4, <3>1 DEF OnlyTrades, MarkClosed, exchVars, envVars, StNext
  <2>2. /\ row.phase = "CLOSED" /\ ~row.opened /\ row.entryOrder = o /\ row.exitOrder = None
        /\ row.day = trades[t].day
    BY <1>1 DEF TradeRow
  <2> HIDE DEF row
  <2>3. trades'[t] = row /\ \A u \in Trade \ {t} : trades'[u] = trades[u]
    BY <1>0, <2>1 DEF StInv, StTypeOK
  <2>4. FillsOf(o) = ExecutionsOf(o) /\ ~Live(o)
    BY <1>1, <1>4 DEF Standing, TerminalIsComplete, Terminal, Live
  <2>5. Cumulative(o) = 0
    <3>1. orders[o].filled = Cardinality(FillsOf(o))
      BY <1>1, <1>4 DEF Standing, RecordsAreExecutions, Begun
    <3> QED BY <1>4, <2>4, <3>1 DEF Cumulative
  <2>6. Exposure(t) = 0
    <3>1. Exposure(t) \in Nat /\ Exposure(t) <= Cumulative(Entry(t))
      BY <1>0, RowSays, Counts DEF Standing
    <3>2. Cumulative(Entry(t)) = 0
      BY <1>0, <2>5
    <3> HIDE DEF o, t
    <3> QED BY <3>1, <3>2
  <2>7. \A u \in Order : ~Live(u)
    BY <1>0, <1>1, <2>4, NothingLive
  <2>8. NamesOrders(t, row)
    BY <1>0, <1>1, <1>4, <2>2 DEF NamesOrders, Standing, TradesNameOrders, Begun
  <2>9. Standing'
    BY <1>0, <1>1, <2>1, <2>2, <2>6, <2>7, <2>8, StandingTrade DEF AwaitsLive, ActivePhase, Phase
  <2>10. ClosedBooks'
    <3>1. \A u \in Order : FillsOf(u)' = FillsOf(u) /\ ExecutionsOf(u)' = ExecutionsOf(u)
      BY <2>1, CountsStay DEF FillsOf, Recorded
    <3>2. ASSUME NEW u \in Exits(t) PROVE FillsOf(u) = ExecutionsOf(u)
      <4>1. u \in Order /\ exch[u] = "absent"
        <5>1. exch[u] # "absent" => trades[t].exitOrder # None
          BY <1>0 DEF Standing, TradesNameOrders
        <5> QED BY <1>0, <1>1, <5>1, OrderShape
      <4>2. Cumulative(u) = 0
        BY <4>1 DEF Standing, ExchangeFollows
      <4>3. FillsOf(u) \subseteq ExecutionsOf(u) /\ IsFiniteSet(ExecutionsOf(u))
        BY <4>1, RecordedPart, Counts DEF Standing
      <4>4. ExecutionsOf(u) = {}
        BY <4>2, <4>3, FS_EmptySet DEF Cumulative
      <4> QED BY <4>3, <4>4
    <3>3. ASSUME NEW u \in Order, u[1] = t PROVE FillsOf(u) = ExecutionsOf(u)
      <4>1. u = o \/ u \in Exits(t)
        BY <1>0, <3>3, OrderShape
      <4> QED BY <2>4, <3>2, <4>1
    <3>4. \A u \in Order : u[1] # t /\ trades'[u[1]].phase = "CLOSED" => FillsOf(u) = ExecutionsOf(u)
      BY <2>3, OrderShape DEF ClosedBooks
    <3> QED BY <3>1, <3>3, <3>4 DEF ClosedBooks
  <2>11. EntriesAreCounted'
    BY <1>0, <2>1, <2>2, <2>3, CountStays
  <2>12. OwnTypeOK' /\ CycleIsSound'
    BY <1>4, <2>1, EndIsSound DEF OwnTypeOK, DemoTypeOK
  <2> HIDE DEF DemoInv
  <2> QED BY <2>1, <2>9, <2>10, <2>11, <2>12, Together DEF ordVars
<1> QED BY <1>2, <1>3, <1>4 DEF EntryReconciled

(* The exits of a trade on record are its first ones, so _next_exit_attempt   *)
(* names the one after them.                                                  *)
LEMMA ExitNumbers ==
    ASSUME NEW t \in Trade, NEW k \in Nat
    PROVE  /\ IsFiniteSet({<<t, n>> : n \in 1..k})
           /\ Cardinality({<<t, n>> : n \in 1..k}) = k
<1> DEFINE T == {<<t, n>> : n \in 1..k}
           f == [n \in 1..k |-> <<t, n>>]
<1>1. f \in [1..k -> T]
  OBVIOUS
<1>2. \A a, b \in 1..k : f[a] = f[b] => a = b
  OBVIOUS
<1>3. \A b \in T : \E a \in 1..k : f[a] = b
  OBVIOUS
<1> HIDE DEF T, f
<1>4. f \in Bijection(1..k, T)
  BY <1>1, <1>2, <1>3 DEF Bijection, Injection, Surjection, IsInjective
<1>5. ExistsBijection(1..k, T)
  BY <1>4 DEF ExistsBijection
<1>6. IsFiniteSet(T) /\ Cardinality(T) = k
  BY <1>5, FS_CountingElements, FS_NatBijection
<1> QED BY <1>6 DEF T

LEMMA ExitsOnRecord ==
    ASSUME DemoInv, NEW t \in Trade
    PROVE  /\ IsFiniteSet({o \in Exits(t) : Begun(o)})
           /\ NextExitAttempt(t) \in Nat \ {0}
           /\ \A n \in 1..MaxExits : Begun(<<t, n>>) <=> n < NextExitAttempt(t)
<1>1. PICK k \in 0..MaxExits : \A n \in 1..MaxExits : Begun(<<t, n>>) <=> n <= k
  BY DEF DemoInv, Standing, TradesNameOrders
<1>a. MaxExits \in Nat
  BY DemoAssumption
<1>2. k \in Nat /\ MaxExits \in Nat
  BY <1>a
<1>3. {o \in Exits(t) : Begun(o)} = {<<t, n>> : n \in 1..k}
  <2>1. ASSUME NEW o \in Exits(t), Begun(o) PROVE o \in {<<t, n>> : n \in 1..k}
    <3>1. PICK n \in 1..MaxExits : o = <<t, n>>
      BY DEF Exits
    <3>2. n \in 1..k
      BY <1>1, <1>2, <2>1, <3>1
    <3> QED BY <3>1, <3>2
  <2>2. ASSUME NEW n \in 1..k PROVE <<t, n>> \in Exits(t) /\ Begun(<<t, n>>)
    <3>1. n \in 1..MaxExits /\ n <= k
      BY <1>2
    <3> QED BY <1>1, <3>1 DEF Exits
  <2> QED BY <2>1, <2>2
<1>4. IsFiniteSet({o \in Exits(t) : Begun(o)}) /\ NextExitAttempt(t) = 1 + k
  <2>1. IsFiniteSet({<<t, n>> : n \in 1..k}) /\ Cardinality({<<t, n>> : n \in 1..k}) = k
    BY <1>2, ExitNumbers
  <2> QED BY <1>3, <2>1 DEF NextExitAttempt
<1> QED BY <1>1, <1>2, <1>4

LEMMA Between ==
    ASSUME NEW n \in Nat, NEW a \in Nat, NEW b \in Int, NEW m \in Nat, n <= a, a <= b, b <= m
    PROVE  n \in 0..m
OBVIOUS

(* The position is never larger than what one entry may buy.                  *)
LEMMA PositionFits ==
    ASSUME DemoInv, NEW t \in Trade, Active(t)
    PROVE  Position \in 0..MaxQty /\ (Position # 0 => Position > 0)
<1>1. Position = Exposure(t) /\ Exposure(t) \in Nat
  BY RowSays
<1>2. Exposure(t) <= Cumulative(Entry(t)) /\ Cumulative(Entry(t)) \in Nat
  BY Counts DEF DemoInv, Standing
<1>3. MaxQty \in Nat
  BY BoundAssumption
<1>4. Entry(t) \in Order
  BY OrderShape
<1>5. CASE exch[Entry(t)] = "absent"
  <2>1. Cumulative(Entry(t)) = 0 /\ 0 <= MaxQty /\ 0 \in Int
    BY <1>3, <1>4, <1>5 DEF DemoInv, Standing, ExchangeFollows
  <2> QED BY <1>1, <1>2, <1>3, <2>1, Between
<1>6. CASE exch[Entry(t)] # "absent"
  <2>1. Begun(Entry(t)) /\ Cumulative(Entry(t)) <= orders[Entry(t)].params.qty
    BY <1>4, <1>6 DEF DemoInv, Standing, ExchangeFollows, Begun
  <2>2. orders[Entry(t)].params.qty \in 1..MaxQty
    BY <1>4, <2>1, BegunHasRow DEF DemoInv, DemoTypeOK
  <2>3. orders[Entry(t)].params.qty \in Int /\ orders[Entry(t)].params.qty <= MaxQty
    BY <1>3, <2>2
  <2> QED BY <1>1, <1>2, <1>3, <2>1, <2>3, Between
<1>7. Position # 0 => Position > 0
  BY <1>1
<1> QED BY <1>5, <1>6, <1>7

(* The next exit has a name as long as the bound allows one more.             *)
LEMMA NextExit ==
    ASSUME DemoInv, NEW t \in Trade, NextExitAttempt(t) <= MaxExits
    PROVE  LET o == <<t, NextExitAttempt(t)>> IN
           /\ o \in Exits(t) /\ o \in Order
           /\ \A n \in 1..MaxExits : Begun(<<t, n>>) <=> n < o[2]
<1> DEFINE k == NextExitAttempt(t)
<1>1. k \in Nat \ {0} /\ k <= MaxExits /\ \A n \in 1..MaxExits : Begun(<<t, n>>) <=> n < k
  BY ExitsOnRecord
<1> HIDE DEF k
<1>2. MaxExits \in Nat
  BY DemoAssumption
<1>3. k \in 1..MaxExits
  BY <1>1, <1>2
<1>4. <<t, k>> \in Exits(t) /\ <<t, k>> \in Order /\ <<t, k>>[2] = k
  BY <1>3, OrderShape
<1> QED BY <1>1, <1>4 DEF k

(* What _submit may rely on when an exit is sent for the whole position.      *)
LEMMA SubmitExitIsSound ==
    ASSUME DemoInv, ReadOnly, NEW caller \in {"new exit", "replacement"}, cur.trade \in Trade,
           cur.day \in Day, cur \in CurRow, SubmitExit(cur.trade, caller),
           trades[cur.trade].phase \in {"OPEN", "EXIT_SUBMITTED"},
           \A o \in Order : ~Live(o), Position # 0
    PROVE  CycleIsSound' /\ pc' \in PcValue /\ cur' \in CurRow
<1> DEFINE t == cur.trade
           o == <<t, NextExitAttempt(t)>>
<1>1. /\ UNCHANGED <<orders, trades, exch, executed>> /\ pc' = "begin order"
      /\ cur' = [cur EXCEPT !.order = o, !.caller = caller, !.qty = Position]
      /\ NextExitAttempt(t) <= MaxExits
  BY DEF ReadOnly, exchVars, SubmitExit
<1>2. Position \in 0..MaxQty /\ Position > 0
  <2>1. Active(t)
    BY DEF Active, ActivePhase, Phase
  <2> QED BY <2>1, PositionFits
<1>3. o \in Exits(t) /\ o \in Order /\ \A n \in 1..MaxExits : Begun(<<t, n>>) <=> n < o[2]
  BY <1>1, NextExit
<1> HIDE DEF o
<1>5. /\ cur'.trade = t /\ cur'.day = cur.day /\ cur'.order = o /\ cur'.caller = caller
      /\ cur'.qty = Position
  BY <1>1 DEF CurRow
<1>6. \A n \in 1..MaxExits : Begun(<<cur.trade, n>>)' <=> n < (cur.order[2])'
  BY <1>1, <1>3, <1>5 DEF Begun
<1>7. ExitPath'
  <2>1. /\ (\A u \in Order : ~Live(u))' /\ Position' = Position
        /\ cur'.order \in Exits(cur'.trade)
        /\ trades'[cur'.trade].phase \in {"OPEN", "EXIT_SUBMITTED"}
    BY <1>1, <1>3, <1>5, CountsStay DEF Live
  <2>2. Position' > 0
    BY <1>2, <2>1
  <2> QED BY <1>1, <1>5, <1>6, <2>1, <2>2 DEF ExitPath, Exits
<1>8. CycleIsSound'
  BY <1>1, <1>5, <1>7 DEF CycleIsSound
<1>9. cur' \in CurRow
  BY <1>1, <1>2, <1>3 DEF CurRow, Caller
<1> QED BY <1>1, <1>8, <1>9 DEF PcValue

LEMMA StepReadPosition ==
    ASSUME DemoInv, ReadPosition
    PROVE  DemoInv'
<1> USE DEF DemoInv
<1> DEFINE t == cur.trade
<1>0. /\ pc = "positions" /\ cur \in CurRow /\ cur.day \in Day /\ t \in Trade /\ ReadOnly
      /\ trades[t].phase \in {"OBSERVED", "OPEN"} /\ UNCHANGED trades
  BY DEF ReadPosition, CycleIsSound, DemoTypeOK, ReadOnly
<1>1. CASE Goto("hold mismatch")
  <2>1. CycleIsSound' /\ pc' \in PcValue /\ cur' \in CurRow
    BY <1>0, <1>1 DEF CycleIsSound, Goto, PcValue
  <2> QED BY <1>0, <2>1, QuietStep
<1>2. CASE EndCycle
  BY <1>0, <1>2, RaiseStep DEF Raise
<1>3. CASE Position # 0 /\ trades[t].opened /\ SubmitExit(t, "new exit")
  <2>1. trades[t].phase = "OPEN"
    BY <1>0, <1>3, RowSays DEF RowInv
  <2>2. \A o \in Order : ~Live(o)
    BY <1>0, <2>1, NothingLive DEF Active, ActivePhase, Phase
  <2>3. CycleIsSound' /\ pc' \in PcValue /\ cur' \in CurRow
    BY <1>0, <1>3, <2>1, <2>2, SubmitExitIsSound
  <2> QED BY <1>0, <2>3, QuietStep
<1> QED BY <1>1, <1>2, <1>3 DEF ReadPosition

LEMMA StepExitReconciled ==
    ASSUME DemoInv, ExitReconciled
    PROVE  DemoInv'
<1> USE DEF DemoInv
<1> DEFINE t == cur.trade
           o == cur.order
<1>0. /\ pc = "exit reconciled" /\ cur \in CurRow /\ cur.day \in Day /\ t \in Trade /\ ReadOnly
      /\ trades[t].phase = "EXIT_SUBMITTED" /\ trades[t].exitOrder = o
      /\ cur.caller \in {"new exit", "exit", "replacement"}
      /\ UNCHANGED <<orders, trades, exch, executed>>
  BY DEF ExitReconciled, CycleIsSound, DemoTypeOK, ReadOnly, Reconciling, exchVars
<1>1. CASE Goto("close") /\ Position = 0
  <2>1. CycleIsSound' /\ pc' \in PcValue /\ cur' \in CurRow
    BY <1>0, <1>1, CountsStay DEF CycleIsSound, Goto, PcValue
  <2> QED BY <1>0, <2>1, QuietStep
<1>2. CASE EndCycle
  BY <1>0, <1>2, RaiseStep DEF Raise
<1>3. CASE /\ Position # 0 /\ orders[o].state \in {"CANCELED", "REJECTED"}
           /\ Goto("hold attempts") \/ SubmitExit(t, "replacement")
  <2>1. \A u \in Order : ~Live(u)
    <3>1. o \in Order /\ Active(t)
      BY <1>0, OrderShape DEF Reconciling, CycleIsSound, Active, ActivePhase, Phase
    <3>2. ~Live(o)
      BY <1>3, <3>1 DEF Standing, TerminalIsComplete, Terminal, Live
    <3> QED BY <1>0, <3>1, <3>2, NothingLive
  <2>2. CASE Goto("hold attempts")
    <3>1. CycleIsSound' /\ pc' \in PcValue /\ cur' \in CurRow
      BY <1>0, <2>1, <2>2 DEF CycleIsSound, Goto, PcValue, Live
    <3> QED BY <1>0, <3>1, QuietStep
  <2>3. CASE SubmitExit(t, "replacement")
    <3>1. CycleIsSound' /\ pc' \in PcValue /\ cur' \in CurRow
      BY <1>0, <1>3, <2>1, <2>3, SubmitExitIsSound
    <3> QED BY <1>0, <3>1, QuietStep
  <2> QED BY <1>3, <2>2, <2>3
<1> QED BY <1>0, <1>1, <1>2, <1>3 DEF ExitReconciled

LEMMA StepHold ==
    ASSUME DemoInv, NEW h \in HoldReason, cur.trade \in Trade, OnlyTrades(MarkSafetyHold(cur.trade, h)),
           EndCycle, pc # "record entry", \A o \in Order : ~Live(o)
    PROVE  DemoInv'
<1> DEFINE t == cur.trade
           row == [trades[t] EXCEPT !.phase = "SAFETY_HOLD", !.hold = h]
<1>1. /\ UNCHANGED <<orders, fills, net, risk, exchVars, envVars>>
      /\ UNCHANGED <<orders, fills, exch, executed>>
      /\ trades' = [trades EXCEPT ![t] = row] /\ StNext /\ Active(t)
  BY DEF OnlyTrades, MarkSafetyHold, exchVars, StNext
<1>2. /\ row.phase = "SAFETY_HOLD" /\ row.opened = trades[t].opened /\ row.day = trades[t].day
      /\ row.entryOrder = trades[t].entryOrder /\ row.exitOrder = trades[t].exitOrder
  <2>1. PICK r \in TradeRow : r = trades[t]
    BY RowSays
  <2> QED BY <2>1 DEF TradeRow
<1> HIDE DEF row
<1> USE DEF DemoInv
<1>3. trades'[t] = row /\ \A u \in Trade \ {t} : trades'[u] = trades[u]
  BY <1>1 DEF StInv, StTypeOK
<1>4. NamesOrders(t, row)
  BY <1>2 DEF NamesOrders, Standing, TradesNameOrders
<1>5. Standing'
  BY <1>1, <1>2, <1>4, StandingTrade DEF AwaitsLive, Phase
<1>6. \A u \in Trade : /\ trades'[u].phase = "CLOSED" => trades[u].phase = "CLOSED"
                       /\ trades'[u].day = trades[u].day
  BY <1>2, <1>3
<1> HIDE DEF DemoInv
<1> QED BY <1>1, <1>5, <1>6, EndIsSound, TradeStep

LEMMA StepHoldStep ==
    ASSUME DemoInv, HoldStep
    PROVE  DemoInv'
<1>1. cur.trade \in Trade /\ {"position mismatch", "attempts exhausted"} \subseteq HoldReason
      /\ pc \in {"hold mismatch", "hold attempts"} /\ EndCycle
  BY DemoAssumption DEF HoldStep, DemoInv, CycleIsSound
<1>2. CASE pc = "hold mismatch" /\ OnlyTrades(MarkSafetyHold(cur.trade, "position mismatch"))
  <2>1. trades[cur.trade].phase \in {"OBSERVED", "OPEN"}
    BY <1>2 DEF DemoInv, CycleIsSound
  <2>2. \A o \in Order : ~Live(o)
    BY <1>1, <2>1, NothingLive DEF Active, ActivePhase, Phase
  <2> QED BY <1>1, <1>2, <2>2, StepHold
<1>3. CASE pc = "hold attempts" /\ OnlyTrades(MarkSafetyHold(cur.trade, "attempts exhausted"))
  <2>1. \A o \in Order : ~Live(o)
    BY <1>3 DEF DemoInv, CycleIsSound
  <2> QED BY <1>1, <1>3, <2>1, StepHold
<1> QED BY <1>2, <1>3 DEF HoldStep

(* When the account is flat and the durable exits add up to the durable       *)
(* entry, no execution of any order of the trade is missing from the record.  *)
LEMMA CloseIsComplete ==
    ASSUME DemoInv, NEW t \in Trade, trades[t].phase = "EXIT_SUBMITTED", Position = 0,
           ExitedQuantity(t) = orders[Entry(t)].filled
    PROVE  /\ Exposure(t) = 0
           /\ \A o \in Order : o[1] = t => FillsOf(o) = ExecutionsOf(o)
<1> DEFINE B == {o \in Exits(t) : Begun(o)}
           f == [o \in B |-> orders[o].filled]
           h == [o \in B |-> Cumulative(o)]
<1>0. DemoTypeOK /\ Standing /\ IsFiniteSet(executed) /\ ExecutionsAreNumbered
  BY DEF DemoInv, Standing, ExecutionsAreNumbered
<1>a. Entry(t) \in Order /\ Exits(t) \subseteq Order
  BY OrderShape
<1>b. \A o \in Order : ~Begun(o) => ExecutionsOf(o) = {} /\ FillsOf(o) = {}
  <2> SUFFICES ASSUME NEW o \in Order, ~Begun(o) PROVE ExecutionsOf(o) = {} /\ FillsOf(o) = {}
    OBVIOUS
  <2>1. exch[o] = "absent"
    BY <1>0 DEF Standing, ExchangeFollows, Begun
  <2>2. Cumulative(o) = 0 /\ IsFiniteSet(ExecutionsOf(o))
    BY <1>0, <2>1, Counts DEF Standing, ExchangeFollows
  <2> QED BY <1>0, <2>2, FS_EmptySet, RecordedPart DEF Cumulative
<1>1. Exposure(t) = 0 /\ trades[t].opened
  <2>1. Active(t)
    BY DEF Active, ActivePhase, Phase
  <2> QED BY <2>1, RowSays DEF RowInv
<1>2. /\ FillsOf(Entry(t)) = ExecutionsOf(Entry(t))
      /\ orders[Entry(t)].filled = Cumulative(Entry(t)) /\ Cumulative(Entry(t)) \in Nat
  <2>1. orders[Entry(t)].state = "FILLED"
    BY <1>0, <1>1 DEF Standing, TradesNameOrders
  <2>2. FillsOf(Entry(t)) = ExecutionsOf(Entry(t))
    BY <1>0, <1>a, <2>1 DEF Standing, TerminalIsComplete, Terminal
  <2>3. orders[Entry(t)].filled = Cardinality(FillsOf(Entry(t)))
    BY <1>0, <1>a, <2>1 DEF Standing, RecordsAreExecutions, Begun
  <2> QED BY <1>0, <2>2, <2>3, Counts DEF Cumulative
<1>3. IsFiniteSet(B)
  BY ExitsOnRecord
<1>4. \A o \in B : f[o] \in Int /\ h[o] \in Int /\ f[o] <= h[o] /\ f[o] = Cardinality(FillsOf(o))
  <2> SUFFICES ASSUME NEW o \in Exits(t), Begun(o)
               PROVE  /\ orders[o].filled \in Int /\ Cumulative(o) \in Int
                      /\ orders[o].filled <= Cumulative(o)
                      /\ orders[o].filled = Cardinality(FillsOf(o))
    OBVIOUS
  <2>1. orders[o].filled = Cardinality(FillsOf(o))
    BY <1>0, <1>a DEF Standing, RecordsAreExecutions
  <2> QED BY <1>0, <1>a, <2>1, RecordedPart
<1>5. SumOver(h, B) = Cardinality({e \in executed : e[1] \in B})
  <2>1. \A o \in B : h[o] = Cardinality({e \in executed : e[1] = o})
    BY DEF Cumulative, ExecutionsOf
  <2> HIDE DEF B, h
  <2> QED BY <1>0, <1>3, <2>1, PairsBySum
<1>6. {e \in executed : e[1] \in B} = {e \in executed : e[1] \in Exits(t)}
  <2>1. ASSUME NEW e \in executed, e[1] \in Exits(t) PROVE Begun(e[1])
    <3>1. e \in ExecutionsOf(e[1])
      BY DEF ExecutionsOf
    <3> QED BY <1>a, <1>b, <2>1, <3>1
  <2> QED BY <2>1
<1>7. Exposure(t) = Cumulative(Entry(t)) - Cardinality({e \in executed : e[1] \in Exits(t)})
      /\ Cardinality({e \in executed : e[1] \in Exits(t)}) \in Nat
  <2>1. IsFiniteSet({e \in executed : e[1] \in Exits(t)})
    BY <1>0, FS_Subset
  <2> QED BY <2>1, FS_CardinalityType DEF Exposure, Cumulative, ExecutionsOf
<1>8. SumOver(f, B) = SumOver(h, B)
  <2>1. SumOver(f, B) = ExitedQuantity(t)
    BY DEF ExitedQuantity, SumOf
  <2>2. SumOver(h, B) = Cumulative(Entry(t))
    <3> DEFINE n == Cardinality({e \in executed : e[1] \in Exits(t)})
               c == Cumulative(Entry(t))
               x == Exposure(t)
    <3>1. x = c - n /\ x = 0 /\ c \in Nat /\ n \in Nat /\ SumOver(h, B) = n
      BY <1>1, <1>2, <1>5, <1>6, <1>7
    <3> HIDE DEF n, c, x, h, B
    <3>2. SumOver(h, B) = c
      BY <3>1
    <3> QED BY <3>2 DEF c
  <2> QED BY <1>2, <2>1, <2>2
<1>9. \A o \in B : f[o] = h[o]
  <2> HIDE DEF B, f, h
  <2> QED BY <1>3, <1>4, <1>8, SumMonotone
<1>10. ASSUME NEW o \in Exits(t) PROVE FillsOf(o) = ExecutionsOf(o)
  <2>1. CASE ~Begun(o)
    BY <1>a, <1>b, <2>1
  <2>2. CASE Begun(o)
    <3>1. Cardinality(FillsOf(o)) = Cumulative(o)
      BY <1>4, <1>9, <2>2
    <3> QED BY <1>0, <1>a, <3>1, RecordedPart
  <2> QED BY <2>1, <2>2
<1>11. ASSUME NEW o \in Order, o[1] = t PROVE FillsOf(o) = ExecutionsOf(o)
  <2>1. o = Entry(t) \/ o \in Exits(t)
    BY <1>11, OrderShape
  <2> QED BY <1>2, <1>10, <2>1
<1> QED BY <1>1, <1>11

LEMMA StepClose ==
    ASSUME DemoInv, Close
    PROVE  DemoInv'
<1> DEFINE t == cur.trade
<1>0. /\ pc = "close" /\ cur \in CurRow /\ cur.day \in Day /\ t \in Trade
      /\ trades[t].phase = "EXIT_SUBMITTED" /\ Position = 0 /\ Active(t)
  <2>1. /\ pc = "close" /\ cur \in CurRow /\ cur.day \in Day /\ t \in Trade
        /\ trades[t].phase = "EXIT_SUBMITTED" /\ Position = 0
    BY DEF Close, DemoInv, CycleIsSound, DemoTypeOK
  <2> QED BY <2>1 DEF Active, ActivePhase, Phase
<1>1. \A o \in Order : ~Live(o)
  BY <1>0, NothingLive
<1>2. CASE OnlyTrades(MarkSafetyHold(t, "flat mismatch")) /\ EndCycle
  <2>1. "flat mismatch" \in HoldReason
    BY DemoAssumption
  <2> QED BY <1>0, <1>1, <1>2, <2>1, StepHold
<1>3. ASSUME ExitedQuantity(t) = orders[Entry(t)].filled, NEW p \in Pnl,
             OnlyTrades(MarkClosed(t, p)), Goto("record close")
      PROVE  DemoInv'
  <2> DEFINE row == [trades[t] EXCEPT !.phase = "CLOSED", !.pnl = p]
  <2>1. /\ UNCHANGED <<orders, fills, net, risk, exch, executed, visible, day, operator, faults, cur>>
        /\ trades' = [trades EXCEPT ![t] = row] /\ StNext /\ pc' = "record close"
    BY <1>0, <1>3 DEF OnlyTrades, MarkClosed, exchVars, envVars, StNext, Goto
  <2>2. /\ row.phase = "CLOSED" /\ row.opened = trades[t].opened /\ row.day = trades[t].day
        /\ row.entryOrder = trades[t].entryOrder /\ row.exitOrder = trades[t].exitOrder
    BY <1>0, RowSays DEF TradeRow
  <2> HIDE DEF row
  <2>3. trades'[t] = row /\ \A u \in Trade \ {t} : trades'[u] = trades[u]
    BY <1>0, <2>1 DEF DemoInv, StInv, StTypeOK
  <2>4. /\ Exposure(t) = 0
        /\ \A o \in Order : o[1] = t => FillsOf(o) = ExecutionsOf(o)
    BY <1>0, <1>3, CloseIsComplete
  <2>5. NamesOrders(t, row)
    BY <1>0, <2>2 DEF NamesOrders, DemoInv, Standing, TradesNameOrders
  <2>6. Standing'
    BY <1>0, <1>1, <2>1, <2>2, <2>4, <2>5, StandingTrade DEF DemoInv, AwaitsLive, ActivePhase, Phase
  <2>7. ClosedBooks'
    <3>1. \A u \in Order : FillsOf(u)' = FillsOf(u) /\ ExecutionsOf(u)' = ExecutionsOf(u)
      BY <2>1, CountsStay DEF FillsOf, Recorded
    <3>2. \A u \in Order : u[1] # t /\ trades'[u[1]].phase = "CLOSED" => FillsOf(u) = ExecutionsOf(u)
      BY <2>3, OrderShape DEF DemoInv, ClosedBooks
    <3> QED BY <2>4, <3>1, <3>2 DEF ClosedBooks
  <2>8. EntriesAreCounted'
    BY <1>0, <2>1, <2>2, <2>3, CountStays
  <2>9. OwnTypeOK'
    BY <2>1 DEF OwnTypeOK, DemoInv, DemoTypeOK, PcValue
  <2>10. CycleIsSound'
    BY <1>0, <2>1 DEF CycleIsSound
  <2> QED BY <2>1, <2>6, <2>7, <2>8, <2>9, <2>10, Together DEF ordVars
<1> QED BY <1>2, <1>3 DEF Close

LEMMA StepRecordClose ==
    ASSUME DemoInv, RecordCloseStep
    PROVE  DemoInv'
<1> DEFINE t == cur.trade
           p == trades[t].pnl
<1>0. pc = "record close" /\ cur.day \in Day /\ t \in Trade
  BY DEF RecordCloseStep, DemoInv, CycleIsSound
<1>1. p \in Pnl
  BY <1>0, RowSays DEF TradeRow
<1>2. /\ UNCHANGED <<orders, fills, net, trades, exchVars, envVars>>
      /\ RecordClose(cur.day, p) /\ EndCycle
      /\ UNCHANGED <<orders, fills, trades, exch, executed>>
  BY DEF RecordCloseStep, OnlyTrades, RecordClose, exchVars
<1> HIDE DEF p
<1>3. StNext
  BY <1>0, <1>1, <1>2 DEF StNext
<1>4. Standing'
  BY <1>2, StandingStays DEF DemoInv
<1>5. \A d \in Day : risk'[d].entries = risk[d].entries
  <2> DEFINE row == [risk[cur.day] EXCEPT !.known = TRUE, !.pnl = risk[cur.day].pnl + p,
                        !.kill = risk[cur.day].kill \/ risk[cur.day].pnl + p <= -LossLimit,
                        !.cooling = TRUE]
  <2>1. risk' = [risk EXCEPT ![cur.day] = row] /\ risk \in [Day -> DayRow]
    BY <1>2 DEF RecordClose, DemoInv, StInv, StTypeOK
  <2>2. row.entries = risk[cur.day].entries
    BY <1>0, <2>1 DEF DayRow
  <2> HIDE DEF row
  <2> QED BY <1>0, <2>1, <2>2
<1>6. \A u \in Trade : /\ trades'[u].phase = "CLOSED" => trades[u].phase = "CLOSED"
                       /\ trades'[u].day = trades[u].day
  BY <1>2
<1> QED BY <1>0, <1>2, <1>3, <1>4, <1>5, <1>6, EndIsSound, TradeStep

-----------------------------------------------------------------------------
(* The steps of the exchange, of the operator, of time and of faults.  None   *)
(* takes from a cycle what it relies on.                                      *)
LEMMA CycleStays ==
    ASSUME DemoInv, UNCHANGED <<orders, trades, pc, cur>>,
           \A d \in Day : Authorized(d) => Authorized(d)',
           \A u \in Order : /\ exch'[u] = "absent" <=> exch[u] = "absent"
                            /\ Live(u)' => Live(u)
                            /\ ExecutionsOf(u) \subseteq ExecutionsOf(u)',
           UNCHANGED executed \/ \E o \in Order : Live(o)
    PROVE  CycleIsSound'
<1>a. CycleIsSound
  BY DEF DemoInv
<1>1. (\A o \in Order : ~Live(o)) => (\A o \in Order : ~Live(o))' /\ Position' = Position
  BY CountsStay
<1>2. pc = "close" => UNCHANGED executed
  <2> SUFFICES ASSUME pc = "close", NEW o \in Order, Live(o) PROVE FALSE
    OBVIOUS
  <2>1. cur.trade \in Trade /\ trades[cur.trade].phase = "EXIT_SUBMITTED" /\ Position = 0
    BY <1>a DEF CycleIsSound
  <2>2. Active(cur.trade)
    BY <2>1 DEF Active, ActivePhase, Phase
  <2> QED BY <2>1, <2>2, NothingLive
<1>3. pc = "close" => Position' = Position
  BY <1>2, CountsStay
<1>4. EntryPath /\ pc # "idle" => EntryPath'
  <2>1. pc # "idle" => cur.day \in Day
    BY <1>a DEF CycleIsSound
  <2>2. pc # "idle" /\ Authorized(cur.day) => Authorized(cur.day)'
    BY <2>1 DEF Authorized
  <2> QED BY <2>2 DEF EntryPath, Entry, Begun
<1>5. ExitPath => ExitPath'
  BY <1>1 DEF ExitPath, Exits, Begun
<1>6. Reconciling => Reconciling'
  BY DEF Reconciling, Entry, Exits
<1>7. pc = "place" => exch'[cur.order] = "absent"
  BY <1>a, PathOrder DEF CycleIsSound
<1>8. pc = "apply fills" => (cur.batch \subseteq ExecutionsOf(cur.order))'
  <2> SUFFICES ASSUME pc = "apply fills" PROVE (cur.batch \subseteq ExecutionsOf(cur.order))'
    OBVIOUS
  <2>1. cur.order \in Order /\ cur.batch \subseteq ExecutionsOf(cur.order)
    <3>1. /\ cur.trade \in Trade /\ cur.batch \subseteq ExecutionsOf(cur.order)
          /\ cur.order = Entry(cur.trade) \/ cur.order \in Exits(cur.trade)
      BY <1>a DEF CycleIsSound, Reconciling
    <3>2. Entry(cur.trade) \in Order /\ Exits(cur.trade) \subseteq Order
      BY <3>1, OrderShape
    <3> QED BY <3>1, <3>2
  <2>2. ExecutionsOf(cur.order) \subseteq ExecutionsOf(cur.order)'
    BY <2>1 DEF ExecutionsOf
  <2> QED BY <2>1, <2>2
<1>9. pc = "begin trade" => Authorized(cur.day)'
  BY <1>a DEF CycleIsSound, Authorized
<1>10. ActiveTrades' = ActiveTrades
  BY DEF ActiveTrades, Active
<1>11. CycleIsSound => CycleIsSound'
  <2> HIDE DEF DemoInv
  <2>1. (/\ pc # "idle" => cur.day \in Day
         /\ pc \notin {"idle", "exposure", "open orders"} => cur.trade \in Trade
         /\ pc \in {"authorize", "begin trade"} =>
               cur.caller = "new entry" /\ cur.order = Entry(cur.trade) /\ cur.qty = MaxQty
         /\ pc = "write ahead" => orders[cur.order].state = "PENDING_SUBMIT"
         /\ pc \in {"positions", "hold mismatch"} => trades[cur.trade].phase \in {"OBSERVED", "OPEN"})'
    BY <1>a DEF CycleIsSound
  <2>2. (pc \in {"exposure", "open orders", "authorize", "begin trade"} => ActiveTrades = {})'
    BY <1>a, <1>10 DEF CycleIsSound
  <2>3. (pc \in {"begin order", "mark order", "write ahead", "place", "record entry"} => EntryPath \/ ExitPath)'
    BY <1>a, <1>4, <1>5 DEF CycleIsSound
  <2>4. (pc = "place" =>
            /\ orders[cur.order].state = "SUBMITTED"
            /\ orders[cur.order].attempts = 1
            /\ exch[cur.order] = "absent")'
    BY <1>a, <1>7 DEF CycleIsSound
  <2>5. (pc \in {"fetch executions", "apply fills", "entry reconciled", "exit reconciled"} => Reconciling)'
    BY <1>a, <1>6 DEF CycleIsSound
  <2>6. (pc = "hold attempts" => trades[cur.trade].phase = "EXIT_SUBMITTED" /\ \A o \in Order : ~Live(o))'
    BY <1>a, <1>1 DEF CycleIsSound
  <2>7. (pc = "close" => trades[cur.trade].phase = "EXIT_SUBMITTED" /\ Position = 0)'
    BY <1>a, <1>3 DEF CycleIsSound
  <2>8. (pc = "apply fills" => cur.batch \subseteq ExecutionsOf(cur.order))' /\ (pc = "begin trade" => Authorized(cur.day))'
    BY <1>8, <1>9
  <2> QED BY <2>1, <2>2, <2>3, <2>4, <2>5, <2>6, <2>7, <2>8 DEF CycleIsSound
<1> QED BY <1>a, <1>11

LEMMA StepExecute ==
    ASSUME DemoInv, NEW o \in Order, Execute(o)
    PROVE  DemoInv'
<1>0. /\ DemoTypeOK /\ StInv /\ Standing /\ ExecutionsAreNumbered /\ ExchangeFollows
      /\ Live(o) /\ UNCHANGED <<orders, fills, net, trades, risk, visible, pc, cur, day, operator, faults>>
      /\ exch' = [exch EXCEPT ![o] = IF Cumulative(o) + 1 = orders[o].params.qty
                                     THEN "Filled" ELSE "PartiallyFilled"]
      /\ executed' = executed \cup {<<o, Cumulative(o) + 1>>}
  BY DEF Execute, DemoInv, Standing, procVars, envVars
<1>1. Standing'
  BY <1>0, StandingExecute
<1>2. /\ ExecutionsOf(o) \subseteq ExecutionsOf(o)'
      /\ \A u \in Order \ {o} : ExecutionsOf(u)' = ExecutionsOf(u)
  BY <1>0, ExecuteCounts
<1>3. \A u \in Order : /\ exch'[u] = "absent" <=> exch[u] = "absent"
                       /\ Live(u)' => Live(u)
  BY <1>0 DEF DemoTypeOK, Live
<1>4. CycleIsSound'
  <2>1. \A d \in Day : Authorized(d) => Authorized(d)'
    BY <1>0 DEF Authorized
  <2>2. \A u \in Order : ExecutionsOf(u) \subseteq ExecutionsOf(u)'
    BY <1>2
  <2> QED BY <1>0, <1>3, <2>1, <2>2, CycleStays
<1>5. ClosedBooks'
  <2>1. trades[o[1]].phase # "CLOSED"
    BY <1>0 DEF Standing, LiveIsAwaited
  <2>2. \A u \in Order : trades'[u[1]].phase = "CLOSED" =>
           trades[u[1]].phase = "CLOSED" /\ ExecutionsOf(u)' = ExecutionsOf(u)
    BY <1>0, <1>2, <2>1
  <2>3. \A f \in FillId : Recorded(f) => fills'[f] = fills[f]
    BY <1>0
  <2> QED BY <1>1, <2>2, <2>3, ClosedBooksStay DEF DemoInv
<1>6. EntriesAreCounted'
  BY <1>0, <1>3, OrderShape, CountStays
<1>7. OwnTypeOK'
  <2>1. <<o, Cumulative(o) + 1>> \in FillId
    <3>1. Begun(o) /\ Cumulative(o) < orders[o].params.qty
      BY <1>0 DEF ExchangeFollows, Begun, Live
    <3>2. orders[o].params.qty \in 1..MaxQty /\ Cumulative(o) \in Nat
      BY <1>0, <3>1, Counts, BegunHasRow DEF DemoTypeOK
    <3>3. MaxQty \in Nat
      BY BoundAssumption
    <3>4. Cumulative(o) + 1 \in 1..MaxQty
      BY <3>1, <3>2, <3>3
    <3> QED BY <3>4, FillShape
  <2>2. exch' \in [Order -> {"absent", "New", "PartiallyFilled", "Filled", "Cancelled", "Rejected"}]
    BY <1>0 DEF DemoTypeOK
  <2> QED BY <1>0, <2>1, <2>2 DEF OwnTypeOK, DemoTypeOK
<1> QED BY <1>0, <1>1, <1>4, <1>5, <1>6, <1>7, Together DEF ordVars, stVars

(* A step of the exchange or of the operator that writes neither store.       *)
LEMMA OutsideStep ==
    ASSUME DemoInv, UNCHANGED <<orders, fills, net, trades, risk, executed, pc, cur, faults>>,
           \A u \in Order : /\ exch'[u] = "absent" <=> exch[u] = "absent"
                            /\ Live(u)' => Live(u),
           Standing', OwnTypeOK'
    PROVE  DemoInv'
<1>1. CycleIsSound'
  <2>1. \A d \in Day : Authorized(d) => Authorized(d)'
    BY DEF Authorized
  <2>2. \A u \in Order : ExecutionsOf(u) \subseteq ExecutionsOf(u)'
    BY CountsStay
  <2> QED BY <2>1, <2>2, CycleStays
<1>2. ClosedBooks'
  BY CountsStay DEF DemoInv, ClosedBooks, FillsOf, Recorded
<1>3. EntriesAreCounted'
  BY OrderShape, CountStays
<1> QED BY <1>1, <1>2, <1>3, Together DEF ordVars, stVars

LEMMA StepEndEarly ==
    ASSUME DemoInv, NEW o \in Order, EndEarly(o)
    PROVE  DemoInv'
<1>1. PICK s \in {"Cancelled", "Rejected"} : exch' = [exch EXCEPT ![o] = s]
  BY DEF EndEarly
<1>2. /\ Live(o)
      /\ UNCHANGED <<orders, fills, net, trades, risk, executed, visible, pc, cur, day, operator, faults>>
  BY DEF EndEarly, procVars, envVars
<1>3. DemoTypeOK /\ Standing
  BY DEF DemoInv
<1>4. Standing'
  BY <1>1, <1>2, <1>3, StandingExchange
<1>5. \A u \in Order : /\ exch'[u] = "absent" <=> exch[u] = "absent"
                       /\ Live(u)' => Live(u)
  BY <1>1, <1>2, <1>3 DEF DemoTypeOK, Live
<1>6. OwnTypeOK'
  BY <1>1, <1>2, <1>3 DEF DemoTypeOK, OwnTypeOK
<1> QED BY <1>2, <1>4, <1>5, <1>6, OutsideStep

LEMMA StepPublish ==
    ASSUME DemoInv, NEW f \in FillId, Publish(f)
    PROVE  DemoInv'
<1>1. /\ UNCHANGED <<orders, fills, net, trades, risk, exch, executed, pc, cur, day, operator, faults>>
      /\ visible' = visible \cup {f} /\ f \in executed
  BY DEF Publish, procVars, envVars
<1>2. Standing'
  BY <1>1, StandingStays DEF DemoInv
<1>3. OwnTypeOK'
  BY <1>1 DEF DemoInv, DemoTypeOK, OwnTypeOK
<1> QED BY <1>1, <1>2, <1>3, OutsideStep DEF Live

LEMMA StepOperatorLooks ==
    ASSUME DemoInv, OperatorLooks
    PROVE  DemoInv'
<1>1. /\ UNCHANGED <<orders, fills, net, trades, risk, exch, executed, visible, pc, cur, day, faults>>
      /\ operator' = "flat"
  BY DEF OperatorLooks, exchVars, procVars
<1>2. Standing'
  BY <1>1, StandingStays DEF DemoInv
<1>3. OwnTypeOK'
  BY <1>1 DEF DemoInv, DemoTypeOK, OwnTypeOK
<1> QED BY <1>1, <1>2, <1>3, OutsideStep DEF Live

LEMMA StepNextDay ==
    ASSUME DemoInv, NextDay
    PROVE  DemoInv'
<1>1. /\ UNCHANGED <<orders, fills, net, trades, risk, exch, executed, visible, pc, cur, operator, faults>>
      /\ day' \in Day
  BY DEF NextDay, exchVars, procVars
<1>2. Standing'
  BY <1>1, StandingStays DEF DemoInv
<1>3. OwnTypeOK'
  BY <1>1 DEF DemoInv, DemoTypeOK, OwnTypeOK
<1> QED BY <1>1, <1>2, <1>3, OutsideStep DEF Live

LEMMA StepCoolDown ==
    ASSUME DemoInv, CoolDown
    PROVE  DemoInv'
<1>1. PICK d \in Day : CooldownElapses(d)
  BY DEF CoolDown
<1>2. /\ UNCHANGED <<orders, fills, net, trades, exch, executed, visible, pc, cur, day, operator, faults>>
      /\ risk' = [risk EXCEPT ![d] = [risk[d] EXCEPT !.cooling = FALSE]]
      /\ risk \in [Day -> DayRow]
  BY <1>1 DEF CoolDown, CooldownElapses, exchVars, procVars, envVars, DemoInv, StInv, StTypeOK
<1>3. \A e \in Day : /\ risk'[e].entries = risk[e].entries /\ risk'[e].kill = risk[e].kill
                     /\ risk'[e].pnl = risk[e].pnl
                     /\ risk'[e].cooling => risk[e].cooling
  <2>1. \A e \in Day \ {d} : risk'[e] = risk[e]
    BY <1>2
  <2>2. /\ risk'[d].entries = risk[d].entries /\ risk'[d].kill = risk[d].kill
        /\ risk'[d].pnl = risk[d].pnl /\ ~risk'[d].cooling
    <3>1. risk'[d] = [risk[d] EXCEPT !.cooling = FALSE] /\ risk[d] \in DayRow
      BY <1>2
    <3> QED BY <3>1 DEF DayRow
  <2> QED BY <2>1, <2>2
<1>4. StNext
  BY <1>1 DEF StNext
<1>5. Standing'
  BY <1>2, StandingStays DEF DemoInv
<1>6. CycleIsSound'
  <2>1. \A e \in Day : Authorized(e) => Authorized(e)'
    BY <1>3 DEF Authorized
  <2>2. \A u \in Order : ExecutionsOf(u) \subseteq ExecutionsOf(u)'
    BY <1>2, CountsStay
  <2> QED BY <1>2, <2>1, <2>2, CycleStays DEF Live
<1>7. ClosedBooks'
  BY <1>2, CountsStay DEF DemoInv, ClosedBooks, FillsOf, Recorded
<1>8. EntriesAreCounted'
  BY <1>2, <1>3, CountStays
<1>9. OwnTypeOK'
  BY <1>2 DEF DemoInv, DemoTypeOK, OwnTypeOK
<1> QED BY <1>2, <1>4, <1>5, <1>6, <1>7, <1>8, <1>9, Together DEF ordVars

LEMMA StepFault ==
    ASSUME DemoInv, Fault
    PROVE  DemoInv'
<1>1. /\ UNCHANGED <<orders, fills, net, trades, risk, exch, executed, visible, day, operator>>
      /\ faults' = faults + 1 /\ faults < MaxFaults /\ EndCycle
  BY DEF Fault, exchVars
<1>2. Standing'
  BY <1>1, StandingStays DEF DemoInv
<1>3. ClosedBooks'
  BY <1>1, CountsStay DEF DemoInv, ClosedBooks, FillsOf, Recorded
<1>4. faults' \in 0..MaxFaults /\ faults' # 0
  <2>1. MaxFaults \in Nat
    BY DemoAssumption
  <2>2. faults \in 0..MaxFaults
    BY DEF DemoInv, DemoTypeOK
  <2> QED BY <1>1, <2>1, <2>2
<1>5. EntriesAreCounted'
  BY <1>4 DEF EntriesAreCounted
<1>6. OwnTypeOK' /\ CycleIsSound'
  BY <1>1, <1>4, EndIsSound DEF DemoInv, DemoTypeOK, OwnTypeOK
<1> QED BY <1>1, <1>2, <1>3, <1>5, <1>6, Together DEF ordVars, stVars

LEMMA StepOperatorClears ==
    ASSUME DemoInv, OperatorClears
    PROVE  DemoInv'
<1>0. /\ UNCHANGED <<orders, fills, net, exch, executed, visible, pc, cur, day, faults>>
      /\ operator' = "idle"
  BY DEF OperatorClears, exchVars, procVars
<1>1. CASE UNCHANGED <<trades, risk>>
  <2>1. Standing'
    BY <1>0, <1>1, StandingStays DEF DemoInv
  <2>2. OwnTypeOK'
    BY <1>0, <1>1 DEF DemoInv, DemoTypeOK, OwnTypeOK
  <2> QED BY <1>0, <1>1, <2>1, <2>2, OutsideStep DEF Live
<1>2. ASSUME NEW t \in Trade, CloseUnsubmittedHold(t) PROVE DemoInv'
  <2> DEFINE row == [trades[t] EXCEPT !.phase = "CLOSED", !.pnl = 0, !.exitReason = Cleared]
  <2>1. /\ trades[t].phase = "SAFETY_HOLD" /\ trades[t].entryOrder = None
        /\ ~trades[t].opened /\ trades[t].exitOrder = None
        /\ trades' = [trades EXCEPT ![t] = row] /\ UNCHANGED risk /\ StNext /\ Active(t)
    BY <1>2 DEF CloseUnsubmittedHold, StNext, Active, ActivePhase, Phase
  <2>2. /\ row.phase = "CLOSED" /\ ~row.opened /\ row.day = trades[t].day
        /\ row.entryOrder = None /\ row.exitOrder = None
    BY <2>1, RowSays DEF TradeRow
  <2> HIDE DEF row
  <2>3. trades'[t] = row /\ \A u \in Trade \ {t} : trades'[u] = trades[u]
    BY <2>1 DEF DemoInv, StInv, StTypeOK
  <2>4. \A o \in Order : o[1] = t => exch[o] = "absent"
    <3> SUFFICES ASSUME NEW o \in Order, o[1] = t PROVE exch[o] = "absent"
      OBVIOUS
    <3>1. Entry(t) \in Order /\ None \notin Order
      BY OrderShape, RowSays
    <3>2. exch[Entry(t)] # "absent" => trades[t].entryOrder = Entry(t)
      BY DEF DemoInv, Standing, TradesNameOrders
    <3>3. \A u \in Exits(t) : exch[u] # "absent" => trades[t].exitOrder # None
      BY DEF DemoInv, Standing, TradesNameOrders
    <3>4. o = Entry(t) \/ o \in Exits(t)
      BY OrderShape
    <3> QED BY <2>1, <3>1, <3>2, <3>3, <3>4
  <2>5. \A o \in Order : o[1] = t => Cumulative(o) = 0 /\ ExecutionsOf(o) = {} /\ FillsOf(o) = {}
    <3> SUFFICES ASSUME NEW o \in Order, o[1] = t
                 PROVE  Cumulative(o) = 0 /\ ExecutionsOf(o) = {} /\ FillsOf(o) = {}
      OBVIOUS
    <3>1. Cumulative(o) = 0
      BY <2>4 DEF DemoInv, Standing, ExchangeFollows
    <3>2. FillsOf(o) \subseteq ExecutionsOf(o) /\ IsFiniteSet(ExecutionsOf(o))
      BY RecordedPart, Counts DEF DemoInv, Standing
    <3>3. ExecutionsOf(o) = {}
      BY <3>1, <3>2, FS_EmptySet DEF Cumulative
    <3> QED BY <3>1, <3>2, <3>3
  <2>6. Exposure(t) = 0
    <3>1. Exposure(t) \in Nat /\ Exposure(t) <= Cumulative(Entry(t))
      BY RowSays, Counts DEF DemoInv, Standing
    <3>2. Cumulative(Entry(t)) = 0
      BY <2>5, OrderShape
    <3> QED BY <3>1, <3>2
  <2>7. NamesOrders(t, row)
    <3>1. Entry(t) \in Order /\ Entry(t)[1] = t /\ \A u \in Exits(t) : u \in Order /\ u[1] = t
      BY OrderShape
    <3> QED BY <2>2, <2>4, <3>1 DEF NamesOrders
  <2>8. AwaitsLive(t, row)
    BY <2>4 DEF AwaitsLive, Live
  <2>9. Standing'
    BY <1>0, <2>1, <2>2, <2>6, <2>7, <2>8, StandingTrade DEF DemoInv, ActivePhase, Phase
  <2>10. ClosedBooks'
    <3>1. \A u \in Order : FillsOf(u)' = FillsOf(u) /\ ExecutionsOf(u)' = ExecutionsOf(u)
      BY <1>0, CountsStay DEF FillsOf, Recorded
    <3>2. \A u \in Order : u[1] # t /\ trades'[u[1]].phase = "CLOSED" => FillsOf(u) = ExecutionsOf(u)
      BY <2>3, OrderShape DEF DemoInv, ClosedBooks
    <3> QED BY <2>5, <3>1, <3>2 DEF ClosedBooks
  <2>11. EntriesAreCounted'
    BY <1>0, <2>1, <2>2, <2>3, CountStays
  <2>12. OwnTypeOK'
    BY <1>0 DEF DemoInv, DemoTypeOK, OwnTypeOK
  <2>13. CycleIsSound'
    <3>a. CycleIsSound /\ ActiveTrades # {} /\ Position' = Position
          /\ \A u \in Order : Live(u)' <=> Live(u)
      BY <1>0, <2>1, CountsStay DEF DemoInv, ActiveTrades, Live
    <3>b. pc \notin {"exposure", "open orders", "authorize", "begin trade"}
      BY <3>a DEF CycleIsSound
    <3>c. trades[cur.trade] # trades'[cur.trade] /\ cur.trade \in Trade => cur.trade = t
      BY <2>3
    <3>d. EntryPath /\ pc # "idle" /\ cur.trade \in Trade => EntryPath'
      <4>1. Authorized(cur.day) => Authorized(cur.day)'
        BY <1>0, <2>1 DEF Authorized
      <4> QED BY <1>0, <2>1, <2>2, <2>3, <3>c, <4>1 DEF EntryPath, Entry, Begun
    <3>e. ExitPath /\ cur.trade \in Trade
            /\ pc \in {"begin order", "mark order", "write ahead", "place", "record entry"} => ExitPath'
      <4> SUFFICES ASSUME ExitPath, cur.trade \in Trade,
                          pc \in {"begin order", "mark order", "write ahead", "place", "record entry"}
                   PROVE  ExitPath'
        OBVIOUS
      <4>1. cur.trade # t
        BY <2>1 DEF ExitPath
      <4>2. trades'[cur.trade] = trades[cur.trade]
        BY <2>3, <4>1
      <4> QED BY <1>0, <3>a, <4>2 DEF ExitPath, Exits, Begun
    <3>f. Reconciling /\ cur.trade \in Trade => Reconciling'
      <4> SUFFICES ASSUME Reconciling, cur.trade \in Trade PROVE Reconciling'
        OBVIOUS
      <4>1. trades'[cur.trade] = trades[cur.trade]
        BY <2>1, <2>3 DEF Reconciling
      <4> QED BY <1>0, <4>1 DEF Reconciling, Entry, Exits
    <3>g. (cur.batch \subseteq ExecutionsOf(cur.order)) => (cur.batch \subseteq ExecutionsOf(cur.order))'
      BY <1>0 DEF ExecutionsOf
    <3> QED BY <1>0, <2>1, <3>a, <3>b, <3>c, <3>d, <3>e, <3>f, <3>g DEF CycleIsSound
  <2> QED BY <1>0, <2>1, <2>9, <2>10, <2>11, <2>12, <2>13, Together DEF ordVars
<1> QED BY <1>1, <1>2 DEF OperatorClears

-----------------------------------------------------------------------------
LEMMA DemoInductive == DemoInv /\ [DemoNext]_demoVars => DemoInv'
<1> SUFFICES ASSUME DemoInv, [DemoNext]_demoVars PROVE DemoInv'
  OBVIOUS
<1>1. CASE UNCHANGED demoVars
  <2>1. Standing' /\ OwnTypeOK'
    BY <1>1, StandingStays DEF demoVars, DemoInv, DemoTypeOK, OwnTypeOK
  <2> QED BY <1>1, <2>1, OutsideStep DEF demoVars, Live
<1>2. CASE Executor
  <2>1. CASE StartNoTrade \/ \E t \in Trade : StartActive(t)
    BY <2>1, StepStart
  <2>2. CASE ReadPositions \/ ReadOpenOrders
    BY <2>2, StepExposure
  <2>3. CASE AuthorizeStep \/ BeginTradeStep
    BY <2>3, StepAuthorize, StepBeginTrade
  <2>4. CASE BeginOrderStep \/ MarkOrderStep \/ WriteAhead
    BY <2>4, StepBeginOrder, StepMarkOrder, StepWriteAhead
  <2>5. CASE Place \/ RecordEntryStep
    BY <2>5, StepPlace, StepRecordEntry
  <2>6. CASE FetchExecutions \/ ApplyNext \/ FetchOrder
    BY <2>6, StepFetchExecutions, StepApplyNext, StepFetchOrder
  <2>7. CASE EntryReconciled \/ ReadPosition \/ ExitReconciled
    BY <2>7, StepEntryReconciled, StepReadPosition, StepExitReconciled
  <2>8. CASE HoldStep \/ Close \/ RecordCloseStep
    BY <2>8, StepHoldStep, StepClose, StepRecordClose
  <2> QED BY <1>2, <2>1, <2>2, <2>3, <2>4, <2>5, <2>6, <2>7, <2>8 DEF Executor
<1>3. CASE \E o \in Order : Execute(o) \/ EndEarly(o)
  BY <1>3, StepExecute, StepEndEarly
<1>4. CASE \E f \in FillId : Publish(f)
  BY <1>4, StepPublish
<1>5. CASE OperatorLooks \/ OperatorClears
  BY <1>5, StepOperatorLooks, StepOperatorClears
<1>6. CASE NextDay \/ CoolDown \/ Fault
  BY <1>6, StepNextDay, StepCoolDown, StepFault
<1> QED BY <1>1, <1>2, <1>3, <1>4, <1>5, <1>6 DEF DemoNext

LEMMA DemoStarts == DemoInit => DemoInv
<1> SUFFICES ASSUME DemoInit PROVE DemoInv
  OBVIOUS
<1>1. OrdInv
  BY DEF DemoInit, OrdInit, OrdInv, OrdTypeOK, StateMatchesFilled, SubmittedWasAttempted,
         FillsHaveSubmittedOrders, Begun, Recorded, AbsentRow
<1>2. StInv
  BY RiskAssumption DEF DemoInit, StInit, StInv, StTypeOK, OneActiveTrade, OrdersAreNotShared,
     Active, ActivePhase, RowInv, DayInv, NoTrade, NoDay, TradeRow, DayRow, Phase
<1>3. DemoTypeOK
  <2>1. NoCycle \in CurRow
    BY BoundAssumption DEF NoCycle, CurRow
  <2>2. 0 \in 0..MaxFaults
    <3>1. MaxFaults \in Nat
      BY DemoAssumption
    <3> QED BY <3>1
  <2> QED BY <1>1, <1>2, <2>1, <2>2 DEF DemoInit, DemoTypeOK, OrdInv, StInv, PcValue
<1>4. /\ executed = {} /\ \A o \in Order : exch[o] = "absent" /\ orders[o] = AbsentRow
      /\ \A f \in FillId : ~Recorded(f)
      /\ \A t \in Trade : trades[t] = NoTrade
  BY DEF DemoInit, OrdInit, StInit, Recorded
<1>5. /\ \A o : ExecutionsOf(o) = {} /\ Cumulative(o) = 0
      /\ \A t : Exposure(t) = 0
      /\ Position = 0
  <2>1. Cardinality({}) = 0
    BY FS_EmptySet
  <2>2. \A o : ExecutionsOf(o) = {} /\ Cumulative(o) = 0
    BY <1>4, <2>1 DEF ExecutionsOf, Cumulative
  <2>3. ASSUME NEW t PROVE Exposure(t) = 0
    <3>1. {f \in executed : f[1] = Entry(t)} = {} /\ {f \in executed : f[1] \in Exits(t)} = {}
      BY <1>4
    <3> QED BY <2>1, <3>1 DEF Exposure
  <2>4. Position = 0
    <3>1. {f \in executed : IsEntry(f[1])} = {} /\ {f \in executed : ~IsEntry(f[1])} = {}
      BY <1>4
    <3>2. /\ Cardinality({f \in executed : IsEntry(f[1])}) = 0
          /\ Cardinality({f \in executed : ~IsEntry(f[1])}) = 0
      BY <2>1, <3>1
    <3> QED BY <3>2 DEF Position
  <2> QED BY <2>2, <2>3, <2>4
<1>6. \A o \in Order : ~Begun(o) /\ FillsOf(o) = {} /\ ~Live(o)
  BY <1>4 DEF Begun, AbsentRow, FillsOf, Live
<1>7. Standing
  <2>1. ExecutionsAreNumbered
    <3>1. IsFiniteSet(executed)
      BY <1>4, FS_EmptySet
    <3>2. \A k \in 1..MaxQty : ~(k <= 0)
      BY BoundAssumption
    <3> QED BY <1>4, <1>5, <3>1, <3>2 DEF ExecutionsAreNumbered
  <2>2. ExchangeFollows /\ LiveIsAwaited
    BY <1>4, <1>5, <1>6 DEF ExchangeFollows, LiveIsAwaited
  <2>3. RecordsAreExecutions
    BY <1>4, <1>6 DEF RecordsAreExecutions, AbsentRow
  <2>4. TradesNameOrders
    <3>1. \A t \in Trade : \A n \in 1..MaxExits : ~Begun(<<t, n>>) /\ ~(n <= 0)
      <4>1. \A t \in Trade : \A n \in 1..MaxExits : <<t, n>> \in Order
        BY OrderShape
      <4>2. MaxExits \in Nat
        BY DemoAssumption
      <4>3. \A n \in 1..MaxExits : ~(n <= 0)
        BY <4>2
      <4> QED BY <1>6, <4>1, <4>3
    <3>2. 0 \in 0..MaxExits
      <4>1. MaxExits \in Nat
        BY DemoAssumption
      <4> QED BY <4>1
    <3>3. \A t \in Trade : \E k \in 0..MaxExits : \A n \in 1..MaxExits : Begun(<<t, n>>) <=> n <= k
      BY <3>1, <3>2
    <3>4. \A t \in Trade : ~Begun(Entry(t)) /\ exch[Entry(t)] = "absent"
                           /\ \A o \in Exits(t) : exch[o] = "absent"
      BY <1>4, <1>6, OrderShape
    <3> QED BY <1>4, <3>3, <3>4 DEF TradesNameOrders, NoTrade
  <2>5. PositionIsOwned
    BY <1>4, <1>5 DEF PositionIsOwned
  <2>6. TerminalIsComplete
    BY <1>4 DEF TerminalIsComplete, AbsentRow, Terminal
  <2> QED BY <2>1, <2>2, <2>3, <2>4, <2>5, <2>6 DEF Standing
<1>8. ClosedBooks
  BY <1>5, <1>6 DEF ClosedBooks
<1>9. CycleIsSound
  BY DEF DemoInit, CycleIsSound
<1>10. EntriesAreCounted
  <2> SUFFICES ASSUME NEW d \in Day
               PROVE  /\ IsFiniteSet(SentOn(d))
                      /\ Cardinality(SentOn(d))
                            <= risk[d].entries + IF pc = "record entry" /\ cur.day = d THEN 1 ELSE 0
    BY DEF EntriesAreCounted
  <2>1. SentOn(d) = {}
    BY <1>4, OrderShape DEF SentOn
  <2>2. IsFiniteSet(SentOn(d)) /\ Cardinality(SentOn(d)) = 0
    BY <2>1, FS_EmptySet
  <2>3. risk[d].entries = 0 /\ pc = "idle"
    BY DEF DemoInit, StInit, NoDay
  <2> QED BY <2>2, <2>3
<1> QED BY <1>1, <1>2, <1>3, <1>7, <1>8, <1>9, <1>10 DEF DemoInv

(* Every reachable state satisfies the inductive invariant.                   *)
THEOREM DemoInvariant == DemoSpec => []DemoInv
BY DemoStarts, DemoInductive, PTL DEF DemoSpec

(* Every fault, day change and answer of the exchange included, the stores,   *)
(* the exchange and the local variables of advance() keep their types.        *)
THEOREM DemoTypeCorrect == DemoSpec => []DemoTypeOK
BY DemoInvariant, PTL DEF DemoInv

-----------------------------------------------------------------------------
LEMMA SentIsOnRecord == DemoInv => SentOnceOnRecord
<1> SUFFICES ASSUME DemoInv PROVE SentOnceOnRecord
  OBVIOUS
<1>1. ASSUME NEW o \in Order, exch[o] # "absent"
      PROVE  /\ orders[o].state \notin {"ABSENT", "PENDING_SUBMIT"}
             /\ IF IsEntry(o) THEN trades[o[1]].entryOrder = o ELSE trades[o[1]].exitOrder # None
  <2>1. orders[o].state \notin {"ABSENT", "PENDING_SUBMIT"}
    BY <1>1 DEF DemoInv, Standing, ExchangeFollows
  <2>2. o[1] \in Trade /\ (IsEntry(o) => o = Entry(o[1])) /\ (~IsEntry(o) => o \in Exits(o[1]))
    BY OrderShape
  <2> QED BY <1>1, <2>1, <2>2 DEF DemoInv, Standing, TradesNameOrders
<1>2. NeverResent
  BY DEF DemoInv, CycleIsSound, NeverResent
<1> QED BY <1>1, <1>2 DEF SentOnceOnRecord, WriteAheadHolds

(* _submit writes the order and the trade row ahead of the network call, so   *)
(* that whatever fault ends a cycle, what reached the exchange is on record,  *)
(* and no later cycle ever offers the same orderLinkId again.                 *)
THEOREM SentOnceOnRecordAlways == DemoSpec => []SentOnceOnRecord
BY DemoInvariant, SentIsOnRecord, PTL

-----------------------------------------------------------------------------
LEMMA ExposureHasOwner == DemoInv => ExposureIsOwned
<1> SUFFICES ASSUME DemoInv, NEW t \in Trade,
                    Exposure(t) # 0 \/ (\E o \in Order : o[1] = t /\ Live(o))
             PROVE  /\ Active(t)
                    /\ trades[t].phase # "OBSERVED"
                    /\ trades[t].entryOrder = Entry(t)
  BY DEF ExposureIsOwned
<1>1. CASE Exposure(t) # 0
  <2>1. trades[t].phase \notin {"ABSENT", "OBSERVED", "CLOSED"}
    BY <1>1 DEF DemoInv, Standing, PositionIsOwned
  <2>2. Active(t)
    BY <2>1, RowSays
  <2>3. Exposure(t) \in Nat /\ Exposure(t) <= Cumulative(Entry(t)) /\ Cumulative(Entry(t)) \in Nat
    BY RowSays, Counts DEF DemoInv, Standing
  <2>4. Cumulative(Entry(t)) # 0
    BY <1>1, <2>3
  <2>5. exch[Entry(t)] # "absent"
    BY <2>4, OrderShape DEF DemoInv, Standing, ExchangeFollows
  <2> QED BY <2>1, <2>2, <2>5, RowSays
<1>2. ASSUME NEW o \in Order, o[1] = t, Live(o)
      PROVE  /\ Active(t)
             /\ trades[t].phase # "OBSERVED"
             /\ trades[t].entryOrder = Entry(t)
  <2>1. trades[t].phase \in {"ENTRY_SUBMITTED", "EXIT_SUBMITTED"}
    BY <1>2 DEF DemoInv, Standing, LiveIsAwaited
  <2>2. trades[t].entryOrder \in {None, Entry(t)} /\ trades[t].entryOrder # None
    BY <2>1, RowSays DEF RowInv
  <2> QED BY <2>1, <2>2 DEF Active, ActivePhase, Phase
<1> QED BY <1>1, <1>2

(* What is open or running at the exchange always belongs to the trade that   *)
(* holds the slot, so the refusal of "unowned Demo exposure" never meets the  *)
(* executor's own orders, and the clearing script never gives the slot away   *)
(* over one.                                                                  *)
THEOREM ExposureIsAlwaysOwned == DemoSpec => []ExposureIsOwned
BY DemoInvariant, ExposureHasOwner, PTL

-----------------------------------------------------------------------------
LEMMA LimitHolds == DemoInv => DailyTradeLimit
<1> SUFFICES ASSUME DemoInv, faults = 0, NEW d \in Day PROVE Cardinality(SentOn(d)) <= MaxTrades
  BY DEF DailyTradeLimit
<1>1. /\ IsFiniteSet(SentOn(d))
      /\ Cardinality(SentOn(d)) <= risk[d].entries + IF pc = "record entry" /\ cur.day = d THEN 1 ELSE 0
  BY DEF DemoInv, EntriesAreCounted
<1>2. Cardinality(SentOn(d)) \in Nat
  BY <1>1, FS_CardinalityType
<1>3. risk[d].entries \in Nat /\ risk[d].entries <= MaxTrades
  BY DayCounts DEF DemoInv
<1>4. MaxTrades \in Nat
  BY RiskAssumption
<1>5. CASE pc = "record entry" /\ cur.day = d
  <2>1. Authorized(d)
    BY <1>5 DEF DemoInv, CycleIsSound, EntryPath, ExitPath
  <2>2. risk[d].entries < MaxTrades /\ Cardinality(SentOn(d)) <= risk[d].entries + 1
    BY <1>1, <1>5, <2>1 DEF Authorized
  <2> QED BY <1>2, <1>3, <1>4, <2>2
<1>6. CASE ~(pc = "record entry" /\ cur.day = d)
  <2>1. Cardinality(SentOn(d)) <= risk[d].entries + 0
    BY <1>1, <1>6
  <2> QED BY <1>2, <1>3, <1>4, <2>1
<1> QED BY <1>5, <1>6

(* maximum_trades_per_utc_day: as long as no fault strikes between an entry   *)
(* and its count, no UTC day sees more entries sent than the limit, for the   *)
(* authorization read before the trade begins still stands when it is sent.   *)
THEOREM DailyTradeLimitAlways == DemoSpec => []DailyTradeLimit
BY DemoInvariant, LimitHolds, PTL

-----------------------------------------------------------------------------
LEMMA ExitsFit == DemoInv => ExitFitsPosition
<1> SUFFICES ASSUME DemoInv, NEW t \in Trade
             PROVE  SumOf([o \in {u \in Exits(t) : Live(u)} |-> orders[o].params.qty - Cumulative(o)])
                      <= Exposure(t)
  BY DEF ExitFitsPosition
<1> DEFINE inFlight == {u \in Exits(t) : Live(u)}
           f == [o \in inFlight |-> orders[o].params.qty - Cumulative(o)]
<1>1. SumOf(f) = SumOver(f, inFlight)
  BY DEF SumOf
<1>2. CASE inFlight = {}
  <2>1. SumOf(f) = 0
    <3> HIDE DEF inFlight, f
    <3> QED BY <1>1, <1>2, SumEmpty
  <2>2. Exposure(t) \in Nat
    BY RowSays
  <2> QED BY <2>1, <2>2
<1>3. CASE inFlight # {}
  <2>1. PICK o \in Exits(t) : Live(o)
    BY <1>3
  <2>2. o \in Order /\ o[1] = t /\ ~IsEntry(o)
    BY OrderShape
  <2>3. inFlight = {o}
    BY <2>1, <2>2, OneLive, OrderShape DEF DemoInv
  <2>4. orders[o].params.qty - Cumulative(o) = Position /\ Position = Exposure(t)
    BY <2>1, <2>2, OneLive DEF DemoInv, Standing, LiveIsAwaited
  <2>5. f[o] = Exposure(t)
    BY <2>1, <2>4
  <2>6. Exposure(t) \in Nat
    BY RowSays
  <2>7. SumOf(f) = Exposure(t)
    <3> HIDE DEF inFlight, f
    <3>1. f[o] \in Int
      BY <2>5, <2>6
    <3> QED BY <1>1, <2>3, <2>5, <3>1, SumOne
  <2> QED BY <2>6, <2>7
<1> QED BY <1>2, <1>3

(* A replacement exit is sized from the position the executor read, and is    *)
(* sent only once the exit before it ended: whatever the exchange fills in    *)
(* between, what is still to be executed never exceeds the position.          *)
THEOREM ExitAlwaysFitsPosition == DemoSpec => []ExitFitsPosition
BY DemoInvariant, ExitsFit, PTL

-----------------------------------------------------------------------------
LEMMA DoneHasBooks == DemoInv => DoneIsComplete
<1> SUFFICES ASSUME DemoInv PROVE DoneIsComplete
  OBVIOUS
<1>1. TerminalIsComplete
  BY DEF DemoInv, Standing
<1>2. ASSUME NEW t \in Trade, trades[t].phase = "CLOSED"
      PROVE  /\ Exposure(t) = 0
             /\ \A o \in Order : o[1] = t => ~Live(o) /\ FillsOf(o) = ExecutionsOf(o)
  <2>1. Exposure(t) = 0
    BY <1>2 DEF DemoInv, Standing, PositionIsOwned
  <2>2. ASSUME NEW o \in Order, o[1] = t PROVE ~Live(o) /\ FillsOf(o) = ExecutionsOf(o)
    BY <1>2, <2>2 DEF DemoInv, Standing, LiveIsAwaited, ClosedBooks
  <2> QED BY <2>1, <2>2
<1> QED BY <1>1, <1>2 DEF DoneIsComplete, ClosedIsFlat

(* The reconciler marks an order terminal only after it ingested every        *)
(* execution the exchange will ever report of it, and _close and the clearing *)
(* script close a trade only flat and on complete books, whatever was filled  *)
(* late, lagged in the feed or was interrupted.                               *)
THEOREM DoneIsAlwaysComplete == DemoSpec => []DoneIsComplete
BY DemoInvariant, DoneHasBooks, PTL

-----------------------------------------------------------------------------
(***************************************************************************)
(* The refinement of TradeSlot.                                              *)
(***************************************************************************)
Stages == [t \in Trade |-> StageOf(t)]
Exposures == [t \in Trade |-> Exposure(t)]
Sent == [t \in Trade |-> exch[Entry(t)] # "absent"]

ExposureFits == \A t \in Trade : Exposure(t) \in 0..MaxQty

StageOfPhase(p) ==
    CASE p = "ABSENT" -> "free"
      [] p = "CLOSED" -> "done"
      [] p = "SAFETY_HOLD" -> "held"
      [] OTHER -> "working"

LEMMA SlotIsMapped ==
    /\ Slot!slotVars = <<Stages, Exposures, Sent>>
    /\ Slot!slotVars' = <<Stages', Exposures', Sent'>>
    /\ \A t : StageOf(t) = StageOfPhase(trades[t].phase)
    /\ \A t : StageOf(t)' = StageOfPhase(trades'[t].phase)
BY DEF Slot!slotVars, Stages, Exposures, Sent, StageOf, StageOfPhase, Entry

LEMMA ExposureIsBounded == DemoInv => ExposureFits
<1> SUFFICES ASSUME DemoInv, NEW t \in Trade PROVE Exposure(t) \in 0..MaxQty
  BY DEF ExposureFits
<1>1. CASE Active(t)
  <2>1. Position = Exposure(t) /\ Position \in 0..MaxQty
    BY <1>1, RowSays, PositionFits
  <2> QED BY <2>1
<1>2. CASE ~Active(t)
  <2>1. trades[t].phase \in {"ABSENT", "CLOSED"}
    BY <1>2, RowSays
  <2>2. Exposure(t) = 0
    BY <2>1 DEF DemoInv, Standing, PositionIsOwned
  <2>3. 0 \in 0..MaxQty
    BY BoundAssumption
  <2> QED BY <2>2, <2>3
<1> QED BY <1>1, <1>2

(* A step that rewrites one row of the trades table, as TradeSlot sees it.    *)
LEMMA SlotRow ==
    ASSUME DemoInv, NEW t \in Trade, NEW row, trades' = [trades EXCEPT ![t] = row],
           UNCHANGED <<exch, executed>>
    PROVE  /\ Stages' = [Stages EXCEPT ![t] = StageOfPhase(row.phase)]
           /\ UNCHANGED <<Exposures, Sent>>
           /\ Stages[t] = StageOfPhase(trades[t].phase)
           /\ StageOfPhase(row.phase) = Stages[t] => UNCHANGED Slot!slotVars
<1>1. trades'[t] = row /\ \A u \in Trade \ {t} : trades'[u] = trades[u]
  BY DEF DemoInv, StInv, StTypeOK
<1>2. \A u \in Trade : /\ StageOf(u)' = IF u = t THEN StageOfPhase(row.phase) ELSE StageOf(u)
                       /\ StageOf(u) = StageOfPhase(trades[u].phase)
  BY <1>1, SlotIsMapped
<1>3. Stages' = [Stages EXCEPT ![t] = StageOfPhase(row.phase)] /\ Stages[t] = StageOf(t)
  BY <1>2 DEF Stages
<1>4. UNCHANGED <<Exposures, Sent>>
  BY CountsStay DEF Exposures, Sent, Entry
<1>5. StageOfPhase(row.phase) = Stages[t] => Stages' = Stages
  BY <1>3 DEF Stages
<1> QED BY <1>2, <1>3, <1>4, <1>5, SlotIsMapped

(* A step that touches neither the trades nor the exchange's orders.          *)
LEMMA SlotStays ==
    ASSUME UNCHANGED <<trades, exch, executed>>
    PROVE  UNCHANGED Slot!slotVars
<1>1. Stages' = Stages /\ Exposures' = Exposures /\ Sent' = Sent
  BY CountsStay DEF Stages, Exposures, Sent, Entry, StageOf
<1> QED BY <1>1, SlotIsMapped

LEMMA SlotBeginTrade ==
    ASSUME DemoInv, BeginTradeStep
    PROVE  [Slot!SlotNext]_(Slot!slotVars)
<1> DEFINE t == cur.trade
<1>1. t \in Trade /\ ActiveTrades = {} /\ UNCHANGED <<exch, executed>>
  BY DEF BeginTradeStep, DemoInv, CycleIsSound, OnlyTrades, Raise, ReadOnly, exchVars
<1>2. CASE UNCHANGED trades
  BY <1>1, <1>2, SlotStays
<1>3. CASE BeginTrade(t, cur.day) /\ ~UNCHANGED trades
  <2> DEFINE row == [trades[t] EXCEPT !.phase = "OBSERVED", !.day = cur.day]
  <2>1. trades[t].phase = "ABSENT" /\ trades' = [trades EXCEPT ![t] = row]
    BY <1>3 DEF BeginTrade, Exists
  <2>2. row.phase = "OBSERVED"
    BY <1>1, RowSays DEF TradeRow
  <2> HIDE DEF row
  <2>3. /\ Stages' = [Stages EXCEPT ![t] = "working"] /\ UNCHANGED <<Exposures, Sent>>
        /\ Stages[t] = "free"
    BY <1>1, <2>1, <2>2, SlotRow DEF StageOfPhase
  <2>4. \A u \in Trade : Stages[u] \notin {"working", "held"}
    <3>1. \A u \in Trade : trades[u].phase \in {"ABSENT", "CLOSED"}
      BY <1>1, RowSays DEF ActiveTrades
    <3> QED BY <3>1, SlotIsMapped DEF Stages, StageOfPhase
  <2> HIDE DEF t
  <2>5. Slot!Take(t)
    BY <2>3, <2>4 DEF Slot!Take, Slot!Holds, Stages, Exposures, Sent
  <2> QED BY <1>1, <2>5 DEF Slot!SlotNext
<1> QED BY <1>2, <1>3 DEF BeginTradeStep, OnlyTrades, Raise, ReadOnly

LEMMA SlotMarkOrder ==
    ASSUME DemoInv, MarkOrderStep
    PROVE  UNCHANGED Slot!slotVars
<1> DEFINE t == cur.trade
           o == cur.order
<1>1. t \in Trade /\ UNCHANGED <<exch, executed>>
  BY DEF MarkOrderStep, DemoInv, CycleIsSound, OnlyTrades, Raise, ReadOnly, exchVars
<1>2. CASE UNCHANGED trades
  BY <1>1, <1>2, SlotStays
<1>3. CASE MarkEntrySubmitted(t, o)
  <2> DEFINE row == [trades[t] EXCEPT !.phase = "ENTRY_SUBMITTED", !.entryOrder = o]
  <2>1. trades[t].phase \in {"OBSERVED", "ENTRY_SUBMITTED"} /\ trades' = [trades EXCEPT ![t] = row]
    BY <1>3 DEF MarkEntrySubmitted
  <2>2. row.phase = "ENTRY_SUBMITTED"
    BY <1>1, RowSays DEF TradeRow
  <2> HIDE DEF row
  <2>3. StageOfPhase(row.phase) = StageOfPhase(trades[t].phase)
    BY <2>1, <2>2 DEF StageOfPhase
  <2> QED BY <1>1, <2>1, <2>3, SlotRow
<1>4. ASSUME NEW r \in Reason, MarkExitSubmitted(t, o, r) PROVE UNCHANGED Slot!slotVars
  <2> DEFINE row == [trades[t] EXCEPT !.phase = "EXIT_SUBMITTED", !.exitOrder = o, !.exitReason = r]
  <2>1. trades[t].phase \in {"OPEN", "EXIT_SUBMITTED"} /\ trades' = [trades EXCEPT ![t] = row]
    BY <1>4 DEF MarkExitSubmitted
  <2>2. row.phase = "EXIT_SUBMITTED"
    BY <1>1, RowSays DEF TradeRow
  <2> HIDE DEF row
  <2>3. StageOfPhase(row.phase) = StageOfPhase(trades[t].phase)
    BY <2>1, <2>2 DEF StageOfPhase
  <2> QED BY <1>1, <2>1, <2>3, SlotRow
<1> QED BY <1>2, <1>3, <1>4 DEF MarkOrderStep, OnlyTrades, Raise, ReadOnly

LEMMA SlotPlace ==
    ASSUME DemoInv, Place
    PROVE  [Slot!SlotNext]_(Slot!slotVars)
<1> DEFINE t == cur.trade
           o == cur.order
<1>a. t \in Trade /\ pc = "place" /\ exch[o] = "absent"
  BY DEF Place, DemoInv, CycleIsSound
<1>c. exch' = [exch EXCEPT ![o] = "New"] /\ UNCHANGED <<trades, executed>>
  BY DEF Place
<1>d. exch \in [Order -> {"absent", "New", "PartiallyFilled", "Filled", "Cancelled", "Rejected"}]
  BY DEF DemoInv, DemoTypeOK
<1>b. EntryPath \/ ExitPath
  BY <1>a DEF DemoInv, CycleIsSound
<1>1. /\ t \in Trade /\ pc = "place"
      /\ exch[o] = "absent" /\ exch' = [exch EXCEPT ![o] = "New"]
      /\ UNCHANGED <<trades, executed>> /\ exch \in [Order ->
            {"absent", "New", "PartiallyFilled", "Filled", "Cancelled", "Rejected"}]
  BY <1>a, <1>c, <1>d
<1>2. /\ o \in Order /\ o[1] = t
      /\ EntryPath => o = Entry(t) /\ IsEntry(o)
      /\ ExitPath => o \in Exits(t) /\ ~IsEntry(o)
  BY <1>a, <1>b, PathOrder
<1>3. Stages' = Stages /\ Exposures' = Exposures
  BY <1>1, CountsStay DEF Stages, Exposures, StageOf
<1>4. \A u \in Order : exch'[u] # "absent" <=> exch[u] # "absent" \/ u = o
  BY <1>1, <1>2
<1>5. CASE EntryPath
  <2>1. \A u \in Trade : Entry(u) \in Order /\ (Entry(u) = o <=> u = t)
    BY <1>2, <1>5, OrderShape
  <2>2. \A u \in Trade : (exch'[Entry(u)] # "absent") = (IF u = t THEN TRUE ELSE exch[Entry(u)] # "absent")
    BY <1>4, <2>1
  <2>3. Sent' = [Sent EXCEPT ![t] = TRUE]
    BY <1>1, <2>2 DEF Sent, Entry
  <2>4. ~Sent[t]
    BY <1>1, <1>2, <1>5 DEF Sent
  <2>5. Stages[t] = "working"
    <3>1. trades[t].phase = "ENTRY_SUBMITTED"
      BY <1>a, <1>5 DEF EntryPath
    <3>2. StageOf(t) = StageOfPhase("ENTRY_SUBMITTED")
      BY <3>1, SlotIsMapped
    <3> QED BY <1>a, <3>2 DEF Stages, StageOfPhase
  <2> HIDE DEF t
  <2>6. Slot!Send(t)
    BY <1>3, <2>3, <2>4, <2>5 DEF Slot!Send, Stages, Exposures, Sent
  <2> QED BY <1>a, <2>6 DEF Slot!SlotNext
<1>6. CASE ExitPath
  <2>1. \A u \in Trade : Entry(u) \in Order /\ Entry(u) # o
    BY <1>2, <1>6, OrderShape
  <2>2. \A u \in Trade : (exch'[Entry(u)] # "absent") = (exch[Entry(u)] # "absent")
    BY <1>4, <2>1
  <2>3. Sent' = Sent
    BY <2>2 DEF Sent, Entry
  <2> QED BY <1>3, <2>3, SlotIsMapped
<1> QED BY <1>b, <1>5, <1>6

(* A trade is closed only after its entry was sent, and flat.                 *)
LEMMA SlotClosed ==
    ASSUME DemoInv, DemoInv', NEW t \in Trade, NEW p \in Pnl, MarkClosed(t, p),
           UNCHANGED <<exch, executed>>, trades[t].phase \in {"ENTRY_SUBMITTED", "EXIT_SUBMITTED"},
           exch[Entry(t)] # "absent"
    PROVE  [Slot!SlotNext]_(Slot!slotVars)
<1> DEFINE row == [trades[t] EXCEPT !.phase = "CLOSED", !.pnl = p]
<1>1. trades' = [trades EXCEPT ![t] = row]
  BY DEF MarkClosed
<1>2. row.phase = "CLOSED"
  BY RowSays DEF TradeRow
<1> HIDE DEF row
<1>3. /\ Stages' = [Stages EXCEPT ![t] = "done"] /\ UNCHANGED <<Exposures, Sent>>
      /\ Stages[t] = "working"
  BY <1>1, <1>2, SlotRow DEF StageOfPhase
<1>4. Exposure(t) = 0
  <2>1. trades'[t].phase = "CLOSED"
    BY <1>1, <1>2 DEF DemoInv, StInv, StTypeOK
  <2>2. Exposure(t)' = 0
    BY <2>1 DEF DemoInv, Standing, PositionIsOwned
  <2> QED BY <2>2, CountsStay
<1>5. Sent[t] /\ Exposures[t] = 0
  BY <1>4 DEF Sent, Exposures
<1>6. Slot!Finish(t)
  BY <1>3, <1>5 DEF Slot!Finish, Stages, Exposures, Sent
<1> QED BY <1>6 DEF Slot!SlotNext

LEMMA SlotEntryReconciled ==
    ASSUME DemoInv, DemoInv', EntryReconciled
    PROVE  [Slot!SlotNext]_(Slot!slotVars)
<1> DEFINE t == cur.trade
           o == cur.order
<1>1. /\ t \in Trade /\ UNCHANGED <<exch, executed>>
      /\ o = Entry(t) /\ trades[t].phase = "ENTRY_SUBMITTED"
  BY DEF EntryReconciled, DemoInv, CycleIsSound, Reconciling, OnlyTrades, ReadOnly, exchVars
<1>2. CASE UNCHANGED trades
  BY <1>1, <1>2, SlotStays
<1>3. CASE MarkOpen(t)
  <2> DEFINE row == [trades[t] EXCEPT !.phase = "OPEN", !.opened = TRUE]
  <2>1. trades' = [trades EXCEPT ![t] = row]
    BY <1>3 DEF MarkOpen
  <2>2. row.phase = "OPEN"
    BY <1>1, RowSays DEF TradeRow
  <2> HIDE DEF row
  <2>3. StageOfPhase(row.phase) = StageOfPhase(trades[t].phase)
    BY <1>1, <2>2 DEF StageOfPhase
  <2> QED BY <1>1, <2>1, <2>3, SlotRow
<1>4. CASE orders[o].state = "REJECTED" /\ MarkClosed(t, 0)
  <2>1. o \in Order
    BY <1>1, OrderShape
  <2>2. exch[o] # "absent"
    BY <1>4, <2>1 DEF DemoInv, Standing, TerminalIsComplete, Terminal
  <2>3. 0 \in Pnl
    BY RiskAssumption
  <2> QED BY <1>1, <1>4, <2>2, <2>3, SlotClosed
<1> QED BY <1>2, <1>3, <1>4 DEF EntryReconciled, OnlyTrades, ReadOnly

LEMMA SlotHold ==
    ASSUME DemoInv, NEW t \in Trade, NEW h \in HoldReason, MarkSafetyHold(t, h),
           trades[t].phase \notin {"SAFETY_HOLD"}, UNCHANGED <<exch, executed>>
    PROVE  [Slot!SlotNext]_(Slot!slotVars)
<1> DEFINE row == [trades[t] EXCEPT !.phase = "SAFETY_HOLD", !.hold = h]
<1>1. trades' = [trades EXCEPT ![t] = row] /\ Active(t)
  BY DEF MarkSafetyHold
<1>2. row.phase = "SAFETY_HOLD"
  BY RowSays DEF TradeRow
<1> HIDE DEF row
<1>3. StageOfPhase(trades[t].phase) = "working"
  BY <1>1 DEF Active, ActivePhase, Phase, StageOfPhase
<1>4. /\ Stages' = [Stages EXCEPT ![t] = "held"] /\ UNCHANGED <<Exposures, Sent>>
      /\ Stages[t] = "working"
  BY <1>1, <1>2, <1>3, SlotRow DEF StageOfPhase
<1>5. Slot!Hold(t)
  BY <1>4 DEF Slot!Hold, Stages, Exposures, Sent
<1> QED BY <1>5 DEF Slot!SlotNext

LEMMA SlotClose ==
    ASSUME DemoInv, DemoInv', HoldStep \/ Close
    PROVE  [Slot!SlotNext]_(Slot!slotVars)
<1> DEFINE t == cur.trade
<1>0. {"position mismatch", "attempts exhausted", "flat mismatch"} \subseteq HoldReason
  BY DemoAssumption
<1>1. CASE HoldStep
  <2>1. /\ t \in Trade /\ trades[t].phase # "SAFETY_HOLD" /\ UNCHANGED <<exch, executed>>
        /\ \E h \in HoldReason : MarkSafetyHold(t, h)
    BY <1>0, <1>1 DEF HoldStep, DemoInv, CycleIsSound, OnlyTrades, exchVars
  <2> QED BY <2>1, SlotHold
<1>2. CASE Close
  <2>1. /\ t \in Trade /\ trades[t].phase = "EXIT_SUBMITTED" /\ UNCHANGED <<exch, executed>>
        /\ MarkSafetyHold(t, "flat mismatch") \/ \E p \in Pnl : MarkClosed(t, p)
    <3>1. pc = "close" /\ CycleIsSound
      BY <1>2 DEF Close, DemoInv
    <3>2. t \in Trade /\ trades[t].phase = "EXIT_SUBMITTED"
      BY <3>1 DEF CycleIsSound
    <3> QED BY <1>2, <3>2 DEF Close, OnlyTrades, exchVars
  <2>2. CASE MarkSafetyHold(t, "flat mismatch")
    BY <1>0, <2>1, <2>2, SlotHold
  <2>3. CASE \E p \in Pnl : MarkClosed(t, p)
    <3>1. orders[Entry(t)].state = "FILLED"
      BY <2>1, RowSays DEF RowInv, DemoInv, Standing, TradesNameOrders
    <3>2. exch[Entry(t)] # "absent"
      BY <2>1, <3>1, OrderShape DEF DemoInv, Standing, TerminalIsComplete, Terminal
    <3> QED BY <2>1, <2>3, <3>2, SlotClosed
  <2> QED BY <2>1, <2>2, <2>3
<1> QED BY <1>1, <1>2

LEMMA SlotExecute ==
    ASSUME DemoInv, ExposureFits', NEW o \in Order, Execute(o)
    PROVE  [Slot!SlotNext]_(Slot!slotVars)
<1> DEFINE t == o[1]
<1>0. /\ DemoTypeOK /\ StInv /\ Standing /\ ExecutionsAreNumbered /\ ExchangeFollows
      /\ Live(o) /\ UNCHANGED <<orders, trades>>
      /\ exch' = [exch EXCEPT ![o] = IF Cumulative(o) + 1 = orders[o].params.qty
                                     THEN "Filled" ELSE "PartiallyFilled"]
  BY DEF Execute, DemoInv, Standing
<1>1. t \in Trade /\ Active(t) /\ trades[t].phase \in {"ENTRY_SUBMITTED", "EXIT_SUBMITTED"}
  BY <1>0, OneLive DEF Standing, LiveIsAwaited
<1>2. /\ Exposure(t)' = Exposure(t) + (IF IsEntry(o) THEN 1 ELSE -1)
      /\ \A u \in Trade \ {t} : Exposure(u)' = Exposure(u)
      /\ Exposure(t) \in Nat
  BY <1>0, <1>1, ExecuteCounts, RowSays
<1>3. Exposure(t)' \in 0..MaxQty
  BY <1>1 DEF ExposureFits
<1>4. \A u \in Trade : (exch'[Entry(u)] # "absent") = (exch[Entry(u)] # "absent")
  <2>1. \A v \in Order : exch'[v] # "absent" <=> exch[v] # "absent"
    BY <1>0 DEF DemoTypeOK, Live
  <2> QED BY <2>1, OrderShape
<1>5. Sent' = Sent /\ Stages' = Stages
  BY <1>0, <1>4 DEF Sent, Stages, StageOf, Entry
<1>6. Exposures' = [Exposures EXCEPT ![t] = Exposure(t)']
  BY <1>1, <1>2 DEF Exposures
<1>7. Stages[t] = "working"
  BY <1>1, SlotIsMapped DEF Stages, StageOfPhase
<1>8. Sent[t]
  <2>1. CASE IsEntry(o)
    BY <1>0, <1>1, <2>1, OrderShape DEF Live, Sent
  <2>2. CASE ~IsEntry(o)
    <3>1. trades[t].phase = "EXIT_SUBMITTED"
      BY <1>0, <2>2 DEF Standing, LiveIsAwaited
    <3>2. orders[Entry(t)].state = "FILLED"
      BY <1>0, <1>1, <3>1, RowSays DEF RowInv, Standing, TradesNameOrders
    <3>3. exch[Entry(t)] # "absent"
      BY <1>0, <1>1, <3>2, OrderShape DEF Standing, TerminalIsComplete, Terminal
    <3> QED BY <1>1, <3>3 DEF Sent
  <2> QED BY <2>1, <2>2
<1>9. Exposure(t)' \in {Exposures[t] - 1, Exposures[t] + 1}
  <2>1. Exposures[t] = Exposure(t)
    BY <1>1 DEF Exposures
  <2> QED BY <1>2, <2>1
<1> DEFINE e == Exposure(t)'
<1>10. e \in 0..MaxQty /\ e \in {Exposures[t] - 1, Exposures[t] + 1} /\ Exposures' = [Exposures EXCEPT ![t] = e]
  BY <1>3, <1>6, <1>9
<1> HIDE DEF e, t
<1>11. Slot!Move(t)
  BY <1>5, <1>7, <1>8, <1>10 DEF Slot!Move, Slot!Holds, Stages, Exposures, Sent
<1> QED BY <1>1, <1>11 DEF Slot!SlotNext

LEMMA SlotEndEarly ==
    ASSUME DemoInv, NEW o \in Order, EndEarly(o)
    PROVE  UNCHANGED Slot!slotVars
<1>1. /\ Live(o) /\ UNCHANGED <<trades, executed>>
      /\ \E s \in {"Cancelled", "Rejected"} : exch' = [exch EXCEPT ![o] = s]
      /\ exch \in [Order -> {"absent", "New", "PartiallyFilled", "Filled", "Cancelled", "Rejected"}]
  BY DEF EndEarly, DemoInv, DemoTypeOK
<1>2. \A v \in Order : (exch'[v] # "absent") = (exch[v] # "absent")
  BY <1>1 DEF Live
<1>3. \A u \in Trade : (exch'[Entry(u)] # "absent") = (exch[Entry(u)] # "absent")
  BY <1>2, OrderShape
<1>4. Sent' = Sent /\ Stages' = Stages /\ Exposures' = Exposures
  BY <1>1, <1>3, CountsStay DEF Sent, Stages, StageOf, Exposures, Entry
<1> QED BY <1>4, SlotIsMapped

LEMMA SlotOperatorClears ==
    ASSUME DemoInv, OperatorClears
    PROVE  [Slot!SlotNext]_(Slot!slotVars)
<1>0. UNCHANGED <<exch, executed>>
  BY DEF OperatorClears, exchVars
<1>1. CASE UNCHANGED trades
  BY <1>0, <1>1, SlotStays
<1>2. ASSUME NEW t \in Trade, CloseUnsubmittedHold(t) PROVE [Slot!SlotNext]_(Slot!slotVars)
  <2> DEFINE row == [trades[t] EXCEPT !.phase = "CLOSED", !.pnl = 0, !.exitReason = Cleared]
  <2>1. /\ trades[t].phase = "SAFETY_HOLD" /\ trades[t].entryOrder = None
        /\ trades' = [trades EXCEPT ![t] = row]
    BY <1>2 DEF CloseUnsubmittedHold
  <2>2. row.phase = "CLOSED"
    BY RowSays DEF TradeRow
  <2> HIDE DEF row
  <2>3. /\ Stages' = [Stages EXCEPT ![t] = "done"] /\ UNCHANGED <<Exposures, Sent>>
        /\ Stages[t] = "held"
    BY <1>0, <2>1, <2>2, SlotRow DEF StageOfPhase
  <2>4. exch[Entry(t)] = "absent"
    <3>1. Entry(t) \in Order
      BY OrderShape
    <3> QED BY <2>1, <3>1, RowSays
  <2>5. ~Sent[t]
    BY <2>4 DEF Sent
  <2>6. Slot!Release(t)
    BY <2>3, <2>5 DEF Slot!Release, Stages, Exposures, Sent
  <2> QED BY <2>6 DEF Slot!SlotNext
<1> QED BY <1>1, <1>2 DEF OperatorClears

LEMMA SlotStep ==
    DemoInv /\ DemoInv' /\ ExposureFits' /\ [DemoNext]_demoVars => [Slot!SlotNext]_(Slot!slotVars)
<1> SUFFICES ASSUME DemoInv, DemoInv', ExposureFits', [DemoNext]_demoVars
             PROVE  [Slot!SlotNext]_(Slot!slotVars)
  OBVIOUS
<1>1. CASE UNCHANGED <<trades, exch, executed>>
  BY <1>1, SlotStays
<1>2. CASE \/ BeginTradeStep \/ MarkOrderStep \/ Place
           \/ EntryReconciled \/ HoldStep \/ Close
  BY <1>2, SlotBeginTrade, SlotMarkOrder, SlotPlace, SlotEntryReconciled, SlotClose
<1>3. CASE \E o \in Order : Execute(o) \/ EndEarly(o)
  BY <1>3, SlotExecute, SlotEndEarly
<1>4. CASE OperatorClears
  BY <1>4, SlotOperatorClears
<1>5. CASE UNCHANGED demoVars
  BY <1>1, <1>5 DEF demoVars
<1>6. CASE Executor /\ ~UNCHANGED <<trades, exch, executed>>
  <2>1. /\ StartNoTrade => UNCHANGED <<trades, exch, executed>>
        /\ (\E t \in Trade : StartActive(t)) => UNCHANGED <<trades, exch, executed>>
        /\ ReadPositions \/ ReadOpenOrders => UNCHANGED <<trades, exch, executed>>
    BY DEF StartNoTrade, StartActive, ReadPositions, ReadOpenOrders, ReadOnly, exchVars
  <2>2. /\ AuthorizeStep \/ RecordEntryStep \/ RecordCloseStep => UNCHANGED <<trades, exch, executed>>
        /\ BeginOrderStep \/ WriteAhead => UNCHANGED <<trades, exch, executed>>
    BY DEF AuthorizeStep, RecordEntryStep, RecordCloseStep, BeginOrderStep, WriteAhead, Raise, ReadOnly,
           OnlyTrades, OnlyOrders, AuthorizeEntry, RecordEntry, RecordClose, exchVars
  <2>3. FetchExecutions \/ ApplyNext \/ FetchOrder => UNCHANGED <<trades, exch, executed>>
    BY DEF FetchExecutions, ApplyNext, FetchOrder, Lagging, InAgreement, ReadOnly, OnlyOrders, exchVars
  <2>4. ReadPosition \/ ExitReconciled => UNCHANGED <<trades, exch, executed>>
    BY DEF ReadPosition, ExitReconciled, ReadOnly, exchVars
  <2> QED BY <1>2, <1>6, <2>1, <2>2, <2>3, <2>4 DEF Executor
<1>7. CASE (\E f \in FillId : Publish(f)) \/ OperatorLooks \/ NextDay \/ CoolDown \/ Fault
  <2>1. UNCHANGED <<trades, exch, executed>>
    BY <1>7 DEF Publish, OperatorLooks, NextDay, CoolDown, CooldownElapses, Fault, exchVars
  <2> QED BY <1>1, <2>1
<1> QED BY <1>1, <1>3, <1>4, <1>5, <1>6, <1>7 DEF DemoNext

LEMMA SlotStarts == DemoInit => Slot!SlotInit
<1> SUFFICES ASSUME DemoInit PROVE Slot!SlotInit
  OBVIOUS
<1>1. \A t \in Trade : StageOf(t) = "free"
  BY DEF DemoInit, StInit, NoTrade, StageOf
<1>2. \A t \in Trade : Exposure(t) = 0
  <2> SUFFICES ASSUME NEW t \in Trade PROVE Exposure(t) = 0
    OBVIOUS
  <2>1. {f \in executed : f[1] = Entry(t)} = {} /\ {f \in executed : f[1] \in Exits(t)} = {}
    BY DEF DemoInit
  <2>2. Cardinality({}) = 0
    BY FS_EmptySet
  <2>3. /\ Cardinality({f \in executed : f[1] = Entry(t)}) = 0
        /\ Cardinality({f \in executed : f[1] \in Exits(t)}) = 0
    BY <2>1, <2>2
  <2> QED BY <2>3 DEF Exposure
<1>3. \A t \in Trade : (exch[Entry(t)] # "absent") = FALSE
  BY OrderShape DEF DemoInit
<1> QED BY <1>1, <1>2, <1>3 DEF Slot!SlotInit

(* The executor, its stores, the exchange, the operator and any number of     *)
(* faults keep the promise of TradeSlot: one slot, moved only by a holder     *)
(* whose entry was sent, given back flat and for good, and a held trade let   *)
(* go only if nothing of it was ever sent.                                    *)
THEOREM SlotIsImplemented == DemoSpec => ImplementsSlot
<1>1. DemoInv => ExposureFits
  BY ExposureIsBounded
<1>2. DemoInv /\ DemoInv' /\ ExposureFits' /\ [DemoNext]_demoVars => [Slot!SlotNext]_(Slot!slotVars)
  BY SlotStep
<1> QED BY <1>1, <1>2, SlotStarts, DemoInvariant, PTL DEF DemoSpec, ImplementsSlot, Slot!SlotSpec
=============================================================================
