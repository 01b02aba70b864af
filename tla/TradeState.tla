------------------------------- MODULE TradeState -------------------------------
(***************************************************************************)
(* The durable lifecycle and daily risk ledger of autonomous Demo trading,  *)
(* src/execution/demo_autonomous_state.py: two SQLite tables, every method  *)
(* one transaction, hence one action; a call that raises is not a step.     *)
(* The callers are arbitrary.                                               *)
(*                                                                          *)
(* A trade is named by its observation: the trade id is a function of it.   *)
(* Prices and timestamps are abstracted to whether they are set, PnL to     *)
(* whole units of money, the clock to the current UTC day and to whether    *)
(* the cooldown of a day has run out.                                       *)
(*                                                                          *)
(* A definition named Mutant_... is a plausible slip in the definition that *)
(* follows it; the specification never uses one.                            *)
(***************************************************************************)
EXTENDS Integers, FiniteSets

CONSTANTS
    Trade,          \* observations, each the identity of one trade
    Day,            \* UTC dates
    TradeOrder,     \* client order ids
    Reason,         \* exit reasons
    HoldReason,     \* safety reasons
    Pnl,            \* realised results of a trade, in units of money
    MaxTrades,      \* config.maximum_trades_per_utc_day
    LossLimit,      \* daily_loss_limit_usd of the day's starting capital
    MaxAbsPnl,      \* bound on the magnitude of a day's realised PnL
    Cleared,        \* the exit reason UNSUBMITTED_ATTEMPT_CLEARED
    None            \* SQL NULL

ASSUME RiskAssumption ==
    /\ Pnl \subseteq Int
    /\ 0 \in Pnl
    /\ MaxTrades \in Nat \ {0}
    /\ LossLimit \in Nat \ {0}
    /\ MaxAbsPnl \in Nat
    /\ None \notin TradeOrder \cup Reason \cup HoldReason \cup Day
    /\ Cleared \notin Reason \cup {None}

VARIABLES
    trades,   \* autonomous_demo_trades: one row per observation
    risk      \* autonomous_demo_daily_risk: one row per UTC date

stVars == <<trades, risk>>

Phase == {"OBSERVED", "ENTRY_SUBMITTED", "OPEN", "EXIT_SUBMITTED", "CLOSED", "SAFETY_HOLD"}
ActivePhase == Phase \ {"CLOSED"}

TradeRow == [phase : Phase \cup {"ABSENT"},
             day : Day \cup {None},             \* created_at_utc
             entryOrder : TradeOrder \cup {None},
             opened : BOOLEAN,                  \* entry_fill_price, opened_at_utc
             exitOrder : TradeOrder \cup {None},
             exitReason : Reason \cup {None, Cleared},
             pnl : Pnl,                         \* realized_pnl_usd, 0 until closed
             hold : HoldReason \cup {None}]     \* safety_reason
NoTrade == [phase |-> "ABSENT", day |-> None, entryOrder |-> None, opened |-> FALSE,
            exitOrder |-> None, exitReason |-> None, pnl |-> 0, hold |-> None]

DayRow == [known : BOOLEAN, entries : 0..MaxTrades, pnl : (-MaxAbsPnl)..MaxAbsPnl,
           cooling : BOOLEAN, kill : BOOLEAN]
NoDay == [known |-> FALSE, entries |-> 0, pnl |-> 0, cooling |-> FALSE, kill |-> FALSE]

Exists(t) == trades[t].phase # "ABSENT"
Active(t) == trades[t].phase \in ActivePhase
ActiveTrades == {t \in Trade : Active(t)}

StInit ==
    /\ trades = [t \in Trade |-> NoTrade]
    /\ risk = [d \in Day |-> NoDay]

-----------------------------------------------------------------------------
(* begin_trade: an identical retry returns the existing row, whatever phase  *)
(* it is in; a new one needs the slot free.                                  *)
Mutant_SlotNotChecked(t, d) ==
    /\ ~Exists(t)
    /\ trades' = [trades EXCEPT ![t] = [@ EXCEPT !.phase = "OBSERVED", !.day = d]]
    /\ UNCHANGED risk
BeginTrade(t, d) ==
    /\ \/ Exists(t) /\ UNCHANGED trades
       \/ /\ ~Exists(t)
          /\ ActiveTrades = {}
          /\ trades' = [trades EXCEPT ![t] = [@ EXCEPT !.phase = "OBSERVED", !.day = d]]
    /\ UNCHANGED risk

(* _transition: allowed phases, and no change of a value already set when    *)
(* the trade is in the target phase already.                                 *)
Same(old, new) == old \in {None, new}

MarkEntrySubmitted(t, o) ==
    /\ trades[t].phase \in {"OBSERVED", "ENTRY_SUBMITTED"}
    /\ trades[t].phase = "ENTRY_SUBMITTED" => Same(trades[t].entryOrder, o)
    /\ \A u \in Trade \ {t} : trades[u].entryOrder # o       \* UNIQUE column
    /\ trades' = [trades EXCEPT ![t] = [@ EXCEPT !.phase = "ENTRY_SUBMITTED", !.entryOrder = o]]
    /\ UNCHANGED risk

Mutant_OpenWithoutEntry(t) ==
    /\ trades[t].phase \in {"OBSERVED", "ENTRY_SUBMITTED", "OPEN"}
    /\ trades' = [trades EXCEPT ![t] = [@ EXCEPT !.phase = "OPEN", !.opened = TRUE]]
    /\ UNCHANGED risk
MarkOpen(t) ==
    /\ trades[t].phase \in {"ENTRY_SUBMITTED", "OPEN"}
    /\ trades' = [trades EXCEPT ![t] = [@ EXCEPT !.phase = "OPEN", !.opened = TRUE]]
    /\ UNCHANGED risk

(* Only the exit order may be replaced by a later call, not the reason.      *)
MarkExitSubmitted(t, o, r) ==
    /\ trades[t].phase \in {"OPEN", "EXIT_SUBMITTED"}
    /\ trades[t].phase = "EXIT_SUBMITTED" => Same(trades[t].exitReason, r)
    /\ \A u \in Trade \ {t} : trades[u].exitOrder # o        \* UNIQUE column
    /\ trades' = [trades EXCEPT ![t] = [@ EXCEPT !.phase = "EXIT_SUBMITTED",
                                                 !.exitOrder = o,
                                                 !.exitReason = r]]
    /\ UNCHANGED risk

MarkClosed(t, p) ==
    /\ trades[t].phase \in {"ENTRY_SUBMITTED", "EXIT_SUBMITTED", "CLOSED"}
    /\ trades[t].phase = "CLOSED" => trades[t].pnl = p
    /\ trades' = [trades EXCEPT ![t] = [@ EXCEPT !.phase = "CLOSED", !.pnl = p]]
    /\ UNCHANGED risk

MarkSafetyHold(t, h) ==
    /\ Active(t)
    /\ trades[t].phase = "SAFETY_HOLD" => Same(trades[t].hold, h)
    /\ trades' = [trades EXCEPT ![t] = [@ EXCEPT !.phase = "SAFETY_HOLD", !.hold = h]]
    /\ UNCHANGED risk

(* close_unsubmitted_safety_hold: the check of the order fields and the      *)
(* transition are two transactions; nothing leaves SAFETY_HOLD in between    *)
(* but this call itself, and its fields are frozen there.                    *)
Mutant_ClearAnyHold(t) ==
    /\ trades[t].phase = "SAFETY_HOLD"
    /\ trades' = [trades EXCEPT ![t] = [@ EXCEPT !.phase = "CLOSED",
                                                 !.pnl = 0,
                                                 !.exitReason = Cleared]]
    /\ UNCHANGED risk
CloseUnsubmittedHold(t) ==
    /\ trades[t].phase = "SAFETY_HOLD"
    /\ trades[t].entryOrder = None
    /\ ~trades[t].opened
    /\ trades[t].exitOrder = None
    /\ trades' = [trades EXCEPT ![t] = [@ EXCEPT !.phase = "CLOSED",
                                                 !.pnl = 0,
                                                 !.exitReason = Cleared]]
    /\ UNCHANGED risk

-----------------------------------------------------------------------------
(* _validate_entry_authorization, on the row _ensure_day returns.            *)
Mutant_EntriesNotLimited(d) ==
    /\ ~risk[d].kill
    /\ ~risk[d].cooling
    /\ risk[d].pnl > -LossLimit
Authorized(d) ==
    /\ ~risk[d].kill
    /\ risk[d].entries < MaxTrades
    /\ ~risk[d].cooling
    /\ risk[d].pnl > -LossLimit

AuthorizeEntry(d) ==
    /\ Authorized(d)
    /\ risk' = [risk EXCEPT ![d] = [@ EXCEPT !.known = TRUE]]
    /\ UNCHANGED trades

RecordEntry(d) ==
    /\ Authorized(d)
    /\ risk' = [risk EXCEPT ![d] = [@ EXCEPT !.known = TRUE, !.entries = risk[d].entries + 1]]
    /\ UNCHANGED trades

Mutant_LimitIsExclusive(d, p) ==
    /\ risk[d].pnl + p \in (-MaxAbsPnl)..MaxAbsPnl
    /\ risk' = [risk EXCEPT ![d] = [@ EXCEPT !.known = TRUE,
                                             !.pnl = risk[d].pnl + p,
                                             !.kill = risk[d].kill \/ risk[d].pnl + p < -LossLimit,
                                             !.cooling = TRUE]]
    /\ UNCHANGED trades
RecordClose(d, p) ==
    /\ risk[d].pnl + p \in (-MaxAbsPnl)..MaxAbsPnl
    /\ risk' = [risk EXCEPT ![d] = [@ EXCEPT !.known = TRUE,
                                             !.pnl = risk[d].pnl + p,
                                             !.kill = risk[d].kill \/ risk[d].pnl + p <= -LossLimit,
                                             !.cooling = TRUE]]
    /\ UNCHANGED trades

ActivateKillSwitch(d) ==
    /\ risk' = [risk EXCEPT ![d] = [@ EXCEPT !.known = TRUE, !.kill = TRUE]]
    /\ UNCHANGED trades

(* Time passes cooldown_until_utc of day d.                                  *)
CooldownElapses(d) ==
    /\ risk[d].cooling
    /\ risk' = [risk EXCEPT ![d] = [@ EXCEPT !.cooling = FALSE]]
    /\ UNCHANGED trades

StNext ==
    \/ \E t \in Trade :
        \/ \E d \in Day : BeginTrade(t, d)
        \/ \E o \in TradeOrder :
            \/ MarkEntrySubmitted(t, o)
            \/ \E r \in Reason : MarkExitSubmitted(t, o, r)
        \/ MarkOpen(t)
        \/ \E p \in Pnl : MarkClosed(t, p)
        \/ \E h \in HoldReason : MarkSafetyHold(t, h)
        \/ CloseUnsubmittedHold(t)
    \/ \E d \in Day :
        \/ AuthorizeEntry(d)
        \/ RecordEntry(d)
        \/ \E p \in Pnl : RecordClose(d, p)
        \/ ActivateKillSwitch(d)
        \/ CooldownElapses(d)

StSpec == StInit /\ [][StNext]_stVars

-----------------------------------------------------------------------------
(* Every row keeps its type: the counted entries of a day and its result     *)
(* stay within the bounds, whichever method wrote the row last.              *)
StTypeOK ==
    /\ trades \in [Trade -> TradeRow]
    /\ risk \in [Day -> DayRow]

(* maximum_open_positions = 1: whatever calls are made, and however they     *)
(* interleave, at most one trade holds the slot (_fetch_active would raise). *)
OneActiveTrade ==
    \A t, u \in Trade : Active(t) /\ Active(u) => t = u

(* The phase of a trade says which orders it may have at the exchange: a     *)
(* trade that was observed only has none, an open one has its entry, and a   *)
(* hold cleared as "unsubmitted" never had any.                              *)
PhaseMatchesOrders ==
    \A t \in Trade :
        LET r == trades[t] IN
        /\ r.phase \in {"ABSENT", "OBSERVED"} => r.entryOrder = None /\ r.exitOrder = None
        /\ r.phase = "ENTRY_SUBMITTED" => r.entryOrder # None /\ ~r.opened
        /\ r.phase \in {"OPEN", "EXIT_SUBMITTED"} => r.entryOrder # None /\ r.opened
        /\ r.phase = "EXIT_SUBMITTED" => r.exitOrder # None
        /\ r.exitOrder # None => r.opened
        /\ r.exitReason = Cleared => r.entryOrder = None

(* No two trades ever share an exchange order as their entry or as their     *)
(* exit, so no fill can be booked to two trades.                             *)
OrdersAreNotShared ==
    \A t, u \in Trade : t # u =>
        /\ trades[t].entryOrder # None => trades[t].entryOrder # trades[u].entryOrder
        /\ trades[t].exitOrder # None => trades[t].exitOrder # trades[u].exitOrder

(* A day that lost LossLimit is killed for good: the kill switch is durable, *)
(* whatever later trades earn back and however the cooldown runs.            *)
LossKillsTheDay ==
    [][\A d \in Day :
          /\ risk'[d].pnl <= -LossLimit => risk'[d].kill
          /\ risk[d].kill => risk'[d].kill /\ risk'[d].entries = risk[d].entries]_stVars

(* A closed trade stays closed with the result it closed with, and a held    *)
(* one can leave the hold only through the operator's clearing, which only a *)
(* trade without orders may take.                                            *)
ClosedIsFinal ==
    [][\A t \in Trade :
          /\ trades[t].phase = "CLOSED" => trades'[t] = trades[t]
          /\ trades[t].phase = "SAFETY_HOLD" /\ trades'[t].phase # "SAFETY_HOLD" =>
                trades[t].entryOrder = None /\ trades'[t].phase = "CLOSED"]_stVars

=============================================================================
