-------------------------------- MODULE DemoStakes --------------------------------
(***************************************************************************)
(* How much the autonomous Demo executor stakes and when it gives a trade up *)
(* (src/execution/demo_autonomous_risk.py): the size of an entry, its stop   *)
(* and target from the range of the last candles, the reason to exit that is *)
(* looked for at every cycle, and the limits of a day that these add up to   *)
(* (DemoExecution.tla has the orders, TradeState.tla the ledger).            *)
(*                                                                         *)
(* Prices are integers, thresholds basis points; every order is filled at    *)
(* the price of its moment, fees are left out.                              *)
(***************************************************************************)
EXTENDS Integers, Sequences, FiniteSets, FiniteSetsExt

CONSTANTS
    StartCapital,     \* equity of the account when the day begins
    Leverage, MarginPerMille,         \* leverage, margin_fraction_per_trade
    QuantityStep, MinimumQuantity,    \* of the instrument
    MaxEntries, Cooldown, MaxHolding, \* of the day, and seconds
    LossPerMille,                     \* maximum_daily_loss_fraction
    StopPercent, TargetPercent,       \* stop_multiple, target_multiple of the ATR
    MinStop, MaxStop,                 \* bounds of the stop
    CandleRows,       \* what the last candles may be: sequences of [high, low, close]
    StartPrice, Moves,                \* the market: a price, and how far it moves at once
    LastSecond        \* bound: the clock

ASSUME StakesAssumption ==
    /\ {StartCapital, Leverage, MarginPerMille, QuantityStep, MaxEntries, MaxHolding, LossPerMille, StartPrice} \subseteq Nat \ {0}
    /\ {Cooldown, LastSecond, MinimumQuantity} \subseteq Nat
    /\ MinStop < MaxStop /\ MaxStop < 100 /\ 0 < StopPercent /\ StopPercent < TargetPercent
    /\ \A c \in CandleRows : Len(c) >= 3 /\ c[Len(c)].close > 0

VARIABLES
    price,      \* last_price
    second,     \* the clock
    position,   \* the open trade, <<>> without one
    ledger,     \* the day: [entries, pnl, cooldownUntil, killed]
    attentive   \* ghost: a cycle has followed every move while there was a position

stakesVars == <<price, second, position, ledger, attentive>>

CapitalNow == StartCapital + ledger.pnl

-----------------------------------------------------------------------------
(* size_autonomous_demo_trade: the margin of one trade, levered, at the last *)
(* price and rounded down to whole steps.                                    *)
TargetNotional(capital) == (capital * MarginPerMille * Leverage) \div 1000
Mutant_RoundedUp(capital) == ((TargetNotional(capital) \div (price * QuantityStep)) + 1) * QuantityStep
Quantity(capital) == (TargetNotional(capital) \div (price * QuantityStep)) * QuantityStep
Deployable(capital) == capital > 0 /\ Quantity(capital) > 0 /\ Quantity(capital) >= MinimumQuantity

(* atr_stop_take_profit_bps: the mean true range since the candle before the *)
(* window, in basis points of the last close; a share of it is the stop,     *)
(* within its bounds, another one the target, unless the stop overtook it.   *)
Distance(x, y) == IF x > y THEN x - y ELSE y - x
TrueRange(c, i) == Max({c[i].high - c[i].low, Distance(c[i].high, c[i - 1].close), Distance(c[i].low, c[i - 1].close)})
AtrBps(c) ==
    (10000 * MapThenSumSet(LAMBDA i : TrueRange(c, i), 2..Len(c))) \div ((Len(c) - 1) * c[Len(c)].close)
Mutant_OnlyFloored(c) == Max({(AtrBps(c) * StopPercent) \div 100, MinStop})
StopBps(c) == Min({Max({(AtrBps(c) * StopPercent) \div 100, MinStop}), MaxStop})
Mutant_TargetOvertaken(c) == (AtrBps(c) * TargetPercent) \div 100
TargetBps(c) ==
    LET target == (AtrBps(c) * TargetPercent) \div 100
    IN  IF target <= StopBps(c) THEN (StopBps(c) * TargetPercent) \div StopPercent ELSE target

(* autonomous_demo_exit_reason *)
PriceGain(p) == IF p.side = "LONG" THEN price - p.entry ELSE p.entry - price
Mutant_TimeComesFirst(p) ==
    IF second - p.opened >= MaxHolding THEN "MAX_HOLDING_TIME"
    ELSE IF 10000 * PriceGain(p) >= p.target * p.entry THEN "TAKE_PROFIT" ELSE "none"
ExitReason(p) ==
    IF 10000 * PriceGain(p) <= -p.stop * p.entry THEN "STOP_LOSS"
    ELSE IF 10000 * PriceGain(p) >= p.target * p.entry THEN "TAKE_PROFIT"
    ELSE IF second - p.opened >= MaxHolding THEN "MAX_HOLDING_TIME"
    ELSE "none"

(* daily_loss_limit_usd, of the capital with which the day was begun.        *)
DailyLossLimit == (StartCapital * LossPerMille) \div 1000
Mutant_CooldownForgotten == ~ledger.killed /\ ledger.entries < MaxEntries /\ ledger.pnl > -DailyLossLimit
MayEnter ==
    /\ ~ledger.killed /\ ledger.entries < MaxEntries
    /\ second >= ledger.cooldownUntil /\ ledger.pnl > -DailyLossLimit

-----------------------------------------------------------------------------
StakesInit ==
    /\ price = StartPrice /\ second = 0 /\ position = <<>> /\ attentive = TRUE
    /\ ledger = [entries |-> 0, pnl |-> 0, cooldownUntil |-> 0, killed |-> FALSE]

(* The market, between two cycles. *)
MarketMoves ==
    /\ second < LastSecond
    /\ second' = second + 1
    /\ \E m \in Moves : price' = price + m
    /\ attentive' = (attentive /\ \A n \in DOMAIN position : position[n].seen = second)
    /\ UNCHANGED <<position, ledger>>

Enters ==
    /\ position = <<>> /\ MayEnter /\ Deployable(CapitalNow)
    /\ \E c \in CandleRows, side \in {"LONG", "SHORT"} :
        position' = <<[side |-> side, quantity |-> Quantity(CapitalNow), entry |-> price, opened |-> second,
                       stop |-> StopBps(c), target |-> TargetBps(c), seen |-> second]>>
    /\ ledger' = [ledger EXCEPT !.entries = @ + 1]
    /\ UNCHANGED <<price, second, attentive>>

(* A cycle with a position: it is closed, booked, and the day may end.       *)
Looks ==
    /\ position # <<>> /\ position[1].seen < second
    /\ LET p == position[1]
           total == ledger.pnl + p.quantity * PriceGain(p)
       IN  IF ExitReason(p) = "none" THEN position' = <<[p EXCEPT !.seen = second]>> /\ UNCHANGED ledger
           ELSE /\ position' = <<>>
                /\ ledger' = [ledger EXCEPT !.pnl = total, !.cooldownUntil = second + Cooldown,
                                            !.killed = @ \/ total <= -DailyLossLimit]
    /\ UNCHANGED <<price, second, attentive>>

StakesNext == MarketMoves \/ Enters \/ Looks

-----------------------------------------------------------------------------
FastestMove == Max({Distance(m, 0) : m \in Moves})
LowestPrice == StartPrice - LastSecond * FastestMove
WorstTrade ==    \* from the stop of the largest position to where it is noticed
    (TargetNotional(StartCapital) * MaxStop) \div 10000 + (TargetNotional(StartCapital) \div LowestPrice) * FastestMove

(***************************************************************************)
(* What the limits promise together (size_autonomous_demo_trade,             *)
(* atr_stop_take_profit_bps, autonomous_demo_exit_reason,                    *)
(* daily_loss_limit_usd): a position never needs more margin than its share  *)
(* of the equity and no smaller step would have fitted, its stop is within   *)
(* its bounds and nearer than its target, a cycle leaves none behind its     *)
(* stop or its time, entries keep the cooldown, and a day whose positions    *)
(* are looked at after every move loses no more than its limit and one       *)
(* trade.                                                                    *)
(***************************************************************************)
StakesAreBounded ==
    /\ \A n \in DOMAIN position : LET p == position[n] IN
          /\ 1000 * p.quantity * p.entry <= CapitalNow * MarginPerMille * Leverage
          /\ 1000 * (p.quantity + QuantityStep) * p.entry > (CapitalNow - 1) * MarginPerMille * Leverage
          /\ p.stop \in MinStop..MaxStop /\ p.target > p.stop
          /\ p.seen = second => 10000 * PriceGain(p) > -p.stop * p.entry /\ second - p.opened < MaxHolding
          /\ p.opened >= ledger.cooldownUntil
    /\ attentive => ledger.pnl > -DailyLossLimit - WorstTrade
===================================================================================
