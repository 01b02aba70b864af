-------------------------------- MODULE TradeSlot --------------------------------
(***************************************************************************)
(* What autonomous Demo trading promises, whatever its stores and cycles    *)
(* look like: one slot, held by at most one trade at a time; only a holder  *)
(* whose entry was sent moves the account; a trade gives the slot back flat *)
(* and for good, and one put on hold only if nothing of it was ever sent.   *)
(***************************************************************************)
EXTENDS Integers

CONSTANTS
    Trade,
    MaxQty      \* the largest exposure of a trade

VARIABLES
    stage,      \* "free", "working", "held" or "done"
    exposure,   \* what the account holds on behalf of the trade
    sent        \* whether its entry ever reached the exchange

slotVars == <<stage, exposure, sent>>

Holds(t) == stage[t] \in {"working", "held"}

SlotInit ==
    /\ stage = [t \in Trade |-> "free"]
    /\ exposure = [t \in Trade |-> 0]
    /\ sent = [t \in Trade |-> FALSE]

Take(t) ==
    /\ stage[t] = "free"
    /\ \A u \in Trade : ~Holds(u)
    /\ stage' = [stage EXCEPT ![t] = "working"]
    /\ UNCHANGED <<exposure, sent>>

Send(t) ==
    /\ stage[t] = "working"
    /\ ~sent[t]
    /\ sent' = [sent EXCEPT ![t] = TRUE]
    /\ UNCHANGED <<stage, exposure>>

(* The exchange executes one quantity step of an entry or of an exit.        *)
Move(t) ==
    /\ Holds(t)
    /\ sent[t]
    /\ \E e \in 0..MaxQty :
          /\ e \in {exposure[t] - 1, exposure[t] + 1}
          /\ exposure' = [exposure EXCEPT ![t] = e]
    /\ UNCHANGED <<stage, sent>>

Hold(t) ==
    /\ stage[t] = "working"
    /\ stage' = [stage EXCEPT ![t] = "held"]
    /\ UNCHANGED <<exposure, sent>>

Finish(t) ==
    /\ stage[t] = "working"
    /\ sent[t]
    /\ exposure[t] = 0
    /\ stage' = [stage EXCEPT ![t] = "done"]
    /\ UNCHANGED <<exposure, sent>>

Release(t) ==
    /\ stage[t] = "held"
    /\ ~sent[t]
    /\ stage' = [stage EXCEPT ![t] = "done"]
    /\ UNCHANGED <<exposure, sent>>

SlotNext ==
    \E t \in Trade :
        Take(t) \/ Send(t) \/ Move(t) \/ Hold(t) \/ Finish(t) \/ Release(t)

SlotSpec == SlotInit /\ [][SlotNext]_slotVars

=============================================================================
