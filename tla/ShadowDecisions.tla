---------------------------- MODULE ShadowDecisions ----------------------------
(***************************************************************************)
(* What the SHADOW service promises of its work, without its queue, journal *)
(* or process: every item is decided at most once, is reported DONE only    *)
(* after it was decided, keeps its outcome, and none becomes eligible after *)
(* the safety hold.                                                         *)
(***************************************************************************)
CONSTANTS Item, None

VARIABLES
    decision,   \* the verdict on every item, None before it
    outcome,    \* OPEN, then DONE or DEAD
    stopped     \* the safety hold

decisionVars == <<decision, outcome, stopped>>

Verdict == {"WAIT", "RISK_REJECTED", "ELIGIBLE_NO_ORDER"}

DecInit ==
    /\ decision = [i \in Item |-> None]
    /\ outcome = [i \in Item |-> "OPEN"]
    /\ stopped = FALSE

DecideItem(i, verdict) ==
    /\ outcome[i] = "OPEN"
    /\ decision[i] = None
    /\ verdict = "ELIGIBLE_NO_ORDER" => ~stopped
    /\ decision' = [decision EXCEPT ![i] = verdict]
    /\ UNCHANGED <<outcome, stopped>>

Finish(i) ==
    /\ outcome[i] = "OPEN"
    /\ decision[i] # None
    /\ outcome' = [outcome EXCEPT ![i] = "DONE"]
    /\ UNCHANGED <<decision, stopped>>

GiveUp(i) ==
    /\ outcome[i] = "OPEN"
    /\ outcome' = [outcome EXCEPT ![i] = "DEAD"]
    /\ UNCHANGED <<decision, stopped>>

Stop == ~stopped /\ stopped' = TRUE /\ UNCHANGED <<decision, outcome>>

DecNext ==
    \/ \E i \in Item : Finish(i) \/ GiveUp(i) \/ \E v \in Verdict : DecideItem(i, v)
    \/ Stop

DecSpec == DecInit /\ [][DecNext]_decisionVars
================================================================================
