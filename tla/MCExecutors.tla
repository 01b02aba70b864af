------------------------------- MODULE MCExecutors -------------------------------
(***************************************************************************)
(* The programs that trade on the Demo account, each on databases of         *)
(* its own: the strategy's executor with two trades and no fault, the probe  *)
(* and the two attended commands with one request and one fault each.  An    *)
(* initial choice says which of them runs.                                   *)
(***************************************************************************)
EXTENDS ProbeExecution, AttendedDemo, MCDemoExecution

VARIABLE focus    \* the program that runs

executorVars == <<demoVars, probeVars, tripVars, focus>>

ExecutorsInit ==
    /\ ProbeInit /\ TripInit
    /\ focus \in {"strategy", "probe", "trip", "smoke"}

StrategyOnly(A) == focus = "strategy" /\ A /\ UNCHANGED <<probeVars, tripVars, focus>>
ProbeOnly(A)    == focus = "probe" /\ A /\ UNCHANGED <<tripVars, focus>>
AttendedOnly(A) ==
    /\ focus \in {"trip", "smoke"}
    /\ A /\ UNCHANGED <<probeVars, focus>>
    /\ cur'.trade \in (IF focus = "trip" THEN Trips ELSE Smokes) \union {None}

StrategyNext ==
    \/ Executor \/ ExchangeStep
    \/ OperatorLooks \/ OperatorClears \/ NextDay \/ CoolDown

ExecutorsNext == StrategyOnly(StrategyNext) \/ ProbeOnly(ProbeNext) \/ AttendedOnly(TripNext)

AnyFocus(A) == A /\ UNCHANGED <<probeVars, tripVars, focus>>

(* The program is called again and again and every call returns; the         *)
(* exchange brings an order to its end and publishes its executions.         *)
ExecutorsSpec ==
    /\ ExecutorsInit /\ [][ExecutorsNext]_executorVars
    /\ WF_executorVars(StrategyOnly(Executor))
    /\ WF_executorVars(ProbeOnly(ProbeStep))
    /\ WF_executorVars(ProbeOnly(Deadline))
    /\ WF_executorVars(AttendedOnly(TripStep))
    /\ \A o \in Order : WF_executorVars(AnyFocus(Execute(o) \/ EndEarly(o)))
    /\ \A f \in FillId : WF_executorVars(AnyFocus(Publish(f)))

(* The round trip alone. *)
TripFairSpec == focus = "trip" /\ ExecutorsSpec
=============================================================================
