------------------------------- MODULE MCServices -------------------------------
(***************************************************************************)
(* Two services that share nothing, each under its own fairness: the SHADOW  *)
(* service with two items, and a raw collector.  An initial choice says      *)
(* which of them moves.                                                      *)
(***************************************************************************)
EXTENDS ShadowSession, RawCapture

VARIABLE focus    \* the service that moves

servicesVars == <<vars, capVars, focus>>

ServicesInit == ShInit /\ CapInit /\ focus \in {"shadow", "capture"}

ShadowOnly(A)  == focus = "shadow" /\ A /\ UNCHANGED <<capVars, focus>>
CaptureOnly(A) == focus = "capture" /\ A /\ UNCHANGED <<vars, focus>>

ServicesNext == ShadowOnly(ShNext) \/ CaptureOnly(CapNext)

(* The fairness of ShFairSpec and of CapSpec. *)
ServicesSpec ==
    /\ ServicesInit /\ [][ServicesNext]_servicesVars
    /\ WF_servicesVars(ShadowOnly(Start))
    /\ WF_servicesVars(ShadowOnly(Worker))
    /\ WF_servicesVars(CaptureOnly(MainStep))
    /\ WF_servicesVars(CaptureOnly(WriterStep))
    /\ WF_servicesVars(CaptureOnly(OnClose))
=============================================================================
