--------------------------------- MODULE PhaseOne ---------------------------------
(***************************************************************************)
(* The documents of Phase 1 and its gate (src/data/raw_soak_session.py,      *)
(* phase1_recovery_drill.py, phase1_evidence_bundle.py, phase1_acceptance.py *)
(* and their scripts).  An operator forecasts, starts sessions, audits,      *)
(* drills, bundles, approves and asks the gate, in any order and again, on   *)
(* two deployments if need be: reports at a fixed path are replaced, markers *)
(* and drill reports are linked once.  What a soak, a drill and a test alert *)
(* find out is an input here (SoakAudit, AlertDelivery).                     *)
(*                                                                           *)
(* A document is its own SHA-256: two hashes agree iff the documents do.  One*)
(* drill stands for five, and the alert's report, bound in the same way, for *)
(* none.  Preflight and forecast are bound and aged alike: the forecast      *)
(* stands for both.  Mutant_...: a plausible slip in the definition that     *)
(* follows.                                                                  *)
(***************************************************************************)
EXTENDS Integers, FiniteSets

CONSTANTS
    Session,         \* soak session ids
    Commit,          \* commits of the repository
    MaxIncidents,    \* bound on what an audit counts
    NoFile

ASSUME PhaseAssumption == MaxIncidents \in Nat

VARIABLES
    forecast,      \* reports/phase1_capacity_forecast.json
    fresh,         \* whether it is young enough to start a session
    marker,        \* DATA_DIR/health/soak_sessions/<session>.json
    soak,          \* reports/raw_collector_soak.json
    drills,        \* the drill reports, each at a path of its own
    evidence,      \* reports/phase1_operational_evidence.yaml
    accepted       \* reports/phase1_acceptance.json, once it qualifies

phaseVars == <<forecast, fresh, marker, soak, drills, evidence, accepted>>

PhaseInit ==
    /\ forecast = NoFile /\ fresh = FALSE
    /\ marker = [s \in Session |-> NoFile]
    /\ soak = NoFile /\ drills = {}
    /\ evidence = NoFile /\ accepted = NoFile

Marked == {s \in Session : marker[s] # NoFile}

-----------------------------------------------------------------------------
(* forecast_raw_capacity, replacing the last one.                            *)
ForecastCapacity(c) ==
    /\ forecast' = [commit |-> c]
    /\ fresh' = TRUE
    /\ UNCHANGED <<marker, soak, drills, evidence, accepted>>

ForecastAges ==
    /\ fresh /\ fresh' = FALSE
    /\ UNCHANGED <<forecast, marker, soak, drills, evidence, accepted>>

(* create_raw_soak_session: the marker holds the forecast's hash, and stays. *)
CreateRawSoakSession(s, c) ==
    /\ forecast # NoFile /\ forecast.commit = c /\ fresh
    /\ marker[s] = NoFile
    /\ marker' = [marker EXCEPT ![s] = [commit |-> c, forecast |-> forecast]]
    /\ UNCHANGED <<forecast, fresh, soak, drills, evidence, accepted>>

(* audit_raw_soak, over the marker's window.                                 *)
AuditRawSoak(s) ==
    /\ s \in Marked
    /\ \E q \in BOOLEAN, n \in 0..MaxIncidents :
          soak' = [session |-> s, commit |-> marker[s].commit, marker |-> marker[s],
                   qualified |-> q, incidents |-> n]
    /\ UNCHANGED <<forecast, fresh, marker, drills, evidence, accepted>>

(* evaluate_phase1_recovery_drill, with the session and commit of the marker;*)
(* a report that does not qualify is of no use to anyone and is left out.    *)
CaptureDrill(s) ==
    /\ s \in Marked
    /\ drills' = drills \cup {[session |-> s, commit |-> marker[s].commit]}
    /\ UNCHANGED <<forecast, fresh, marker, soak, evidence, accepted>>

(* The bundle takes the files as they are, but checks the forecast's hash    *)
(* against the marker's (scripts/build_phase1_evidence_bundle.py); the operator*)
(* names a drill report, reconciles incidents and approves the bundle.       *)
Approve(s) ==
    /\ s \in Marked /\ soak # NoFile /\ forecast = marker[s].forecast
    /\ \E bundled, named \in drills, n \in 0..MaxIncidents :
          evidence' = [drill |-> named, reconciled |-> n,
                       bundle |-> [session |-> s, commit |-> marker[s].commit,
                                   marker |-> marker[s], forecast |-> forecast,
                                   soak |-> soak, drill |-> bundled]]
    /\ UNCHANGED <<forecast, fresh, marker, soak, drills, accepted>>

-----------------------------------------------------------------------------
(* The gate.                                                                 *)

(* load_and_verify_phase1_evidence_bundle: it is of this session and commit, *)
(* and every file it names is hashed again.                                  *)
Mutant_FilesNotHashed(b, c) == b.session = soak.session /\ b.commit = c
BundleHolds(b, c) ==
    /\ b.session = soak.session /\ b.commit = c
    /\ b.soak = soak /\ b.forecast = forecast

(* The bundle's own marker and forecast.                                     *)
CapacityEvidence(b, c) ==
    /\ b.marker.commit = c /\ b.marker.forecast = b.forecast
    /\ b.forecast.commit = c

Mutant_AnySession(d, c) == d.commit = c
ValidDrillReport(d, c) == d.commit = c /\ d.session = soak.session

Mutant_AnyReconciliation == evidence.reconciled >= 0
IncidentsReconciled == evidence.reconciled >= soak.incidents

CheckAcceptance(c) ==
    /\ soak # NoFile /\ evidence # NoFile
    /\ BundleHolds(evidence.bundle, c)
    /\ soak.commit = c /\ soak.qualified
    /\ CapacityEvidence(evidence.bundle, c)
    /\ ValidDrillReport(evidence.drill, c)
    /\ IncidentsReconciled
    /\ evidence.bundle.marker = soak.marker /\ evidence.bundle.drill = evidence.drill
    /\ accepted' = [commit |-> c, soak |-> soak, evidence |-> evidence]
    /\ UNCHANGED <<forecast, fresh, marker, soak, drills, evidence>>

(* Phase 1 ends with its acceptance.                                         *)
PhaseNext ==
    /\ accepted = NoFile
    /\ \/ \E c \in Commit : ForecastCapacity(c) \/ CheckAcceptance(c)
       \/ ForecastAges
       \/ \E s \in Session, c \in Commit : CreateRawSoakSession(s, c)
       \/ \E s \in Session : AuditRawSoak(s) \/ CaptureDrill(s) \/ Approve(s)

-----------------------------------------------------------------------------
(* An accepted Phase 1 is one session of one commit throughout: the soak it  *)
(* qualifies, the forecast that its marker was created from, the drill and   *)
(* the approval all are of the session that the marker on disk names, and    *)
(* every incident of that soak was reconciled.                               *)
AcceptedIsOneSession ==
    accepted # NoFile =>
        LET m == marker[accepted.soak.session]
            e == accepted.evidence
        IN
        /\ accepted.commit = m.commit
        /\ accepted.soak.qualified /\ accepted.soak = e.bundle.soak
        /\ e.bundle.forecast = m.forecast
        /\ e.drill.session = accepted.soak.session
        /\ e.drill \in drills
        /\ e.bundle.session = accepted.soak.session
        /\ e.reconciled >= accepted.soak.incidents
=====================================================================================
