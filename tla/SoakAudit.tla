-------------------------------- MODULE SoakAudit --------------------------------
(***************************************************************************)
(* The measured window of a soak (src/data/raw_soak.py, raw_soak_session.py, *)
(* raw_collector_start_gate.py, collector_health.py): the marker that starts *)
(* it, a collector that publishes its health into a history while it is      *)
(* killed, stopped, restarted and disconnected, and the audit that counts    *)
(* incidents and looks for silence in that history.  One collector stands    *)
(* for three: the audit takes them one by one.  A process may still run from *)
(* before the marker: the audit reads its samples too.                       *)
(* Mutant_...: a plausible slip in the definition that follows.              *)
(***************************************************************************)
EXTENDS Integers, Sequences, FiniteSetsExt

CONSTANTS
    MinSoak,       \* required_duration_secs, in ticks
    MaxGap,        \* maximum_heartbeat_gap_secs, in ticks
    MaxClock, MaxSamples, MaxMishaps,   \* bounds
    Nothing

CollectorHealth ==
    [status : {"starting", "running", "reconnecting", "sequence_uncertain", "failed", "stopped"},
     connected : BOOLEAN, dialled : BOOLEAN,
     reconnects : Nat, uncertain : Nat, dropped : Nat, shown : Nat]

ASSUME SoakAssumption ==
    /\ {MinSoak, MaxGap, MaxClock, MaxSamples, MaxMishaps} \subseteq Nat
    /\ Nothing \notin Nat \cup CollectorHealth

VARIABLES
    clock,
    started,       \* start_ts_ns of the session marker, or Nothing
    proc,          \* the collector process with its CollectorHealth, or Nothing
    samples,       \* health/history/<namespace>-<collector>/*.jsonl, since the marker
    mishaps,       \* faults so far
    suffered,      \* incidents published since the marker (history variable)
    downSince,     \* when the collector went down (history variable)
    outage         \* its longest outage since the marker (history variable)

soakVars == <<clock, started, proc, samples, mishaps, suffered, downSince, outage>>

FreshCollector == [status |-> "starting", connected |-> FALSE, dialled |-> FALSE,
                   reconnects |-> 0, uncertain |-> 0, dropped |-> 0, shown |-> 0]
EarlierCollector == [FreshCollector EXCEPT !.status = "running", !.connected = TRUE,
                         !.dialled = TRUE, !.reconnects = 1, !.shown = 1]

SoakInit ==
    /\ clock = 0 /\ started = Nothing
    /\ proc \in {Nothing, EarlierCollector}
    /\ samples = <<>> /\ mishaps = 0
    /\ suffered = 0 /\ downSince = Nothing /\ outage = 0

-----------------------------------------------------------------------------
(* What is published, and when the collector is up.                          *)

LastOf(hs) == hs[Len(hs)]
IncidentsOf(h) == h.reconnects + h.uncertain
SampleOf(h) == [at |-> clock, status |-> h.status, reconnects |-> h.reconnects,
                uncertain |-> h.uncertain, dropped |-> h.dropped]

(* Health states hs are published one after the other; samples from before   *)
(* the marker are outside the window and are not kept here.                  *)
Appends(hs) ==
    IF started = Nothing THEN UNCHANGED <<samples, suffered>>
    ELSE /\ Len(samples) + Len(hs) <= MaxSamples
         /\ samples' = samples \o [k \in DOMAIN hs |-> SampleOf(hs[k])]
         /\ suffered' = suffered + IncidentsOf(LastOf(hs)) - proc.shown
Published(h) ==
    /\ Appends(<<h>>)
    /\ proc' = [h EXCEPT !.shown = IncidentsOf(h)]
    /\ UNCHANGED <<clock, started, downSince, outage>>

Down == proc' = Nothing /\ downSince' = clock /\ UNCHANGED <<clock, started, outage>>
Mishap == mishaps < MaxMishaps /\ mishaps' = mishaps + 1

(* The marker starts the clock of the window.                                *)
CreateSession ==
    /\ started = Nothing
    /\ started' = clock
    /\ suffered' = 0 /\ outage' = 0
    /\ downSince' = IF proc = Nothing THEN clock ELSE Nothing
    /\ UNCHANGED <<clock, proc, samples, mishaps>>

(* The gate of a start: no marker, no collector.                             *)
CollectorStart ==
    /\ proc = Nothing /\ started # Nothing
    /\ proc' = FreshCollector
    /\ outage' = Max({outage, clock - downSince}) /\ downSince' = Nothing
    /\ UNCHANGED <<clock, started, samples, mishaps, suffered>>

-----------------------------------------------------------------------------
(* The collector and its health.                                             *)

(* run_forever counts a reconnect before it dials again, and tells nobody.   *)
Dials ==
    /\ proc # Nothing /\ ~proc.dialled
    /\ proc.reconnects < MaxMishaps + 1
    /\ proc' = [proc EXCEPT !.dialled = TRUE,
                            !.reconnects = IF proc.status = "reconnecting" THEN @ + 1 ELSE @]
    /\ UNCHANGED <<clock, started, samples, mishaps, suffered, downSince, outage>>

Opens ==
    /\ proc # Nothing /\ proc.dialled /\ ~proc.connected
    /\ Published([proc EXCEPT !.status = "running", !.connected = TRUE])
    /\ UNCHANGED mishaps

(* The venue drops the connection, or refuses it.                            *)
Closes ==
    /\ proc # Nothing /\ proc.dialled
    /\ Mishap
    /\ Published([proc EXCEPT !.status = "reconnecting", !.connected = FALSE, !.dialled = FALSE])

BecomesUncertain ==
    /\ proc # Nothing /\ proc.connected
    /\ Mishap
    /\ Published([proc EXCEPT !.uncertain = @ + 1, !.status = "sequence_uncertain"])

(* The health thread publishes every few seconds.                            *)
HealthBeat ==
    /\ proc # Nothing
    /\ started # Nothing
    /\ samples # <<>> => LastOf(samples).at < clock \/ IncidentsOf(proc) # proc.shown
    /\ Published(proc)
    /\ UNCHANGED mishaps

StoppedAs(h) == [h EXCEPT !.status = "stopped", !.connected = FALSE]

(* _fail_closed, and the stop that follows it.                               *)
Drops ==
    /\ proc # Nothing /\ proc.connected
    /\ Mishap
    /\ LET dropped == [proc EXCEPT !.dropped = @ + 1, !.status = "failed"] IN
       Appends(<<dropped, StoppedAs(dropped)>>)
    /\ Down

(* SIGTERM: the stopped state is published last.                             *)
StopsGracefully ==
    /\ proc # Nothing
    /\ Appends(<<StoppedAs(proc)>>)
    /\ Down
    /\ UNCHANGED mishaps

Killed ==
    /\ proc # Nothing
    /\ Mishap
    /\ Down
    /\ UNCHANGED <<samples, suffered>>

SoakTick ==
    /\ clock < MaxClock /\ clock' = clock + 1
    /\ UNCHANGED <<started, proc, samples, mishaps, suffered, downSince, outage>>

SoakNext ==
    \/ CreateSession \/ CollectorStart \/ Dials \/ Opens \/ Closes \/ BecomesUncertain
    \/ HealthBeat \/ Drops \/ StopsGracefully \/ Killed \/ SoakTick

SoakSpec == SoakInit /\ [][SoakNext]_soakVars

-----------------------------------------------------------------------------
(* The audit of the history, at this moment.                                 *)

(* A counter that went down belongs to a new process.                        *)
Increment(prior, count) == IF count < prior THEN count ELSE count - prior
Prior(k) == IF k = 1 THEN [reconnects |-> 0, uncertain |-> 0] ELSE samples[k - 1]
Increments ==
    [k \in DOMAIN samples |-> Increment(Prior(k).reconnects, samples[k].reconnects)
                              + Increment(Prior(k).uncertain, samples[k].uncertain)]
Mutant_LastCounters == IF samples = <<>> THEN 0 ELSE IncidentsOf(LastOf(samples))
IncidentsObserved == MapThenSumSet(LAMBDA k : Increments[k], DOMAIN samples)

Mutant_EndNotAudited ==
    /\ samples # <<>>
    /\ samples[1].at <= started + MaxGap
    /\ \A k \in 2..Len(samples) : samples[k].at - samples[k - 1].at <= MaxGap
Mutant_GapsNotAudited ==
    /\ samples # <<>>
    /\ samples[1].at <= started + MaxGap /\ LastOf(samples).at >= clock - MaxGap
SpeaksThroughout ==
    /\ samples # <<>>
    /\ samples[1].at <= started + MaxGap /\ LastOf(samples).at >= clock - MaxGap
    /\ \A k \in 2..Len(samples) : samples[k].at - samples[k - 1].at <= MaxGap

AuditQualifies ==
    /\ clock - started >= MinSoak
    /\ SpeaksThroughout
    /\ \A k \in DOMAIN samples :
          samples[k].dropped = 0 /\ samples[k].status \notin {"failed", "stopped"}

-----------------------------------------------------------------------------
(* Whatever restarts, kills and reconnects follow each other, the audit      *)
(* counts at least the incidents that the collector published since the      *)
(* marker: a counter that starts again hides none.                           *)
IncidentsAreCounted == started # Nothing => IncidentsObserved >= suffered

(* A window that passes its audit had a collector up all along: it was never *)
(* away for longer than the gap allowed, not even at the window's two ends.  *)
QualifiedSoakWasUp ==
    started # Nothing /\ AuditQualifies =>
        /\ outage <= MaxGap
        /\ downSince # Nothing => clock - downSince <= MaxGap

(* Both: an audit neither misses an incident nor a collector that was away.  *)
AuditMissesNothing == IncidentsAreCounted /\ QualifiedSoakWasUp
=================================================================================
