----------------------------- MODULE PhaseOneProofs -----------------------------
(***************************************************************************)
(* PhaseOne, for any number of sessions, commits and incidents.  The gate    *)
(* compares documents with each other and never with the marker on disk: it  *)
(* is the copies that must be shown to be of the marker.  They are, because a*)
(* marker is linked once and never replaced.                                 *)
(*   AlertDelivery, whose evidence Phase 1 asks for, for any number of       *)
(* alerts, threads, days and faults.  What must be followed is a thread      *)
(* between its writes: the day's file holds the receipt from the first write *)
(* on, and a success is only written of an alert that the endpoint took.     *)
(*   SoakAudit, whose report Phase 1 asks for, for a window of any length.   *)
(* What was published adds up to no more than what the audit counts, because *)
(* a process starts its counters from zero and samples all that it counts;   *)
(* an outage leaves a silence in the history that no later sample fills.     *)
(***************************************************************************)
EXTENDS PhaseOne, AlertDelivery, SoakAudit, SetSums, TLAPS

Forecasts == [commit : Commit]
Markers == [commit : Commit, forecast : Forecasts]

PhaseTypeOK ==
    /\ forecast \in Forecasts \cup {NoFile}
    /\ marker \in [Session -> Markers \cup {NoFile}]

(* A copy of a marker that was there when it was taken, and still is.        *)
CopyOf(m, s) == s \in Session /\ marker[s] # NoFile /\ m = marker[s]

SoakIsOfMarker ==
    soak # NoFile => CopyOf(soak.marker, soak.session) /\ soak.commit = soak.marker.commit

EvidenceIsOfMarker ==
    evidence # NoFile =>
        /\ evidence.drill \in drills
        /\ CopyOf(evidence.bundle.marker, evidence.bundle.session)
        /\ evidence.bundle.forecast = evidence.bundle.marker.forecast

PhaseInv == PhaseTypeOK /\ SoakIsOfMarker /\ EvidenceIsOfMarker /\ AcceptedIsOneSession

-----------------------------------------------------------------------------
(* A marker is never replaced: a copy stays one over every step.             *)
LEMMA CopyStays ==
    ASSUME PhaseTypeOK, PhaseNext \/ UNCHANGED phaseVars, NEW m, NEW s, CopyOf(m, s)
    PROVE  CopyOf(m, s)'
<1>1. CASE marker' = marker
  BY <1>1 DEF CopyOf
<1>2. ASSUME NEW t \in Session, NEW c \in Commit, CreateRawSoakSession(t, c)
      PROVE  CopyOf(m, s)'
  <2>1. s # t
    BY <1>2 DEF CreateRawSoakSession, CopyOf
  <2>2. marker'[s] = marker[s]
    BY <1>2, <2>1 DEF CreateRawSoakSession, CopyOf, PhaseTypeOK
  <2>3. QED
    BY <2>2 DEF CopyOf
<1>3. QED
  BY <1>1, <1>2 DEF PhaseNext, phaseVars, ForecastCapacity, CheckAcceptance, ForecastAges,
                    AuditRawSoak, CaptureDrill, Approve

LEMMA PhaseTypeStays == PhaseTypeOK /\ (PhaseNext \/ UNCHANGED phaseVars) => PhaseTypeOK'
<1> SUFFICES ASSUME PhaseTypeOK, PhaseNext \/ UNCHANGED phaseVars PROVE PhaseTypeOK'
  OBVIOUS
<1>1. ASSUME NEW c \in Commit, ForecastCapacity(c) PROVE PhaseTypeOK'
  BY <1>1 DEF ForecastCapacity, PhaseTypeOK, Forecasts
<1>2. ASSUME NEW s \in Session, NEW c \in Commit, CreateRawSoakSession(s, c)
      PROVE  PhaseTypeOK'
  <2>1. [commit |-> c, forecast |-> forecast] \in Markers
    BY <1>2 DEF CreateRawSoakSession, PhaseTypeOK, Markers
  <2>2. QED
    BY <1>2, <2>1 DEF CreateRawSoakSession, PhaseTypeOK
<1>3. QED
  BY <1>1, <1>2 DEF PhaseNext, phaseVars, PhaseTypeOK, CheckAcceptance, ForecastAges,
                    AuditRawSoak, CaptureDrill, Approve

LEMMA PhaseInvStays == PhaseInv /\ [PhaseNext]_phaseVars => PhaseInv'
<1> SUFFICES ASSUME PhaseInv, PhaseNext \/ UNCHANGED phaseVars PROVE PhaseInv'
  OBVIOUS
<1>0. PhaseTypeOK'
  BY PhaseTypeStays DEF PhaseInv
<1> DEFINE Same == UNCHANGED <<soak, drills, evidence, accepted>>
(* Steps that leave the later documents alone.                               *)
<1>1. CASE Same
  <2>1. SoakIsOfMarker'
    BY <1>1, CopyStays DEF PhaseInv, SoakIsOfMarker
  <2>2. EvidenceIsOfMarker'
    BY <1>1, CopyStays DEF PhaseInv, EvidenceIsOfMarker
  <2>3. CASE accepted = NoFile
    BY <1>0, <2>1, <2>2, <2>3, <1>1 DEF PhaseInv, AcceptedIsOneSession
  <2>4. CASE UNCHANGED phaseVars
    BY <1>0, <2>1, <2>2, <2>4 DEF PhaseInv, AcceptedIsOneSession, phaseVars
  <2>5. QED
    BY <2>3, <2>4 DEF PhaseNext
<1>2. ASSUME NEW s \in Session, AuditRawSoak(s), accepted = NoFile PROVE PhaseInv'
  <2>1. SoakIsOfMarker'
    BY <1>2 DEF AuditRawSoak, Marked, SoakIsOfMarker, CopyOf
  <2>2. EvidenceIsOfMarker'
    BY <1>2, CopyStays DEF AuditRawSoak, PhaseInv, EvidenceIsOfMarker
  <2>3. QED
    BY <1>0, <1>2, <2>1, <2>2 DEF AuditRawSoak, PhaseInv, AcceptedIsOneSession
<1>3. ASSUME NEW s \in Session, CaptureDrill(s), accepted = NoFile PROVE PhaseInv'
  <2>1. SoakIsOfMarker'
    BY <1>3, CopyStays DEF CaptureDrill, PhaseInv, SoakIsOfMarker
  <2>2. EvidenceIsOfMarker'
    BY <1>3, CopyStays DEF CaptureDrill, PhaseInv, EvidenceIsOfMarker
  <2>3. QED
    BY <1>0, <1>3, <2>1, <2>2 DEF CaptureDrill, PhaseInv, AcceptedIsOneSession
<1>4. ASSUME NEW s \in Session, Approve(s), accepted = NoFile PROVE PhaseInv'
  <2>1. SoakIsOfMarker'
    BY <1>4, CopyStays DEF Approve, PhaseInv, SoakIsOfMarker
  <2>2. EvidenceIsOfMarker'
    BY <1>4 DEF Approve, Marked, EvidenceIsOfMarker, CopyOf
  <2>3. QED
    BY <1>0, <1>4, <2>1, <2>2 DEF Approve, PhaseInv, AcceptedIsOneSession
<1>5. ASSUME NEW c \in Commit, CheckAcceptance(c) PROVE PhaseInv'
  <2>1. SoakIsOfMarker' /\ EvidenceIsOfMarker'
    BY <1>5 DEF CheckAcceptance, PhaseInv, SoakIsOfMarker, EvidenceIsOfMarker, CopyOf
  <2>2. /\ CopyOf(soak.marker, soak.session) /\ soak.commit = soak.marker.commit
        /\ evidence.drill \in drills
        /\ evidence.bundle.forecast = evidence.bundle.marker.forecast
        /\ evidence.bundle.marker = soak.marker
    BY <1>5 DEF CheckAcceptance, PhaseInv, SoakIsOfMarker, EvidenceIsOfMarker
  <2>3. AcceptedIsOneSession'
    BY <1>5, <2>2 DEF CheckAcceptance, BundleHolds, ValidDrillReport, IncidentsReconciled,
                      CopyOf, AcceptedIsOneSession
  <2>4. QED
    BY <1>0, <2>1, <2>3 DEF PhaseInv
<1>6. QED
  BY <1>1, <1>2, <1>3, <1>4, <1>5 DEF PhaseNext, phaseVars, ForecastCapacity, ForecastAges,
                                      CreateRawSoakSession

(* Whatever is forecast, audited, drilled, bundled and approved in whatever  *)
(* order, an accepted Phase 1 is one session of one commit throughout, all of*)
(* it of the marker on disk, with every incident of its soak reconciled.     *)
THEOREM AcceptedAlwaysOneSession ==
    PhaseInit /\ [][PhaseNext]_phaseVars => []AcceptedIsOneSession
<1>1. PhaseInit => PhaseInv
  BY DEF PhaseInit, PhaseInv, PhaseTypeOK, SoakIsOfMarker, EvidenceIsOfMarker,
         AcceptedIsOneSession
<1>2. PhaseInv => AcceptedIsOneSession
  BY DEF PhaseInv
<1>3. QED
  BY <1>1, <1>2, PhaseInvStays, PTL

-----------------------------------------------------------------------------
(* The alert receiver.                                                       *)

RecordType == [type : {"receipt", "success", "failure"}, event : AlertEvent, at : 0..MaxInstant]

Busy == [step : {"receipt", "forward", "success", "failure"}, event : AlertEvent,
         received : 0..MaxInstant, at : 0..MaxInstant]

JournalTypes ==
    /\ journal \in [AlertDay -> Seq(RecordType \cup {Spoilt})]
    /\ unended \subseteq AlertDay
    /\ \A d \in unended : journal[d] # <<>>

AlertTypes ==
    /\ instant \in 0..MaxInstant
    /\ waiting \in [AlertEvent -> Handler \cup AlertAnswer]
    /\ handler \in [Handler -> Busy \cup {Free}]
    /\ JournalTypes

(* A day's file has the event's receipt, of that time or before.             *)
Received(e, d, t) ==
    \/ Marred(d)
    \/ \E k \in DOMAIN journal[d] :
        journal[d][k].type = "receipt" /\ journal[d][k].event = e /\ journal[d][k].at <= t

(* The file has a receipt of the event and a success after it.               *)
Confirmed(e, d) ==
    \/ Marred(d)
    \/ \E k \in DOMAIN journal[d] : \E n \in 1..(k - 1) :
        /\ journal[d][k].type = "success" /\ journal[d][k].event = e
        /\ journal[d][n].type = "receipt" /\ journal[d][n].event = e

Reached(e, d) == \E x \in delivered : x.event = e /\ x.file = d

(* What an answer stands for.                                                *)
AnswerOK(e, w) ==
    /\ w.answer = "forwarded" => Reached(e, w.file) /\ Confirmed(e, w.file)
    /\ w.answer = "stored" => Received(e, w.file, MaxInstant)

(* What a thread may rely on at each of its steps.                           *)
HandlerOK(h) ==
    handler[h] # Free =>
        LET c == handler[h] IN
        /\ c.received <= instant
        /\ c.step = "receipt" => c.at = c.received
        /\ c.step # "receipt" => Received(c.event, DayAt(c.received), c.received)
        /\ c.step = "success" => Reached(c.event, DayAt(c.received))

DeliveredOK(x) == x.file \in AlertDay /\ Received(x.event, x.file, x.at)

SuccessIsReached ==
    \A d \in AlertDay : \A k \in DOMAIN journal[d] :
        journal[d][k].type = "success" => Reached(journal[d][k].event, d)

AlertInv ==
    /\ AlertTypes
    /\ \A h \in Handler : HandlerOK(h)
    /\ \A x \in delivered : DeliveredOK(x)
    /\ SuccessIsReached
    /\ \A e \in AlertEvent : waiting[e] \in Handler \/ AnswerOK(e, waiting[e])

-----------------------------------------------------------------------------
(* Days and times.                                                           *)
LEMMA DayOfInstant ==
    ASSUME NEW t \in 0..MaxInstant
    PROVE  DayAt(t) \in AlertDay
<1>1. MaxInstant \in Nat /\ t \in Nat /\ t <= MaxInstant
  BY AlertAssumption
<1>2. t \div 2 \in Nat /\ t \div 2 <= MaxInstant \div 2 /\ MaxInstant \div 2 \in Nat
  BY <1>1
<1> QED
  BY <1>2 DEF DayAt, AlertDay

LEMMA SpoiltIsNoRecord == Spoilt.type = "spoilt" /\ Spoilt.type # "success"
  BY DEF Spoilt

(* A file keeps its lines, or has one that is spoilt.                        *)
Grows ==
    \A d \in AlertDay : \A k \in DOMAIN journal[d] :
        k \in DOMAIN journal'[d] /\ (Marred(d)' \/ journal'[d][k] = journal[d][k])

(* A success that is new is of an alert that reached the endpoint.           *)
OnlyTrueSuccesses ==
    \A d \in AlertDay : \A k \in DOMAIN journal'[d] :
        \/ k \in DOMAIN journal[d] /\ journal'[d][k] = journal[d][k]
        \/ journal'[d][k].type # "success"
        \/ Reached(journal[d][k].event, d)'

(* What holds of the journal and the endpoint goes on holding.               *)
LEMMA PastIsKept ==
    ASSUME AlertTypes, Grows, delivered \subseteq delivered'
    PROVE  /\ \A e, t : \A d \in AlertDay : Received(e, d, t) => Received(e, d, t)'
           /\ \A e : \A d \in AlertDay : Confirmed(e, d) => Confirmed(e, d)'
           /\ \A e, d : Reached(e, d) => Reached(e, d)'
<1>0. ASSUME NEW d \in AlertDay, Marred(d)
      PROVE  Marred(d)'
  BY <1>0 DEF Grows, Marred
<1>1. ASSUME NEW e, NEW t, NEW d \in AlertDay, Received(e, d, t), ~Marred(d)'
      PROVE  Received(e, d, t)'
  <2>1. PICK k \in DOMAIN journal[d] :
            journal[d][k].type = "receipt" /\ journal[d][k].event = e /\ journal[d][k].at <= t
    BY <1>0, <1>1 DEF Received
  <2>2. k \in DOMAIN journal'[d] /\ journal'[d][k] = journal[d][k]
    BY <1>1 DEF Grows
  <2> QED
    BY <2>1, <2>2 DEF Received
<1>2. ASSUME NEW e, NEW d \in AlertDay, Confirmed(e, d), ~Marred(d)'
      PROVE  Confirmed(e, d)'
  <2>1. PICK k \in DOMAIN journal[d] : \E n \in 1..(k - 1) :
            /\ journal[d][k].type = "success" /\ journal[d][k].event = e
            /\ journal[d][n].type = "receipt" /\ journal[d][n].event = e
    BY <1>0, <1>2 DEF Confirmed
  <2>2. PICK n \in 1..(k - 1) :
            /\ journal[d][k].type = "success" /\ journal[d][k].event = e
            /\ journal[d][n].type = "receipt" /\ journal[d][n].event = e
    BY <2>1
  <2>3. n \in DOMAIN journal[d]
    <3>1. journal[d] \in Seq(RecordType \cup {Spoilt})
      BY DEF AlertTypes, JournalTypes
    <3> QED
      BY <3>1
  <2>4. k \in DOMAIN journal'[d] /\ journal'[d][k] = journal[d][k] /\ journal'[d][n] = journal[d][n]
    BY <1>2, <2>3 DEF Grows
  <2> QED
    BY <2>2, <2>4 DEF Confirmed
<1>3. ASSUME NEW e, NEW d, Reached(e, d)
      PROVE  Reached(e, d)'
  BY <1>3 DEF Reached
<1>4. ASSUME NEW e, NEW t, NEW d \in AlertDay, Received(e, d, t)
      PROVE  Received(e, d, t)'
  <2>1. CASE Marred(d)'
    BY <2>1 DEF Received
  <2> QED
    BY <1>1, <1>4, <2>1
<1>5. ASSUME NEW e, NEW d \in AlertDay, Confirmed(e, d)
      PROVE  Confirmed(e, d)'
  <2>1. CASE Marred(d)'
    BY <2>1 DEF Confirmed
  <2> QED
    BY <1>2, <1>5, <2>1
<1> QED
  BY <1>3, <1>4, <1>5

LEMMA AnswerStands ==
    ASSUME AlertTypes, Grows, delivered \subseteq delivered', NEW e, NEW w \in AlertAnswer, AnswerOK(e, w)
    PROVE  AnswerOK(e, w)'
<1>1. w.answer \in {"forwarded", "stored"} => w.file \in AlertDay
  BY DEF AlertAnswer, Due
<1> QED
  BY <1>1, PastIsKept DEF AnswerOK

(* What a step has to show.                                                  *)
LEMMA StepKeeps ==
    ASSUME AlertInv, AlertTypes', instant <= instant', Grows, delivered \subseteq delivered',
           OnlyTrueSuccesses,
           \A h \in Handler : handler'[h] = handler[h] \/ HandlerOK(h)',
           \A x \in delivered' : x \in delivered \/ DeliveredOK(x)',
           \A e \in AlertEvent :
               waiting'[e] \in Handler \/ waiting'[e] = waiting[e] \/ AnswerOK(e, waiting[e])'
    PROVE  AlertInv'
<1>0. AlertTypes
  BY DEF AlertInv
<1>1. ASSUME NEW h \in Handler
      PROVE  HandlerOK(h)'
  <2>1. CASE handler'[h] = handler[h] /\ handler[h] # Free
    <3>0. PICK c : c = handler[h]
      OBVIOUS
    <3>1. c \in Busy /\ HandlerOK(h) /\ c # Free /\ handler'[h] = c
      BY <2>1, <3>0 DEF AlertInv, AlertTypes
    <3>2. c.received \in 0..MaxInstant /\ DayAt(c.received) \in AlertDay
      BY <3>1, DayOfInstant DEF Busy
    <3>3. c.received <= instant'
      <4>1. c.received <= instant /\ instant \in Int /\ instant' \in Int /\ c.received \in Int
        BY <2>1, <3>0, <3>1, <3>2, AlertAssumption DEF HandlerOK, AlertInv, AlertTypes
      <4> QED
        BY <4>1
    <3>4. c.step # "receipt" => Received(c.event, DayAt(c.received), c.received)'
      <4>1. c.step # "receipt" => Received(c.event, DayAt(c.received), c.received)
        BY <3>0, <3>1 DEF HandlerOK
      <4> QED
        BY <1>0, <3>2, <4>1, PastIsKept
    <3>5. c.step = "success" => Reached(c.event, DayAt(c.received))'
      <4>1. c.step = "success" => Reached(c.event, DayAt(c.received))
        BY <3>0, <3>1 DEF HandlerOK
      <4> QED
        BY <1>0, <4>1, PastIsKept
    <3>6. c.step = "receipt" => c.at = c.received
      BY <3>0, <3>1 DEF HandlerOK
    <3> QED
      BY <3>1, <3>3, <3>4, <3>5, <3>6 DEF HandlerOK
  <2>2. CASE handler'[h] = Free
    BY <2>2 DEF HandlerOK
  <2> QED
    BY <2>1, <2>2
<1>2. ASSUME NEW x \in delivered'
      PROVE  DeliveredOK(x)'
  <2>1. CASE x \in delivered
    <3>1. x.file \in AlertDay /\ Received(x.event, x.file, x.at)
      BY <2>1 DEF AlertInv, DeliveredOK
    <3> QED
      BY <1>0, <3>1, PastIsKept DEF DeliveredOK
  <2> QED
    BY <2>1
<1>3. SuccessIsReached'
  <2> SUFFICES ASSUME NEW d \in AlertDay, NEW k \in DOMAIN journal'[d], journal'[d][k].type = "success"
               PROVE  Reached(journal[d][k].event, d)'
    BY DEF SuccessIsReached
  <2>1. CASE k \in DOMAIN journal[d] /\ journal'[d][k] = journal[d][k]
    <3>1. Reached(journal[d][k].event, d)
      BY <2>1 DEF AlertInv, SuccessIsReached
    <3> QED
      BY <1>0, <2>1, <3>1, PastIsKept
  <2> QED
    BY <2>1 DEF OnlyTrueSuccesses
<1>4. ASSUME NEW e \in AlertEvent
      PROVE  waiting'[e] \in Handler \/ AnswerOK(e, waiting[e])'
  <2>1. CASE waiting'[e] = waiting[e] /\ waiting[e] \notin Handler
    <3>1. PICK w \in AlertAnswer : w = waiting[e]
      BY <1>0, <2>1 DEF AlertTypes
    <3>2. AnswerOK(e, w)
      BY <2>1, <3>1 DEF AlertInv
    <3> QED
      BY <1>0, <2>1, <3>1, <3>2, AnswerStands
  <2> QED
    BY <2>1
<1> QED
  BY <1>1, <1>2, <1>3, <1>4 DEF AlertInv

-----------------------------------------------------------------------------
(* Steps.                                                                    *)

(* A step that leaves the journal and the endpoint alone.                    *)
LEMMA QuietKeeps ==
    ASSUME AlertInv, AlertTypes', instant <= instant', UNCHANGED <<journal, delivered>>,
           \A h \in Handler : handler'[h] = handler[h] \/ HandlerOK(h)',
           \A e \in AlertEvent : waiting'[e] \in Handler \/ waiting'[e] = waiting[e] \/ waiting'[e] = Due
    PROVE  AlertInv'
<1>1. Grows /\ OnlyTrueSuccesses
  BY DEF Grows, OnlyTrueSuccesses
<1>2. \A e \in AlertEvent : AnswerOK(e, Due)'
  BY DEF AnswerOK, Due
<1> QED
  BY <1>1, <1>2, StepKeeps

LEMMA InstantStays ==
    ASSUME AlertTypes, UNCHANGED instant
    PROVE  instant <= instant'
  BY AlertAssumption DEF AlertTypes

LEMMA PostsKeeps ==
    ASSUME AlertInv, NEW h \in Handler, NEW e \in AlertEvent, Posts(h, e)
    PROVE  AlertInv'
<1>0. PICK t : t = instant
  OBVIOUS
<1> DEFINE c == [step |-> "receipt", event |-> e, received |-> t, at |-> t]
<1>1. AlertTypes /\ UNCHANGED <<instant, journal, unended, delivered>> /\ instant <= instant'
  BY InstantStays DEF Posts, AlertInv
<1>2. handler' = [handler EXCEPT ![h] = c] /\ waiting' = [waiting EXCEPT ![e] = h] /\ c \in Busy
  BY <1>0, <1>1 DEF Posts, AlertTypes, Busy
<1>3. AlertTypes'
  BY <1>1, <1>2 DEF AlertTypes, JournalTypes
<1>4. HandlerOK(h)'
  <2>1. handler'[h] = c /\ t <= instant'
    BY <1>0, <1>1, <1>2 DEF AlertTypes
  <2> QED
    BY <2>1 DEF HandlerOK
<1>5. \A g \in Handler : handler'[g] = handler[g] \/ HandlerOK(g)'
  BY <1>1, <1>2, <1>4 DEF AlertTypes
<1>6. \A f \in AlertEvent : waiting'[f] \in Handler \/ waiting'[f] = waiting[f]
  BY <1>1, <1>2 DEF AlertTypes
<1> QED
  BY <1>1, <1>3, <1>5, <1>6, QuietKeeps

(* A request that is answered leaves a free thread.                          *)
LEMMA AnsweredKeeps ==
    ASSUME AlertInv, NEW h \in Handler, handler[h] # Free, UNCHANGED instant,
           NEW answer \in {"due", "forwarded", "stored"}, Answers(h, answer),
           NEW e, NEW d, e = handler[h].event, d = FileDay(h),
           JournalTypes', Grows, OnlyTrueSuccesses, delivered \subseteq delivered',
           \A x \in delivered' : x \in delivered \/ DeliveredOK(x)',
           answer = "forwarded" => Reached(e, d)' /\ Confirmed(e, d)',
           answer = "stored" => Received(e, d, MaxInstant)'
    PROVE  AlertInv'
<1>1. AlertTypes /\ instant <= instant'
  BY InstantStays DEF AlertInv
<1>2. e \in AlertEvent /\ d \in AlertDay
  BY <1>1, DayOfInstant DEF AlertTypes, Busy, FileDay
<1> DEFINE w == IF answer = "due" THEN Due ELSE [answer |-> answer, file |-> d]
<1>3. /\ handler' = [handler EXCEPT ![h] = Free]
      /\ waiting' = [waiting EXCEPT ![e] = IF waiting[e] # h THEN waiting[e] ELSE w]
  BY <1>1, <1>2 DEF Answers, AlertTypes
<1>4. w \in AlertAnswer /\ AnswerOK(e, w)'
  <2>1. CASE answer = "due"
    BY <2>1 DEF AlertAnswer, AnswerOK, Due
  <2>2. CASE answer # "due"
    <3>1. PICK v : v = [answer |-> answer, file |-> d]
      OBVIOUS
    <3>2. v \in AlertAnswer /\ v.answer = answer /\ v.file = d
      BY <1>2, <2>2, <3>1 DEF AlertAnswer
    <3>3. AnswerOK(e, v)'
      BY <3>2 DEF AnswerOK
    <3> QED
      BY <2>2, <3>1, <3>2, <3>3
  <2> QED
    BY <2>1, <2>2
<1> HIDE DEF w
<1>5. AlertTypes'
  BY <1>1, <1>3, <1>4 DEF AlertTypes
<1>6. \A g \in Handler : handler'[g] = handler[g] \/ HandlerOK(g)'
  BY <1>1, <1>3 DEF AlertTypes, HandlerOK
<1>7. \A f \in AlertEvent :
         waiting'[f] \in Handler \/ waiting'[f] = waiting[f] \/ AnswerOK(f, waiting[f])'
  BY <1>1, <1>3, <1>4 DEF AlertTypes
<1> QED
  BY <1>1, <1>5, <1>6, <1>7, StepKeeps

-----------------------------------------------------------------------------
(* Appends.                                                                  *)

(* A line more in a file, or its last line spoilt.                           *)
LEMMA PutLineFacts ==
    ASSUME JournalTypes, NEW d \in AlertDay, NEW line \in RecordType \cup {Spoilt}, PutLine(d, line)
    PROVE  /\ journal' \in [AlertDay -> Seq(RecordType \cup {Spoilt})] /\ Grows
           /\ journal'[d] # <<>>
           /\ \A b \in AlertDay : \A k \in DOMAIN journal'[b] :
                 \/ k \in DOMAIN journal[b] /\ journal'[b][k] = journal[b][k]
                 \/ journal'[b][k] = Spoilt
                 \/ b = d /\ journal'[b][k] = line
           /\ \/ Marred(d)'
              \/ \E k \in DOMAIN journal'[d] : /\ journal'[d][k] = line
                                               /\ \A n \in DOMAIN journal[d] : n \in 1..(k - 1)
<1>1. journal[d] \in Seq(RecordType \cup {Spoilt}) /\ Len(journal[d]) \in Nat
      /\ DOMAIN journal[d] = 1..Len(journal[d])
  BY DEF JournalTypes
<1> DEFINE last == Len(journal[d])
<1>2. CASE d \in unended
  <2> DEFINE lines == [journal[d] EXCEPT ![last] = Spoilt]
  <2>1. last \in DOMAIN journal[d] /\ journal[d] # <<>>
    BY <1>1, <1>2 DEF JournalTypes
  <2>2. lines \in Seq(RecordType \cup {Spoilt}) /\ DOMAIN lines = DOMAIN journal[d] /\ lines[last] = Spoilt
        /\ \A k \in DOMAIN journal[d] : lines[k] = journal[d][k] \/ lines[k] = Spoilt
    BY <1>1, <2>1
  <2>3. journal' = [journal EXCEPT ![d] = lines]
    BY <1>2 DEF PutLine
  <2> HIDE DEF lines, last
  <2>4. /\ journal' \in [AlertDay -> Seq(RecordType \cup {Spoilt})] /\ journal'[d] = lines
        /\ \A b \in AlertDay : b # d => journal'[b] = journal[b]
    BY <2>2, <2>3 DEF JournalTypes
  <2>5. Marred(d)'
    BY <2>1, <2>2, <2>4, SpoiltIsNoRecord DEF Marred
  <2>6. Grows
    BY <2>2, <2>4, <2>5 DEF Grows
  <2>7. journal'[d] # <<>>
    BY <2>1, <2>2, <2>4
  <2>8. \A b \in AlertDay : \A k \in DOMAIN journal'[b] :
            k \in DOMAIN journal[b] /\ (journal'[b][k] = journal[b][k] \/ journal'[b][k] = Spoilt)
    BY <2>2, <2>4
  <2> QED
    BY <2>4, <2>5, <2>6, <2>7, <2>8
<1>3. CASE d \notin unended
  <2> DEFINE lines == Append(journal[d], line)
  <2>1. /\ lines \in Seq(RecordType \cup {Spoilt}) /\ DOMAIN lines = 1..(last + 1)
        /\ lines[last + 1] = line /\ \A k \in 1..last : lines[k] = journal[d][k]
    BY <1>1
  <2>2. journal' = [journal EXCEPT ![d] = lines]
    BY <1>3 DEF PutLine
  <2>3. last + 1 \in 1..(last + 1) /\ \A n \in 1..last : n \in 1..((last + 1) - 1) /\ n \in 1..(last + 1)
    BY <1>1
  <2>4. \A k \in 1..(last + 1) : k = last + 1 \/ k \in 1..last
    BY <1>1
  <2> HIDE DEF lines
  <2>5. /\ journal' \in [AlertDay -> Seq(RecordType \cup {Spoilt})] /\ journal'[d] = lines
        /\ \A b \in AlertDay : b # d => journal'[b] = journal[b]
    BY <2>1, <2>2 DEF JournalTypes
  <2>6. Grows
    BY <1>1, <2>1, <2>3, <2>5 DEF Grows
  <2>7. journal'[d] # <<>>
    BY <2>1, <2>3, <2>5
  <2>8. \A b \in AlertDay : \A k \in DOMAIN journal'[b] :
            \/ k \in DOMAIN journal[b] /\ journal'[b][k] = journal[b][k]
            \/ b = d /\ journal'[b][k] = line
    BY <1>1, <2>1, <2>4, <2>5
  <2>9. /\ last + 1 \in DOMAIN journal'[d] /\ journal'[d][last + 1] = line
        /\ \A n \in DOMAIN journal[d] : n \in 1..((last + 1) - 1)
    BY <1>1, <2>1, <2>3, <2>5
  <2> QED
    BY <2>5, <2>6, <2>7, <2>8, <2>9
<1> QED
  BY <1>2, <1>3

(* The record of a thread that is at an append.                              *)
LEMMA RecordFacts ==
    ASSUME AlertInv, NEW h \in Handler, handler[h].step \in {"receipt", "success", "failure"},
           handler[h] # Free
    PROVE  /\ FileDay(h) \in AlertDay /\ Record(h) \in RecordType
           /\ Record(h).type = handler[h].step /\ Record(h).event = handler[h].event
           /\ Record(h).at = handler[h].at
           /\ Record(h).type = "success" => Reached(Record(h).event, FileDay(h))
<1>1. PICK c \in Busy : c = handler[h] /\ HandlerOK(h)
  BY DEF AlertInv, AlertTypes
<1>2. c.received \in 0..MaxInstant /\ DayAt(c.received) \in AlertDay
  BY DayOfInstant DEF Busy
<1>3. Record(h) = [type |-> c.step, event |-> c.event, at |-> c.at] /\ FileDay(h) = DayAt(c.received)
  BY <1>1 DEF Record, FileDay
<1>4. Record(h) \in RecordType
  BY <1>1, <1>3 DEF RecordType, Busy
<1>5. c.step = "success" => Reached(c.event, DayAt(c.received))
  BY <1>1 DEF HandlerOK
<1> QED
  BY <1>1, <1>2, <1>3, <1>4, <1>5

(* A line that a thread puts into its file tells no untruth.                 *)
LEMMA PutLineIsTrue ==
    ASSUME AlertInv, NEW h \in Handler, handler[h].step \in {"receipt", "success", "failure"},
           handler[h] # Free, UNCHANGED delivered,
           NEW line \in {Record(h), Spoilt}, PutLine(FileDay(h), line)
    PROVE  OnlyTrueSuccesses
<1>1. /\ FileDay(h) \in AlertDay /\ Record(h) \in RecordType
      /\ Record(h).type = "success" => Reached(Record(h).event, FileDay(h))
  BY RecordFacts
<1>2. JournalTypes
  BY DEF AlertInv, AlertTypes
<1>3. \A b \in AlertDay : \A k \in DOMAIN journal'[b] :
         \/ k \in DOMAIN journal[b] /\ journal'[b][k] = journal[b][k]
         \/ journal'[b][k] = Spoilt
         \/ b = FileDay(h) /\ journal'[b][k] = Record(h)
  BY <1>1, <1>2, PutLineFacts
<1>4. \A e, d : Reached(e, d) => Reached(e, d)'
  BY DEF Reached
<1> QED
  BY <1>1, <1>3, <1>4, SpoiltIsNoRecord DEF OnlyTrueSuccesses

(* An append, or one that does not return.                                   *)
LEMMA CutShortFacts ==
    ASSUME AlertInv, NEW h \in Handler, handler[h].step \in {"receipt", "success", "failure"},
           handler[h] # Free, UNCHANGED delivered, CutShort(h)
    PROVE  JournalTypes' /\ Grows /\ OnlyTrueSuccesses
<1>1. JournalTypes /\ FileDay(h) \in AlertDay /\ Record(h) \in RecordType
  BY RecordFacts DEF AlertInv, AlertTypes
<1>2. CASE UNCHANGED <<journal, unended>>
  BY <1>1, <1>2 DEF JournalTypes, Grows, OnlyTrueSuccesses
<1>3. ASSUME NEW line \in {Record(h), Spoilt}, PutLine(FileDay(h), line),
             unended' = unended \ {FileDay(h)} \/ unended' = unended \cup {FileDay(h)}
      PROVE  JournalTypes' /\ Grows /\ OnlyTrueSuccesses
  <2>1. /\ journal' \in [AlertDay -> Seq(RecordType \cup {Spoilt})] /\ Grows
        /\ journal'[FileDay(h)] # <<>>
    BY <1>1, <1>3, PutLineFacts
  <2>2. ASSUME NEW d \in unended'
        PROVE  journal'[d] # <<>>
    <3>1. CASE d \in unended /\ d # FileDay(h)
      <4>1. d \in AlertDay /\ journal[d] # <<>> /\ journal[d] \in Seq(RecordType \cup {Spoilt})
        BY <1>1, <3>1 DEF JournalTypes
      <4>2. 1 \in DOMAIN journal[d]
        BY <4>1
      <4>3. 1 \in DOMAIN journal'[d]
        BY <2>1, <4>1, <4>2 DEF Grows
      <4> QED
        BY <4>3
    <3> QED
      BY <1>3, <2>1, <3>1
  <2>3. OnlyTrueSuccesses
    BY <1>3, PutLineIsTrue
  <2> QED
    BY <1>1, <1>3, <2>1, <2>2, <2>3 DEF JournalTypes
<1> QED
  BY <1>2, <1>3 DEF CutShort, Appended

LEMMA AppendFailsKeeps ==
    ASSUME AlertInv, NEW h \in Handler, handler[h].step \in {"receipt", "success", "failure"},
           handler[h] # Free, AppendFails(h)
    PROVE  AlertInv'
<1>1. Answers(h, "due") /\ CutShort(h) /\ UNCHANGED <<instant, delivered>>
  BY DEF AppendFails
<1>2. JournalTypes' /\ Grows /\ OnlyTrueSuccesses
  BY <1>1, CutShortFacts
<1> QED
  BY <1>1, <1>2, AnsweredKeeps

(* The record that is in the file afterwards, unless the file is marred.     *)
LEMMA AppendedFacts ==
    ASSUME AlertInv, NEW h \in Handler, handler[h].step \in {"receipt", "success", "failure"},
           handler[h] # Free, UNCHANGED delivered, Appended(h), NEW d, d = FileDay(h)
    PROVE  /\ JournalTypes' /\ Grows /\ OnlyTrueSuccesses
           /\ \/ Marred(d)'
              \/ \E k \in DOMAIN journal'[d] : /\ journal'[d][k] = Record(h)
                                               /\ \A n \in DOMAIN journal[d] : n \in 1..(k - 1)
<1>1. JournalTypes /\ d \in AlertDay /\ Record(h) \in RecordType
  BY RecordFacts DEF AlertInv, AlertTypes
<1>2. JournalTypes' /\ Grows /\ OnlyTrueSuccesses
  BY CutShortFacts DEF CutShort
<1>3. PutLine(d, Record(h))
  BY DEF Appended
<1> QED
  BY <1>1, <1>2, <1>3, PutLineFacts

LEMMA WritesReceiptKeeps ==
    ASSUME AlertInv, NEW h \in Handler, WritesReceipt(h)
    PROVE  AlertInv'
<1>1. AlertTypes /\ handler[h] # Free /\ handler[h].step = "receipt"
  BY DEF AlertInv, WritesReceipt, Free
<1>2. ASSUME Appended(h), UNCHANGED <<instant, delivered>>,
             \/ Goes(h, "forward") /\ UNCHANGED waiting
             \/ Answers(h, "stored")
      PROVE  AlertInv'
  <2>1. PICK c \in Busy : c = handler[h] /\ c.at = c.received /\ c.received <= instant
    BY <1>1 DEF AlertTypes, AlertInv, HandlerOK
  <2>2. PICK d \in AlertDay : d = FileDay(h) /\ d = DayAt(c.received)
    BY <1>1, <2>1, RecordFacts DEF FileDay
  <2>3. JournalTypes' /\ Grows /\ OnlyTrueSuccesses
    BY <1>1, <1>2, AppendedFacts
  <2>4. Received(c.event, d, c.received)'
    <3>1. Record(h).type = "receipt" /\ Record(h).event = c.event /\ Record(h).at = c.received
      BY <1>1, <2>1, RecordFacts
    <3>2. Marred(d)' \/ \E k \in DOMAIN journal'[d] : journal'[d][k] = Record(h)
      BY <1>1, <1>2, <2>2, AppendedFacts
    <3>3. c.received <= c.received
      BY AlertAssumption DEF Busy
    <3> QED
      BY <3>1, <3>2, <3>3 DEF Received
  <2>5. CASE Goes(h, "forward") /\ UNCHANGED waiting
    <3> DEFINE next == [c EXCEPT !.step = "forward"]
    <3>1. next \in Busy /\ handler' = [handler EXCEPT ![h] = next]
      BY <1>1, <2>1, <2>5 DEF Goes, Busy, AlertTypes
    <3>2. next.step = "forward" /\ next.event = c.event /\ next.received = c.received
      BY DEF Busy
    <3> HIDE DEF next
    <3>3. AlertTypes' /\ instant <= instant'
      BY <1>1, <1>2, <2>3, <2>5, <3>1, InstantStays DEF AlertTypes
    <3>4. HandlerOK(h)'
      <4>1. handler'[h] = next
        BY <1>1, <3>1 DEF AlertTypes
      <4> QED
        BY <1>2, <2>1, <2>2, <2>4, <3>2, <4>1 DEF HandlerOK
    <3>5. \A g \in Handler : handler'[g] = handler[g] \/ HandlerOK(g)'
      BY <1>1, <3>1, <3>4 DEF AlertTypes
    <3> QED
      BY <1>2, <2>3, <2>5, <3>3, <3>5, StepKeeps
  <2>6. CASE Answers(h, "stored")
    <3>1. Received(c.event, d, MaxInstant)'
      <4>1. \A k \in DOMAIN journal'[d] : journal'[d][k].type = "receipt" => journal'[d][k].at <= MaxInstant
        <5>1. journal'[d] \in Seq(RecordType \cup {Spoilt})
          BY <2>3 DEF JournalTypes
        <5>2. \A k \in DOMAIN journal'[d] : journal'[d][k] \in RecordType \cup {Spoilt}
          BY <5>1
        <5> QED
          BY <5>2, AlertAssumption, SpoiltIsNoRecord DEF RecordType
      <4> QED
        BY <2>4, <4>1 DEF Received
    <3> QED
      BY <1>1, <1>2, <2>1, <2>2, <2>3, <2>6, <3>1, AnsweredKeeps
  <2> QED
    BY <1>2, <2>5, <2>6
<1>3. CASE AppendFails(h)
  BY <1>1, <1>3, AppendFailsKeeps
<1> QED
  BY <1>2, <1>3 DEF WritesReceipt, WithoutForwarder

(* What reaches the endpoint has its receipt in the journal.                 *)
LEMMA ReachesFacts ==
    ASSUME AlertInv, NEW h \in Handler, handler[h].step = "forward", handler[h] # Free,
           UNCHANGED journal, Reaches(h) \/ UNCHANGED delivered
    PROVE  /\ delivered \subseteq delivered'
           /\ \A x \in delivered' : x \in delivered \/ DeliveredOK(x)'
<1>1. PICK c \in Busy : /\ c = handler[h] /\ c.received <= instant
                        /\ Received(c.event, DayAt(c.received), c.received)
  BY DEF AlertInv, AlertTypes, HandlerOK
<1>2. PICK d \in AlertDay : d = DayAt(c.received) /\ d = FileDay(h)
  BY <1>1, DayOfInstant DEF Busy, FileDay
<1>3. PICK t \in 0..MaxInstant : t = instant
  BY DEF AlertInv, AlertTypes
<1>4. Received(c.event, d, t)'
  <2>1. ASSUME NEW k \in DOMAIN journal[d], journal[d][k].type = "receipt", journal[d][k].at <= c.received
        PROVE  journal[d][k].at <= t
    <3>1. journal[d] \in Seq(RecordType \cup {Spoilt})
      BY DEF AlertInv, AlertTypes, JournalTypes
    <3>2. journal[d][k] \in RecordType
      BY <2>1, <3>1, SpoiltIsNoRecord
    <3>3. journal[d][k].at \in Int /\ c.received \in Int /\ t \in Int /\ c.received <= t
      BY <1>1, <1>3, <3>2 DEF RecordType, Busy
    <3> QED
      BY <2>1, <3>3
  <2>2. Marred(d) => Marred(d)'
    BY DEF Marred
  <2> QED
    BY <1>1, <1>2, <2>1, <2>2 DEF Received
<1>5. delivered' = delivered \/ delivered' = delivered \cup {[event |-> c.event, file |-> d, at |-> t]}
  BY <1>1, <1>2, <1>3 DEF Reaches
<1> DEFINE new == [event |-> c.event, file |-> d, at |-> t]
<1>6. new.event = c.event /\ new.file = d /\ new.at = t
  OBVIOUS
<1> HIDE DEF new
<1>7. DeliveredOK(new)'
  BY <1>4, <1>6 DEF DeliveredOK
<1> QED
  BY <1>5, <1>7 DEF new

LEMMA ForwardsKeeps ==
    ASSUME AlertInv, NEW h \in Handler, Forwards(h)
    PROVE  AlertInv'
<1>1. AlertTypes /\ handler[h] # Free /\ handler[h].step = "forward" /\ UNCHANGED <<instant, journal, unended>>
  BY DEF AlertInv, Forwards, Free
<1>2. Reaches(h) \/ UNCHANGED delivered
  BY DEF Forwards
<1>3. /\ delivered \subseteq delivered'
      /\ \A x \in delivered' : x \in delivered \/ DeliveredOK(x)'
  BY <1>1, <1>2, ReachesFacts
<1>4. JournalTypes' /\ Grows /\ OnlyTrueSuccesses
  BY <1>1 DEF AlertTypes, JournalTypes, Grows, OnlyTrueSuccesses
<1>5. CASE Answers(h, "due")
  BY <1>1, <1>3, <1>4, <1>5, AnsweredKeeps
<1>6. ASSUME NEW step \in {"success", "failure"}, Ends(h, step), UNCHANGED waiting,
             step = "success" => Reaches(h)
      PROVE  AlertInv'
  <2>1. PICK c \in Busy : /\ c = handler[h] /\ c.received <= instant
                          /\ Received(c.event, DayAt(c.received), c.received)
    BY <1>1 DEF AlertInv, AlertTypes, HandlerOK
  <2>2. PICK t \in 0..MaxInstant : t = instant
    BY <1>1 DEF AlertTypes
  <2> DEFINE next == [c EXCEPT !.step = step, !.at = t]
  <2>3. handler' = [handler EXCEPT ![h] = next]
    BY <1>1, <1>6, <2>1, <2>2 DEF Ends, AlertTypes
  <2>4. next \in Busy /\ next.step = step /\ next.event = c.event /\ next.received = c.received
    BY <2>1 DEF Busy
  <2> HIDE DEF next
  <2>5. AlertTypes' /\ instant <= instant'
    BY <1>1, <1>4, <1>6, <2>3, <2>4, InstantStays DEF AlertTypes
  <2>6. HandlerOK(h)'
    <3>1. handler'[h] = next
      BY <1>1, <2>3 DEF AlertTypes
    <3>2. Received(c.event, DayAt(c.received), c.received)'
      BY <1>1, <2>1 DEF Received, Marred
    <3>3. step = "success" => Reached(c.event, DayAt(c.received))'
      <4> DEFINE x == [event |-> c.event, file |-> DayAt(c.received), at |-> t]
      <4>1. step = "success" => x \in delivered'
        BY <1>6, <2>1, <2>2 DEF Reaches, FileDay
      <4>2. x.event = c.event /\ x.file = DayAt(c.received)
        OBVIOUS
      <4> HIDE DEF x
      <4> QED
        BY <4>1, <4>2 DEF Reached
    <3>4. next.received <= instant'
      BY <1>1, <2>1, <2>4
    <3> QED
      BY <2>4, <3>1, <3>2, <3>3, <3>4 DEF HandlerOK
  <2>7. \A g \in Handler : handler'[g] = handler[g] \/ HandlerOK(g)'
    BY <1>1, <2>3, <2>6 DEF AlertTypes
  <2> QED
    BY <1>1, <1>3, <1>4, <1>6, <2>5, <2>7, StepKeeps
<1> QED
  BY <1>5, <1>6 DEF Forwards

LEMMA WritesOutcomeKeeps ==
    ASSUME AlertInv, NEW h \in Handler, WritesOutcome(h)
    PROVE  AlertInv'
<1>1. AlertTypes /\ handler[h] # Free /\ handler[h].step \in {"success", "failure"}
  BY DEF AlertInv, WritesOutcome, Free
<1>2. ASSUME Appended(h), Answers(h, AnswerIs(handler[h].step)), UNCHANGED <<instant, delivered>>
      PROVE  AlertInv'
  <2>1. PICK c \in Busy : /\ c = handler[h]
                          /\ Received(c.event, DayAt(c.received), c.received)
                          /\ c.step = "success" => Reached(c.event, DayAt(c.received))
    BY <1>1 DEF AlertInv, AlertTypes, HandlerOK
  <2>2. PICK d \in AlertDay : d = FileDay(h) /\ d = DayAt(c.received)
    BY <1>1, <2>1, RecordFacts DEF FileDay
  <2>3. /\ JournalTypes' /\ Grows /\ OnlyTrueSuccesses
        /\ \/ Marred(d)'
           \/ \E k \in DOMAIN journal'[d] : /\ journal'[d][k] = Record(h)
                                            /\ \A n \in DOMAIN journal[d] : n \in 1..(k - 1)
    BY <1>1, <1>2, <2>2, AppendedFacts
  <2>4. Record(h).type = c.step /\ Record(h).event = c.event
    BY <1>1, <2>1, RecordFacts
  <2>5. AnswerIs(c.step) = IF c.step = "success" THEN "forwarded" ELSE "due"
    BY DEF AnswerIs
  <2>6. ASSUME c.step = "success"
        PROVE  Reached(c.event, d)' /\ Confirmed(c.event, d)'
    <3>1. Reached(c.event, d)'
      BY <1>2, <2>1, <2>2, <2>6 DEF Reached
    <3>2. ASSUME ~Marred(d)'
          PROVE  Confirmed(c.event, d)'
      <4>1. PICK k \in DOMAIN journal'[d] : /\ journal'[d][k] = Record(h)
                                            /\ \A n \in DOMAIN journal[d] : n \in 1..(k - 1)
        BY <2>3, <3>2
      <4>2. ~Marred(d)
        BY <2>3, <3>2 DEF Grows, Marred
      <4>3. PICK n \in DOMAIN journal[d] : journal[d][n].type = "receipt" /\ journal[d][n].event = c.event
        BY <2>1, <2>2, <4>2 DEF Received
      <4>4. n \in 1..(k - 1) /\ journal'[d][n] = journal[d][n]
        BY <2>3, <3>2, <4>1, <4>3 DEF Grows
      <4> QED
        BY <2>4, <2>6, <4>1, <4>3, <4>4 DEF Confirmed
    <3> QED
      BY <3>1, <3>2 DEF Confirmed
  <2>7. AnswerIs(c.step) \in {"due", "forwarded", "stored"}
        /\ (AnswerIs(c.step) = "forwarded" => c.step = "success") /\ AnswerIs(c.step) # "stored"
    BY <2>5
  <2>8. \A x \in delivered' : x \in delivered
    BY <1>2
  <2> QED
    BY <1>1, <1>2, <2>1, <2>2, <2>3, <2>6, <2>7, <2>8, AnsweredKeeps
<1>3. CASE AppendFails(h)
  BY <1>1, <1>3, AppendFailsKeeps
<1> QED
  BY <1>1, <1>2, <1>3 DEF WritesOutcome

LEMMA ReceiverDiesKeeps ==
    ASSUME AlertInv, ReceiverDies
    PROVE  AlertInv'
<1>1. AlertTypes /\ UNCHANGED <<instant, delivered>> /\ instant <= instant'
  BY InstantStays DEF AlertInv, ReceiverDies
<1>2. JournalTypes' /\ Grows /\ OnlyTrueSuccesses
  <2>1. CASE UNCHANGED <<journal, unended>>
    BY <1>1, <2>1 DEF AlertTypes, JournalTypes, Grows, OnlyTrueSuccesses
  <2>2. ASSUME NEW h \in Handler, handler[h].step \in {"receipt", "success", "failure"}, CutShort(h)
        PROVE  JournalTypes' /\ Grows /\ OnlyTrueSuccesses
    <3>1. handler[h] # Free
      BY <2>2 DEF Free
    <3> QED
      BY <1>1, <2>2, <3>1, CutShortFacts
  <2> QED
    BY <2>1, <2>2 DEF ReceiverDies
<1>3. /\ handler' = [h \in Handler |-> Free]
      /\ waiting' = [e \in AlertEvent |-> IF waiting[e] \in Handler THEN Due ELSE waiting[e]]
  BY DEF ReceiverDies
<1>4. AlertTypes'
  BY <1>1, <1>2, <1>3 DEF AlertTypes, AlertAnswer
<1>5. \A h \in Handler : HandlerOK(h)'
  BY <1>3 DEF HandlerOK
<1>6. \A e \in AlertEvent : waiting'[e] = waiting[e] \/ waiting'[e] = Due
  BY <1>3
<1>7. \A e \in AlertEvent : AnswerOK(e, Due)'
  BY DEF AnswerOK, Due
<1>8. \A e \in AlertEvent : waiting'[e] = waiting[e] \/ AnswerOK(e, waiting[e])'
  BY <1>6, <1>7
<1> QED
  BY <1>1, <1>2, <1>4, <1>5, <1>8, StepKeeps

(* Every step keeps the invariant.                                           *)
LEMMA AlertStep == AlertInv /\ [AlertNext]_alertVars => AlertInv'
<1> SUFFICES ASSUME AlertInv, [AlertNext]_alertVars PROVE AlertInv'
  OBVIOUS
<1>0. AlertTypes
  BY DEF AlertInv
<1>1. ASSUME NEW h \in Handler, (\E e \in AlertEvent : Posts(h, e)) \/ WritesReceipt(h) \/ Forwards(h) \/ WritesOutcome(h)
      PROVE  AlertInv'
  BY <1>1, PostsKeeps, WritesReceiptKeeps, ForwardsKeeps, WritesOutcomeKeeps
<1>2. ASSUME NEW e \in AlertEvent, SendsAgain(e)
      PROVE  AlertInv'
  <2>1. waiting' = [waiting EXCEPT ![e] = Due] /\ UNCHANGED <<instant, handler, journal, unended, delivered>>
    BY <1>2 DEF SendsAgain
  <2>2. AlertTypes' /\ instant <= instant'
    BY <1>0, <2>1, InstantStays DEF AlertTypes, JournalTypes, AlertAnswer
  <2>3. \A f \in AlertEvent : waiting'[f] = waiting[f] \/ waiting'[f] = Due
    BY <1>0, <2>1 DEF AlertTypes
  <2> QED
    BY <2>1, <2>2, <2>3, QuietKeeps
<1>3. CASE ReceiverDies
  BY <1>3, ReceiverDiesKeeps
<1>4. CASE AlertTick
  <2>1. AlertTypes' /\ instant <= instant' /\ UNCHANGED <<waiting, handler, journal, delivered>>
    BY <1>0, <1>4, AlertAssumption DEF AlertTick, AlertTypes, JournalTypes
  <2> QED
    BY <2>1, QuietKeeps
<1>5. CASE UNCHANGED alertVars
  <2>1. AlertTypes' /\ instant <= instant' /\ UNCHANGED <<waiting, handler, journal, delivered>>
    BY <1>0, <1>5, InstantStays DEF alertVars, AlertTypes, JournalTypes
  <2> QED
    BY <2>1, QuietKeeps
<1> QED
  BY <1>1, <1>2, <1>3, <1>4, <1>5 DEF AlertNext

LEMMA AlertInitInv == AlertInit => AlertInv
<1> SUFFICES ASSUME AlertInit PROVE AlertInv
  OBVIOUS
<1>1. AlertTypes
  BY AlertAssumption DEF AlertInit, AlertTypes, JournalTypes, AlertAnswer
<1>2. \A h \in Handler : HandlerOK(h)
  BY DEF AlertInit, HandlerOK
<1>3. SuccessIsReached
  BY DEF AlertInit, SuccessIsReached
<1>4. \A x \in delivered : DeliveredOK(x)
  BY DEF AlertInit
<1>5. \A e \in AlertEvent : AnswerOK(e, waiting[e])
  BY DEF AlertInit, AnswerOK, Due
<1> QED
  BY <1>1, <1>2, <1>3, <1>4, <1>5 DEF AlertInv

(* AlertDeliveryProcessor.process, with a forwarder or without: nothing      *)
(* reaches the endpoint before its receipt is in the journal; 200 means that *)
(* the endpoint got the alert and one file holds its receipt and later its   *)
(* success, 202 that a file holds its receipt, unless that file has a line   *)
(* cut short or glued to one; and a chain that Phase 1 accepts stands for a  *)
(* delivery; through full disks, appends cut anywhere, cut answers, repeats  *)
(* and deaths, for any number of threads and days.                           *)
THEOREM AnsweredIsAlwaysDelivered == AlertSpec => []AnsweredIsDelivered
<1>1. AlertInv => AnsweredIsDelivered
  <2> SUFFICES ASSUME AlertInv PROVE AnsweredIsDelivered
    OBVIOUS
  <2>1. \A d \in AlertDay, e \in AlertEvent : DurableChain(d, e) => \E x \in delivered : x.event = e
    BY DEF DurableChain, Matching, AlertInv, SuccessIsReached, Reached
  <2>2. ASSUME NEW x \in delivered
        PROVE  \/ Marred(x.file)
               \/ \E k \in Matching(x.file, x.event, "receipt") : journal[x.file][k].at <= x.at
    BY DEF AlertInv, DeliveredOK, Received, Matching
  <2>3. ASSUME NEW e \in AlertEvent, waiting[e] \notin Handler
        PROVE  LET w == waiting[e] IN
               /\ w.answer = "forwarded" =>
                     /\ \E x \in delivered : x.event = e /\ x.file = w.file
                     /\ \/ Marred(w.file)
                        \/ \E n \in Matching(w.file, e, "receipt"), k \in Matching(w.file, e, "success") : n < k
               /\ w.answer = "stored" => Marred(w.file) \/ Matching(w.file, e, "receipt") # {}
    <3>1. PICK w \in AlertAnswer : w = waiting[e] /\ AnswerOK(e, w)
      BY <2>3 DEF AlertInv, AlertTypes
    <3>2. w.answer = "forwarded" => \E x \in delivered : x.event = e /\ x.file = w.file
      BY <3>1 DEF AnswerOK, Reached
    <3>3. ASSUME w.answer = "forwarded", ~Marred(w.file)
          PROVE  \E n \in Matching(w.file, e, "receipt"), k \in Matching(w.file, e, "success") : n < k
      <4>1. journal[w.file] \in Seq(RecordType \cup {Spoilt})
        BY <3>3 DEF AlertAnswer, Due, AlertInv, AlertTypes, JournalTypes
      <4>2. PICK k \in DOMAIN journal[w.file] : \E n \in 1..(k - 1) :
                /\ journal[w.file][k].type = "success" /\ journal[w.file][k].event = e
                /\ journal[w.file][n].type = "receipt" /\ journal[w.file][n].event = e
        BY <3>1, <3>3 DEF AnswerOK, Confirmed
      <4>3. PICK n \in 1..(k - 1) :
                /\ journal[w.file][k].type = "success" /\ journal[w.file][k].event = e
                /\ journal[w.file][n].type = "receipt" /\ journal[w.file][n].event = e
        BY <4>2
      <4>4. n \in DOMAIN journal[w.file] /\ n < k
        BY <4>1, <4>2, <4>3
      <4> QED
        BY <4>2, <4>3, <4>4 DEF Matching
    <3>4. w.answer = "stored" => Marred(w.file) \/ Matching(w.file, e, "receipt") # {}
      BY <3>1 DEF AnswerOK, Received, Matching
    <3> QED
      BY <3>1, <3>2, <3>3, <3>4
  <2> QED
    BY <2>1, <2>2, <2>3 DEF AnsweredIsDelivered
<1> QED
  BY <1>1, AlertInitInv, AlertStep, PTL DEF AlertSpec

-----------------------------------------------------------------------------
(* The audit of a soak.                                                      *)
SampleType ==
    [at : Nat, status : {"starting", "running", "reconnecting", "sequence_uncertain", "failed", "stopped"},
     reconnects : Nat, uncertain : Nat, dropped : Nat]

SoakTypes ==
    /\ clock \in Nat
    /\ started # Nothing => started \in Nat /\ started <= clock
    /\ proc # Nothing => proc \in CollectorHealth
    /\ samples \in Seq(SampleType)
    /\ \A k \in DOMAIN samples : samples[k].at <= clock
    /\ suffered \in Int /\ outage \in Int
    /\ started = Nothing => samples = <<>>

(* A collector is down or has a process, and publishes nothing while down.   *)
DownIsKnown ==
    /\ downSince # Nothing =>
          /\ proc = Nothing /\ downSince \in Nat /\ downSince <= clock
          /\ started # Nothing => started <= downSince
          /\ samples # <<>> => LastOf(samples).at <= downSince
    /\ started # Nothing /\ proc = Nothing => downSince # Nothing

(* What an outage leaves in a history that began at t and is read at c.      *)
Silent(s, t, c) ==
    \/ s = <<>> /\ c > t + MaxGap
    \/ /\ s # <<>>
       /\ \/ s[1].at > t + MaxGap
          \/ c - s[Len(s)].at > MaxGap
          \/ \E k \in 2..Len(s) : s[k].at - s[k - 1].at > MaxGap

OutagesShow == started # Nothing /\ outage > MaxGap => Silent(samples, started, clock)

(* A process has published nothing yet, or the last sample is its own.       *)
Fresh(c) == c.status = "starting" /\ ~c.connected /\ c.reconnects = 0 /\ c.uncertain = 0 /\ c.shown = 0
ShownIn(c, r) == r.reconnects + r.uncertain = c.shown /\ r.reconnects <= c.reconnects /\ r.uncertain <= c.uncertain

ShownIsSampled ==
    proc # Nothing /\ samples # <<>> => Fresh(proc) \/ ShownIn(proc, samples[Len(samples)])

(* What the audit counts in a history.                                       *)
Before(s, k) == IF k = 1 THEN [reconnects |-> 0, uncertain |-> 0] ELSE s[k - 1]
Steps(s) ==
    [k \in DOMAIN s |-> Increment(Before(s, k).reconnects, s[k].reconnects)
                        + Increment(Before(s, k).uncertain, s[k].uncertain)]
Observed(s) == SumOver(Steps(s), DOMAIN s)

SoakInv ==
    /\ SoakTypes
    /\ DownIsKnown
    /\ OutagesShow
    /\ ShownIsSampled
    /\ started # Nothing => Observed(samples) >= suffered

-----------------------------------------------------------------------------
(* Histories.                                                                *)
LEMMA ObservedIsAudited == IncidentsObserved = Observed(samples)
  BY DEF IncidentsObserved, Observed, SumOver, Increments, Steps, Prior, Before

LEMMA StepsAreNat ==
    ASSUME NEW s \in Seq(SampleType), NEW k \in DOMAIN s
    PROVE  Steps(s)[k] \in Nat
<1>1. s[k].reconnects \in Nat /\ s[k].uncertain \in Nat
  <2>1. s[k] \in SampleType
    OBVIOUS
  <2> QED
    BY <2>1 DEF SampleType
<1>2. Before(s, k).reconnects \in Nat /\ Before(s, k).uncertain \in Nat
  <2>1. CASE k = 1
    BY <2>1 DEF Before
  <2>2. CASE k # 1
    <3>1. k - 1 \in DOMAIN s
      BY <2>2
    <3>2. s[k - 1] \in SampleType
      BY <3>1
    <3> QED
      BY <2>2, <3>2 DEF Before, SampleType
  <2> QED
    BY <2>1, <2>2
<1>3. \A p, c \in Nat : Increment(p, c) \in Nat
  BY DEF Increment
<1>4. /\ Increment(Before(s, k).reconnects, s[k].reconnects) \in Nat
      /\ Increment(Before(s, k).uncertain, s[k].uncertain) \in Nat
  BY <1>1, <1>2, <1>3
<1>5. Steps(s)[k] = Increment(Before(s, k).reconnects, s[k].reconnects) + Increment(Before(s, k).uncertain, s[k].uncertain)
  BY DEF Steps
<1> QED
  BY <1>4, <1>5

(* One more sample adds its increments to what is counted.                   *)
LEMMA ObservedAppend ==
    ASSUME NEW s \in Seq(SampleType), NEW r \in SampleType
    PROVE  /\ Observed(s) \in Int
           /\ s = <<>> => Observed(Append(s, r)) = Observed(s) + r.reconnects + r.uncertain
           /\ s # <<>> => Observed(Append(s, r)) = Observed(s)
                             + Increment(s[Len(s)].reconnects, r.reconnects)
                             + Increment(s[Len(s)].uncertain, r.uncertain)
<1> DEFINE n == Len(s)
           t == Append(s, r)
<1>1. /\ n \in Nat /\ DOMAIN s = 1..n /\ DOMAIN t = 1..(n + 1) /\ t[n + 1] = r
      /\ \A k \in 1..n : t[k] = s[k]
      /\ t \in Seq(SampleType)
  OBVIOUS
<1>2. \A k \in 1..n : Steps(s)[k] \in Int /\ Steps(t)[k] = Steps(s)[k]
  <2> SUFFICES ASSUME NEW k \in 1..n PROVE Steps(s)[k] \in Int /\ Steps(t)[k] = Steps(s)[k]
    OBVIOUS
  <2>1. Steps(s)[k] \in Nat
    BY <1>1, StepsAreNat
  <2>2. Before(t, k) = Before(s, k)
    <3>1. CASE k = 1
      BY <3>1 DEF Before
    <3>2. CASE k # 1
      <4>1. k - 1 \in 1..n
        BY <1>1, <3>2
      <4> HIDE DEF t, n
      <4>2. t[k - 1] = s[k - 1]
        BY <1>1, <4>1
      <4> QED
        BY <3>2, <4>2 DEF Before
    <3> QED
      BY <3>1, <3>2
  <2> HIDE DEF t
  <2> QED
    BY <1>1, <2>1, <2>2 DEF Steps
<1>3. Steps(t)[n + 1] \in Int
  <2> HIDE DEF t, n
  <2>1. n + 1 \in DOMAIN t
    BY <1>1
  <2>2. Steps(t)[n + 1] \in Nat
    BY <1>1, <2>1, StepsAreNat
  <2> QED
    BY <2>2
<1>4. IsFiniteSet(1..n) /\ n + 1 \notin 1..n /\ 1..(n + 1) = (1..n) \cup {n + 1}
  <2>1. 1 \in Int /\ n \in Int
    BY <1>1
  <2>2. IsFiniteSet(1..n)
    BY <2>1, FS_Interval
  <2> QED
    BY <1>1, <2>2
<1>5. SumOver(Steps(s), 1..n) \in Int
  BY <1>2, <1>4, SumStep
<1>6. SumOver(Steps(t), 1..n) = SumOver(Steps(s), 1..n)
  <2> HIDE DEF t
  <2>1. \A k \in 1..n : Steps(t)[k] \in Int /\ Steps(t)[k] = Steps(s)[k]
    BY <1>2
  <2> QED
    BY <1>4, <2>1, SumSame
<1>7. SumOver(Steps(t), (1..n) \cup {n + 1}) = Steps(t)[n + 1] + SumOver(Steps(t), 1..n)
  <2> HIDE DEF t
  <2>1. \A k \in 1..n : Steps(t)[k] \in Int
    BY <1>2
  <2> QED
    BY <1>3, <1>4, <2>1, SumAdd
<1>8. Observed(t) = Observed(s) + Steps(t)[n + 1] /\ Observed(s) \in Int
  <2>1. Observed(t) = SumOver(Steps(t), 1..(n + 1)) /\ Observed(s) = SumOver(Steps(s), 1..n)
    <3> HIDE DEF t
    <3> QED
      BY <1>1 DEF Observed
  <2> HIDE DEF t, n
  <2>2. SumOver(Steps(t), 1..(n + 1)) = Steps(t)[n + 1] + SumOver(Steps(s), 1..n)
    BY <1>4, <1>6, <1>7
  <2> PICK step \in Int : step = Steps(t)[n + 1]
    BY <1>3
  <2> PICK sum \in Int : sum = SumOver(Steps(s), 1..n)
    BY <1>5
  <2>3. step + sum = sum + step
    OBVIOUS
  <2> QED
    BY <2>1, <2>2, <2>3
<1>9. CASE s = <<>>
  <2>1. n = 0 /\ Before(t, n + 1) = [reconnects |-> 0, uncertain |-> 0]
    BY <1>9 DEF Before
  <2>2. Steps(t)[n + 1] = Increment(0, r.reconnects) + Increment(0, r.uncertain)
    <3> HIDE DEF t
    <3>1. n + 1 \in DOMAIN t
      BY <1>1
    <3> QED
      BY <1>1, <2>1, <3>1 DEF Steps
  <2>3. r.reconnects \in Nat /\ r.uncertain \in Nat
    BY DEF SampleType
  <2>4. Steps(t)[n + 1] = r.reconnects + r.uncertain
    BY <2>2, <2>3 DEF Increment
  <2>5. Observed(t) = Observed(s) + r.reconnects + r.uncertain
    <3> HIDE DEF t, n
    <3> QED
      BY <1>8, <2>3, <2>4
  <2> QED
    BY <1>8, <1>9, <2>5
<1>10. CASE s # <<>>
  <2>1. n # 0 /\ n + 1 # 1
    BY <1>1, <1>10
  <2>2. Before(t, n + 1) = s[n]
    <3>1. Before(t, n + 1) = t[(n + 1) - 1]
      BY <2>1 DEF Before
    <3>2. (n + 1) - 1 = n /\ n \in 1..n
      BY <1>1, <2>1
    <3> HIDE DEF t, n
    <3> QED
      BY <1>1, <3>1, <3>2
  <2>3. Steps(t)[n + 1] = Increment(s[n].reconnects, r.reconnects) + Increment(s[n].uncertain, r.uncertain)
    <3> HIDE DEF t
    <3>1. n + 1 \in DOMAIN t
      BY <1>1
    <3> QED
      BY <1>1, <2>2, <3>1 DEF Steps
  <2>4. /\ r.reconnects \in Nat /\ r.uncertain \in Nat
        /\ s[n].reconnects \in Nat /\ s[n].uncertain \in Nat
    <3>1. s[n] \in SampleType
      BY <1>1, <2>1
    <3> QED
      BY <3>1 DEF SampleType
  <2>5. Increment(s[n].reconnects, r.reconnects) \in Nat /\ Increment(s[n].uncertain, r.uncertain) \in Nat
    BY <2>4 DEF Increment
  <2>6. Observed(t) = Observed(s) + Increment(s[n].reconnects, r.reconnects) + Increment(s[n].uncertain, r.uncertain)
    <3> HIDE DEF t, n
    <3> QED
      BY <1>8, <2>3, <2>5
  <2> QED
    BY <1>8, <1>10, <2>6
<1> QED
  BY <1>8, <1>9, <1>10

(* A sample does not make up for the silence before it.                      *)
LEMMA SilenceStays ==
    ASSUME NEW s \in Seq(SampleType), NEW r \in SampleType, NEW t \in Nat, NEW c \in Nat, r.at = c,
           Silent(s, t, c)
    PROVE  Silent(Append(s, r), t, c)
<1> DEFINE n == Len(s)
           u == Append(s, r)
<1>1. /\ n \in Nat /\ Len(u) = n + 1 /\ u # <<>> /\ u[n + 1] = r
      /\ \A k \in 1..n : u[k] = s[k]
  OBVIOUS
<1>2. CASE s = <<>>
  <2>1. u[1].at > t + MaxGap
    BY <1>1, <1>2 DEF Silent
  <2>2. Silent(u, t, c)
    <3> HIDE DEF u
    <3> QED
      BY <1>1, <2>1 DEF Silent
  <2> QED
    BY <2>2
<1>3. CASE s # <<>>
  <2>1. n >= 1
    BY <1>3
  <2>2. \/ s[1].at > t + MaxGap
        \/ c - s[n].at > MaxGap
        \/ \E k \in 2..n : s[k].at - s[k - 1].at > MaxGap
    BY <1>3 DEF Silent
  <2> SUFFICES Silent(u, t, c)
    OBVIOUS
  <2> HIDE DEF u, n
  <2>3. CASE s[1].at > t + MaxGap
    BY <1>1, <2>1, <2>3 DEF Silent
  <2>4. CASE c - s[n].at > MaxGap
    <3>1. n + 1 \in 2..Len(u) /\ (n + 1) - 1 = n /\ u[n] = s[n]
      BY <1>1, <2>1
    <3>2. u[n + 1].at - u[(n + 1) - 1].at > MaxGap
      BY <1>1, <2>4, <3>1
    <3> QED
      BY <1>1, <3>1, <3>2 DEF Silent
  <2>5. ASSUME NEW k \in 2..n, s[k].at - s[k - 1].at > MaxGap
        PROVE  Silent(u, t, c)
    <3>1. k \in 2..Len(u) /\ u[k] = s[k] /\ u[k - 1] = s[k - 1]
      BY <1>1, <2>1
    <3> QED
      BY <1>1, <2>5, <3>1 DEF Silent
  <2> QED
    BY <2>2, <2>3, <2>4, <2>5
<1> QED
  BY <1>2, <1>3

LEMMA GainIsShown ==
    ASSUME NEW o \in Int, NEW p \in Nat, NEW q \in Nat, NEW m \in Nat, NEW n \in Nat
    PROVE  o + (m - p) + (n - q) >= o + (m + n) - (p + q)
  OBVIOUS

(* A sample of a process counts for what it had not shown before.            *)
LEMMA ShownIsCounted ==
    ASSUME NEW s \in Seq(SampleType), NEW r \in SampleType, NEW c \in CollectorHealth,
           r.reconnects >= c.reconnects, r.uncertain >= c.uncertain,
           \/ s = <<>>
           \/ Fresh(c) /\ r.reconnects = 0 /\ r.uncertain = 0
           \/ s # <<>> /\ ShownIn(c, s[Len(s)])
    PROVE  Observed(Append(s, r)) >= Observed(s) + (r.reconnects + r.uncertain) - c.shown
<1>1. /\ r.reconnects \in Nat /\ r.uncertain \in Nat
      /\ c.reconnects \in Nat /\ c.uncertain \in Nat /\ c.shown \in Nat
      /\ Observed(s) \in Int
  BY ObservedAppend DEF SampleType, CollectorHealth
<1>2. CASE s = <<>>
  <2>1. Observed(Append(s, r)) = Observed(s) + r.reconnects + r.uncertain
    BY <1>2, ObservedAppend
  <2> QED
    BY <1>1, <2>1
<1>3. CASE s # <<>>
  <2>1. Observed(Append(s, r)) = Observed(s) + Increment(s[Len(s)].reconnects, r.reconnects)
                                    + Increment(s[Len(s)].uncertain, r.uncertain)
    BY <1>3, ObservedAppend
  <2>2. s[Len(s)].reconnects \in Nat /\ s[Len(s)].uncertain \in Nat
    <3>1. s[Len(s)] \in SampleType
      BY <1>3
    <3> QED
      BY <3>1 DEF SampleType
  <2>3. CASE Fresh(c) /\ r.reconnects = 0 /\ r.uncertain = 0
    BY <1>1, <2>1, <2>2, <2>3 DEF Increment, Fresh
  <2>4. CASE ShownIn(c, s[Len(s)])
    <3> PICK p \in Nat, q \in Nat : p = s[Len(s)].reconnects /\ q = s[Len(s)].uncertain
      BY <2>2
    <3>1. p + q = c.shown /\ p <= r.reconnects /\ q <= r.uncertain
      BY <1>1, <2>4 DEF ShownIn
    <3>2. Increment(p, r.reconnects) = r.reconnects - p /\ Increment(q, r.uncertain) = r.uncertain - q
      BY SMTT(30), <1>1, <3>1 DEF Increment
    <3>3. Observed(Append(s, r)) = Observed(s) + (r.reconnects - p) + (r.uncertain - q)
      BY <2>1, <3>2
    <3> PICK m \in Nat, n \in Nat, o \in Int : m = r.reconnects /\ n = r.uncertain /\ o = Observed(s)
      BY <1>1
    <3>4. p \in Nat /\ q \in Nat /\ o + (m - p) + (n - q) >= o + (m + n) - (p + q)
      BY GainIsShown
    <3> QED
      BY <3>1, <3>3, <3>4
  <2> QED
    BY <1>3, <2>3, <2>4
<1> QED
  BY <1>2, <1>3

-----------------------------------------------------------------------------
LEMMA SoakInitInv == SoakInit => SoakInv
<1> SUFFICES ASSUME SoakInit PROVE SoakInv
  OBVIOUS
<1>1. /\ clock = 0 /\ started = Nothing /\ samples = <<>> /\ suffered = 0 /\ outage = 0 /\ downSince = Nothing
      /\ proc \in {Nothing, EarlierCollector}
  BY DEF SoakInit
<1>2. EarlierCollector \in CollectorHealth
  BY DEF EarlierCollector, FreshCollector, CollectorHealth
<1> QED
  BY <1>1, <1>2 DEF SoakInv, SoakTypes, DownIsKnown, OutagesShow, ShownIsSampled

(* Steps that publish nothing and leave the outages as they are.             *)
LEMMA UnpublishedKeeps ==
    ASSUME SoakInv, UNCHANGED <<started, samples, suffered, downSince, outage>>,
           clock' \in {clock, clock + 1},
           \/ proc' = proc
           \/ /\ proc # Nothing /\ proc' \in CollectorHealth /\ proc' # Nothing
              /\ Fresh(proc) => Fresh(proc)'
              /\ \A r \in SampleType : ShownIn(proc, r) => ShownIn(proc, r)'
    PROVE  SoakInv'
<1>1. SoakTypes'
  <2>1. clock \in Nat /\ clock' \in Nat /\ clock <= clock'
    BY DEF SoakInv, SoakTypes
  <2>2. \A k \in DOMAIN samples : samples[k].at <= clock'
    <3> SUFFICES ASSUME NEW k \in DOMAIN samples PROVE samples[k].at <= clock'
      OBVIOUS
    <3>1. samples[k] \in SampleType
      BY DEF SoakInv, SoakTypes
    <3>2. samples[k].at \in Nat /\ samples[k].at <= clock
      BY <3>1 DEF SampleType, SoakInv, SoakTypes
    <3> QED
      BY <2>1, <3>2
  <2>3. proc' # Nothing => proc' \in CollectorHealth
    BY DEF SoakInv, SoakTypes
  <2>4. started' # Nothing => started' \in Nat /\ started' <= clock'
    BY <2>1 DEF SoakInv, SoakTypes
  <2> QED
    BY <2>1, <2>2, <2>3, <2>4 DEF SoakInv, SoakTypes
<1>2. DownIsKnown'
  BY DEF SoakInv, SoakTypes, DownIsKnown, LastOf
<1>3. ShownIsSampled'
  <2> SUFFICES ASSUME proc' # Nothing, samples # <<>>
               PROVE  Fresh(proc)' \/ ShownIn(proc', samples[Len(samples)])
    BY DEF ShownIsSampled
  <2> PICK r \in SampleType : r = samples[Len(samples)]
    BY DEF SoakInv, SoakTypes
  <2>1. Fresh(proc) \/ ShownIn(proc, r)
    BY DEF SoakInv, ShownIsSampled
  <2>2. CASE proc' = proc
    BY <2>1, <2>2 DEF Fresh, ShownIn
  <2>3. CASE proc' # proc
    <3>1. Fresh(proc)' \/ ShownIn(proc, r)'
      BY <2>1, <2>3
    <3> QED
      BY <3>1 DEF ShownIn
  <2> QED
    BY <2>2, <2>3
<1>4. OutagesShow'
  <2> SUFFICES ASSUME started # Nothing, outage > MaxGap
               PROVE  Silent(samples, started, clock')
    BY DEF OutagesShow
  <2>1. Silent(samples, started, clock)
    BY DEF SoakInv, OutagesShow
  <2>2. clock \in Nat /\ started \in Nat /\ MaxGap \in Nat
    BY SoakAssumption DEF SoakInv, SoakTypes
  <2>3. samples # <<>> => samples[Len(samples)].at \in Nat
    <3> SUFFICES ASSUME samples # <<>> PROVE samples[Len(samples)].at \in Nat
      OBVIOUS
    <3>1. samples[Len(samples)] \in SampleType
      BY DEF SoakInv, SoakTypes
    <3> QED
      BY <3>1 DEF SampleType
  <2> QED
    BY <2>1, <2>2, <2>3 DEF Silent
<1> QED
  BY <1>1, <1>2, <1>3, <1>4 DEF SoakInv

(* One sample more, of a process that has shown what it had.                 *)
LEMMA SampleKeeps ==
    ASSUME SoakInv, started # Nothing, NEW r \in SampleType, r.at = clock,
           NEW c \in CollectorHealth, r.reconnects >= c.reconnects, r.uncertain >= c.uncertain,
           \/ samples = <<>>
           \/ Fresh(c) /\ r.reconnects = 0 /\ r.uncertain = 0
           \/ samples # <<>> /\ ShownIn(c, samples[Len(samples)])
    PROVE  LET s == Append(samples, r) IN
           /\ s \in Seq(SampleType) /\ s # <<>> /\ s[Len(s)] = r
           /\ \A k \in DOMAIN s : s[k].at <= clock
           /\ outage > MaxGap => Silent(s, started, clock)
           /\ Observed(s) >= suffered + (r.reconnects + r.uncertain) - c.shown
<1> DEFINE s == Append(samples, r)
<1>1. samples \in Seq(SampleType) /\ clock \in Nat /\ started \in Nat /\ suffered \in Int
  BY DEF SoakInv, SoakTypes
<1>2. s \in Seq(SampleType) /\ s # <<>> /\ s[Len(s)] = r
  BY <1>1
<1>3. \A k \in DOMAIN s : s[k].at <= clock
  <2> SUFFICES ASSUME NEW k \in DOMAIN s PROVE s[k].at <= clock
    OBVIOUS
  <2>1. (k \in DOMAIN samples /\ s[k] = samples[k]) \/ s[k] = r
    BY <1>1
  <2>2. r.at <= clock
    BY <1>1
  <2> QED
    BY <2>1, <2>2 DEF SoakInv, SoakTypes
<1>4. outage > MaxGap => Silent(s, started, clock)
  BY <1>1, SilenceStays DEF SoakInv, OutagesShow
<1>5. Observed(s) >= Observed(samples) + (r.reconnects + r.uncertain) - c.shown
  <2> HIDE DEF s
  <2>1. Observed(Append(samples, r)) >= Observed(samples) + (r.reconnects + r.uncertain) - c.shown
    BY <1>1, ShownIsCounted
  <2> QED
    BY <2>1 DEF s
<1>6. Observed(samples) \in Int /\ Observed(s) \in Int /\ Observed(samples) >= suffered
  <2>1. Observed(samples) \in Int
    BY <1>1, ObservedAppend
  <2>2. Observed(s) \in Int
    <3> HIDE DEF s
    <3> QED
      BY <1>2, ObservedAppend
  <2> QED
    BY <2>1, <2>2 DEF SoakInv
<1>7. r.reconnects \in Nat /\ r.uncertain \in Nat /\ c.shown \in Nat
  BY DEF SampleType, CollectorHealth
<1>8. Observed(s) >= suffered + (r.reconnects + r.uncertain) - c.shown
  <2> HIDE DEF s
  <2> QED
    BY <1>1, <1>5, <1>6, <1>7
<1> QED
  BY <1>2, <1>3, <1>4, <1>8

LEMMA SampleFacts ==
    ASSUME SoakInv, NEW h \in CollectorHealth
    PROVE  SampleOf(h) \in SampleType
  BY DEF SoakInv, SoakTypes, SampleOf, SampleType, CollectorHealth

(* Health states that are published are of the process as it is, and count   *)
(* what happened since.                                                      *)
Speaks(h) ==
    /\ h \in CollectorHealth
    /\ h.reconnects = proc.reconnects /\ h.uncertain >= proc.uncertain
    /\ Fresh(proc) => h.uncertain = 0

SameIncidents(c, m) ==
    {[c EXCEPT !.status = "running", !.connected = TRUE],
     [c EXCEPT !.status = "reconnecting", !.connected = FALSE, !.dialled = FALSE],
     [c EXCEPT !.dropped = m, !.status = "failed"], StoppedAs(c), c}
LEMMA HealthFacts ==
    ASSUME NEW c \in CollectorHealth, NEW m \in Nat, NEW h \in SameIncidents(c, m)
    PROVE  /\ h \in CollectorHealth
           /\ h.reconnects = c.reconnects /\ h.uncertain = c.uncertain /\ c.uncertain \in Nat
<1>1. c.uncertain \in Nat
  BY DEF CollectorHealth
<1>2. CASE h = [c EXCEPT !.status = "running", !.connected = TRUE]
  BY <1>1, <1>2 DEF CollectorHealth
<1>3. CASE h = [c EXCEPT !.status = "reconnecting", !.connected = FALSE, !.dialled = FALSE]
  BY <1>1, <1>3 DEF CollectorHealth
<1>4. CASE h = [c EXCEPT !.dropped = m, !.status = "failed"]
  BY <1>1, <1>4 DEF CollectorHealth
<1>5. CASE h = StoppedAs(c)
  BY <1>1, <1>5 DEF CollectorHealth, StoppedAs
<1> QED
  BY <1>1, <1>2, <1>3, <1>4, <1>5 DEF SameIncidents

(* A state that leaves the counters of incidents alone speaks for proc.      *)
LEMMA SameSpeaks ==
    ASSUME SoakInv, proc # Nothing, NEW m \in Nat,
           NEW h \in {[proc EXCEPT !.status = "running", !.connected = TRUE],
                      [proc EXCEPT !.status = "reconnecting", !.connected = FALSE, !.dialled = FALSE],
                      [proc EXCEPT !.dropped = m, !.status = "failed"], StoppedAs(proc), proc}
    PROVE  Speaks(h)
<1>1. proc \in CollectorHealth
  BY DEF SoakInv, SoakTypes
<1>2. h \in SameIncidents(proc, m)
  BY DEF SameIncidents
<1>3. /\ h \in CollectorHealth /\ proc.uncertain \in Nat
      /\ h.reconnects = proc.reconnects /\ h.uncertain = proc.uncertain
  BY <1>1, <1>2, HealthFacts
<1>4. Fresh(proc) => proc.uncertain = 0
  BY DEF Fresh
<1> QED
  BY <1>3, <1>4 DEF Speaks

LEMMA OwnSample ==
    ASSUME SoakInv, proc # Nothing, started # Nothing, NEW h, Speaks(h)
    PROVE  /\ SampleOf(h) \in SampleType /\ SampleOf(h).at = clock
           /\ SampleOf(h).reconnects = h.reconnects /\ SampleOf(h).uncertain = h.uncertain
           /\ proc \in CollectorHealth
           /\ h.reconnects >= proc.reconnects /\ h.uncertain >= proc.uncertain
           /\ \/ samples = <<>>
              \/ Fresh(proc) /\ h.reconnects = 0 /\ h.uncertain = 0
              \/ samples # <<>> /\ ShownIn(proc, samples[Len(samples)])
<1>1. proc \in CollectorHealth
  BY DEF SoakInv, SoakTypes
<1>2. SampleOf(h) \in SampleType
  BY SampleFacts DEF Speaks
<1>3. /\ SampleOf(h).at = clock
      /\ SampleOf(h).reconnects = h.reconnects /\ SampleOf(h).uncertain = h.uncertain
  BY DEF SampleOf
<1>4. h.reconnects >= proc.reconnects /\ h.uncertain >= proc.uncertain
  BY <1>1 DEF Speaks, CollectorHealth
<1>5. Fresh(proc) => h.reconnects = 0 /\ h.uncertain = 0
  BY DEF Speaks, Fresh
<1>6. samples # <<>> => Fresh(proc) \/ ShownIn(proc, samples[Len(samples)])
  BY DEF SoakInv, ShownIsSampled
<1> QED
  BY <1>1, <1>2, <1>3, <1>4, <1>5, <1>6

LEMMA PublishKeeps ==
    ASSUME SoakInv, proc # Nothing, NEW h, Speaks(h), Published(h)
    PROVE  SoakInv'
<1>1. UNCHANGED <<clock, started, downSince, outage>> /\ proc' = [h EXCEPT !.shown = IncidentsOf(h)]
  BY DEF Published
<1>2. /\ proc' \in CollectorHealth /\ proc' # Nothing
      /\ proc'.reconnects = h.reconnects /\ proc'.uncertain = h.uncertain
      /\ proc'.shown = h.reconnects + h.uncertain
      /\ h.reconnects \in Nat /\ h.uncertain \in Nat
  <2>1. h.reconnects \in Nat /\ h.uncertain \in Nat /\ h \in CollectorHealth
    BY DEF Speaks, CollectorHealth
  <2>2. proc' \in CollectorHealth
    BY <1>1, <2>1 DEF IncidentsOf, CollectorHealth
  <2>3. proc' # Nothing
    BY <2>2, SoakAssumption
  <2> QED
    BY <1>1, <2>1, <2>2, <2>3 DEF IncidentsOf, CollectorHealth
<1>3. downSince = Nothing
  BY DEF SoakInv, DownIsKnown
<1>4. DownIsKnown'
  BY <1>1, <1>2, <1>3 DEF DownIsKnown
<1>5. CASE started = Nothing
  <2>1. samples' = samples /\ suffered' = suffered /\ samples = <<>>
    BY <1>5 DEF Published, Appends, SoakInv, SoakTypes
  <2>2. SoakTypes' /\ OutagesShow' /\ ShownIsSampled'
    BY <1>1, <1>2, <1>5, <2>1 DEF SoakInv, SoakTypes, OutagesShow, ShownIsSampled
  <2> QED
    BY <1>1, <1>4, <1>5, <2>2 DEF SoakInv
<1>6. CASE started # Nothing
  <2> PICK r \in SampleType : r = SampleOf(h)
    BY SampleFacts DEF Speaks
  <2> DEFINE s == Append(samples, r)
  <2>1. samples \in Seq(SampleType) /\ proc.shown \in Nat
    BY DEF SoakInv, SoakTypes, CollectorHealth
  <2>2. samples' = s /\ suffered' = suffered + (r.reconnects + r.uncertain) - proc.shown
    <3>1. samples' = samples \o [k \in DOMAIN <<h>> |-> SampleOf(<<h>>[k])]
      BY <1>6 DEF Published, Appends
    <3>2. suffered' = suffered + IncidentsOf(LastOf(<<h>>)) - proc.shown
      BY <1>6 DEF Published, Appends
    <3>3. [k \in DOMAIN <<h>> |-> SampleOf(<<h>>[k])] = <<r>>
      OBVIOUS
    <3>4. samples \o <<r>> = s
      BY <2>1
    <3>5. IncidentsOf(LastOf(<<h>>)) = r.reconnects + r.uncertain
      BY DEF IncidentsOf, LastOf, SampleOf
    <3> QED
      BY <3>1, <3>2, <3>3, <3>4, <3>5
  <2>3. /\ r.at = clock /\ r.reconnects = h.reconnects /\ r.uncertain = h.uncertain
        /\ proc \in CollectorHealth
        /\ r.reconnects >= proc.reconnects /\ r.uncertain >= proc.uncertain
        /\ \/ samples = <<>>
           \/ Fresh(proc) /\ r.reconnects = 0 /\ r.uncertain = 0
           \/ samples # <<>> /\ ShownIn(proc, samples[Len(samples)])
    BY <1>6, OwnSample
  <2>4. /\ s \in Seq(SampleType) /\ s # <<>> /\ s[Len(s)] = r
        /\ \A k \in DOMAIN s : s[k].at <= clock
        /\ outage > MaxGap => Silent(s, started, clock)
        /\ Observed(s) >= suffered + (r.reconnects + r.uncertain) - proc.shown
    BY <1>6, <2>3, SampleKeeps
  <2> HIDE DEF s
  <2>5. SoakTypes'
    <3>1. suffered' \in Int
      BY <1>2, <2>1, <2>2, <2>3 DEF SoakInv, SoakTypes
    <3> QED
      BY <1>1, <1>2, <1>6, <2>2, <2>4, <3>1 DEF SoakInv, SoakTypes
  <2>6. OutagesShow'
    BY <1>1, <1>6, <2>2, <2>4 DEF OutagesShow
  <2>7. ShownIsSampled'
    <3>1. ShownIn(proc', s[Len(s)])
      BY <1>2, <2>3, <2>4 DEF ShownIn
    <3> QED
      BY <2>2, <3>1 DEF ShownIsSampled
  <2>8. Observed(samples)' >= suffered'
    BY <2>2, <2>4
  <2> QED
    BY <1>4, <2>5, <2>6, <2>7, <2>8 DEF SoakInv
<1> QED
  BY <1>5, <1>6

(* A collector that goes down, having published its last states or not.      *)
LEMMA DownKeeps ==
    ASSUME SoakInv, proc # Nothing, Down, SoakTypes',
           samples' # <<>> => LastOf(samples') \in SampleType /\ LastOf(samples').at <= clock,
           started # Nothing /\ outage > MaxGap => Silent(samples', started, clock),
           started # Nothing => Observed(samples') >= suffered'
    PROVE  SoakInv'
<1>1. proc' = Nothing /\ downSince' = clock /\ UNCHANGED <<clock, started, outage>>
  BY DEF Down
<1>2. clock \in Nat /\ (started # Nothing => started <= clock)
  BY DEF SoakInv, SoakTypes
<1>3. DownIsKnown'
  BY <1>1, <1>2, SoakAssumption DEF DownIsKnown, LastOf
<1>4. OutagesShow' /\ ShownIsSampled'
  BY <1>1 DEF OutagesShow, ShownIsSampled
<1> QED
  BY <1>1, <1>3, <1>4 DEF SoakInv

LEMMA StopKeeps ==
    ASSUME SoakInv, proc # Nothing, NEW h, Speaks(h), Appends(<<h>>), Down
    PROVE  SoakInv'
<1>1. proc' = Nothing /\ downSince' = clock /\ UNCHANGED <<clock, started, outage>>
  BY DEF Down
<1>2. samples \in Seq(SampleType) /\ suffered \in Int /\ clock \in Nat
  BY DEF SoakInv, SoakTypes
<1>3. CASE started = Nothing
  <2>1. samples' = samples /\ suffered' = suffered /\ samples = <<>>
    BY <1>3 DEF Appends, SoakInv, SoakTypes
  <2>2. SoakTypes'
    BY <1>1, <1>3, <2>1 DEF SoakInv, SoakTypes
  <2> QED
    BY <1>3, <2>1, <2>2, DownKeeps
<1>4. CASE started # Nothing
  <2> PICK r \in SampleType : r = SampleOf(h)
    BY SampleFacts DEF Speaks
  <2> DEFINE s == Append(samples, r)
  <2>1. /\ r.at = clock /\ r.reconnects = h.reconnects /\ r.uncertain = h.uncertain
        /\ proc \in CollectorHealth
        /\ r.reconnects >= proc.reconnects /\ r.uncertain >= proc.uncertain
        /\ \/ samples = <<>>
           \/ Fresh(proc) /\ r.reconnects = 0 /\ r.uncertain = 0
           \/ samples # <<>> /\ ShownIn(proc, samples[Len(samples)])
    BY <1>4, OwnSample
  <2>2. samples' = s /\ suffered' = suffered + (r.reconnects + r.uncertain) - proc.shown
    <3>1. samples' = samples \o [k \in DOMAIN <<h>> |-> SampleOf(<<h>>[k])]
      BY <1>4 DEF Appends
    <3>2. suffered' = suffered + IncidentsOf(LastOf(<<h>>)) - proc.shown
      BY <1>4 DEF Appends
    <3>3. [k \in DOMAIN <<h>> |-> SampleOf(<<h>>[k])] = <<r>>
      OBVIOUS
    <3>4. samples \o <<r>> = s
      BY <1>2
    <3>5. IncidentsOf(LastOf(<<h>>)) = r.reconnects + r.uncertain
      BY DEF IncidentsOf, LastOf, SampleOf
    <3> QED
      BY <3>1, <3>2, <3>3, <3>4, <3>5
  <2>3. /\ s \in Seq(SampleType) /\ s # <<>> /\ s[Len(s)] = r
        /\ \A k \in DOMAIN s : s[k].at <= clock
        /\ outage > MaxGap => Silent(s, started, clock)
        /\ Observed(s) >= suffered + (r.reconnects + r.uncertain) - proc.shown
    BY <1>4, <2>1, SampleKeeps
  <2> HIDE DEF s
  <2>4. SoakTypes'
    <3>1. r.reconnects \in Nat /\ r.uncertain \in Nat /\ proc.shown \in Nat
      BY <2>1 DEF SampleType, CollectorHealth
    <3>2. suffered' \in Int
      BY <1>2, <2>2, <3>1
    <3> QED
      BY <1>1, <1>4, <2>2, <2>3, <3>2 DEF SoakInv, SoakTypes
  <2>5. LastOf(samples') = r /\ clock <= clock
    BY <1>2, <2>2, <2>3 DEF LastOf
  <2> QED
    BY <2>1, <2>2, <2>3, <2>4, <2>5, DownKeeps
<1> QED
  BY <1>3, <1>4

(* _fail_closed and the stop after it: the second sample counts nothing.     *)
LEMMA DropsKeeps ==
    ASSUME SoakInv, Drops
    PROVE  SoakInv'
<1> DEFINE dropped == [proc EXCEPT !.dropped = @ + 1, !.status = "failed"]
           stopped == StoppedAs(dropped)
<1>1. proc # Nothing /\ proc.connected /\ Appends(<<dropped, stopped>>) /\ Down
  BY DEF Drops
<1>2. /\ Speaks(dropped)
      /\ stopped \in CollectorHealth
      /\ stopped.reconnects = dropped.reconnects /\ stopped.uncertain = dropped.uncertain
  <2>1. proc \in CollectorHealth
    BY <1>1 DEF SoakInv, SoakTypes
  <2> PICK m \in Nat : m = proc.dropped + 1
    BY <2>1 DEF CollectorHealth
  <2>2. dropped = [proc EXCEPT !.dropped = m, !.status = "failed"]
    OBVIOUS
  <2>3. Speaks(dropped)
    <3> HIDE DEF dropped, stopped
    <3> QED
      BY <1>1, <2>2, SameSpeaks
  <2>4. dropped \in CollectorHealth
    BY <2>3 DEF Speaks
  <2>5. /\ stopped \in CollectorHealth
        /\ stopped.reconnects = dropped.reconnects /\ stopped.uncertain = dropped.uncertain
    <3>1. stopped \in SameIncidents(dropped, 0)
      BY DEF SameIncidents
    <3> HIDE DEF dropped, stopped
    <3> QED
      BY <2>4, <3>1, HealthFacts, 0 \in Nat
  <2> QED
    BY <2>3, <2>5
<1> HIDE DEF dropped, stopped
<1>3. proc' = Nothing /\ downSince' = clock /\ UNCHANGED <<clock, started, outage>>
  BY <1>1 DEF Down
<1>4. samples \in Seq(SampleType) /\ suffered \in Int /\ clock \in Nat
  BY DEF SoakInv, SoakTypes
<1>5. CASE started = Nothing
  <2>1. samples' = samples /\ suffered' = suffered /\ samples = <<>>
    BY <1>1, <1>5 DEF Appends, SoakInv, SoakTypes
  <2>2. SoakTypes'
    BY <1>3, <1>5, <2>1 DEF SoakInv, SoakTypes
  <2> QED
    BY <1>1, <1>5, <2>1, <2>2, DownKeeps
<1>6. CASE started # Nothing
  <2> PICK r \in SampleType : r = SampleOf(dropped)
    BY <1>2, SampleFacts DEF Speaks
  <2> PICK q \in SampleType : q = SampleOf(stopped)
    BY <1>2, SampleFacts
  <2> DEFINE s == Append(samples, r)
             u == Append(s, q)
  <2>1. /\ r.at = clock /\ r.reconnects = dropped.reconnects /\ r.uncertain = dropped.uncertain
        /\ proc \in CollectorHealth
        /\ r.reconnects >= proc.reconnects /\ r.uncertain >= proc.uncertain
        /\ \/ samples = <<>>
           \/ Fresh(proc) /\ r.reconnects = 0 /\ r.uncertain = 0
           \/ samples # <<>> /\ ShownIn(proc, samples[Len(samples)])
    BY <1>1, <1>2, <1>6, OwnSample
  <2>2. q.at = clock /\ q.reconnects = r.reconnects /\ q.uncertain = r.uncertain
    BY <1>2 DEF SampleOf
  <2>3. samples' = u /\ suffered' = suffered + (q.reconnects + q.uncertain) - proc.shown
    <3>1. samples' = samples \o [k \in DOMAIN <<dropped, stopped>> |-> SampleOf(<<dropped, stopped>>[k])]
      BY <1>1, <1>6 DEF Appends
    <3>2. suffered' = suffered + IncidentsOf(LastOf(<<dropped, stopped>>)) - proc.shown
      BY <1>1, <1>6 DEF Appends
    <3>3. [k \in DOMAIN <<dropped, stopped>> |-> SampleOf(<<dropped, stopped>>[k])] = <<r, q>>
      OBVIOUS
    <3>4. samples \o <<r, q>> = u
      BY <1>4
    <3>5. IncidentsOf(LastOf(<<dropped, stopped>>)) = q.reconnects + q.uncertain
      BY DEF IncidentsOf, LastOf, SampleOf
    <3> QED
      BY <3>1, <3>2, <3>3, <3>4, <3>5
  <2>4. /\ s \in Seq(SampleType) /\ s # <<>> /\ s[Len(s)] = r
        /\ \A k \in DOMAIN s : s[k].at <= clock
        /\ outage > MaxGap => Silent(s, started, clock)
        /\ Observed(s) >= suffered + (r.reconnects + r.uncertain) - proc.shown
    BY <1>6, <2>1, SampleKeeps
  <2>5. started \in Nat /\ (started # Nothing => started <= clock)
    BY <1>6 DEF SoakInv, SoakTypes
  <2> HIDE DEF s
  <2>6. u \in Seq(SampleType) /\ u # <<>> /\ u[Len(u)] = q
    BY <2>4
  <2>7. \A k \in DOMAIN u : u[k].at <= clock
    <3> SUFFICES ASSUME NEW k \in DOMAIN u PROVE u[k].at <= clock
      OBVIOUS
    <3>1. (k \in DOMAIN s /\ u[k] = s[k]) \/ u[k] = q
      BY <2>4
    <3>2. q.at <= clock
      BY <1>4, <2>2
    <3> QED
      BY <2>4, <3>1, <3>2
  <2>8. outage > MaxGap => Silent(u, started, clock)
    BY <1>4, <2>2, <2>4, <2>5, SilenceStays
  <2>9. r.reconnects \in Nat /\ r.uncertain \in Nat /\ proc.shown \in Nat
    BY <2>1 DEF SampleType, CollectorHealth
  <2>10. Observed(u) = Observed(s) /\ Observed(s) \in Int
    <3>1. Observed(u) = Observed(s) + Increment(r.reconnects, q.reconnects) + Increment(r.uncertain, q.uncertain)
      BY <2>4, ObservedAppend
    <3>2. Observed(s) \in Int
      BY <2>4, ObservedAppend
    <3>3. Increment(r.reconnects, q.reconnects) = 0 /\ Increment(r.uncertain, q.uncertain) = 0
      BY <2>2, <2>9 DEF Increment
    <3> HIDE DEF u
    <3> QED
      BY <3>1, <3>2, <3>3
  <2> HIDE DEF u
  <2>11. SoakTypes'
    <3>1. suffered' \in Int
      BY <1>4, <2>2, <2>3, <2>9
    <3>2. samples' \in Seq(SampleType) /\ \A k \in DOMAIN samples' : samples'[k].at <= clock
      BY <2>3, <2>6, <2>7
    <3>3. outage \in Int /\ started <= clock
      BY <1>6 DEF SoakInv, SoakTypes
    <3> QED
      BY <1>3, <1>4, <1>6, <2>5, <3>1, <3>2, <3>3 DEF SoakTypes
  <2>12. LastOf(samples') = q /\ q.at <= clock
    BY <1>4, <2>2, <2>3, <2>6 DEF LastOf
  <2>13. Observed(samples') >= suffered'
    BY <2>2, <2>3, <2>4, <2>10
  <2> QED
    BY <1>1, <2>3, <2>8, <2>11, <2>12, <2>13, DownKeeps
<1> QED
  BY <1>5, <1>6

(* A start ends an outage, of which the history shows the silence.           *)
LEMMA StartKeeps ==
    ASSUME SoakInv, CollectorStart
    PROVE  SoakInv'
<1>1. /\ proc = Nothing /\ started # Nothing /\ proc' = FreshCollector /\ downSince' = Nothing
      /\ outage' = Max({outage, clock - downSince})
      /\ UNCHANGED <<clock, started, samples, suffered>>
  BY DEF CollectorStart
<1>2. FreshCollector \in CollectorHealth /\ FreshCollector # Nothing /\ Fresh(FreshCollector)
  <2>1. FreshCollector \in CollectorHealth /\ Fresh(FreshCollector)
    BY DEF FreshCollector, CollectorHealth, Fresh
  <2> QED
    BY <2>1, SoakAssumption
<1>3. /\ downSince \in Nat /\ downSince <= clock /\ started \in Nat /\ started <= downSince /\ clock \in Nat
      /\ samples # <<>> => LastOf(samples).at <= downSince
      /\ outage \in Int /\ MaxGap \in Nat
  BY <1>1, SoakAssumption DEF SoakInv, SoakTypes, DownIsKnown
<1>4. outage' \in Int /\ (outage' = outage \/ outage' = clock - downSince)
  <2> PICK away \in Int : away = clock - downSince
    BY <1>3
  <2>1. \E m \in {outage, away} : \A n \in {outage, away} : m >= n
    BY <1>3
  <2>2. Max({outage, away}) \in {outage, away}
    BY <2>1 DEF Max
  <2> QED
    BY <1>1, <1>3, <2>2
<1>5. SoakTypes'
  BY <1>1, <1>2, <1>4 DEF SoakInv, SoakTypes
<1>6. DownIsKnown'
  BY <1>1, <1>2 DEF DownIsKnown
<1>7. ShownIsSampled'
  BY <1>1, <1>2 DEF ShownIsSampled
<1>8. OutagesShow'
  <2> SUFFICES ASSUME outage' > MaxGap PROVE Silent(samples, started, clock)
    BY <1>1 DEF OutagesShow
  <2>1. CASE outage' = outage
    BY <1>1, <2>1 DEF SoakInv, OutagesShow
  <2>2. CASE outage' = clock - downSince
    <3>1. clock - downSince > MaxGap
      BY <2>2
    <3>2. CASE samples = <<>>
      BY <1>3, <3>1, <3>2 DEF Silent
    <3>3. CASE samples # <<>>
      <4>1. samples[Len(samples)] \in SampleType
        BY <3>3 DEF SoakInv, SoakTypes
      <4>2. samples[Len(samples)].at \in Nat /\ samples[Len(samples)].at <= downSince
        BY <1>3, <3>3, <4>1 DEF SampleType, LastOf
      <4>3. clock - samples[Len(samples)].at > MaxGap
        BY <1>3, <3>1, <4>2
      <4> QED
        BY <3>3, <4>3 DEF Silent
    <3> QED
      BY <3>2, <3>3
  <2> QED
    BY <1>4, <2>1, <2>2
<1> QED
  BY <1>1, <1>5, <1>6, <1>7, <1>8 DEF SoakInv

(* The marker: the window is empty.                                          *)
LEMMA MarkerKeeps ==
    ASSUME SoakInv, CreateSession
    PROVE  SoakInv'
<1>1. /\ started' = clock /\ suffered' = 0 /\ outage' = 0
      /\ downSince' = IF proc = Nothing THEN clock ELSE Nothing
      /\ UNCHANGED <<clock, proc, samples>> /\ samples = <<>>
  BY DEF CreateSession, SoakInv, SoakTypes
<1>2. clock \in Nat /\ Nothing \notin Nat /\ MaxGap \in Nat
  BY SoakAssumption DEF SoakInv, SoakTypes
<1>3. SoakTypes'
  BY <1>1, <1>2 DEF SoakInv, SoakTypes
<1>4. DownIsKnown'
  BY <1>1, <1>2 DEF DownIsKnown
<1>5. OutagesShow'
  BY <1>1, <1>2 DEF OutagesShow
<1>6. ShownIsSampled'
  BY <1>1 DEF ShownIsSampled
<1>7. Observed(<<>>) = 0
  <2>1. DOMAIN (<<>>) = {}
    OBVIOUS
  <2> QED
    BY <2>1, SumEmpty DEF Observed
<1> QED
  BY <1>1, <1>3, <1>4, <1>5, <1>6, <1>7 DEF SoakInv

LEMMA SoakStep == SoakInv /\ [SoakNext]_soakVars => SoakInv'
<1> SUFFICES ASSUME SoakInv, [SoakNext]_soakVars PROVE SoakInv'
  OBVIOUS
<1>1. CASE UNCHANGED soakVars
  <2>1. UNCHANGED <<clock, started, proc, samples, suffered, downSince, outage>>
    BY <1>1 DEF soakVars
  <2> QED
    BY <2>1, UnpublishedKeeps
<1>2. proc # Nothing => proc \in CollectorHealth
  BY DEF SoakInv, SoakTypes
<1>3. CASE Dials
  <2>1. /\ proc # Nothing /\ UNCHANGED <<clock, started, samples, suffered, downSince, outage>>
        /\ proc' = [proc EXCEPT !.dialled = TRUE, !.reconnects = IF proc.status = "reconnecting" THEN @ + 1 ELSE @]
    BY <1>3 DEF Dials
  <2>2. /\ proc' \in CollectorHealth
        /\ proc'.status = proc.status /\ proc'.connected = proc.connected /\ proc'.shown = proc.shown
        /\ proc'.uncertain = proc.uncertain
        /\ proc'.reconnects = IF proc.status = "reconnecting" THEN proc.reconnects + 1 ELSE proc.reconnects
    <3>1. proc \in CollectorHealth
      BY <1>2, <2>1
    <3> PICK m \in Nat : m = IF proc.status = "reconnecting" THEN proc.reconnects + 1 ELSE proc.reconnects
      BY <3>1 DEF CollectorHealth
    <3>2. proc' = [proc EXCEPT !.dialled = TRUE, !.reconnects = m]
      BY <2>1
    <3> QED
      BY <3>1, <3>2 DEF CollectorHealth
  <2>3. proc' # Nothing
    BY <2>2, SoakAssumption
  <2>4. Fresh(proc) => Fresh(proc)'
    BY <2>2 DEF Fresh
  <2>5. \A r \in SampleType : ShownIn(proc, r) => ShownIn(proc, r)'
    <3>1. proc.reconnects \in Nat
      BY <1>2, <2>1 DEF CollectorHealth
    <3> QED
      BY <2>2, <3>1 DEF ShownIn, SampleType
  <2> QED
    BY <2>1, <2>2, <2>3, <2>4, <2>5, UnpublishedKeeps
<1>4. CASE Opens
  <2>1. proc # Nothing /\ Published([proc EXCEPT !.status = "running", !.connected = TRUE])
    BY <1>4 DEF Opens
  <2>2. Speaks([proc EXCEPT !.status = "running", !.connected = TRUE])
    BY <2>1, SameSpeaks, 0 \in Nat
  <2> QED
    BY <2>1, <2>2, PublishKeeps
<1>5. CASE Closes
  <2>1. proc # Nothing /\ Published([proc EXCEPT !.status = "reconnecting", !.connected = FALSE, !.dialled = FALSE])
    BY <1>5 DEF Closes
  <2>2. Speaks([proc EXCEPT !.status = "reconnecting", !.connected = FALSE, !.dialled = FALSE])
    BY <2>1, SameSpeaks, 0 \in Nat
  <2> QED
    BY <2>1, <2>2, PublishKeeps
<1>6. CASE BecomesUncertain
  <2>1. /\ proc # Nothing /\ proc.connected
        /\ Published([proc EXCEPT !.uncertain = @ + 1, !.status = "sequence_uncertain"])
    BY <1>6 DEF BecomesUncertain
  <2>2. Speaks([proc EXCEPT !.uncertain = @ + 1, !.status = "sequence_uncertain"])
    <3> DEFINE h == [proc EXCEPT !.uncertain = @ + 1, !.status = "sequence_uncertain"]
    <3>1. proc \in CollectorHealth
      BY <1>2, <2>1
    <3> PICK m \in Nat : m = proc.uncertain + 1
      BY <3>1 DEF CollectorHealth
    <3>2. h = [proc EXCEPT !.uncertain = m, !.status = "sequence_uncertain"]
      OBVIOUS
    <3>3. h \in CollectorHealth /\ h.reconnects = proc.reconnects /\ h.uncertain = m
      <4> HIDE DEF h
      <4> QED
        BY <3>1, <3>2 DEF CollectorHealth
    <3>4. proc.uncertain \in Nat
      BY <3>1 DEF CollectorHealth
    <3>5. ~Fresh(proc)
      BY <2>1 DEF Fresh
    <3>6. h.uncertain >= proc.uncertain
      <4> HIDE DEF h
      <4> QED
        BY <3>3, <3>4
    <3>7. Speaks(h)
      <4> HIDE DEF h
      <4> QED
        BY <3>3, <3>5, <3>6 DEF Speaks
    <3> QED
      BY <3>7
  <2> QED
    BY <2>1, <2>2, PublishKeeps
<1>7. CASE HealthBeat
  <2>1. proc # Nothing /\ Published(proc)
    BY <1>7 DEF HealthBeat
  <2>2. Speaks(proc)
    BY <2>1, SameSpeaks, 0 \in Nat
  <2> QED
    BY <2>1, <2>2, PublishKeeps
<1>8. CASE StopsGracefully
  <2>1. proc # Nothing /\ Appends(<<StoppedAs(proc)>>) /\ Down
    BY <1>8 DEF StopsGracefully
  <2>2. Speaks(StoppedAs(proc))
    BY <2>1, SameSpeaks, 0 \in Nat
  <2> QED
    BY <2>1, <2>2, StopKeeps
<1>9. CASE Killed
  <2>1. proc # Nothing /\ Down /\ samples' = samples /\ suffered' = suffered
    BY <1>9 DEF Killed
  <2>2. SoakTypes'
    BY <2>1 DEF SoakInv, SoakTypes, Down
  <2>3. samples # <<>> => LastOf(samples) \in SampleType /\ LastOf(samples).at <= clock
    BY DEF SoakInv, SoakTypes, LastOf
  <2> QED
    BY <2>1, <2>2, <2>3, DownKeeps DEF SoakInv, OutagesShow
<1>10. CASE SoakTick
  <2>1. clock' = clock + 1 /\ UNCHANGED <<started, proc, samples, suffered, downSince, outage>>
    BY <1>10 DEF SoakTick
  <2> QED
    BY <2>1, UnpublishedKeeps
<1> QED
  BY <1>1, <1>3, <1>4, <1>5, <1>6, <1>7, <1>8, <1>9, <1>10, DropsKeeps, StartKeeps, MarkerKeeps DEF SoakNext

(* Through any number of restarts, kills and reconnects, the audit counts at *)
(* least the incidents that were published since the marker, and a window    *)
(* that it qualifies had no outage longer than the gap it allows             *)
(* (audit_raw_soak and its _counter_increments).                             *)
THEOREM AuditNeverMisses == SoakSpec => []AuditMissesNothing
<1>1. SoakInv => AuditMissesNothing
  <2> SUFFICES ASSUME SoakInv PROVE AuditMissesNothing
    OBVIOUS
  <2>1. IncidentsAreCounted
    BY ObservedIsAudited DEF SoakInv, IncidentsAreCounted
  <2>2. ASSUME started # Nothing, AuditQualifies
        PROVE  outage <= MaxGap /\ (downSince # Nothing => clock - downSince <= MaxGap)
    <3>1. /\ samples # <<>> /\ samples[1].at <= started + MaxGap
          /\ samples[Len(samples)].at >= clock - MaxGap
          /\ \A k \in 2..Len(samples) : samples[k].at - samples[k - 1].at <= MaxGap
      BY <2>2 DEF AuditQualifies, SpeaksThroughout, LastOf
    <3>2. \A k \in DOMAIN samples : samples[k].at \in Nat
      <4>1. \A k \in DOMAIN samples : samples[k] \in SampleType
        BY DEF SoakInv, SoakTypes
      <4> QED
        BY <4>1 DEF SampleType
    <3>3. clock \in Nat /\ started \in Nat /\ MaxGap \in Nat /\ outage \in Int /\ samples \in Seq(SampleType)
      BY <2>2, SoakAssumption DEF SoakInv, SoakTypes
    <3>4. 1 \in DOMAIN samples /\ Len(samples) \in DOMAIN samples
      BY <3>1, <3>3
    <3>5. ~Silent(samples, started, clock)
      <4>1. \A k \in 2..Len(samples) : samples[k].at \in Nat /\ samples[k - 1].at \in Nat
        <5> SUFFICES ASSUME NEW k \in 2..Len(samples) PROVE samples[k].at \in Nat /\ samples[k - 1].at \in Nat
          OBVIOUS
        <5>1. k \in DOMAIN samples /\ k - 1 \in DOMAIN samples
          BY <3>3
        <5> QED
          BY <3>2, <5>1
      <4>2. \A k \in 2..Len(samples) : ~(samples[k].at - samples[k - 1].at > MaxGap)
        BY <3>1, <3>3, <4>1
      <4>3. ~(samples[1].at > started + MaxGap) /\ ~(clock - samples[Len(samples)].at > MaxGap)
        BY <3>1, <3>2, <3>3, <3>4
      <4> QED
        BY <3>1, <4>2, <4>3 DEF Silent
    <3>6. outage <= MaxGap
      BY <2>2, <3>3, <3>5 DEF SoakInv, OutagesShow
    <3>7. ASSUME downSince # Nothing PROVE clock - downSince <= MaxGap
      <4>1. downSince \in Nat /\ samples[Len(samples)].at <= downSince
        BY <3>1, <3>7 DEF SoakInv, DownIsKnown, LastOf
      <4> QED
        BY <3>1, <3>2, <3>3, <3>4, <4>1
    <3> QED
      BY <3>6, <3>7
  <2> QED
    BY <2>1, <2>2 DEF AuditMissesNothing, QualifiedSoakWasUp
<1> QED
  BY <1>1, SoakInitInv, SoakStep, PTL DEF SoakSpec
=================================================================================
