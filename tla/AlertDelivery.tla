------------------------------- MODULE AlertDelivery -------------------------------
(***************************************************************************)
(* The alert receiver (src/monitoring/alert_receiver.py) between Alertmanager*)
(* and an off-host endpoint, and the evidence that Phase 1 takes from its    *)
(* journal (src/data/phase1_alert_delivery.py).  Handlers are the threads of *)
(* the HTTP server.  Alertmanager sends again what was not answered with a   *)
(* 2xx in time, and repeats what was; a payload is its own event id, so all  *)
(* of these have the same one.  Without ALERT_FORWARD_URL the receiver only  *)
(* keeps the receipt.  Two clock readings make a UTC day.                    *)
(* Mutant_...: a plausible slip in the definition that follows.              *)
(***************************************************************************)
EXTENDS Integers, Sequences, FiniteSets

CONSTANTS
    AlertEvent,    \* event ids
    Handler,       \* threads of the receiver
    MaxInstant,    \* bound of the clock
    MaxTrouble     \* bound on faults and repeats

AlertDay == 0..(MaxInstant \div 2)
Due == [answer |-> "due"]
AlertAnswer == {Due} \cup [answer : {"forwarded", "stored"}, file : AlertDay]

ASSUME AlertAssumption == MaxInstant \in Nat /\ MaxTrouble \in Nat /\ Handler \cap AlertAnswer = {}

VARIABLES
    instant,       \* wall clock
    forwarding,    \* the running process has a forwarder
    waiting,       \* event |-> Due, the handler Alertmanager waits for, or the 2xx:
                   \* 200 "forwarded", 202 "stored", with the file of its receipt
    handler,       \* what a thread is at
    journal,       \* day |-> the lines of reports/alerts/<day>.jsonl
    unended,       \* days whose last line has no end
    delivered,     \* what reached the endpoint, and when
    trouble

alertVars == <<instant, forwarding, waiting, handler, journal, unended, delivered, trouble>>

DayAt(t) == t \div 2
Free == [step |-> "free"]
Spoilt == [type |-> "spoilt"]    \* a line that is no JSON document

AlertInit ==
    /\ instant = 0 /\ forwarding \in BOOLEAN
    /\ waiting = [e \in AlertEvent |-> Due]
    /\ handler = [h \in Handler |-> Free]
    /\ journal = [d \in AlertDay |-> <<>>] /\ unended = {}
    /\ delivered = {} /\ trouble = 0

Trouble == trouble < MaxTrouble /\ trouble' = trouble + 1
Goes(h, step) == handler' = [handler EXCEPT ![h].step = step]

-----------------------------------------------------------------------------
(* Alertmanager.                                                             *)

(* do_POST: the payload is valid, and the clock is read before anything else.*)
Posts(h, e) ==
    /\ waiting[e] = Due /\ handler[h] = Free
    /\ waiting' = [waiting EXCEPT ![e] = h]
    /\ handler' = [handler EXCEPT ![h] = [step |-> "receipt", event |-> e,
                                          received |-> instant, at |-> instant]]
    /\ UNCHANGED <<instant, forwarding, journal, unended, delivered, trouble>>

(* It gives up on an answer, or repeats an alert that still fires.           *)
SendsAgain(e) ==
    /\ waiting[e] # Due
    /\ Trouble
    /\ waiting' = [waiting EXCEPT ![e] = Due]
    /\ UNCHANGED <<instant, forwarding, handler, journal, unended, delivered>>

-----------------------------------------------------------------------------
(* AlertJournal.append, under its lock, in the file of the receipt's day.    *)

Mutant_OwnDay(h) == DayAt(handler[h].at)
FileDay(h) == DayAt(handler[h].received)

(* The answer, to an Alertmanager that may wait for it no more.              *)
Answers(h, answer) ==
    LET e == handler[h].event IN
    /\ handler' = [handler EXCEPT ![h] = Free]
    /\ waiting' = [waiting EXCEPT ![e] =
          IF @ # h THEN @ ELSE IF answer = "due" THEN Due ELSE [answer |-> answer, file |-> FileDay(h)]]

Record(h) == [type |-> handler[h].step, event |-> handler[h].event, at |-> handler[h].at]

(* What is written after a line without its end continues that line.         *)
PutLine(d, line) ==
    journal' = [journal EXCEPT ![d] =
        IF d \in unended THEN [journal[d] EXCEPT ![Len(journal[d])] = Spoilt] ELSE Append(@, line)]
Appended(h) ==
    /\ PutLine(FileDay(h), Record(h))
    /\ unended' = unended \ {FileDay(h)}
(* An append that does not return: nothing is in the file, or the whole line,*)
(* or one cut short, perhaps by no more than its end.                        *)
CutShort(h) ==
    \/ UNCHANGED <<journal, unended>>
    \/ Appended(h)
    \/ /\ \E line \in {Record(h), Spoilt} : PutLine(FileDay(h), line)
       /\ unended' = unended \cup {FileDay(h)}

(* OSError, of a full disk or of fsync: the handler answers 500.             *)
AppendFails(h) ==
    /\ Trouble
    /\ Answers(h, "due")
    /\ CutShort(h)
    /\ UNCHANGED <<instant, forwarding, delivered>>

(* AlertDeliveryProcessor.process                                            *)
Mutant_StoredIsForwarded == "forwarded"
WithoutForwarder == "stored"

WritesReceipt(h) ==
    /\ handler[h].step = "receipt"
    /\ \/ /\ Appended(h)
          /\ IF forwarding THEN Goes(h, "forward") /\ UNCHANGED waiting
             ELSE Answers(h, WithoutForwarder)
          /\ UNCHANGED <<instant, forwarding, delivered, trouble>>
       \/ AppendFails(h)

Reaches(h) ==
    delivered' = delivered \cup
        {[event |-> handler[h].event, file |-> FileDay(h), at |-> instant]}
Ends(h, step) == handler' = [handler EXCEPT ![h].step = step, ![h].at = instant]

(* The endpoint's 2xx; its refusal, or a timeout that may come too late; or  *)
(* an answer cut off, which no except clause of the forwarder names: it      *)
(* leaves do_POST as an OSError.                                             *)
Forwards(h) ==
    /\ handler[h].step = "forward"
    /\ \/ Reaches(h) /\ Ends(h, "success") /\ UNCHANGED <<waiting, trouble>>
       \/ /\ Trouble
          /\ Reaches(h) \/ UNCHANGED delivered
          /\ \/ Ends(h, "failure") /\ UNCHANGED waiting
             \/ Answers(h, "due")
    /\ UNCHANGED <<instant, forwarding, journal, unended>>

Mutant_FailureIsAccepted(step) == "forwarded"
AnswerIs(step) == IF step = "success" THEN "forwarded" ELSE "due"

WritesOutcome(h) ==
    /\ handler[h].step \in {"success", "failure"}
    /\ \/ /\ Appended(h)
          /\ Answers(h, AnswerIs(handler[h].step))
          /\ UNCHANGED <<instant, forwarding, delivered, trouble>>
       \/ AppendFails(h)

(* The receiver dies, perhaps in the middle of an append, and Alertmanager's *)
(* requests fail with it; the next process reads the environment anew.       *)
ReceiverDies ==
    /\ Trouble
    /\ \/ UNCHANGED <<journal, unended>>
       \/ \E h \in Handler : handler[h].step \in {"receipt", "success", "failure"} /\ CutShort(h)
    /\ handler' = [h \in Handler |-> Free]
    /\ waiting' = [e \in AlertEvent |-> IF waiting[e] \in Handler THEN Due ELSE waiting[e]]
    /\ forwarding' \in BOOLEAN
    /\ UNCHANGED <<instant, delivered>>

AlertTick ==
    /\ instant < MaxInstant /\ instant' = instant + 1
    /\ UNCHANGED <<forwarding, waiting, handler, journal, unended, delivered, trouble>>

AlertNext ==
    \/ \E h \in Handler : \/ \E e \in AlertEvent : Posts(h, e)
                          \/ WritesReceipt(h) \/ Forwards(h) \/ WritesOutcome(h)
    \/ \E e \in AlertEvent : SendsAgain(e)
    \/ ReceiverDies
    \/ AlertTick

AlertSpec == AlertInit /\ [][AlertNext]_alertVars

-----------------------------------------------------------------------------
(* The evidence: evaluate_phase1_alert_delivery over one day's file, for one *)
(* event.                                                                    *)

(* load_alert_journal raises on a line that is no JSON document.             *)
Marred(d) == \E k \in DOMAIN journal[d] : journal[d][k].type = "spoilt"

(* The places of its records of a type.                                      *)
Matching(d, e, type) ==
    {k \in DOMAIN journal[d] : journal[d][k].type = type /\ journal[d][k].event = e}

Mutant_AnyOutcome(d, e) ==
    /\ ~Marred(d)
    /\ Matching(d, e, "receipt") # {}
    /\ Matching(d, e, "failure") \cup Matching(d, e, "success") # {}
(* A success that is not before the last receipt.                            *)
DurableChain(d, e) ==
    /\ ~Marred(d)
    /\ \E n \in Matching(d, e, "receipt") :
          /\ \A m \in Matching(d, e, "receipt") : m <= n
          /\ \E k \in Matching(d, e, "success") : journal[d][k].at >= journal[d][n].at

-----------------------------------------------------------------------------
(* Nothing reaches the endpoint before its receipt is in a file; 200 means   *)
(* that the endpoint got the alert and that the file holds its receipt and,  *)
(* later in it, its success, 202 that the file holds its receipt and no more *)
(* is promised; unless that very file has a line that an append cut short    *)
(* left or was glued to, which Phase 1 cannot read.  And a chain that Phase 1*)
(* accepts stands for a delivery.                                            *)
AnsweredIsDelivered ==
    /\ \A x \in delivered :
          \/ Marred(x.file)
          \/ \E k \in Matching(x.file, x.event, "receipt") : journal[x.file][k].at <= x.at
    /\ \A e \in AlertEvent : waiting[e] \notin Handler =>
          LET w == waiting[e] IN
          /\ w.answer = "forwarded" =>
                /\ \E x \in delivered : x.event = e /\ x.file = w.file
                /\ \/ Marred(w.file)
                   \/ \E n \in Matching(w.file, e, "receipt"), k \in Matching(w.file, e, "success") : n < k
          /\ w.answer = "stored" => Marred(w.file) \/ Matching(w.file, e, "receipt") # {}
    /\ \A d \in AlertDay, e \in AlertEvent : DurableChain(d, e) => \E x \in delivered : x.event = e
=====================================================================================
