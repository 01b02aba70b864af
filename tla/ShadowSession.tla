----------------------------- MODULE ShadowSession -----------------------------
(***************************************************************************)
(* The supervised SHADOW service: the durable work queue and the event loop *)
(* (src/execution/shadow_loop.py), the runtime and its hash-chained audit   *)
(* journal (shadow_runtime.py), the risk-state store it saves to            *)
(* (src/risk/portfolio_state_store.py) and the checks a start makes         *)
(* (shadow_preflight.py, shadow_service.py).                                *)
(*                                                                          *)
(* One process works on one item at a time; every durable write is a step   *)
(* of its own, and the process may crash between any two, or a write may    *)
(* raise.  Time is not modelled: a PENDING item may be due, and the lease   *)
(* of an item that no process holds may have run out, at any moment.        *)
(*                                                                          *)
(* What the risk engine answers is a choice, except for the two rules that  *)
(* couple it to this protocol: nothing is approved under a kill switch or   *)
(* for a key that is already open.  PortfolioRisk models the engine itself. *)
(***************************************************************************)
EXTENDS Naturals, Sequences, FiniteSets

CONSTANTS
    Item,          \* queue items; the observation of an item has its id
    None,
    MaxAttempts,   \* maximum_attempts
    MaxStreak,     \* maximum_consecutive_failures
    FaultKind,     \* the kinds of fault that may happen
    MaxFaults      \* bound on the faults

ASSUME ShadowAssumption ==
    /\ MaxAttempts \in Nat \ {0}
    /\ MaxStreak \in Nat \ {0}
    /\ FaultKind \subseteq {"crash", "load", "save", "append", "sync", "torn", "acknowledge"}
    /\ MaxFaults \in Nat
    /\ None \notin Item

VARIABLES
    queue,     \* shadow_queue: the row of every item
    streak,    \* shadow_loop_state.consecutive_failures
    journal,   \* the lines of the audit journal
    intact,    \* verify() accepts the journal
    store,     \* the risk state on disk, None before the first save
    pc,        \* the process: its next durable write
    cur,       \* the process: the item in hand and the record to be appended
    engine,    \* the process: its risk engine
    known,     \* the process: how many lines its journal object knows of
    faults     \* the n-th fault of a kind so far is in it as <<kind, n>>

durable == <<queue, streak, journal, intact, store>>
process == <<pc, cur, engine, known>>
vars == <<queue, streak, journal, intact, store, pc, cur, engine, known, faults>>

QueueStatus == {"ABSENT", "PENDING", "PROCESSING", "DONE", "DEAD"}
Work == {"bad", "wait", "entry"}
Row == [status : QueueStatus, attempts : Nat, work : Work]
AbsentRow == [status |-> "ABSENT", attempts |-> 0, work |-> "bad"]

(* What the risk engine keeps of interest here; a saved state also carries  *)
(* its time stamp, so two saves have the same checksum only if one          *)
(* observation made both of equal states.                                    *)
Engine == [held : SUBSET Item, killed : BOOLEAN]
NewEngine == [held |-> {}, killed |-> FALSE]
HoldId == Item \X Nat
ObservationId == Item \cup HoldId \cup {None}
Saved(e, id) == [held |-> e.held, killed |-> e.killed, savedBy |-> id]
SavedState == [held : SUBSET Item, killed : BOOLEAN, savedBy : ObservationId]

ShadowStatus == {"INITIALIZED", "WAIT", "RISK_REJECTED", "ELIGIBLE_NO_ORDER", "SAFETY_HOLD"}
AuditRecord == [id : ObservationId, status : ShadowStatus, state : SavedState \cup {None}]

(* The id of a safety hold names its item and attempt, and is no item's id;  *)
(* None is none of the values it stands for the absence of.                  *)
ASSUME IdAssumption ==
    /\ \A i \in Item : i \notin HoldId
    /\ None \notin HoldId /\ None \notin ShadowStatus /\ None \notin SavedState

Audit(id, status, state) == [id |-> id, status |-> status, state |-> state]
NoCur == [item |-> None, record |-> None]

Ids == {journal[n].id : n \in DOMAIN journal}
KnownIds == {journal[n].id : n \in 1..known}
Checkpoints == {n \in DOMAIN journal : journal[n].state # None}
LatestState ==
    IF Checkpoints = {} THEN None
    ELSE journal[CHOOSE n \in Checkpoints : \A m \in Checkpoints : m <= n].state

ShInit ==
    /\ queue = [i \in Item |-> AbsentRow]
    /\ streak = 0
    /\ journal = <<>>
    /\ intact = TRUE
    /\ store = None
    /\ pc = "down"
    /\ cur = NoCur
    /\ engine = NewEngine
    /\ known = 0
    /\ faults = {}

-----------------------------------------------------------------------------
(* The producer.                                                             *)
Enqueue(i, w) ==
    /\ queue[i].status = "ABSENT"
    /\ queue' = [queue EXCEPT ![i] = [status |-> "PENDING", attempts |-> 0, work |-> w]]
    /\ UNCHANGED <<streak, journal, intact, store, process, faults>>

-----------------------------------------------------------------------------
(* A start: preflight, then initialize_new or resume.                        *)
Mutant_AuditNotCompared == intact
Consistent ==
    /\ intact
    /\ IF store = None THEN journal = <<>> ELSE journal # <<>> /\ LatestState \in {None, store}

StartRefused ==
    /\ pc \in {"down", "refused"}
    /\ ~Consistent
    /\ pc' = "refused"
    /\ UNCHANGED <<durable, cur, engine, known, faults>>

StartNew ==
    /\ pc = "down"
    /\ Consistent
    /\ store = None
    /\ engine' = NewEngine
    /\ known' = Len(journal)
    /\ store' = Saved(NewEngine, None)
    /\ pc' = "append"
    /\ cur' = [item |-> None, record |-> Audit(None, "INITIALIZED", store')]
    /\ UNCHANGED <<queue, streak, journal, intact, faults>>

Resume ==
    /\ pc = "down"
    /\ Consistent
    /\ store # None
    /\ engine' = [held |-> store.held, killed |-> store.killed]
    /\ known' = Len(journal)
    /\ pc' = "idle"
    /\ cur' = NoCur
    /\ UNCHANGED <<durable, faults>>

Die == pc' = "down" /\ cur' = NoCur /\ engine' = NewEngine /\ known' = 0

-----------------------------------------------------------------------------
(* One iteration of the loop.                                                *)
Mutant_LeaseNeverExpires(i) == queue[i].status = "PENDING"
Due(i) == queue[i].status \in {"PENDING", "PROCESSING"}

Claim(i) ==
    /\ pc = "idle"
    /\ Due(i)
    /\ queue' = [queue EXCEPT ![i].status = "PROCESSING", ![i].attempts = @ + 1]
    /\ pc' = "observe"
    /\ cur' = [item |-> i, record |-> None]
    /\ UNCHANGED <<streak, journal, intact, store, engine, known, faults>>

ToAppend(i, status) ==
    /\ pc' = "append"
    /\ cur' = [cur EXCEPT !.record = Audit(i, status, None)]

(* ensure_available raises for an id the journal object knows: the loop then *)
(* looks the id up in the file.                                              *)
Mutant_DuplicateNotSeen(i) == FALSE
Duplicate(i) == i \in KnownIds

Mutant_KillNotChecked(i) == i \in engine.held
Blocked(i) == engine.killed \/ i \in engine.held

(* Loading the work and everything observe does before its first write.      *)
Decide(i) ==
    \/ queue[i].work = "bad" /\ pc' = "retry" /\ UNCHANGED cur
    \/ queue[i].work # "bad" /\ Duplicate(i) /\ pc' = "find" /\ UNCHANGED cur
    \/ queue[i].work = "wait" /\ ~Duplicate(i) /\ ToAppend(i, "WAIT")
    \/ queue[i].work = "entry" /\ ~Duplicate(i) /\ ToAppend(i, "RISK_REJECTED")
    \/ queue[i].work = "entry" /\ ~Duplicate(i) /\ ~Blocked(i) /\ pc' = "save" /\ UNCHANGED cur

Observe ==
    /\ pc = "observe"
    /\ Decide(cur.item)
    /\ UNCHANGED <<durable, engine, known, faults>>

(* journal.find verifies the whole file; a journal that fails raises out of  *)
(* the exception handler and ends the process.                               *)
Find ==
    /\ pc = "find"
    /\ \/ ~intact /\ Die
       \/ intact /\ cur.item \in Ids /\ pc' = "acknowledge found" /\ UNCHANGED <<cur, engine, known>>
    /\ UNCHANGED <<durable, faults>>

(* An approved entry: stage, save, swap the engine.                          *)
Mutant_StagedFromEmpty(i) == [NewEngine EXCEPT !.held = {i}]
Staged(i) == [engine EXCEPT !.held = @ \cup {i}]

Save ==
    /\ pc = "save"
    /\ store' = Saved(Staged(cur.item), cur.item)
    /\ engine' = Staged(cur.item)
    /\ pc' = "append"
    /\ cur' = [cur EXCEPT !.record = Audit(cur.item, "ELIGIBLE_NO_ORDER", store')]
    /\ UNCHANGED <<queue, streak, journal, intact, known, faults>>

(* append writes a line that follows the last one the journal object knows:  *)
(* if the file has a later one the chain is broken.                          *)
Written ==
    /\ journal' = Append(journal, cur.record)
    /\ intact' = (intact /\ known = Len(journal) /\ cur.record.id \notin Ids)

AppendRecord ==
    /\ pc = "append"
    /\ Written
    /\ known' = Len(journal')
    /\ \/ cur.record.status \in {"INITIALIZED", "SAFETY_HOLD"} /\ pc' = "idle" /\ cur' = NoCur
       \/ cur.record.status \notin {"INITIALIZED", "SAFETY_HOLD"} /\ pc' = "acknowledge" /\ UNCHANGED cur
    /\ UNCHANGED <<queue, streak, store, engine, faults>>

Acknowledge ==
    /\ pc \in {"acknowledge", "acknowledge found"}
    /\ queue[cur.item].status = "PROCESSING"
    /\ queue' = [queue EXCEPT ![cur.item].status = "DONE"]
    /\ pc' = "success"
    /\ UNCHANGED <<streak, journal, intact, store, cur, engine, known, faults>>

RecordSuccess ==
    /\ pc = "success"
    /\ streak' = 0
    /\ pc' = "idle"
    /\ cur' = NoCur
    /\ UNCHANGED <<queue, journal, intact, store, engine, known, faults>>

RetryOrDeadLetter ==
    /\ pc = "retry"
    /\ queue' = [queue EXCEPT ![cur.item].status =
                    IF queue[cur.item].attempts >= MaxAttempts THEN "DEAD" ELSE "PENDING"]
    /\ pc' = "count"
    /\ UNCHANGED <<streak, journal, intact, store, cur, engine, known, faults>>

AtThreshold == streak + 1 >= MaxStreak

RecordFailure ==
    /\ pc = "count"
    /\ streak' = streak + 1
    /\ \/ AtThreshold /\ ~engine.killed /\ pc' = "hold" /\ UNCHANGED cur
       \/ (~AtThreshold \/ engine.killed) /\ pc' = "idle" /\ cur' = NoCur
    /\ UNCHANGED <<queue, journal, intact, store, engine, known, faults>>

(* find and activate_safety_hold; whatever raises here ends the process.     *)
SafetyHold ==
    LET id == <<cur.item, queue[cur.item].attempts>>
        killed == [engine EXCEPT !.killed = TRUE]
    IN /\ pc = "hold"
       /\ \/ ~intact /\ Die /\ UNCHANGED store
          \/ intact /\ id \in Ids /\ pc' = "idle" /\ cur' = NoCur /\ UNCHANGED <<store, engine, known>>
          \/ /\ intact /\ id \notin Ids
             /\ store' = Saved(killed, id)
             /\ engine' = killed
             /\ pc' = "append"
             /\ cur' = [cur EXCEPT !.record = Audit(id, "SAFETY_HOLD", store')]
             /\ UNCHANGED known
       /\ UNCHANGED <<queue, streak, journal, intact, faults>>

(* An iteration that finds nothing to claim writes its heartbeat only.       *)
Idle ==
    /\ pc = "idle"
    /\ \A i \in Item : ~Due(i)
    /\ UNCHANGED vars

-----------------------------------------------------------------------------
(* Faults.                                                                   *)
Met(kinds) == {f \in faults : f[1] \in kinds}

Fault(kind) ==
    /\ kind \in FaultKind
    /\ Cardinality(faults) < MaxFaults
    /\ faults' = faults \cup {<<kind, 1 + Cardinality(Met({kind}))>>}

ToRetry == pc' = "retry" /\ cur' = [cur EXCEPT !.record = None] /\ UNCHANGED <<engine, known>>

Crash ==
    /\ Fault("crash")
    /\ pc \notin {"down", "refused"}
    /\ Die
    /\ UNCHANGED durable

(* The work cannot be read this time.                                        *)
LoadFails ==
    /\ Fault("load")
    /\ pc = "observe"
    /\ ToRetry
    /\ UNCHANGED durable

(* save raises before os.replace, or after it: the engine is not swapped.    *)
SaveFails ==
    /\ Fault("save")
    /\ pc = "save"
    /\ store' \in {store, Saved(Staged(cur.item), cur.item)}
    /\ ToRetry
    /\ UNCHANGED <<queue, streak, journal, intact>>

OfAnItem == cur.record.id = cur.item

(* open or write raises and nothing is written.                              *)
AppendFails ==
    /\ Fault("append")
    /\ pc = "append" /\ OfAnItem /\ cur.item # None
    /\ ToRetry
    /\ UNCHANGED durable

(* fsync raises: the line is in the file, the journal object does not know.  *)
SyncFails ==
    /\ Fault("sync")
    /\ pc = "append" /\ OfAnItem /\ cur.item # None
    /\ Written
    /\ ToRetry
    /\ UNCHANGED <<queue, streak, store>>

(* A short write raises; find then fails to verify the file.                 *)
TornWrite ==
    /\ Fault("torn")
    /\ pc = "append"
    /\ intact' = FALSE
    /\ Die
    /\ UNCHANGED <<queue, streak, journal, store>>

AcknowledgeFails ==
    /\ Fault("acknowledge")
    /\ pc = "acknowledge"
    /\ ToRetry
    /\ UNCHANGED durable

-----------------------------------------------------------------------------
Produce == \E i \in Item, w \in Work : Enqueue(i, w)
Start == StartRefused \/ StartNew \/ Resume
Worker ==
    \/ \E i \in Item : Claim(i)
    \/ Observe \/ Find \/ Save \/ AppendRecord \/ Acknowledge \/ RecordSuccess
    \/ RetryOrDeadLetter \/ RecordFailure \/ SafetyHold
Faults == Crash \/ LoadFails \/ SaveFails \/ AppendFails \/ SyncFails \/ TornWrite \/ AcknowledgeFails
ShNext == Produce \/ Start \/ Worker \/ Idle \/ Faults

ShSpec == ShInit /\ [][ShNext]_vars

(* The supervisor starts the service again whenever it has ended, and a     *)
(* running process takes its next step; work and faults come as they please. *)
ShFairSpec == ShSpec /\ WF_vars(Start) /\ WF_vars(Worker)

-----------------------------------------------------------------------------
(* Properties.                                                               *)

PcValue == {"down", "refused", "idle", "observe", "find", "save", "append", "acknowledge",
            "acknowledge found", "success", "retry", "count", "hold"}

(* Every variable keeps its type, and the item in hand is the one the queue  *)
(* says is being processed.                                                  *)
ShTypeOK ==
    /\ queue \in [Item -> Row]
    /\ streak \in Nat
    /\ journal \in Seq(AuditRecord)
    /\ intact \in BOOLEAN
    /\ store \in SavedState \cup {None}
    /\ pc \in PcValue
    /\ cur \in [item : Item \cup {None}, record : AuditRecord \cup {None}]
    /\ engine \in Engine
    /\ known \in 0..Len(journal)
    /\ faults \in SUBSET (FaultKind \X (1..MaxFaults))
    /\ pc \in {"observe", "find", "save", "acknowledge", "acknowledge found", "retry"}
          => cur.item \in Item /\ queue[cur.item].status = "PROCESSING"

(* A save, or an append that is not torn, has raised: the process goes on.   *)
WriteRaised == Met({"save", "append", "sync"}) # {}

(* No observation is decided twice, whatever is redelivered or restarted: a  *)
(* crash between the append and the acknowledgement is the hard case.  Only  *)
(* a line whose fsync raised is unknown to the journal object and repeated.  *)
OneRecordPerObservation ==
    Met({"sync"}) = {} => \A m, n \in DOMAIN journal : journal[m].id = journal[n].id => m = n

(* An entry the audit calls eligible is in the risk state on disk: "persist  *)
(* virtual exposure before acknowledging eligibility".                       *)
AuditedEntryIsHeld ==
    \A n \in DOMAIN journal :
        journal[n].status = "ELIGIBLE_NO_ORDER" => journal[n].id \in store.held

(* The loop takes new work only while the audit and the risk state on disk   *)
(* agree: "state/audit mismatch fails closed".  That needs every save and    *)
(* append to succeed: one that raises sends the item to its retry.           *)
ReconciledAtWork ==
    pc \in {"idle", "observe"} /\ ~WriteRaised => LatestState = store

(* All three: the audit journal tells each decision once, no entry that the  *)
(* risk state does not hold, and agrees with it whenever work begins.        *)
AuditIsTrue == OneRecordPerObservation /\ AuditedEntryIsHeld /\ ReconciledAtWork

(* Every item is done or dead in the end, unless a start is refused.         *)
Settles ==
    \A i \in Item :
        queue[i].status = "PENDING" ~> (queue[i].status \in {"DONE", "DEAD"} \/ pc = "refused")

(* The verdict on an item is its first record in the journal.                *)
RecordsOf(i) == {n \in DOMAIN journal : journal[n].id = i}
DecisionOf(i) ==
    IF RecordsOf(i) = {} THEN None
    ELSE journal[CHOOSE n \in RecordsOf(i) : \A m \in RecordsOf(i) : n <= m].status
Decisions == INSTANCE ShadowDecisions WITH
    decision <- [i \in Item |-> DecisionOf(i)],
    outcome <- [i \in Item |-> IF queue[i].status \in {"DONE", "DEAD"}
                               THEN queue[i].status ELSE "OPEN"],
    stopped <- \E n \in DOMAIN journal : journal[n].status = "SAFETY_HOLD"
(* The service implements ShadowDecisions: the verdict on an item is its     *)
(* first record in the journal, its outcome the status of its row.           *)
ImplementsDecisions == Decisions!DecSpec
================================================================================
