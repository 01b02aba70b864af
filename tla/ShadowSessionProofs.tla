------------------------- MODULE ShadowSessionProofs -------------------------
(***************************************************************************)
(* The audit journal of the SHADOW service is true, and the service          *)
(* implements ShadowDecisions, for any number of items, retries and faults.  *)
(* The invariant says what the process may rely on at each of its durable    *)
(* writes: what it holds, what is on disk, and what it is about to append.   *)
(***************************************************************************)
EXTENDS ShadowSession, FiniteSetTheorems, NaturalsInduction, WellFoundedInduction, TLAPS

Running == pc \notin {"down", "refused"}
IsHold(record) == record.status = "SAFETY_HOLD"
IsEligible(record) == record.status = "ELIGIBLE_NO_ORDER"

Verdict == {"WAIT", "RISK_REJECTED", "ELIGIBLE_NO_ORDER"}

(* The record about to be appended: the first of a new journal, a rejection  *)
(* or a wait, an entry that is saved, a safety hold that is saved.           *)
FirstInHand(r) ==
    /\ r.status = "INITIALIZED" /\ r.id = None /\ r.state = store
    /\ cur.item = None /\ journal = <<>>

NoEntryInHand(r) ==
    /\ r.status \in {"WAIT", "RISK_REJECTED"} /\ r.id = cur.item /\ r.state = None
    /\ cur.item \in Item /\ queue[cur.item].status = "PROCESSING"

EntryInHand(r) ==
    /\ IsEligible(r) /\ r.id = cur.item /\ r.state = store
    /\ cur.item \in Item /\ queue[cur.item].status = "PROCESSING"
    /\ cur.item \in store.held /\ cur.item \in engine.held /\ ~engine.killed

HoldInHand(r) ==
    /\ IsHold(r) /\ r.id \in HoldId /\ r.state = store
    /\ cur.item \in Item /\ store.killed /\ engine.killed

RecordInHand(r) ==
    /\ r \in AuditRecord
    /\ FirstInHand(r) \/ NoEntryInHand(r) \/ EntryInHand(r) \/ HoldInHand(r)

InHand ==
    /\ pc \in {"count", "hold"} => cur.item \in Item
    /\ pc = "append" => RecordInHand(cur.record)
    /\ pc = "save" => ~engine.killed
    /\ pc \in {"acknowledge", "acknowledge found"} => cur.item \in Ids

(* A process that runs has saved a state, and the first line it wrote is the *)
(* first checkpoint.                                                         *)
Begun ==
    /\ Running => store # None
    /\ journal # <<>> => store # None /\ journal[1].state # None
    /\ Running => journal # <<>> \/ (pc = "append" /\ cur.record.status = "INITIALIZED")

(* What the journal says is in the store, and in the engine of who runs.     *)
LineIsKept(record) ==
    /\ IsEligible(record) => record.id \in store.held /\ (Running => record.id \in engine.held)
    /\ IsHold(record) => store.killed /\ (Running => engine.killed)
    /\ record.id \in Item => record.status \in Verdict

JournalIsKept == \A n \in DOMAIN journal : LineIsKept(journal[n])

(* As long as no fsync raised, the process knows every line.                 *)
EachOnce == \A m, n \in DOMAIN journal : journal[m].id = journal[n].id => m = n

NoSync == Met({"sync"}) = {}

DecidedOnce ==
    NoSync =>
        /\ EachOnce
        /\ Running => known = Len(journal)
        /\ pc = "save" => cur.item \notin Ids
        /\ pc = "append" => cur.record.id \notin Ids

(* As long as no write raised, the last checkpoint is the state on disk, or  *)
(* is about to be.                                                           *)
Reconciled ==
    Running /\ ~WriteRaised =>
        \/ LatestState = store
        \/ pc = "append" /\ cur.record.state = store

ShInv == ShTypeOK /\ InHand /\ Begun /\ JournalIsKept /\ DecidedOnce /\ Reconciled

-----------------------------------------------------------------------------
(* The journal.                                                              *)

(* A nonempty set of numbers has a least one, and a greatest if bounded.     *)
LEMMA LeastExists ==
    ASSUME NEW S \in SUBSET Nat, S # {}
    PROVE  \E n \in S : \A m \in S : n <= m
<1> DEFINE R == {ss \in Nat \X Nat : ss[1] < ss[2]}
<1>1. IsWellFoundedOn(R, Nat)
  <2>1. R = OpToRel(<, Nat)
    BY Zenon DEF OpToRel
  <2> QED
    BY <2>1, NatLessThanWellFounded
<1>2. PICK n \in S : \A m \in S : ~(<<m, n>> \in R)
  BY <1>1, WFMin
<1>3. ASSUME NEW m \in S
      PROVE  n <= m
  <2>1. ~(m < n) /\ m \in Nat /\ n \in Nat
    BY <1>2
  <2> HIDE DEF R
  <2> QED
    BY <2>1
<1> QED
  BY <1>3

LEMMA GreatestExists ==
    ASSUME NEW L \in Nat, NEW S \in SUBSET (1..L), S # {}
    PROVE  \E n \in S : \A m \in S : m <= n
<1> DEFINE T == {L - n : n \in S}
<1>1. T \in SUBSET Nat /\ T # {}
  <2>1. \A n \in S : n \in 1..L
    OBVIOUS
  <2>2. \A n \in 1..L : L - n \in Nat
    OBVIOUS
  <2> QED
    BY <2>1, <2>2
<1>2. PICK t \in T : \A u \in T : t <= u
  BY <1>1, LeastExists
<1>3. PICK n \in S : t = L - n
  BY <1>2
<1>4. ASSUME NEW m \in S
      PROVE  m <= n
  <2>1. L - m \in T
    OBVIOUS
  <2>2. L - n <= L - m
    BY <1>2, <1>3, <2>1
  <2>3. L \in Nat /\ m \in Nat /\ n \in Nat
    OBVIOUS
  <2> HIDE DEF T
  <2> QED
    BY <2>2, <2>3
<1> QED
  BY <1>4

(* The latest checkpoint is one.                                             *)
LEMMA LatestIsCheckpoint ==
    ASSUME journal \in Seq(AuditRecord), Checkpoints # {}
    PROVE  \E n \in Checkpoints : LatestState = journal[n].state /\ \A m \in Checkpoints : m <= n
<1>1. Checkpoints \in SUBSET (1..Len(journal)) /\ Len(journal) \in Nat
  BY DEF Checkpoints
<1>2. \E n \in Checkpoints : \A m \in Checkpoints : m <= n
  BY <1>1, GreatestExists
<1> QED
  BY <1>2 DEF LatestState

(* A line more: a checkpoint is the latest, and any other changes nothing.   *)
LEMMA LatestOfAppend ==
    ASSUME journal \in Seq(AuditRecord), NEW r \in AuditRecord, journal' = Append(journal, r)
    PROVE  /\ r.state # None => LatestState' = r.state
           /\ r.state = None /\ Checkpoints # {} => LatestState' = LatestState
<1> DEFINE L == Len(journal)
<1>1. L \in Nat /\ DOMAIN journal = 1..L /\ DOMAIN journal' = 1..(L + 1)
  OBVIOUS
<1>2. (\A n \in 1..L : journal'[n] = journal[n]) /\ journal'[L + 1] = r
  OBVIOUS
<1>3. journal' \in Seq(AuditRecord)
  OBVIOUS
<1> HIDE DEF L
<1>4. ASSUME r.state # None
      PROVE  LatestState' = r.state
  <2>1. L + 1 \in Checkpoints' /\ Checkpoints' \subseteq 1..(L + 1)
    BY <1>1, <1>2, <1>4 DEF Checkpoints
  <2>2. PICK n \in Checkpoints' : LatestState' = journal'[n].state /\ \A m \in Checkpoints' : m <= n
    <3>1. Checkpoints' # {}
      BY <2>1
    <3>2. \E n \in Checkpoints' : \A m \in Checkpoints' : m <= n
      BY <1>1, <2>1, <3>1, GreatestExists
    <3> QED
      BY <3>1, <3>2 DEF LatestState
  <2>3. n = L + 1
    BY <1>1, <2>1, <2>2
  <2> QED
    BY <1>2, <2>2, <2>3
<1>5. ASSUME r.state = None, Checkpoints # {}
      PROVE  LatestState' = LatestState
  <2>1. Checkpoints' = Checkpoints /\ Checkpoints \subseteq 1..L
    BY <1>1, <1>2, <1>5 DEF Checkpoints
  <2> DEFINE last == CHOOSE n \in Checkpoints : \A m \in Checkpoints : m <= n
  <2>2. \E n \in Checkpoints : \A m \in Checkpoints : m <= n
    BY <1>1, <1>5, <2>1, GreatestExists
  <2>3. last \in Checkpoints
    BY <2>2
  <2>4. LatestState = journal[last].state
    BY <1>5 DEF LatestState
  <2>5. LatestState' = journal'[last].state
    BY <1>5, <2>1 DEF LatestState
  <2> QED
    BY <1>2, <2>1, <2>3, <2>4, <2>5
<1> QED
  BY <1>4, <1>5

(* A line more is one id more, and every earlier line stays.                 *)
LEMMA AppendFacts ==
    ASSUME journal \in Seq(AuditRecord), NEW r \in AuditRecord, journal' = Append(journal, r)
    PROVE  /\ journal' \in Seq(AuditRecord)
           /\ Len(journal) \in Nat /\ Len(journal') = Len(journal) + 1
           /\ DOMAIN journal = 1..Len(journal) /\ DOMAIN journal' = 1..(Len(journal) + 1)
           /\ \A n \in 1..Len(journal) : journal'[n] = journal[n]
           /\ journal'[Len(journal) + 1] = r
           /\ Ids' = Ids \cup {r.id}
<1>1. /\ journal' \in Seq(AuditRecord)
      /\ Len(journal) \in Nat /\ Len(journal') = Len(journal) + 1
      /\ DOMAIN journal = 1..Len(journal) /\ DOMAIN journal' = 1..(Len(journal) + 1)
      /\ \A n \in 1..Len(journal) : journal'[n] = journal[n]
      /\ journal'[Len(journal) + 1] = r
  OBVIOUS
<1>2. Ids' = Ids \cup {r.id}
  BY <1>1 DEF Ids
<1> QED
  BY <1>1, <1>2

LEMMA SameJournal ==
    ASSUME journal' = journal
    PROVE  Ids' = Ids /\ LatestState' = LatestState /\ EachOnce' = EachOnce
  BY DEF Ids, LatestState, Checkpoints, EachOnce

LEMMA EmptyJournal == journal = <<>> => Ids = {}
  BY DEF Ids

-----------------------------------------------------------------------------
(* Faults.                                                                   *)

LEMMA MetGrows ==
    ASSUME faults \subseteq faults', NEW kinds
    PROVE  Met(kinds)' = {} => Met(kinds) = {}
  BY DEF Met

LEMMA FaultIsMet ==
    ASSUME NEW kind, Fault(kind), NEW kinds, kind \in kinds
    PROVE  Met(kinds)' # {}
<1> DEFINE fault == <<kind, 1 + Cardinality(Met({kind}))>>
<1>1. fault \in faults' /\ fault[1] \in kinds
  BY DEF Fault
<1> HIDE DEF fault
<1> QED
  BY <1>1 DEF Met

LEMMA FaultTypes ==
    ASSUME NEW kind, Fault(kind), faults \in SUBSET (FaultKind \X (1..MaxFaults))
    PROVE  faults' \in SUBSET (FaultKind \X (1..MaxFaults)) /\ faults \subseteq faults'
<1> DEFINE count == Cardinality(Met({kind}))
<1>1. FaultKind \subseteq {"crash", "load", "save", "append", "sync", "torn", "acknowledge"} /\ MaxFaults \in Nat
  BY ShadowAssumption
<1>2. IsFiniteSet(FaultKind)
  <2>1. IsFiniteSet({"crash", "load", "save", "append", "sync", "torn", "acknowledge"})
    <3>1. IsFiniteSet({"crash"})
      BY FS_Singleton
    <3>2. IsFiniteSet({"crash"} \cup {"load"})
      BY <3>1, FS_AddElement
    <3>3. IsFiniteSet({"crash", "load"} \cup {"save"})
      BY <3>2, FS_AddElement
    <3>4. IsFiniteSet({"crash", "load", "save"} \cup {"append"})
      BY <3>3, FS_AddElement
    <3>5. IsFiniteSet({"crash", "load", "save", "append"} \cup {"sync"})
      BY <3>4, FS_AddElement
    <3>6. IsFiniteSet({"crash", "load", "save", "append", "sync"} \cup {"torn"})
      BY <3>5, FS_AddElement
    <3>7. IsFiniteSet({"crash", "load", "save", "append", "sync", "torn"} \cup {"acknowledge"})
      BY <3>6, FS_AddElement
    <3> QED
      BY <3>7
  <2> QED
    BY <1>1, <2>1, FS_Subset
<1>3. IsFiniteSet(1..MaxFaults)
  BY <1>1, FS_Interval
<1>4. IsFiniteSet(FaultKind \X (1..MaxFaults))
  BY <1>2, <1>3, FS_Product
<1>5. IsFiniteSet(faults)
  BY <1>4, FS_Subset
<1>6. Met({kind}) \subseteq faults
  BY DEF Met
<1>7. count <= Cardinality(faults) /\ count \in Nat /\ Cardinality(faults) \in Nat
  BY <1>5, <1>6, FS_Subset, FS_CardinalityType
<1>8. kind \in FaultKind /\ Cardinality(faults) < MaxFaults /\ faults' = faults \cup {<<kind, 1 + count>>}
  BY DEF Fault
<1> HIDE DEF count
<1>9. 1 + count \in 1..MaxFaults
  BY <1>1, <1>7, <1>8
<1> QED
  BY <1>8, <1>9

-----------------------------------------------------------------------------
(* Types.                                                                    *)

FaultSet == SUBSET (FaultKind \X (1..MaxFaults))

(* What a row, an engine or a saved state is after a change.                 *)
LEMMA RowFacts ==
    ASSUME NEW row \in Row, NEW st \in QueueStatus
    PROVE  /\ [row EXCEPT !.status = st] \in Row
           /\ [row EXCEPT !.status = st].status = st
  BY DEF Row

LEMMA SavedFacts ==
    ASSUME NEW e \in Engine, NEW id \in ObservationId
    PROVE  /\ Saved(e, id) \in SavedState /\ Saved(e, id) # None
           /\ Saved(e, id).held = e.held /\ Saved(e, id).killed = e.killed
  BY IdAssumption DEF Engine, Saved, SavedState

LEMMA AuditFacts ==
    ASSUME NEW id \in ObservationId, NEW st \in ShadowStatus, NEW state \in SavedState \cup {None}
    PROVE  /\ Audit(id, st, state) \in AuditRecord
           /\ Audit(id, st, state).id = id /\ Audit(id, st, state).status = st
           /\ Audit(id, st, state).state = state
  BY DEF Audit, AuditRecord

LEMMA StagedFacts ==
    ASSUME engine \in Engine, NEW i \in Item
    PROVE  /\ Staged(i) \in Engine
           /\ Staged(i).held = engine.held \cup {i} /\ Staged(i).killed = engine.killed
  BY DEF Engine, Staged

LEMMA EngineFacts ==
    /\ NewEngine \in Engine /\ NewEngine.held = {} /\ NewEngine.killed = FALSE
    /\ \A e \in Engine : [e EXCEPT !.killed = TRUE] \in Engine
                         /\ [e EXCEPT !.killed = TRUE].killed = TRUE
                         /\ [e EXCEPT !.killed = TRUE].held = e.held
    /\ \A st \in SavedState : [held |-> st.held, killed |-> st.killed] \in Engine
  BY DEF NewEngine, Engine, SavedState

CurType == [item : Item \cup {None}, record : AuditRecord \cup {None}]

LEMMA CurFacts ==
    /\ NoCur \in CurType
    /\ \A c \in CurType : [c EXCEPT !.record = None] \in CurType
                          /\ [c EXCEPT !.record = None].item = c.item
    /\ \A c \in CurType, r \in AuditRecord :
          /\ [c EXCEPT !.record = r] \in CurType
          /\ [c EXCEPT !.record = r].item = c.item /\ [c EXCEPT !.record = r].record = r
    /\ \A i \in Item : [item |-> i, record |-> None] \in CurType
  BY DEF NoCur, CurType

(* The two halves of the type invariant.                                     *)
Shapes ==
    /\ queue \in [Item -> Row]
    /\ streak \in Nat
    /\ journal \in Seq(AuditRecord)
    /\ intact \in BOOLEAN
    /\ store \in SavedState \cup {None}
    /\ pc \in PcValue
    /\ cur \in CurType
    /\ engine \in Engine
    /\ known \in 0..Len(journal)
    /\ faults \in FaultSet

ItemInHand ==
    pc \in {"observe", "find", "save", "acknowledge", "acknowledge found", "retry"}
        => cur.item \in Item /\ queue[cur.item].status = "PROCESSING"

LEMMA TypeIsShapes == ShTypeOK <=> Shapes /\ ItemInHand
  BY DEF ShTypeOK, Shapes, ItemInHand, CurType, FaultSet

LEMMA KeptIsInv ==
    ASSUME Shapes', ItemInHand', InHand', Begun', JournalIsKept', DecidedOnce', Reconciled'
    PROVE  ShInv'
  BY DEF ShInv, ShTypeOK, Shapes, ItemInHand, CurType, FaultSet

LEMMA ShInitInv == ShInit => ShInv
<1> SUFFICES ASSUME ShInit
             PROVE  ShInv
  OBVIOUS
<1>1. Shapes /\ ItemInHand
  <2>1. queue \in [Item -> Row]
    BY DEF ShInit, AbsentRow, Row, QueueStatus, Work
  <2>2. journal \in Seq(AuditRecord) /\ known \in 0..Len(journal) /\ faults \in FaultSet
    BY DEF ShInit, FaultSet
  <2> QED
    BY <2>1, <2>2, CurFacts, EngineFacts DEF ShInit, Shapes, ItemInHand, PcValue
<1>2. InHand /\ Begun /\ Reconciled /\ JournalIsKept
  BY DEF ShInit, InHand, Begun, Reconciled, JournalIsKept, Running
<1>3. DecidedOnce
  BY DEF ShInit, DecidedOnce, Running, EachOnce
<1> QED
  BY <1>1, <1>2, <1>3, TypeIsShapes DEF ShInv

-----------------------------------------------------------------------------
(* The producer and the starts.                                              *)

LEMMA EnqueueKeeps ==
    ASSUME ShInv, NEW i \in Item, NEW w \in Work, Enqueue(i, w)
    PROVE  ShInv'
<1>0. Shapes /\ ItemInHand
  BY TypeIsShapes DEF ShInv
<1>1. /\ queue' = [queue EXCEPT ![i] = [status |-> "PENDING", attempts |-> 0, work |-> w]]
      /\ queue[i].status = "ABSENT"
      /\ UNCHANGED <<streak, journal, intact, store, pc, cur, engine, known, faults>>
  BY DEF Enqueue, process
<1>2. \A j \in Item : queue[j].status = "PROCESSING" => queue'[j].status = "PROCESSING"
  BY <1>0, <1>1 DEF Shapes
<1>3. Shapes'
  <2>1. [status |-> "PENDING", attempts |-> 0, work |-> w] \in Row
    BY DEF Row, QueueStatus
  <2> QED
    BY <1>0, <1>1, <2>1 DEF Shapes
<1>4. ItemInHand'
  BY <1>0, <1>1, <1>2 DEF ItemInHand
<1>5. InHand'
  BY <1>1, <1>2, SameJournal DEF ShInv, InHand, RecordInHand, FirstInHand, NoEntryInHand, EntryInHand, HoldInHand
<1>6. Begun' /\ JournalIsKept'
  BY <1>1 DEF ShInv, Begun, JournalIsKept, LineIsKept, Running
<1>7. DecidedOnce' /\ Reconciled'
  BY <1>1, SameJournal DEF ShInv, DecidedOnce, NoSync, Met, Reconciled, WriteRaised, Running
<1> QED
  BY <1>3, <1>4, <1>5, <1>6, <1>7, KeptIsInv

(* A process that ends, whatever it had in hand, leaves what was on disk.    *)
LEMMA DieKeeps ==
    ASSUME ShInv, Die \/ (pc' = "refused" /\ pc \in {"down", "refused"} /\ UNCHANGED <<cur, engine, known>>),
           intact' \in BOOLEAN,
           UNCHANGED <<queue, streak, journal, store>>, faults' \in FaultSet, faults \subseteq faults'
    PROVE  ShInv'
<1>0. Shapes
  BY TypeIsShapes DEF ShInv
<1>1. pc' \in {"down", "refused"}
  BY DEF Die
<1>2. Shapes'
  <2>1. cur' \in CurType /\ engine' \in Engine
    BY <1>0, CurFacts, EngineFacts DEF Shapes, Die
  <2>2. Len(journal) \in Nat /\ known' \in 0..Len(journal)
    BY <1>0 DEF Shapes, Die
  <2> QED
    BY <1>0, <1>1, <2>1, <2>2 DEF Shapes, PcValue
<1>3. ItemInHand' /\ InHand' /\ Reconciled'
  BY <1>1 DEF ItemInHand, InHand, Reconciled, Running
<1>4. Begun' /\ JournalIsKept'
  BY <1>1 DEF ShInv, Begun, JournalIsKept, LineIsKept, Running
<1>5. DecidedOnce'
  BY <1>1, SameJournal, MetGrows DEF ShInv, DecidedOnce, NoSync, Running
<1> QED
  BY <1>2, <1>3, <1>4, <1>5, KeptIsInv

(* A state on disk that agrees with the journal is its last checkpoint.      *)
LEMMA ConsistentFacts ==
    ASSUME ShInv, Consistent, store # None
    PROVE  journal # <<>> /\ LatestState = store
<1>1. journal # <<>> /\ journal \in Seq(AuditRecord) /\ LatestState \in {None, store}
  BY DEF Consistent, ShInv, ShTypeOK
<1>2. 1 \in Checkpoints
  BY <1>1 DEF Checkpoints, ShInv, Begun
<1>3. LatestState # None
  BY <1>1, <1>2, LatestIsCheckpoint DEF Checkpoints
<1> QED
  BY <1>1, <1>3

LEMMA StartKeeps ==
    ASSUME ShInv, Start
    PROVE  ShInv'
<1>0. Shapes
  BY TypeIsShapes DEF ShInv
<1>1. CASE StartRefused
  BY <1>0, <1>1, DieKeeps DEF StartRefused, durable, Shapes
<1>2. CASE StartNew
  <2> DEFINE new == Saved(NewEngine, None)
             r == Audit(None, "INITIALIZED", new)
  <2>1. new \in SavedState /\ new # None /\ new.killed = FALSE
    BY SavedFacts, EngineFacts DEF ObservationId
  <2>2. r \in AuditRecord /\ r.id = None /\ r.status = "INITIALIZED" /\ r.state = new
    BY <2>1, AuditFacts DEF ObservationId, ShadowStatus
  <2>3. /\ journal = <<>> /\ pc' = "append" /\ cur' = [item |-> None, record |-> r] /\ store' = new
        /\ engine' = NewEngine /\ known' = Len(journal)
        /\ UNCHANGED <<queue, streak, journal, intact, faults>>
    BY <1>2 DEF StartNew, Consistent
  <2> HIDE DEF new, r
  <2>4. Shapes' /\ ItemInHand'
    <3>1. cur' \in CurType /\ engine' \in Engine /\ pc' \in PcValue
      BY <2>2, <2>3, EngineFacts DEF CurType, PcValue
    <3>2. known' \in 0..Len(journal')
      BY <2>3
    <3> QED
      BY <1>0, <2>1, <2>3, <3>1, <3>2 DEF Shapes, ItemInHand
  <2>5. InHand'
    BY <2>2, <2>3 DEF InHand, RecordInHand, FirstInHand
  <2>6. Begun' /\ JournalIsKept' /\ Reconciled'
    BY <2>1, <2>2, <2>3 DEF Begun, JournalIsKept, Reconciled, Running
  <2>7. DecidedOnce'
    BY <2>2, <2>3, EmptyJournal, SameJournal DEF DecidedOnce, EachOnce, Running
  <2> QED
    BY <2>4, <2>5, <2>6, <2>7, KeptIsInv
<1>3. CASE Resume
  <2>1. /\ pc' = "idle" /\ cur' = NoCur /\ engine' = [held |-> store.held, killed |-> store.killed]
        /\ known' = Len(journal) /\ store # None /\ pc = "down"
        /\ UNCHANGED <<queue, streak, journal, intact, store, faults>>
        /\ journal # <<>> /\ LatestState = store
    BY <1>3, ConsistentFacts DEF Resume, durable
  <2>2. store \in SavedState /\ engine' \in Engine /\ engine'.held = store.held /\ engine'.killed = store.killed
    BY <1>0, <2>1, EngineFacts DEF Shapes
  <2>3. Shapes' /\ ItemInHand' /\ InHand'
    BY <1>0, <2>1, <2>2, CurFacts DEF Shapes, ItemInHand, InHand, PcValue
  <2>4. Begun' /\ JournalIsKept'
    BY <2>1, <2>2 DEF ShInv, Begun, JournalIsKept, LineIsKept, Running
  <2>5. DecidedOnce' /\ Reconciled'
    BY <2>1, SameJournal DEF ShInv, DecidedOnce, NoSync, Met, Reconciled, Running
  <2> QED
    BY <2>3, <2>4, <2>5, KeptIsInv
<1> QED
  BY <1>1, <1>2, <1>3 DEF Start

-----------------------------------------------------------------------------
(* The loop: steps that write neither the journal nor the store.             *)

LEMMA QuietKeeps ==
    ASSUME ShInv, Running, journal # <<>>, Running',
           UNCHANGED <<journal, intact, store, engine, known>>,
           faults \subseteq faults', faults' \in FaultSet,
           pc # "append" \/ WriteRaised',
           queue' \in [Item -> Row], streak' \in Nat, pc' \in PcValue, cur' \in CurType,
           ItemInHand', InHand',
           NoSync /\ pc' = "save" => cur'.item \notin Ids,
           NoSync /\ pc' = "append" => cur'.record.id \notin Ids
    PROVE  ShInv'
<1>1. Shapes'
  BY TypeIsShapes DEF ShInv, Shapes
<1>2. Begun' /\ JournalIsKept'
  BY DEF ShInv, Begun, JournalIsKept, LineIsKept, Running
<1>3. NoSync' => NoSync
  BY MetGrows DEF NoSync
<1>4. DecidedOnce'
  BY <1>3, SameJournal DEF ShInv, DecidedOnce
<1>5. ~WriteRaised' => ~WriteRaised
  BY MetGrows DEF WriteRaised
<1>6. Reconciled'
  BY <1>5, SameJournal DEF ShInv, Reconciled
<1> QED
  BY <1>1, <1>2, <1>4, <1>6, KeptIsInv

(* At work a process has begun its journal.                                  *)
LEMMA AtWork ==
    ASSUME ShInv, Running, pc # "append"
    PROVE  Shapes /\ ItemInHand /\ InHand /\ journal # <<>> /\ store # None
  BY TypeIsShapes DEF ShInv, Begun

LEMMA ClaimKeeps ==
    ASSUME ShInv, NEW i \in Item, Claim(i)
    PROVE  ShInv'
<1>1. /\ pc = "idle" /\ pc' = "observe" /\ cur' = [item |-> i, record |-> None]
      /\ queue' = [queue EXCEPT ![i].status = "PROCESSING", ![i].attempts = @ + 1]
      /\ UNCHANGED <<streak, journal, intact, store, engine, known, faults>>
  BY DEF Claim
<1>2. Running /\ Running' /\ Shapes /\ journal # <<>>
  BY <1>1, AtWork DEF Running
<1>3. queue' \in [Item -> Row] /\ queue'[i].status = "PROCESSING"
  <2>1. \A j \in Item : queue[j] \in Row
    BY <1>2 DEF Shapes
  <2> QED
    BY <1>1, <1>2, <2>1 DEF Shapes, Row, QueueStatus
<1>4. cur' \in CurType /\ pc' \in PcValue /\ ItemInHand' /\ InHand'
  BY <1>1, <1>3, CurFacts DEF PcValue, ItemInHand, InHand
<1>5. streak' \in Nat /\ faults' \in FaultSet /\ faults \subseteq faults'
  BY <1>1, <1>2 DEF Shapes
<1> QED
  BY <1>1, <1>2, <1>3, <1>4, <1>5, QuietKeeps

(* Without a sync fault the process knows every id of the file.              *)
LEMMA KnowsEveryId ==
    ASSUME ShInv, Running, NoSync
    PROVE  KnownIds = Ids
<1>1. known = Len(journal) /\ journal \in Seq(AuditRecord)
  BY DEF ShInv, ShTypeOK, DecidedOnce
<1>2. DOMAIN journal = 1..known
  BY <1>1
<1> QED
  BY <1>2 DEF KnownIds, Ids

LEMMA ObserveKeeps ==
    ASSUME ShInv, Observe
    PROVE  ShInv'
<1> DEFINE i == cur.item
<1>1. pc = "observe" /\ Decide(i) /\ UNCHANGED <<queue, streak, journal, intact, store, engine, known, faults>>
  BY DEF Observe, durable
<1>2. Running /\ Shapes /\ journal # <<>> /\ i \in Item /\ queue[i].status = "PROCESSING" /\ cur \in CurType
  BY <1>1, AtWork DEF Running, ItemInHand, Shapes
<1>3. NoSync => (Duplicate(i) <=> i \in Ids)
  BY <1>2, KnowsEveryId DEF Duplicate
<1> HIDE DEF i
<1>4. faults' \in FaultSet /\ faults \subseteq faults' /\ queue' \in [Item -> Row] /\ streak' \in Nat
  BY <1>1, <1>2 DEF Shapes
<1>5. CASE pc' \in {"retry", "find"} /\ UNCHANGED cur
  <2>1. cur' \in CurType /\ pc' \in PcValue /\ ItemInHand' /\ InHand' /\ Running'
    BY <1>1, <1>2, <1>5 DEF PcValue, ItemInHand, InHand, Running, i
  <2> QED
    BY <1>1, <1>2, <1>4, <1>5, <2>1, QuietKeeps
<1>6. ASSUME NEW st \in {"WAIT", "RISK_REJECTED"}, ~Duplicate(i), ToAppend(i, st)
      PROVE  ShInv'
  <2> DEFINE r == Audit(i, st, None)
  <2>1. pc' = "append" /\ cur' = [cur EXCEPT !.record = r]
    BY <1>6 DEF ToAppend
  <2>2. r \in AuditRecord /\ r.id = i /\ r.status = st /\ r.state = None
    BY <1>2, AuditFacts DEF ObservationId, ShadowStatus
  <2> HIDE DEF r
  <2>3. cur' \in CurType /\ cur'.item = i /\ cur'.record = r
    BY <1>2, <2>1, <2>2, CurFacts DEF i
  <2>4. pc' \in PcValue /\ ItemInHand' /\ Running'
    BY <2>1 DEF PcValue, ItemInHand, Running
  <2>5. InHand'
    BY <1>1, <1>2, <2>1, <2>2, <2>3 DEF InHand, RecordInHand, NoEntryInHand
  <2> QED
    BY <1>1, <1>2, <1>3, <1>4, <1>6, <2>1, <2>2, <2>3, <2>4, <2>5, QuietKeeps
<1>7. CASE ~Duplicate(i) /\ ~Blocked(i) /\ pc' = "save" /\ UNCHANGED cur
  <2>1. cur' \in CurType /\ pc' \in PcValue /\ ItemInHand' /\ InHand' /\ Running'
    BY <1>1, <1>2, <1>7 DEF PcValue, ItemInHand, InHand, Running, Blocked, i
  <2>2. NoSync => cur'.item \notin Ids
    BY <1>3, <1>7 DEF i
  <2> QED
    BY <1>1, <1>2, <1>4, <1>7, <2>1, <2>2, QuietKeeps
<1> QED
  BY <1>1, <1>5, <1>6, <1>7 DEF Decide

LEMMA FindKeeps ==
    ASSUME ShInv, Find
    PROVE  ShInv'
<1>1. pc = "find" /\ UNCHANGED <<queue, streak, journal, intact, store, faults>>
  BY DEF Find, durable
<1>2. Running /\ Shapes /\ journal # <<>> /\ cur.item \in Item /\ queue[cur.item].status = "PROCESSING"
  BY <1>1, AtWork DEF Running, ItemInHand
<1>3. faults' \in FaultSet /\ faults \subseteq faults' /\ intact' \in BOOLEAN
  BY <1>1, <1>2 DEF Shapes
<1>4. CASE Die
  BY <1>1, <1>3, <1>4, DieKeeps
<1>5. CASE cur.item \in Ids /\ pc' = "acknowledge found" /\ UNCHANGED <<cur, engine, known>>
  <2>1. ItemInHand' /\ InHand' /\ Running' /\ pc' \in PcValue
    BY <1>1, <1>2, <1>5, SameJournal DEF ItemInHand, InHand, Running, PcValue
  <2>2. queue' \in [Item -> Row] /\ streak' \in Nat /\ cur' \in CurType
    BY <1>1, <1>2, <1>5 DEF Shapes
  <2> QED
    BY <1>1, <1>2, <1>3, <1>5, <2>1, <2>2, QuietKeeps
<1> QED
  BY <1>4, <1>5 DEF Find

(* Steps that rewrite a row or the streak and end the work on the item.      *)
LEMMA RowKeeps ==
    ASSUME ShInv, pc \in {"acknowledge", "acknowledge found", "retry", "success", "count"},
           NEW st \in QueueStatus,
           queue' \in {queue, [queue EXCEPT ![cur.item].status = st]},
           pc' \in {"success", "count", "idle"} \/ (pc = "count" /\ pc' = "hold"),
           streak' \in Nat, UNCHANGED cur \/ (cur' = NoCur /\ pc' = "idle"),
           pc' = "count" => pc = "retry",
           UNCHANGED <<journal, intact, store, engine, known, faults>>
    PROVE  ShInv'
<1>1. Running /\ Running' /\ Shapes /\ ItemInHand /\ InHand /\ journal # <<>>
  BY AtWork DEF Running
<1>2. faults' \in FaultSet /\ faults \subseteq faults'
  BY <1>1 DEF Shapes
<1>3. queue' \in [Item -> Row]
  <2>1. queue \in [Item -> Row]
    BY <1>1 DEF Shapes
  <2>2. \A j \in Item : [queue[j] EXCEPT !.status = st] \in Row
    BY <2>1, RowFacts
  <2>3. [queue EXCEPT ![cur.item].status = st] \in [Item -> Row]
    BY <2>1, <2>2
  <2> QED
    BY <2>1, <2>3
<1>4. cur' \in CurType /\ pc' \in PcValue
  BY <1>1, CurFacts DEF Shapes, PcValue
<1>5. ItemInHand' /\ InHand'
  BY <1>1 DEF ItemInHand, InHand
<1> QED
  BY <1>1, <1>2, <1>3, <1>4, <1>5, QuietKeeps

LEMMA AfterWorkKeeps ==
    ASSUME ShInv, Acknowledge \/ RecordSuccess \/ RetryOrDeadLetter \/ RecordFailure
    PROVE  ShInv'
<1>1. CASE Acknowledge
  BY <1>1, RowKeeps, TypeIsShapes DEF Acknowledge, QueueStatus, ShInv, Shapes
<1>2. CASE RecordSuccess
  <2>1. "DONE" \in QueueStatus
    BY DEF QueueStatus
  <2> QED
    BY <1>2, <2>1, RowKeeps DEF RecordSuccess
<1>3. CASE RetryOrDeadLetter
  <2> DEFINE st == IF queue[cur.item].attempts >= MaxAttempts THEN "DEAD" ELSE "PENDING"
  <2>1. st \in QueueStatus
    BY DEF QueueStatus
  <2>2. /\ pc = "retry" /\ pc' = "count" /\ queue' = [queue EXCEPT ![cur.item].status = st]
        /\ UNCHANGED <<streak, journal, intact, store, cur, engine, known, faults>>
    BY <1>3 DEF RetryOrDeadLetter
  <2> HIDE DEF st
  <2>3. streak' \in Nat
    BY <2>2, TypeIsShapes DEF ShInv, Shapes
  <2> QED
    BY <2>1, <2>2, <2>3, RowKeeps
<1>4. CASE RecordFailure
  <2>1. "DONE" \in QueueStatus
    BY DEF QueueStatus
  <2>2. streak' \in Nat
    BY <1>4, TypeIsShapes DEF RecordFailure, ShInv, Shapes
  <2> QED
    BY <1>4, <2>1, <2>2, RowKeeps DEF RecordFailure
<1> QED
  BY <1>1, <1>2, <1>3, <1>4

-----------------------------------------------------------------------------
(* The loop: steps that write the store.                                     *)

LEMMA SaveKeeps ==
    ASSUME ShInv, Save
    PROVE  ShInv'
<1> DEFINE i == cur.item
           new == Saved(Staged(i), i)
           r == Audit(i, "ELIGIBLE_NO_ORDER", new)
<1>1. /\ pc = "save" /\ store' = new /\ engine' = Staged(i) /\ pc' = "append"
      /\ cur' = [cur EXCEPT !.record = r]
      /\ UNCHANGED <<queue, streak, journal, intact, known, faults>>
  BY DEF Save
<1>2. /\ Running /\ Running' /\ Shapes /\ journal # <<>> /\ i \in Item /\ queue[i].status = "PROCESSING"
      /\ ~engine.killed /\ engine \in Engine /\ cur \in CurType
  BY <1>1, AtWork DEF Running, ItemInHand, InHand, Shapes
<1>3. /\ Staged(i) \in Engine /\ Staged(i).held = engine.held \cup {i} /\ Staged(i).killed = engine.killed
  BY <1>2, StagedFacts
<1>4. new \in SavedState /\ new # None /\ new.held = engine.held \cup {i} /\ new.killed = engine.killed
  BY <1>2, <1>3, SavedFacts DEF ObservationId
<1> HIDE DEF new
<1>5. r \in AuditRecord /\ r.id = i /\ r.status = "ELIGIBLE_NO_ORDER" /\ r.state = new
  BY <1>2, <1>4, AuditFacts DEF ObservationId, ShadowStatus
<1> HIDE DEF r
<1>6. cur' \in CurType /\ cur'.item = i /\ cur'.record = r
  BY <1>1, <1>2, <1>5, CurFacts DEF i
<1> HIDE DEF i
<1>7. Shapes' /\ ItemInHand'
  BY <1>1, <1>2, <1>3, <1>4, <1>6 DEF Shapes, ItemInHand, PcValue
<1>8. InHand'
  <2>1. EntryInHand(cur.record)'
    BY <1>1, <1>2, <1>3, <1>4, <1>5, <1>6 DEF EntryInHand, IsEligible
  <2> QED
    BY <1>1, <1>5, <1>6, <2>1 DEF InHand, RecordInHand
<1>9. Begun'
  BY <1>1, <1>2, <1>4 DEF ShInv, Begun
<1>10. JournalIsKept'
  BY <1>1, <1>2, <1>3, <1>4 DEF ShInv, JournalIsKept, LineIsKept, Running
<1>11. DecidedOnce'
  <2>1. NoSync' => NoSync /\ i \notin Ids
    BY <1>1 DEF ShInv, DecidedOnce, NoSync, Met, i
  <2> QED
    BY <1>1, <1>2, <1>5, <1>6, <2>1, SameJournal DEF ShInv, DecidedOnce
<1>12. Reconciled'
  BY <1>1, <1>5, <1>6 DEF Reconciled
<1> QED
  BY <1>7, <1>8, <1>9, <1>10, <1>11, <1>12, KeptIsInv

LEMMA SafetyHoldKeeps ==
    ASSUME ShInv, SafetyHold
    PROVE  ShInv'
<1> DEFINE id == <<cur.item, queue[cur.item].attempts>>
           killed == [engine EXCEPT !.killed = TRUE]
           new == Saved(killed, id)
           r == Audit(id, "SAFETY_HOLD", new)
<1>1. pc = "hold" /\ UNCHANGED <<queue, streak, journal, intact, faults>>
  BY DEF SafetyHold
<1>2. /\ Running /\ Shapes /\ journal # <<>> /\ cur.item \in Item /\ engine \in Engine /\ cur \in CurType
  BY <1>1, AtWork DEF Running, InHand, Shapes
<1>3. faults' \in FaultSet /\ faults \subseteq faults' /\ intact' \in BOOLEAN
  BY <1>1, <1>2 DEF Shapes
<1>4. CASE Die /\ UNCHANGED store
  BY <1>1, <1>3, <1>4, DieKeeps
<1>5. CASE pc' = "idle" /\ cur' = NoCur /\ UNCHANGED <<store, engine, known>>
  <2>1. ItemInHand' /\ InHand' /\ Running' /\ pc' \in PcValue /\ cur' \in CurType
    BY <1>5, CurFacts DEF ItemInHand, InHand, Running, PcValue
  <2>2. queue' \in [Item -> Row] /\ streak' \in Nat
    BY <1>1, <1>2 DEF Shapes
  <2> QED
    BY <1>1, <1>2, <1>3, <1>5, <2>1, <2>2, QuietKeeps
<1>6. CASE /\ id \notin Ids /\ store' = new /\ engine' = killed /\ pc' = "append"
           /\ cur' = [cur EXCEPT !.record = r] /\ UNCHANGED known
  <2>1. id \in HoldId /\ id \in ObservationId
    <3>1. queue[cur.item] \in Row
      BY <1>2 DEF Shapes
    <3> QED
      BY <1>2, <3>1 DEF HoldId, ObservationId, Row
  <2>2. killed \in Engine /\ killed.killed = TRUE /\ killed.held = engine.held
    BY <1>2, EngineFacts
  <2> HIDE DEF killed, id
  <2>3. new \in SavedState /\ new # None /\ new.held = engine.held /\ new.killed = TRUE
    BY <2>1, <2>2, SavedFacts
  <2> HIDE DEF new
  <2>4. r \in AuditRecord /\ r.id = id /\ r.status = "SAFETY_HOLD" /\ r.state = new
    BY <2>1, <2>3, AuditFacts DEF ShadowStatus
  <2> HIDE DEF r
  <2>5. cur' \in CurType /\ cur'.item = cur.item /\ cur'.record = r
    BY <1>2, <1>6, <2>4, CurFacts
  <2>6. Shapes' /\ ItemInHand'
    BY <1>1, <1>2, <1>6, <2>2, <2>3, <2>5 DEF Shapes, ItemInHand, PcValue
  <2>7. InHand'
    <3>1. HoldInHand(cur.record)'
      BY <1>2, <1>6, <2>1, <2>2, <2>3, <2>4, <2>5 DEF HoldInHand, IsHold
    <3> QED
      BY <1>6, <2>4, <2>5, <3>1 DEF InHand, RecordInHand
  <2>8. Begun'
    BY <1>1, <1>2, <2>3, <1>6 DEF ShInv, Begun
  <2>9. JournalIsKept'
    BY <1>1, <1>2, <1>6, <2>2, <2>3 DEF ShInv, JournalIsKept, LineIsKept, Running
  <2>10. DecidedOnce'
    <3>1. NoSync' => NoSync
      BY <1>1 DEF NoSync, Met
    <3> QED
      BY <1>1, <1>2, <1>6, <2>4, <2>5, <3>1, SameJournal DEF ShInv, DecidedOnce
  <2>11. Reconciled'
    BY <1>6, <2>4, <2>5 DEF Reconciled
  <2> QED
    BY <2>6, <2>7, <2>8, <2>9, <2>10, <2>11, KeptIsInv
<1> QED
  BY <1>4, <1>5, <1>6 DEF SafetyHold

-----------------------------------------------------------------------------
(* The step that writes the journal.                                         *)

(* What a line of a record in hand adds, whoever knows of it.                *)
LEMMA WrittenFacts ==
    ASSUME ShInv, pc = "append", Written, UNCHANGED <<store, engine>>, Running'
    PROVE  /\ journal' \in Seq(AuditRecord) /\ Len(journal') \in Nat /\ Len(journal) \in Nat
           /\ Len(journal') = Len(journal) + 1 /\ intact' \in BOOLEAN
           /\ Ids' = Ids \cup {cur.record.id}
           /\ journal' # <<>> /\ journal'[1].state # None /\ store # None
           /\ JournalIsKept'
<1> DEFINE r == cur.record
<1>1. journal' = Append(journal, r) /\ intact' \in BOOLEAN
  BY DEF Written
<1>2. Running /\ Shapes /\ InHand /\ Begun /\ store # None /\ journal \in Seq(AuditRecord)
  BY TypeIsShapes DEF ShInv, Shapes, Begun, Running
<1>3. r \in AuditRecord /\ (FirstInHand(r) \/ NoEntryInHand(r) \/ EntryInHand(r) \/ HoldInHand(r))
  BY <1>2 DEF InHand, RecordInHand
<1> HIDE DEF r
<1>4. /\ journal' \in Seq(AuditRecord)
      /\ Len(journal) \in Nat /\ Len(journal') = Len(journal) + 1
      /\ DOMAIN journal = 1..Len(journal) /\ DOMAIN journal' = 1..(Len(journal) + 1)
      /\ \A n \in 1..Len(journal) : journal'[n] = journal[n]
      /\ journal'[Len(journal) + 1] = r
      /\ Ids' = Ids \cup {r.id}
  BY <1>1, <1>2, <1>3, AppendFacts
<1>5. journal' # <<>> /\ journal'[1].state # None
  <2>1. CASE journal = <<>>
    <3>1. r.status = "INITIALIZED"
      BY <1>2, <2>1 DEF Begun, r
    <3>2. r.state = store
      BY <1>3, <3>1 DEF FirstInHand, NoEntryInHand, EntryInHand, HoldInHand, IsEligible, IsHold
    <3> QED
      BY <1>1, <1>2, <1>4, <2>1, <3>2
  <2>2. CASE journal # <<>>
    <3>1. 1 \in 1..Len(journal) /\ journal[1].state # None
      BY <1>2, <1>4, <2>2 DEF Begun
    <3> QED
      BY <1>1, <1>4, <2>2, <3>1
  <2> QED
    BY <2>1, <2>2
<1>6. /\ IsEligible(r) => r.id \in store.held /\ r.id \in engine.held
      /\ IsHold(r) => store.killed /\ engine.killed
      /\ r.id \in Item => r.status \in Verdict
  <2>1. FirstInHand(r) => r.id \notin Item
    BY ShadowAssumption DEF FirstInHand
  <2>2. HoldInHand(r) => r.id \notin Item
    BY IdAssumption DEF HoldInHand
  <2> QED
    BY <1>3, <2>1, <2>2 DEF FirstInHand, NoEntryInHand, EntryInHand, HoldInHand, IsEligible, IsHold, Verdict
<1>7. ASSUME NEW n \in DOMAIN journal
      PROVE  LET x == journal[n]
             IN  /\ IsEligible(x) => x.id \in store.held /\ x.id \in engine.held
                 /\ IsHold(x) => store.killed /\ engine.killed
                 /\ x.id \in Item => x.status \in Verdict
  BY <1>2 DEF ShInv, JournalIsKept, LineIsKept
<1>8. JournalIsKept'
  BY <1>4, <1>6, <1>7 DEF JournalIsKept, LineIsKept, IsEligible, IsHold
<1> QED
  BY <1>1, <1>2, <1>4, <1>5, <1>8 DEF r

LEMMA AppendRecordKeeps ==
    ASSUME ShInv, AppendRecord
    PROVE  ShInv'
<1> DEFINE r == cur.record
<1>1. /\ pc = "append" /\ Written /\ known' = Len(journal') /\ journal' = Append(journal, r)
      /\ UNCHANGED <<queue, streak, store, engine, faults>>
      /\ \/ r.status \in {"INITIALIZED", "SAFETY_HOLD"} /\ pc' = "idle" /\ cur' = NoCur
         \/ r.status \notin {"INITIALIZED", "SAFETY_HOLD"} /\ pc' = "acknowledge" /\ UNCHANGED cur
  BY DEF AppendRecord, Written
<1>2. Running /\ Running'
  BY <1>1 DEF Running
<1>3. Shapes /\ InHand /\ Begun /\ DecidedOnce /\ Reconciled /\ journal \in Seq(AuditRecord)
  BY TypeIsShapes DEF ShInv, Shapes
<1>4. /\ journal' \in Seq(AuditRecord) /\ Len(journal') \in Nat /\ Len(journal) \in Nat
      /\ Len(journal') = Len(journal) + 1 /\ intact' \in BOOLEAN
      /\ Ids' = Ids \cup {r.id}
      /\ journal' # <<>> /\ journal'[1].state # None /\ store # None
      /\ JournalIsKept'
  BY <1>1, <1>2, WrittenFacts
<1>5. r \in AuditRecord /\ (FirstInHand(r) \/ NoEntryInHand(r) \/ EntryInHand(r) \/ HoldInHand(r))
  BY <1>1, <1>3 DEF InHand, RecordInHand
<1> HIDE DEF r
<1>6. pc' = "acknowledge" => /\ cur.item \in Item /\ queue[cur.item].status = "PROCESSING"
                             /\ r.id = cur.item
  BY <1>1, <1>5 DEF FirstInHand, NoEntryInHand, EntryInHand, HoldInHand, IsHold
<1>7. Shapes' /\ ItemInHand'
  <2>1. cur' \in CurType /\ pc' \in PcValue
    BY <1>1, <1>3, CurFacts DEF Shapes, PcValue
  <2>2. known' \in 0..Len(journal')
    BY <1>1, <1>4
  <2> QED
    BY <1>1, <1>3, <1>4, <1>6, <2>1, <2>2 DEF Shapes, ItemInHand
<1>8. InHand'
  BY <1>1, <1>4, <1>6 DEF InHand
<1>9. Begun'
  BY <1>1, <1>4 DEF Begun
<1>10. DecidedOnce'
  <2> SUFFICES ASSUME NoSync'
               PROVE  EachOnce' /\ known' = Len(journal')
    BY <1>1 DEF DecidedOnce
  <2>1. EachOnce /\ r.id \notin Ids
    BY <1>1, <1>3 DEF DecidedOnce, NoSync, Met, r
  <2>2. /\ DOMAIN journal = 1..Len(journal) /\ DOMAIN journal' = 1..(Len(journal) + 1)
        /\ \A n \in 1..Len(journal) : journal'[n] = journal[n]
        /\ journal'[Len(journal) + 1] = r
    BY <1>1, <1>3, <1>5, AppendFacts
  <2>3. \A n \in 1..Len(journal) : journal[n].id \in Ids
    BY <2>2 DEF Ids
  <2>4. ASSUME NEW m \in 1..(Len(journal) + 1), NEW n \in 1..(Len(journal) + 1), journal'[m].id = journal'[n].id
        PROVE  m = n
    <3>1. (m = Len(journal) + 1 \/ m \in 1..Len(journal)) /\ (n = Len(journal) + 1 \/ n \in 1..Len(journal))
      BY <1>4
    <3> QED
      BY <2>1, <2>2, <2>3, <2>4, <3>1 DEF EachOnce
  <2> QED
    BY <1>1, <2>2, <2>4 DEF EachOnce
<1>11. Reconciled'
  <2> SUFFICES ASSUME ~WriteRaised'
               PROVE  LatestState' = store
    BY <1>1 DEF Reconciled
  <2>1. ~WriteRaised
    BY <1>1 DEF WriteRaised, Met
  <2>2. CASE r.state = None
    <3>1. LatestState = store
      BY <1>1, <1>2, <1>3, <1>4, <2>1, <2>2 DEF Reconciled, r
    <3>2. journal # <<>>
      BY <1>2, <1>3, <1>4, <1>5, <2>2 DEF Begun, r, FirstInHand, NoEntryInHand, EntryInHand, HoldInHand, IsHold, IsEligible
    <3>3. 1 \in Checkpoints
      BY <1>3, <3>2 DEF Begun, Checkpoints
    <3> QED
      BY <1>1, <1>3, <1>5, <2>2, <3>1, <3>3, LatestOfAppend
  <2>3. CASE r.state # None
    BY <1>1, <1>3, <1>5, <2>3, LatestOfAppend DEF FirstInHand, NoEntryInHand, EntryInHand, HoldInHand
  <2> QED
    BY <2>2, <2>3
<1> QED
  BY <1>4, <1>7, <1>8, <1>9, <1>10, <1>11, KeptIsInv

-----------------------------------------------------------------------------
(* Faults.                                                                   *)

(* An item whose write failed is in hand, and not the first line.            *)
LEMMA RetriedFacts ==
    ASSUME ShInv, pc = "append", OfAnItem, cur.item # None
    PROVE  cur.item \in Item /\ queue[cur.item].status = "PROCESSING" /\ journal # <<>>
<1> DEFINE r == cur.record
<1>1. InHand /\ Begun /\ cur \in CurType
  BY DEF ShInv, ShTypeOK, CurType
<1>2. FirstInHand(r) \/ NoEntryInHand(r) \/ EntryInHand(r) \/ HoldInHand(r)
  BY <1>1 DEF InHand, RecordInHand
<1>3. r.id = cur.item /\ cur.item \in Item
  BY <1>1 DEF OfAnItem, CurType
<1>4. ~FirstInHand(r) /\ ~HoldInHand(r)
  BY <1>3, IdAssumption DEF FirstInHand, HoldInHand
<1>5. r.status # "INITIALIZED" /\ queue[cur.item].status = "PROCESSING"
  BY <1>2, <1>4 DEF NoEntryInHand, EntryInHand, IsEligible
<1> QED
  BY <1>1, <1>3, <1>5 DEF Begun, Running

(* A fault that sends the item to its retry and writes nothing.              *)
LEMMA RetryKeeps ==
    ASSUME ShInv, pc \in {"observe", "acknowledge"} \/ (pc = "append" /\ OfAnItem /\ cur.item # None),
           ToRetry, UNCHANGED durable,
           faults \subseteq faults', faults' \in FaultSet, pc # "append" \/ WriteRaised'
    PROVE  ShInv'
<1>1. Running /\ Running' /\ Shapes
  BY TypeIsShapes DEF Running, ToRetry, ShInv
<1>2. cur.item \in Item /\ queue[cur.item].status = "PROCESSING" /\ journal # <<>>
  BY <1>1, AtWork, RetriedFacts DEF ItemInHand
<1>3. /\ pc' = "retry" /\ cur' = [cur EXCEPT !.record = None] /\ cur \in CurType
      /\ UNCHANGED <<queue, streak, journal, intact, store, engine, known>>
  BY <1>1 DEF ToRetry, durable, Shapes
<1>4. cur' \in CurType /\ cur'.item = cur.item
  BY <1>3, CurFacts
<1>5. ItemInHand' /\ InHand' /\ pc' \in PcValue
  BY <1>2, <1>3, <1>4 DEF ItemInHand, InHand, PcValue
<1>6. queue' \in [Item -> Row] /\ streak' \in Nat
  BY <1>1, <1>3 DEF Shapes
<1> QED
  BY <1>1, <1>2, <1>3, <1>4, <1>5, <1>6, QuietKeeps

LEMMA SaveFailsKeeps ==
    ASSUME ShInv, SaveFails
    PROVE  ShInv'
<1> DEFINE i == cur.item
           new == Saved(Staged(i), i)
<1>1. /\ pc = "save" /\ pc' = "retry" /\ cur' = [cur EXCEPT !.record = None] /\ store' \in {store, new}
      /\ UNCHANGED <<queue, streak, journal, intact, engine, known>>
  BY DEF SaveFails, ToRetry
<1>2. /\ Running /\ Running' /\ Shapes /\ journal # <<>> /\ i \in Item /\ queue[i].status = "PROCESSING"
      /\ ~engine.killed /\ engine \in Engine /\ cur \in CurType /\ store # None
  BY <1>1, AtWork DEF Running, ItemInHand, InHand, Shapes
<1>3. /\ Staged(i) \in Engine /\ Staged(i).held = engine.held \cup {i} /\ Staged(i).killed = engine.killed
  BY <1>2, StagedFacts
<1>4. new \in SavedState /\ new # None /\ new.held = engine.held \cup {i} /\ new.killed = engine.killed
  BY <1>2, <1>3, SavedFacts DEF ObservationId
<1> HIDE DEF new
<1>5. cur' \in CurType /\ cur'.item = i
  BY <1>1, <1>2, CurFacts DEF i
<1> HIDE DEF i
<1>6. faults' \in FaultSet /\ faults \subseteq faults' /\ WriteRaised'
  BY <1>2, FaultTypes, FaultIsMet DEF SaveFails, Shapes, FaultSet, WriteRaised
<1>7. Shapes' /\ ItemInHand' /\ InHand'
  BY <1>1, <1>2, <1>4, <1>5, <1>6 DEF Shapes, ItemInHand, InHand, PcValue
<1>8. Begun'
  BY <1>1, <1>2, <1>4 DEF ShInv, Begun
<1>9. JournalIsKept'
  BY <1>1, <1>2, <1>4 DEF ShInv, JournalIsKept, LineIsKept, Running
<1>10. DecidedOnce'
  <2>1. NoSync' => NoSync
    BY <1>6, MetGrows DEF NoSync
  <2> QED
    BY <1>1, <1>2, <2>1, SameJournal DEF ShInv, DecidedOnce
<1>11. Reconciled'
  BY <1>6 DEF Reconciled
<1> QED
  BY <1>7, <1>8, <1>9, <1>10, <1>11, KeptIsInv

LEMMA SyncFailsKeeps ==
    ASSUME ShInv, SyncFails
    PROVE  ShInv'
<1>1. /\ pc = "append" /\ OfAnItem /\ cur.item # None /\ Written
      /\ pc' = "retry" /\ cur' = [cur EXCEPT !.record = None]
      /\ UNCHANGED <<queue, streak, store, engine, known>>
  BY DEF SyncFails, ToRetry
<1>2. /\ Running /\ Running' /\ Shapes /\ cur \in CurType
      /\ cur.item \in Item /\ queue[cur.item].status = "PROCESSING"
  BY <1>1, RetriedFacts, TypeIsShapes DEF Running, Shapes, ShInv
<1>3. /\ journal' \in Seq(AuditRecord) /\ Len(journal') \in Nat /\ Len(journal) \in Nat
      /\ Len(journal') = Len(journal) + 1 /\ intact' \in BOOLEAN
      /\ journal' # <<>> /\ journal'[1].state # None /\ store # None
      /\ JournalIsKept'
  BY <1>1, <1>2, WrittenFacts
<1>4. faults' \in FaultSet /\ faults \subseteq faults' /\ WriteRaised' /\ ~NoSync'
  BY <1>2, FaultTypes, FaultIsMet DEF SyncFails, Shapes, FaultSet, WriteRaised, NoSync
<1>5. cur' \in CurType /\ cur'.item = cur.item
  BY <1>1, <1>2, CurFacts
<1>6. Shapes' /\ ItemInHand' /\ InHand'
  <2>1. known' \in 0..Len(journal')
    BY <1>1, <1>2, <1>3 DEF Shapes
  <2> QED
    BY <1>1, <1>2, <1>3, <1>4, <1>5, <2>1 DEF Shapes, ItemInHand, InHand, PcValue
<1>7. Begun' /\ DecidedOnce' /\ Reconciled'
  BY <1>1, <1>3, <1>4 DEF Begun, DecidedOnce, Reconciled
<1> QED
  BY <1>3, <1>6, <1>7, KeptIsInv

LEMMA FaultsKeep ==
    ASSUME ShInv, Faults
    PROVE  ShInv'
<1>0. Shapes
  BY TypeIsShapes DEF ShInv
<1>1. ASSUME NEW kind, Fault(kind)
      PROVE  faults' \in FaultSet /\ faults \subseteq faults'
  BY <1>0, <1>1, FaultTypes DEF Shapes, FaultSet
<1>2. CASE Crash
  BY <1>0, <1>1, <1>2, DieKeeps DEF Crash, durable, Shapes
<1>3. CASE LoadFails
  BY <1>1, <1>3, RetryKeeps DEF LoadFails
<1>4. CASE AppendFails
  <2>1. WriteRaised'
    BY <1>4, FaultIsMet DEF AppendFails, WriteRaised
  <2> QED
    BY <1>1, <1>4, <2>1, RetryKeeps DEF AppendFails
<1>5. CASE TornWrite
  BY <1>1, <1>5, DieKeeps DEF TornWrite
<1>6. CASE AcknowledgeFails
  BY <1>1, <1>6, RetryKeeps DEF AcknowledgeFails
<1> QED
  BY <1>2, <1>3, <1>4, <1>5, <1>6, SaveFailsKeeps, SyncFailsKeeps DEF Faults

LEMMA ShStep == ShInv /\ [ShNext]_vars => ShInv'
<1> SUFFICES ASSUME ShInv, [ShNext]_vars
             PROVE  ShInv'
  OBVIOUS
<1>1. CASE UNCHANGED vars
  <2>1. UNCHANGED <<queue, streak, journal, intact, store, pc, cur, engine, known, faults>>
    BY <1>1 DEF vars
  <2>2. Shapes' /\ ItemInHand'
    BY <2>1, TypeIsShapes DEF ShInv, Shapes, ItemInHand
  <2>3. InHand' /\ Begun' /\ JournalIsKept'
    BY <2>1, SameJournal DEF ShInv, InHand, RecordInHand, FirstInHand, NoEntryInHand, EntryInHand, HoldInHand,
                             Begun, JournalIsKept, LineIsKept, Running
  <2>4. DecidedOnce' /\ Reconciled'
    BY <2>1, SameJournal DEF ShInv, DecidedOnce, NoSync, Met, Reconciled, WriteRaised, Running
  <2> QED
    BY <2>2, <2>3, <2>4, KeptIsInv
<1>2. CASE Produce
  BY <1>2, EnqueueKeeps DEF Produce
<1>3. CASE Worker
  BY <1>3, ClaimKeeps, ObserveKeeps, FindKeeps, SaveKeeps, AppendRecordKeeps, AfterWorkKeeps, SafetyHoldKeeps
     DEF Worker
<1>4. CASE Idle
  BY <1>1, <1>4 DEF Idle
<1> QED
  BY <1>1, <1>2, <1>3, <1>4, StartKeeps, FaultsKeep DEF ShNext

(* The service and the audit journal of any number of items, with faults of  *)
(* any number: the invariant above holds of every reachable state.           *)
THEOREM ShadowInvariant == ShSpec => []ShInv
  BY ShInitInv, ShStep, PTL DEF ShSpec

(* Every variable of the SHADOW service keeps its type, and an item the      *)
(* process works on is the one its queue says is being processed.            *)
THEOREM ShadowTypeCorrect == ShSpec => []ShTypeOK
<1>1. ShInv => ShTypeOK
  BY DEF ShInv
<1> QED
  BY <1>1, ShadowInvariant, PTL

(* shadow_runtime.py and shadow_loop.py: the journal tells each decision     *)
(* once unless an fsync raised, no eligible entry that the risk state on     *)
(* disk does not hold, and agrees with that state whenever work begins       *)
(* unless a write raised, whatever crashes and redeliveries there were.      *)
THEOREM AuditIsAlwaysTrue == ShSpec => []AuditIsTrue
<1>1. ShInv => AuditIsTrue
  <2> SUFFICES ASSUME ShInv
               PROVE  AuditIsTrue
    OBVIOUS
  <2>1. OneRecordPerObservation
    BY DEF ShInv, DecidedOnce, NoSync, EachOnce, OneRecordPerObservation
  <2>2. AuditedEntryIsHeld
    BY DEF ShInv, JournalIsKept, LineIsKept, IsEligible, AuditedEntryIsHeld
  <2>3. ReconciledAtWork
    BY DEF ShInv, Reconciled, Running, ReconciledAtWork
  <2> QED
    BY <2>1, <2>2, <2>3 DEF AuditIsTrue
<1> QED
  BY <1>1, ShadowInvariant, PTL

-----------------------------------------------------------------------------
(* The refinement of ShadowDecisions.                                        *)

OutcomeOf(i) == IF queue[i].status \in {"DONE", "DEAD"} THEN queue[i].status ELSE "OPEN"

Decided == [i \in Item |-> DecisionOf(i)]
Outcomes == [i \in Item |-> OutcomeOf(i)]
Held == \E n \in DOMAIN journal : journal[n].status = "SAFETY_HOLD"

LEMMA DecisionVars ==
    /\ Decisions!decisionVars = <<Decided, Outcomes, Held>>
    /\ Decisions!decisionVars' = <<Decided', Outcomes', Held'>>
  BY DEF Decisions!decisionVars, Decided, Outcomes, OutcomeOf, Held

(* The verdict on an item is the status of its first record.                 *)
LEMMA DecisionIsFirst ==
    ASSUME journal \in Seq(AuditRecord), NEW i, RecordsOf(i) # {}
    PROVE  \E n \in RecordsOf(i) : DecisionOf(i) = journal[n].status /\ \A m \in RecordsOf(i) : n <= m
<1>1. RecordsOf(i) \in SUBSET Nat
  BY DEF RecordsOf
<1>2. \E n \in RecordsOf(i) : \A m \in RecordsOf(i) : n <= m
  BY <1>1, LeastExists
<1> QED
  BY <1>2 DEF DecisionOf

(* A line more decides its item if nothing did before, and nothing else.     *)
LEMMA DecisionOfAppend ==
    ASSUME journal \in Seq(AuditRecord), NEW r \in AuditRecord, journal' = Append(journal, r), NEW i
    PROVE  /\ r.id # i \/ RecordsOf(i) # {} => DecisionOf(i)' = DecisionOf(i)
           /\ r.id = i /\ RecordsOf(i) = {} => DecisionOf(i)' = r.status
<1> DEFINE L == Len(journal)
<1>1. /\ L \in Nat /\ DOMAIN journal = 1..L /\ DOMAIN journal' = 1..(L + 1)
      /\ (\A n \in 1..L : journal'[n] = journal[n]) /\ journal'[L + 1] = r
      /\ journal' \in Seq(AuditRecord)
  OBVIOUS
<1> HIDE DEF L
<1>2. RecordsOf(i)' = RecordsOf(i) \cup (IF r.id = i THEN {L + 1} ELSE {})
  BY <1>1 DEF RecordsOf
<1>3. RecordsOf(i) \subseteq 1..L
  BY <1>1 DEF RecordsOf
<1>4. CASE RecordsOf(i) # {}
  <2> DEFINE first(S) == CHOOSE n \in S : \A m \in S : n <= m
  <2>1. PICK n \in RecordsOf(i) : \A m \in RecordsOf(i) : n <= m
    BY <1>1, <1>3, <1>4, LeastExists
  <2>2. n \in RecordsOf(i)' /\ \A m \in RecordsOf(i)' : n <= m
    BY <1>1, <1>2, <1>3, <2>1
  <2>3. /\ first(RecordsOf(i)) \in RecordsOf(i) /\ first(RecordsOf(i)) \in 1..L
        /\ \A m \in RecordsOf(i) : first(RecordsOf(i)) <= m
    BY <1>3, <2>1
  <2>4. first(RecordsOf(i)') \in RecordsOf(i)' /\ \A m \in RecordsOf(i)' : first(RecordsOf(i)') <= m
    BY <2>2
  <2>5. first(RecordsOf(i)') = first(RecordsOf(i))
    <3> DEFINE a == first(RecordsOf(i))
               b == first(RecordsOf(i)')
    <3>1. a \in 1..L /\ b \in 1..(L + 1) /\ b <= a
      BY <1>1, <1>2, <1>3, <2>3, <2>4
    <3>2. b \in RecordsOf(i)
      BY <1>1, <1>2, <2>4, <3>1
    <3>3. a <= b
      BY <2>3, <3>2
    <3> HIDE DEF a, b
    <3>4. a = b
      BY <1>1, <3>1, <3>3
    <3> QED
      BY <3>4 DEF a, b
  <2>6. DecisionOf(i) = journal[first(RecordsOf(i))].status
    BY <1>4 DEF DecisionOf
  <2>7. DecisionOf(i)' = journal'[first(RecordsOf(i)')].status
    BY <2>2 DEF DecisionOf
  <2> QED
    BY <1>1, <1>4, <2>3, <2>5, <2>6, <2>7
<1>5. CASE RecordsOf(i) = {} /\ r.id # i
  BY <1>2, <1>5 DEF DecisionOf
<1>6. CASE RecordsOf(i) = {} /\ r.id = i
  <2>1. RecordsOf(i)' = {L + 1}
    BY <1>2, <1>6
  <2>2. (CHOOSE n \in {L + 1} : \A m \in {L + 1} : n <= m) = L + 1
    BY <1>1
  <2>3. DecisionOf(i)' = journal'[CHOOSE n \in RecordsOf(i)' : \A m \in RecordsOf(i)' : n <= m].status
    BY <2>1 DEF DecisionOf
  <2> QED
    BY <1>1, <1>6, <2>1, <2>2, <2>3
<1> QED
  BY <1>4, <1>5, <1>6

LEMMA SameDecisions ==
    ASSUME UNCHANGED journal
    PROVE  Decided' = Decided /\ Held' = Held
  BY DEF Decided, DecisionOf, RecordsOf, Held

(* An item the journal knows is decided.                                     *)
LEMMA KnownIsDecided ==
    ASSUME journal \in Seq(AuditRecord), NEW i \in Ids
    PROVE  DecisionOf(i) # None
<1>1. RecordsOf(i) # {} /\ \A n \in RecordsOf(i) : n \in DOMAIN journal
  BY DEF Ids, RecordsOf
<1>2. PICK n \in RecordsOf(i) : DecisionOf(i) = journal[n].status
  BY <1>1, DecisionIsFirst
<1>3. journal[n] \in AuditRecord
  BY <1>1
<1>4. journal[n].status \in ShadowStatus
  BY <1>3 DEF AuditRecord
<1> QED
  BY <1>2, <1>4, IdAssumption

(* Neither the journal nor a row's outcome.                                  *)
LEMMA DecisionsStay ==
    ASSUME UNCHANGED journal, \A i \in Item : OutcomeOf(i)' = OutcomeOf(i)
    PROVE  UNCHANGED Decisions!decisionVars
<1>1. Outcomes' = Outcomes
  BY DEF Outcomes
<1> QED
  BY <1>1, SameDecisions, DecisionVars

LEMMA DecisionsStart == ShInit => Decisions!DecInit
<1> SUFFICES ASSUME ShInit
             PROVE  Decisions!DecInit
  OBVIOUS
<1>1. \A i \in Item : DecisionOf(i) = None /\ OutcomeOf(i) = "OPEN"
  BY DEF ShInit, DecisionOf, RecordsOf, OutcomeOf, AbsentRow
<1>2. Held = FALSE
  BY DEF ShInit, Held
<1> QED
  BY <1>1, <1>2 DEF Decisions!DecInit, OutcomeOf, Held

(* A line is a decision, the safety hold, or nothing new.                    *)
LEMMA WrittenDecides ==
    ASSUME ShInv, pc = "append", Written, UNCHANGED queue
    PROVE  [Decisions!DecNext]_(Decisions!decisionVars)
<1> DEFINE r == cur.record
<1>1. Shapes /\ InHand /\ JournalIsKept /\ journal \in Seq(AuditRecord) /\ journal' = Append(journal, r) /\ Running
  BY TypeIsShapes DEF ShInv, Shapes, Written, Running
<1>2. r \in AuditRecord /\ (FirstInHand(r) \/ NoEntryInHand(r) \/ EntryInHand(r) \/ HoldInHand(r))
  BY <1>1 DEF InHand, RecordInHand
<1>3. Outcomes' = Outcomes
  BY DEF Outcomes, OutcomeOf
<1> HIDE DEF r
<1>4. /\ DOMAIN journal = 1..Len(journal) /\ DOMAIN journal' = 1..(Len(journal) + 1) /\ Len(journal) \in Nat
      /\ (\A n \in 1..Len(journal) : journal'[n] = journal[n]) /\ journal'[Len(journal) + 1] = r
  BY <1>1, <1>2, AppendFacts
<1>5. Held' <=> Held \/ r.status = "SAFETY_HOLD"
  BY <1>4 DEF Held
<1>6. \A j \in Item : r.id # j \/ RecordsOf(j) # {} => DecisionOf(j)' = DecisionOf(j)
  BY <1>1, <1>2, DecisionOfAppend
<1>7. CASE r.id \notin Item
  <2>1. Decided' = Decided
    BY <1>6, <1>7 DEF Decided
  <2>2. CASE Held' = Held
    BY <1>3, <2>1, <2>2, DecisionVars
  <2>3. CASE Held' # Held
    <3>1. ~Held /\ Held'
      BY <1>5, <2>3 DEF Held
    <3>2. Decisions!Stop
      BY <1>3, <2>1, <3>1 DEF Decisions!Stop, Decided, Outcomes, OutcomeOf, Held
    <3> QED
      BY <3>2 DEF Decisions!DecNext
  <2> QED
    BY <2>2, <2>3
<1>8. CASE r.id \in Item
  <2> PICK i \in Item : i = r.id
    BY <1>8
  <2>1. ~FirstInHand(r) /\ ~HoldInHand(r)
    BY <1>8, ShadowAssumption, IdAssumption DEF FirstInHand, HoldInHand
  <2>2. /\ queue[i].status = "PROCESSING"
        /\ r.status \in {"WAIT", "RISK_REJECTED", "ELIGIBLE_NO_ORDER"}
        /\ r.status = "ELIGIBLE_NO_ORDER" => ~engine.killed
    BY <1>2, <2>1 DEF NoEntryInHand, EntryInHand, IsEligible
  <2>3. Held' = Held
    <3>1. Held' <=> Held
      BY <1>5, <2>2
    <3> QED
      BY <3>1 DEF Held
  <2>4. CASE RecordsOf(i) # {}
    <3>1. Decided' = Decided
      BY <1>6, <2>4 DEF Decided
    <3> QED
      BY <1>3, <2>3, <3>1, DecisionVars
  <2>5. CASE RecordsOf(i) = {}
    <3>1. DecisionOf(i)' = r.status
      BY <1>1, <1>2, <2>5, DecisionOfAppend
    <3>2. Decided' = [Decided EXCEPT ![i] = r.status]
      BY <1>6, <3>1 DEF Decided
    <3>3. DecisionOf(i) = None /\ OutcomeOf(i) = "OPEN"
      BY <2>2, <2>5 DEF DecisionOf, OutcomeOf
    <3>4. r.status = "ELIGIBLE_NO_ORDER" => ~Held
      BY <1>1, <2>2 DEF JournalIsKept, LineIsKept, IsHold, Held
    <3>5. r.status \in Decisions!Verdict
      BY <2>2 DEF Decisions!Verdict
    <3>6. Decisions!DecideItem(i, r.status)
      BY <1>3, <2>3, <3>2, <3>3, <3>4 DEF Decisions!DecideItem, Decided, Outcomes, OutcomeOf, Held
    <3> QED
      BY <3>5, <3>6 DEF Decisions!DecNext
  <2> QED
    BY <2>4, <2>5
<1> QED
  BY <1>7, <1>8

LEMMA DecisionsStep ==
    ShInv /\ [ShNext]_vars => [Decisions!DecNext]_(Decisions!decisionVars)
<1> SUFFICES ASSUME ShInv, [ShNext]_vars
             PROVE  [Decisions!DecNext]_(Decisions!decisionVars)
  OBVIOUS
<1>1. Shapes /\ ItemInHand /\ InHand /\ queue \in [Item -> Row] /\ journal \in Seq(AuditRecord)
  BY TypeIsShapes DEF ShInv, Shapes
<1>2. CASE UNCHANGED <<journal, queue>>
  <2>1. \A i \in Item : OutcomeOf(i)' = OutcomeOf(i)
    BY <1>2 DEF OutcomeOf
  <2> QED
    BY <1>2, <2>1, DecisionsStay
<1>3. ASSUME NEW i \in Item, NEW w \in Work, Enqueue(i, w)
      PROVE  UNCHANGED Decisions!decisionVars
  <2>1. \A j \in Item : OutcomeOf(j)' = OutcomeOf(j)
    BY <1>1, <1>3 DEF OutcomeOf, Enqueue
  <2> QED
    BY <1>3, <2>1, DecisionsStay DEF Enqueue
<1>4. ASSUME NEW i \in Item, Claim(i)
      PROVE  UNCHANGED Decisions!decisionVars
  <2>1. \A j \in Item : OutcomeOf(j)' = OutcomeOf(j)
    BY <1>1, <1>4 DEF OutcomeOf, Claim, Due
  <2> QED
    BY <1>4, <2>1, DecisionsStay DEF Claim
<1>5. CASE Acknowledge
  <2> PICK i \in Item : i = cur.item
    BY <1>1, <1>5 DEF Acknowledge, ItemInHand
  <2>1. /\ queue[i].status = "PROCESSING" /\ i \in Ids /\ UNCHANGED journal
        /\ queue' = [queue EXCEPT ![i].status = "DONE"]
    BY <1>1, <1>5 DEF Acknowledge, InHand
  <2>2. OutcomeOf(i) = "OPEN" /\ OutcomeOf(i)' = "DONE" /\ \A j \in Item \ {i} : OutcomeOf(j)' = OutcomeOf(j)
    BY <1>1, <2>1 DEF OutcomeOf, Row
  <2>3. Outcomes' = [Outcomes EXCEPT ![i] = "DONE"]
    BY <2>2 DEF Outcomes
  <2>4. DecisionOf(i) # None
    BY <1>1, <2>1, KnownIsDecided
  <2>5. Decisions!Finish(i)
    BY <2>1, <2>2, <2>3, <2>4, SameDecisions DEF Decisions!Finish, Decided, Outcomes, OutcomeOf, Held
  <2> QED
    BY <2>5 DEF Decisions!DecNext
<1>6. CASE RetryOrDeadLetter
  <2> PICK i \in Item : i = cur.item
    BY <1>1, <1>6 DEF RetryOrDeadLetter, ItemInHand
  <2>1. queue[i].status = "PROCESSING" /\ UNCHANGED journal
    BY <1>1, <1>6 DEF RetryOrDeadLetter, ItemInHand
  <2>2. OutcomeOf(i) = "OPEN"
    BY <2>1 DEF OutcomeOf
  <2>3. CASE queue' = [queue EXCEPT ![i].status = "PENDING"]
    <3>1. \A j \in Item : OutcomeOf(j)' = OutcomeOf(j)
      BY <1>1, <2>1, <2>3 DEF OutcomeOf, Row
    <3> QED
      BY <2>1, <3>1, DecisionsStay
  <2>4. CASE queue' = [queue EXCEPT ![i].status = "DEAD"]
    <3>1. OutcomeOf(i)' = "DEAD" /\ \A j \in Item \ {i} : OutcomeOf(j)' = OutcomeOf(j)
      BY <1>1, <2>4 DEF OutcomeOf, Row
    <3>2. Outcomes' = [Outcomes EXCEPT ![i] = "DEAD"]
      BY <3>1 DEF Outcomes
    <3>3. Decisions!GiveUp(i)
      BY <2>1, <2>2, <3>2, SameDecisions DEF Decisions!GiveUp, Decided, Outcomes, OutcomeOf, Held
    <3> QED
      BY <3>3 DEF Decisions!DecNext
  <2> QED
    BY <1>6, <2>3, <2>4 DEF RetryOrDeadLetter
<1>7. CASE AppendRecord
  BY <1>7, WrittenDecides DEF AppendRecord
<1>8. CASE SyncFails
  BY <1>8, WrittenDecides DEF SyncFails
<1>9. CASE Start \/ Observe \/ Find \/ Save \/ RecordSuccess \/ RecordFailure \/ SafetyHold
  <2>1. UNCHANGED <<journal, queue>>
    BY <1>9 DEF Start, StartRefused, StartNew, Resume, Observe, Find, Save, RecordSuccess, RecordFailure,
                SafetyHold, durable
  <2> QED
    BY <1>2, <2>1
<1>10. CASE Crash \/ LoadFails \/ SaveFails \/ AppendFails \/ TornWrite \/ AcknowledgeFails
  <2>1. UNCHANGED <<journal, queue>>
    BY <1>10 DEF Crash, LoadFails, SaveFails, AppendFails, TornWrite, AcknowledgeFails, durable
  <2> QED
    BY <1>2, <2>1
<1>11. CASE Idle \/ UNCHANGED vars
  BY <1>2, <1>11 DEF Idle, vars
<1> QED
  BY <1>3, <1>4, <1>5, <1>6, <1>7, <1>8, <1>9, <1>10, <1>11 DEF ShNext, Produce, Worker, Faults

(* The service keeps the promise of ShadowDecisions whatever crashes, tears  *)
(* and redeliveries there are: an item is decided at most once and before it *)
(* is reported done, keeps its outcome, and is never found eligible after    *)
(* the safety hold.                                                          *)
THEOREM DecisionsAreImplemented == ShSpec => ImplementsDecisions
  BY ShadowInvariant, DecisionsStart, DecisionsStep, PTL DEF ShSpec, ImplementsDecisions, Decisions!DecSpec
==============================================================================
