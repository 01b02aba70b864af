--------------------------- MODULE ResearchCycleProofs ---------------------------
(***************************************************************************)
(* Proofs about the research cycle and what it runs over.                    *)
(*   The registry: no interleaving and no death makes a champion nobody      *)
(* approved, for any number of candidates and processes.  The invariant      *)
(* follows the entry through a call: the file, and every copy of it that a   *)
(* process still holds, have complete lineages, and who asks for a champion  *)
(* is a person.                                                              *)
(*   The lock: mutual exclusion for any number of workers as long as none of *)
(* them has died.                                                            *)
(*   The cycle, over both: the ledger counts every trial, and what a cycle   *)
(* selects is the best of what it measured.  A step of a cycle is a step of  *)
(* the lock and of the registry or leaves them alone, so their invariants    *)
(* carry over.                                                               *)
(***************************************************************************)
EXTENDS ResearchCycle, SetSums

-----------------------------------------------------------------------------
(* The registry.                                                             *)

Op == DOMAIN Transition
By == {"caller", "human", "auto"}

EventType == [from : Anything, to : Status, by : By]

EntryType ==
    [status : Anything, history : Seq(EventType), degraded : Nat, started : BOOLEAN,
     families : SUBSET Family]

FileType == [Candidate -> EntryType \cup {Absent}]

CallType ==
    [at : {"read", "write", "reread", "rewrite"}, op : Op, id : Candidate,
     families : SUBSET Family, by : By, entry : EntryType, file : FileType \cup {<<>>}]

Good(entry) == Lineage(entry) /\ Crowned(entry)

FileOK(f) == f \in FileType /\ \A id \in Candidate : f[id] # Absent => Good(f[id])

CallOK(cl) ==
    \/ cl = NoCall
    \/ /\ cl \in CallType
       /\ cl.op = "crown" => cl.by = "human"
       /\ cl.at \in {"write", "rewrite"} => FileOK(cl.file)
       /\ cl.at # "read" => Good(cl.entry)

(* What the steps keep.                                                      *)
RInv ==
    /\ registry # Torn => FileOK(registry)
    /\ DOMAIN call = Caller /\ call = [c \in Caller |-> call[c]]
    /\ \A c \in Caller : CallOK(call[c])

(* Only the call for a champion makes one, and only of a challenger.         *)
LEMMA TransitionFacts ==
    ASSUME NEW op \in Op
    PROVE  /\ Transition[op].to \in Status
           /\ Transition[op].to = "PAPER_CHAMPION" =>
                  op = "crown" /\ Transition[op].from = {"PAPER_CHALLENGER"}
<1>1. Op = {"register", "reject", "challenge", "crown", "degrade", "retire", "kill"}
  BY DEF Op, Transition
<1>2. CASE op = "register"
  BY <1>2 DEF Transition, Status
<1>3. CASE op = "reject"
  BY <1>3 DEF Transition, Status
<1>4. CASE op = "challenge"
  BY <1>4 DEF Transition, Status
<1>5. CASE op = "crown"
  BY <1>5 DEF Transition, Status
<1>6. CASE op = "degrade"
  BY <1>6 DEF Transition, Status
<1>7. CASE op = "retire"
  BY <1>7 DEF Transition, Status
<1>8. CASE op = "kill"
  BY <1>8 DEF Transition, Status
<1> QED
  BY <1>1, <1>2, <1>3, <1>4, <1>5, <1>6, <1>7, <1>8

(* An entry without events is new; every other one is good.                  *)
LEMMA EntryFacts ==
    ASSUME NEW f, FileOK(f), NEW id \in Candidate
    PROVE  /\ Entry(f, id) \in EntryType
           /\ Entry(f, id) = NewEntry \/ Good(Entry(f, id))
<1>1. CASE f[id] = Absent
  BY <1>1 DEF Entry, NewEntry, EntryType, Anything
<1>2. CASE f[id] # Absent
  BY <1>2 DEF Entry, FileOK, FileType
<1> QED
  BY <1>1, <1>2

(* One more event keeps the lineage, and crowns nobody a person did not.     *)
LEMMA MovedIsGood ==
    ASSUME NEW cl \in CallType, cl.op = "crown" => cl.by = "human",
           NEW entry \in EntryType, entry = NewEntry \/ Good(entry),
           entry.status \in Transition[cl.op].from
    PROVE  Moved(cl, entry) \in EntryType /\ Good(Moved(cl, entry))
<1> DEFINE to == Transition[cl.op].to
           event == [from |-> entry.status, to |-> to, by |-> cl.by]
           new == Moved(cl, entry)
<1>1. cl.op \in Op /\ cl.by \in By /\ entry.status \in Anything /\ entry.history \in Seq(EventType)
  BY DEF CallType, EntryType
<1>2. to \in Status /\ (to = "PAPER_CHAMPION" => cl.op = "crown" /\ Transition[cl.op].from = {"PAPER_CHALLENGER"})
  BY <1>1, TransitionFacts
<1>3. event \in EventType
  BY <1>1, <1>2 DEF EventType
<1>4. new.status = to /\ new.history = Append(entry.history, event)
  BY DEF Moved
<1>5. new \in EntryType
  <2>1. Append(entry.history, event) \in Seq(EventType)
    BY <1>1, <1>3
  <2>2. to \in Anything
    BY <1>2 DEF Anything
  <2>3. new = [status |-> to, history |-> Append(entry.history, event), degraded |-> entry.degraded,
               started |-> entry.started, families |-> entry.families]
    BY DEF Moved
  <2> HIDE DEF new, to, event
  <2> QED
    BY <2>1, <2>2, <2>3 DEF EntryType
<1>6. /\ Len(new.history) = Len(entry.history) + 1
      /\ new.history[Len(new.history)] = event
      /\ \A i \in 1..Len(entry.history) : new.history[i] = entry.history[i]
  BY <1>1, <1>3, <1>4
<1>7. Len(entry.history) \in Nat
  BY <1>1
<1>8. Lineage(new)
  <2>1. Len(new.history) > 0 /\ new.history[Len(new.history)].to = new.status
    BY <1>4, <1>6, <1>7
  <2>2. ASSUME NEW i \in 2..Len(new.history)
        PROVE  new.history[i].from = new.history[i - 1].to
    <3>1. CASE entry = NewEntry
      BY <3>1, <1>6, <1>7 DEF NewEntry
    <3>2. CASE Good(entry)
      <4>1. CASE i = Len(new.history)
        BY <4>1, <3>2, <1>6, <1>7 DEF Good, Lineage
      <4>2. CASE i # Len(new.history)
        <5>1. i \in 2..Len(entry.history) /\ i \in 1..Len(entry.history) /\ i - 1 \in 1..Len(entry.history)
          BY <4>2, <1>6, <1>7
        <5> QED
          BY <5>1, <3>2, <1>6 DEF Good, Lineage
      <4> QED
        BY <4>1, <4>2
    <3> QED
      BY <3>1, <3>2
  <2> QED
    BY <2>1, <2>2 DEF Lineage
<1>9. Crowned(new)
  BY <1>2, <1>4, <1>6 DEF Crowned
<1> QED
  BY <1>5, <1>8, <1>9 DEF Good

(* The second round leaves status and history alone.                         *)
LEMMA CompletedIsGood ==
    ASSUME NEW cl \in CallType, Good(cl.entry)
    PROVE  Completed(cl) \in EntryType /\ Good(Completed(cl))
<1> DEFINE new == Completed(cl)
<1>1. cl.entry \in EntryType /\ cl.families \in SUBSET Family
  BY DEF CallType
<1> DEFINE degraded == IF cl.op = "degrade" THEN cl.entry.degraded + 1 ELSE cl.entry.degraded
           started  == IF cl.op = "challenge" THEN TRUE ELSE cl.entry.started
           families == IF cl.op = "register" THEN cl.families ELSE cl.entry.families
<1>2. new = [status |-> cl.entry.status, history |-> cl.entry.history, degraded |-> degraded,
             started |-> started, families |-> families]
  BY DEF Completed
<1>3. degraded \in Nat /\ families \in SUBSET Family
  BY <1>1 DEF EntryType
<1>4. started \in BOOLEAN
  <2>1. cl.entry.started \in BOOLEAN
    BY <1>1 DEF EntryType
  <2> QED
    BY <2>1, Zenon
<1>5. new \in EntryType /\ new.status = cl.entry.status /\ new.history = cl.entry.history
  <2> HIDE DEF new, degraded, started, families
  <2> QED
    BY <1>1, <1>2, <1>3, <1>4 DEF EntryType
<1> QED
  BY <1>5 DEF Good, Lineage, Crowned

(* A call that is taken along keeps its shape.                               *)
LEMMA TakeIsOK ==
    ASSUME NEW c \in Caller, RInv, registry # Torn, call[c] # NoCall,
           NEW at \in {"write", "rewrite"},
           NEW entry \in EntryType, Good(entry),
           Take(c, at, entry), UNCHANGED registry
    PROVE  RInv'
<1> DEFINE new == [at |-> at, op |-> call[c].op, id |-> call[c].id, families |-> call[c].families,
                   by |-> call[c].by, entry |-> entry,
                   file |-> [registry EXCEPT ![call[c].id] = entry]]
<1>1. call' = [call EXCEPT ![c] = new]
  BY DEF Take, SetCall
<1>2. call[c] \in CallType /\ (call[c].op = "crown" => call[c].by = "human") /\ FileOK(registry)
  BY DEF RInv, CallOK
<1>3. FileOK([registry EXCEPT ![call[c].id] = entry])
  BY <1>2 DEF FileOK, FileType, CallType
<1>4. new \in CallType /\ new.at = at /\ new.entry = entry /\ new.op = call[c].op /\ new.by = call[c].by
      /\ new.file = [registry EXCEPT ![call[c].id] = entry]
  BY <1>2, <1>3 DEF CallType, FileOK
<1>5. CallOK(new)
  BY <1>2, <1>3, <1>4 DEF CallOK
<1> HIDE DEF new
<1> QED
  BY <1>1, <1>5 DEF RInv

(* A call that starts, ends or goes on with what it has.                     *)
LEMMA SetCallIsOK ==
    ASSUME NEW c \in Caller, RInv, NEW cl, CallOK(cl), SetCall(c, cl),
           registry' # Torn => FileOK(registry')
    PROVE  RInv'
  BY DEF RInv, SetCall

LEMMA AskedIsOK ==
    ASSUME NEW op \in Op, NEW id \in Candidate, NEW families \in SUBSET Family, NEW by \in By,
           op = "crown" => by = "human"
    PROVE  CallOK(Asked(op, id, families, by))
<1>1. NewEntry \in EntryType
  BY DEF NewEntry, EntryType, Anything
<1> QED
  BY <1>1 DEF CallOK, Asked, CallType

(* Asking for anything keeps the invariant.                                  *)
LEMMA AskForIsOK ==
    ASSUME RInv, NEW c \in Caller, NEW id \in Candidate, AskFor(c, id)
    PROVE  RInv'
<1>1. \A op \in {"register", "reject", "challenge", "crown", "degrade", "retire", "kill"} : op \in Op
  BY DEF Op, Transition
<1>2. ASSUME NEW op \in Op, NEW families \in SUBSET Family, NEW by \in By,
             op = "crown" => by = "human", Start(c, op, id, families, by)
      PROVE  RInv'
  BY <1>2, AskedIsOK, SetCallIsOK DEF Start, RInv
<1>3. ASSUME NEW families \in SUBSET Family, Register(c, id, families)
      PROVE  RInv'
  BY <1>1, <1>2, <1>3 DEF Register, By
<1>4. ASSUME NEW families \in SUBSET Family, Challenge(c, id, families)
      PROVE  RInv'
  BY <1>1, <1>2, <1>4 DEF Challenge, By
<1>5. ASSUME NEW by \in {"human", "caller"}, NEW served \in BOOLEAN, Crown(c, id, by, served)
      PROVE  RInv'
  BY <1>1, <1>2, <1>5 DEF Crown, By
<1>6. ASSUME NEW op \in {"reject", "degrade", "retire", "kill"}, Review(c, op, id)
      PROVE  RInv'
  BY <1>1, <1>2, <1>6 DEF Review, By
<1> QED
  BY <1>3, <1>4, <1>5, <1>6 DEF AskFor

(* Every step keeps the invariant: the file is only ever overwritten by a    *)
(* copy some process holds, and every such copy is good.                     *)
LEMMA RegistryStep ==
    RInv /\ [RegistryNext]_registryVars => RInv'
<1> SUFFICES ASSUME RInv, [RegistryNext]_registryVars
             PROVE  RInv'
  OBVIOUS
<1>1. ASSUME NEW c \in Caller, Read(c)
      PROVE  RInv'
  <2> DEFINE entry == Entry(registry, call[c].id)
  <2>1. call[c] \in CallType /\ call[c] # NoCall /\ (call[c].op = "crown" => call[c].by = "human")
    BY <1>1 DEF Read, RInv, CallOK, NoCall
  <2>2. registry # Torn /\ FileOK(registry) /\ entry.status \in Transition[call[c].op].from
    BY <1>1 DEF Read, Accepts, RInv
  <2>3. entry \in EntryType /\ (entry = NewEntry \/ Good(entry))
    BY <2>1, <2>2, EntryFacts DEF CallType
  <2>4. Moved(call[c], entry) \in EntryType /\ Good(Moved(call[c], entry))
    BY <2>1, <2>2, <2>3, MovedIsGood
  <2> QED
    BY <1>1, <2>1, <2>2, <2>4, TakeIsOK DEF Read
<1>2. ASSUME NEW c \in Caller, Raises(c)
      PROVE  RInv'
  BY <1>2, SetCallIsOK DEF Raises, CallOK, RInv
<1>3. ASSUME NEW c \in Caller, Write(c)
      PROVE  RInv'
  <2>1. call[c] \in CallType /\ FileOK(call[c].file) /\ Good(call[c].entry)
        /\ (call[c].op = "crown" => call[c].by = "human")
    BY <1>3 DEF Write, RInv, CallOK, NoCall
  <2>2. CallOK([call[c] EXCEPT !.at = "reread"])
    BY <2>1 DEF CallOK, CallType
  <2>3. CallOK(NoCall)
    BY DEF CallOK
  <2> QED
    BY <1>3, <2>1, <2>2, <2>3, SetCallIsOK DEF Write
<1>4. ASSUME NEW c \in Caller, Reread(c)
      PROVE  RInv'
  <2>1. call[c] \in CallType /\ call[c] # NoCall /\ Good(call[c].entry) /\ registry # Torn
    BY <1>4 DEF Reread, RInv, CallOK, NoCall
  <2>2. Completed(call[c]) \in EntryType /\ Good(Completed(call[c]))
    BY <2>1, CompletedIsGood
  <2> QED
    BY <1>4, <2>1, <2>2, TakeIsOK DEF Reread
<1>5. ASSUME NEW c \in Caller, Rewrite(c)
      PROVE  RInv'
  <2>1. call[c] \in CallType /\ FileOK(call[c].file)
    BY <1>5 DEF Rewrite, RInv, CallOK, NoCall
  <2>2. "retire" \in Op /\ "auto" \in By /\ call[c].id \in Candidate
    BY <2>1 DEF Op, Transition, By, CallType
  <2>3. CallOK(Asked("retire", call[c].id, {}, "auto")) /\ CallOK(NoCall)
    BY <2>2, AskedIsOK DEF CallOK
  <2> QED
    BY <1>5, <2>1, <2>3, SetCallIsOK DEF Rewrite
<1>6. ASSUME NEW c \in Caller, Abandon(c)
      PROVE  RInv'
  BY <1>6, SetCallIsOK DEF Abandon, CallOK, RInv
<1>7. CASE UNCHANGED registryVars
  BY <1>7 DEF RInv, registryVars
<1> QED
  BY <1>1, <1>2, <1>3, <1>4, <1>5, <1>6, <1>7, AskForIsOK DEF RegistryNext, CallStep

(* promotion.py: whatever processes interleave or die on one registry file,  *)
(* an entry ends its own lineage and a champion was a challenger until a     *)
(* person approved it.                                                       *)
THEOREM ChampionAlwaysApproved == RegistrySpec => []ChampionIsApproved
<1>1. RegistryInit => RInv
  BY DEF RegistryInit, RInv, FileOK, FileType, CallOK
<1>2. RInv => ChampionIsApproved
  BY DEF RInv, ChampionIsApproved, FileOK, Good
<1> QED
  BY <1>1, <1>2, RegistryStep, PTL DEF RegistrySpec
-----------------------------------------------------------------------------
(* The counter of reviews against the lineage: what a process holds or the   *)
(* file shows never counts more reviews than there are events that say so,   *)
(* and while the first round of mark_degraded is not yet completed there is  *)
(* an event to spare.                                                        *)
Downs(h) == {i \in DOMAIN h : h[i].to = "DEGRADED"}

Counted(entry) == entry.degraded <= Cardinality(Downs(entry.history))

Ahead(entry) == entry.degraded + 1 <= Cardinality(Downs(entry.history))

FileCounted(f) == \A id \in Candidate : f[id] # Absent => Counted(f[id])

CallCounted(cl) ==
    \/ cl = NoCall
    \/ /\ cl.at # "read" => Counted(cl.entry)
       /\ cl.op = "degrade" /\ cl.at \in {"write", "reread"} => Ahead(cl.entry)
       /\ cl.at \in {"write", "rewrite"} => FileCounted(cl.file)

ReviewInv ==
    /\ RInv
    /\ registry # Torn => FileCounted(registry)
    /\ \A c \in Caller : CallCounted(call[c])

(* One more event counts for one more review, if it is one.                  *)
LEMMA DownsOfAppend ==
    ASSUME NEW h \in Seq(EventType), NEW event \in EventType
    PROVE  /\ Cardinality(Downs(h)) \in Nat
           /\ Cardinality(Downs(Append(h, event))) =
                  Cardinality(Downs(h)) + (IF event.to = "DEGRADED" THEN 1 ELSE 0)
<1> DEFINE n == Len(h)
<1>1. n \in Nat /\ DOMAIN h = 1..n /\ DOMAIN Append(h, event) = 1..(n + 1)
  OBVIOUS
<1>2. /\ \A i \in 1..n : Append(h, event)[i] = h[i]
      /\ Append(h, event)[n + 1] = event
  OBVIOUS
<1>3. IsFiniteSet(Downs(h))
  <2>1. IsFiniteSet(1..n)
    BY <1>1, FS_Interval
  <2>2. Downs(h) \subseteq 1..n
    BY <1>1 DEF Downs
  <2> QED
    BY <2>1, <2>2, FS_Subset
<1>4. Cardinality(Downs(h)) \in Nat
  BY <1>3, FS_CardinalityType
<1>5. n + 1 \notin Downs(h)
  BY <1>1 DEF Downs
<1> HIDE DEF n
<1>6. CASE event.to = "DEGRADED"
  <2>1. Downs(Append(h, event)) = Downs(h) \cup {n + 1}
    BY <1>1, <1>2, <1>6 DEF Downs
  <2>2. Cardinality(Downs(h) \cup {n + 1}) = Cardinality(Downs(h)) + 1
    BY <1>3, <1>5, FS_AddElement
  <2> QED
    BY <2>1, <2>2, <1>4, <1>6
<1>7. CASE event.to # "DEGRADED"
  <2>1. Downs(Append(h, event)) = Downs(h)
    BY <1>1, <1>2, <1>7 DEF Downs
  <2> QED
    BY <2>1, <1>4, <1>7
<1> QED
  BY <1>4, <1>6, <1>7

(* Nothing was counted before the first event.                               *)
LEMMA NewEntryIsCounted ==
    NewEntry \in EntryType /\ Counted(NewEntry)
<1>1. NewEntry \in EntryType
  BY DEF NewEntry, EntryType, Anything
<1>2. Cardinality(Downs(NewEntry.history)) = 0
  <2>1. Downs(NewEntry.history) = {}
    BY DEF NewEntry, Downs
  <2> QED
    BY <2>1, FS_EmptySet
<1> QED
  BY <1>1, <1>2 DEF Counted, NewEntry

(* An event is appended and the counter is left for the second round.        *)
LEMMA MovedIsCounted ==
    ASSUME NEW cl \in CallType, NEW entry \in EntryType, Counted(entry)
    PROVE  /\ Counted(Moved(cl, entry))
           /\ cl.op = "degrade" => Ahead(Moved(cl, entry))
<1> DEFINE to == Transition[cl.op].to
           event == [from |-> entry.status, to |-> to, by |-> cl.by]
           new == Moved(cl, entry)
<1>1. entry.history \in Seq(EventType) /\ entry.degraded \in Nat /\ entry.status \in Anything
  BY DEF EntryType
<1>2. event \in EventType /\ event.to = to
  BY <1>1, TransitionFacts DEF CallType, EventType
<1>3. new.history = Append(entry.history, event) /\ new.degraded = entry.degraded
  BY DEF Moved
<1>4. cl.op = "degrade" => to = "DEGRADED"
  BY DEF Transition
<1> HIDE DEF event, to, new
<1>5. /\ Cardinality(Downs(entry.history)) \in Nat
      /\ Cardinality(Downs(new.history)) =
             Cardinality(Downs(entry.history)) + (IF event.to = "DEGRADED" THEN 1 ELSE 0)
  BY <1>1, <1>2, <1>3, DownsOfAppend
<1>6. new.degraded <= Cardinality(Downs(new.history))
  BY <1>1, <1>3, <1>5 DEF Counted
<1>7. cl.op = "degrade" => new.degraded + 1 <= Cardinality(Downs(new.history))
  BY <1>1, <1>2, <1>3, <1>4, <1>5 DEF Counted
<1> QED
  BY <1>6, <1>7 DEF Counted, Ahead, new

(* The second round of mark_degraded uses the event it has to spare.         *)
LEMMA CompletedIsCounted ==
    ASSUME NEW cl, Counted(cl.entry), cl.op = "degrade" => Ahead(cl.entry)
    PROVE  Counted(Completed(cl))
<1>1. Completed(cl).history = cl.entry.history
  BY DEF Completed
<1>2. CASE cl.op = "degrade"
  BY <1>1, <1>2 DEF Completed, Counted, Ahead
<1>3. CASE cl.op # "degrade"
  BY <1>1, <1>3 DEF Completed, Counted
<1> QED
  BY <1>2, <1>3

(* What is taken along is as sound as the entry put into the file.           *)
LEMMA TakeIsCounted ==
    ASSUME NEW c \in Caller, ReviewInv, registry # Torn, call[c] \in CallType,
           NEW at \in {"write", "rewrite"}, NEW entry, Counted(entry),
           call[c].op = "degrade" /\ at = "write" => Ahead(entry),
           Take(c, at, entry), UNCHANGED registry, RInv'
    PROVE  ReviewInv'
<1> DEFINE new == [at |-> at, op |-> call[c].op, id |-> call[c].id, families |-> call[c].families,
                   by |-> call[c].by, entry |-> entry,
                   file |-> [registry EXCEPT ![call[c].id] = entry]]
<1>1. call' = [call EXCEPT ![c] = new]
  BY DEF Take, SetCall
<1>2. FileCounted([registry EXCEPT ![call[c].id] = entry])
  BY DEF ReviewInv, RInv, FileOK, FileType, FileCounted, CallType
<1>3. new.at = at /\ new.op = call[c].op /\ new.entry = entry
      /\ new.file = [registry EXCEPT ![call[c].id] = entry]
  OBVIOUS
<1> HIDE DEF new
<1>4. CallCounted(new)
  BY <1>2, <1>3 DEF CallCounted
<1> QED
  BY <1>1, <1>4 DEF ReviewInv, RInv

(* A call that starts, ends or goes on with what it has.                     *)
LEMMA SetCallIsCounted ==
    ASSUME NEW c \in Caller, ReviewInv, NEW cl, CallCounted(cl), SetCall(c, cl),
           registry' # Torn => FileCounted(registry'), RInv'
    PROVE  ReviewInv'
  BY DEF ReviewInv, RInv, SetCall

LEMMA AskedIsCounted ==
    ASSUME NEW op, NEW id, NEW families, NEW by
    PROVE  CallCounted(Asked(op, id, families, by))
  BY DEF CallCounted, Asked

(* Every step keeps the counter covered by the lineage.                      *)
LEMMA ReviewStep ==
    ReviewInv /\ [RegistryNext]_registryVars => ReviewInv'
<1> SUFFICES ASSUME ReviewInv, [RegistryNext]_registryVars
             PROVE  ReviewInv'
  OBVIOUS
<1>0. RInv /\ RInv' /\ (registry # Torn => FileCounted(registry))
  BY RegistryStep DEF ReviewInv
<1>n. CallCounted(NoCall)
  BY DEF CallCounted
<1>1. ASSUME NEW c \in Caller, Read(c)
      PROVE  ReviewInv'
  <2> DEFINE entry == Entry(registry, call[c].id)
  <2>1. call[c] \in CallType /\ registry # Torn /\ FileOK(registry) /\ FileCounted(registry)
    BY <1>0, <1>1 DEF Read, RInv, CallOK, NoCall, Accepts
  <2>2. entry \in EntryType
    BY <2>1, EntryFacts DEF CallType
  <2>3. Counted(entry)
    BY <2>1, NewEntryIsCounted DEF Entry, FileCounted, CallType
  <2>4. Counted(Moved(call[c], entry)) /\ (call[c].op = "degrade" => Ahead(Moved(call[c], entry)))
    BY <2>1, <2>2, <2>3, MovedIsCounted
  <2>5. Take(c, "write", Moved(call[c], entry)) /\ UNCHANGED registry
    BY <1>1 DEF Read
  <2> HIDE DEF entry
  <2> QED
    BY <1>0, <2>1, <2>4, <2>5, TakeIsCounted
<1>2. ASSUME NEW c \in Caller, Raises(c)
      PROVE  ReviewInv'
  BY <1>0, <1>n, <1>2, SetCallIsCounted DEF Raises
<1>3. ASSUME NEW c \in Caller, Write(c)
      PROVE  ReviewInv'
  <2>1. call[c] \in CallType /\ call[c] # NoCall /\ CallCounted(call[c]) /\ call[c].at = "write"
    BY <1>0, <1>3 DEF Write, RInv, CallOK, NoCall, ReviewInv
  <2>2. FileCounted(call[c].file)
    BY <2>1 DEF CallCounted
  <2>3. CallCounted([call[c] EXCEPT !.at = "reread"])
    BY <2>1 DEF CallCounted, CallType
  <2> QED
    BY <1>0, <1>n, <1>3, <2>2, <2>3, SetCallIsCounted DEF Write
<1>4. ASSUME NEW c \in Caller, Reread(c)
      PROVE  ReviewInv'
  <2>1. /\ call[c] \in CallType /\ call[c] # NoCall /\ CallCounted(call[c])
        /\ call[c].at = "reread" /\ registry # Torn
    BY <1>0, <1>4 DEF Reread, RInv, CallOK, NoCall, ReviewInv
  <2>2. Counted(Completed(call[c]))
    BY <2>1, CompletedIsCounted DEF CallCounted
  <2> QED
    BY <1>4, <1>0, <2>1, <2>2, TakeIsCounted DEF Reread
<1>5. ASSUME NEW c \in Caller, Rewrite(c)
      PROVE  ReviewInv'
  <2>1. call[c] # NoCall /\ CallCounted(call[c]) /\ call[c].at = "rewrite"
    BY <1>5 DEF Rewrite, NoCall, ReviewInv
  <2>2. FileCounted(call[c].file)
    BY <2>1 DEF CallCounted
  <2> QED
    BY <1>0, <1>n, <1>5, <2>2, AskedIsCounted, SetCallIsCounted DEF Rewrite
<1>6. ASSUME NEW c \in Caller, Abandon(c)
      PROVE  ReviewInv'
  BY <1>0, <1>n, <1>6, SetCallIsCounted DEF Abandon
<1>7. ASSUME NEW c \in Caller, NEW id \in Candidate, AskFor(c, id)
      PROVE  ReviewInv'
  BY <1>0, <1>7, AskedIsCounted, SetCallIsCounted DEF AskFor, Register, Challenge, Crown, Review, Start
<1>8. CASE UNCHANGED registryVars
  BY <1>8, <1>0 DEF ReviewInv, registryVars
<1> QED
  BY <1>1, <1>2, <1>3, <1>4, <1>5, <1>6, <1>7, <1>8 DEF RegistryNext, CallStep

LEMMA ReviewInitInv == RegistryInit => ReviewInv
  BY DEF RegistryInit, ReviewInv, RInv, FileOK, FileType, CallOK, FileCounted, CallCounted

LEMMA ReviewsAreMade == ReviewInv => RetiredForReviews
<1> SUFFICES ASSUME ReviewInv, NEW c \in Caller, call[c].at = "rewrite", Due(call[c])
             PROVE  Cardinality(Downs(call[c].entry.history)) >= RetireAfter
  BY DEF RetiredForReviews, Downs
<1>1. call[c] # NoCall /\ CallCounted(call[c]) /\ call[c] \in CallType
  BY DEF ReviewInv, RInv, CallOK, NoCall
<1>2. /\ call[c].entry.degraded \in Nat
      /\ call[c].entry.degraded <= Cardinality(Downs(call[c].entry.history))
      /\ call[c].entry.degraded >= RetireAfter
  BY <1>1 DEF CallCounted, Counted, CallType, EntryType, Due
<1>3. Cardinality(Downs(call[c].entry.history)) \in Nat
  <2>1. call[c].entry.history \in Seq(EventType)
    BY <1>1 DEF CallType, EntryType
  <2>2. [from |-> Absent, to |-> "RETIRED", by |-> "auto"] \in EventType
    BY DEF EventType, Anything, Status, By
  <2> QED
    BY <2>1, <2>2, DownsOfAppend
<1> QED
  BY <1>2, <1>3, RegistryAssumption

(* promotion.py, mark_degraded: a candidate is retired only when as many     *)
(* events of its own lineage as the threshold asks for found it degraded,    *)
(* whatever rounds of other calls came between the two of a review.          *)
THEOREM RetiredAlwaysForReviews == RegistrySpec => []RetiredForReviews
  BY ReviewInitInv, ReviewsAreMade, ReviewStep, PTL DEF RegistrySpec

-----------------------------------------------------------------------------
(* The lock.                                                                 *)

(* Without a death no file is old, so no worker gets as far as the unlink,   *)
(* and the file is the holder's.                                             *)
NobodyDied ==
    /\ ~stale
    /\ \A w \in Worker : pc[w] \notin {"unlink", "dead"}
    /\ \A w \in Worker : pc[w] = "holding" => file = w
    /\ file # None => pc[file] = "holding"

LockInv == LockTypeOK /\ (crashes = 0 => NobodyDied)

(* The initial state satisfies the invariant.                                *)
LEMMA LockInitInv == LockInit => LockInv
<1> SUFFICES ASSUME LockInit PROVE LockInv
  OBVIOUS
<1>1. file = None /\ ~stale /\ stale \in BOOLEAN /\ crashes = 0
  BY DEF LockInit
<1>2. pc \in [Worker -> PcValue] /\ \A w \in Worker : pc[w] = "idle"
  BY DEF LockInit, PcValue
<1>3. LockTypeOK
  BY LockAssumption, <1>1, <1>2 DEF LockTypeOK
<1>4. NobodyDied
  BY <1>1, <1>2 DEF NobodyDied
<1>5. QED
  BY <1>3, <1>4 DEF LockInv

(* What a step leaves of the type invariant.                                 *)
LEMMA LockTypeStep == LockTypeOK /\ [LockNext]_vars => LockTypeOK'
<1> SUFFICES ASSUME LockTypeOK, [LockNext]_vars PROVE LockTypeOK'
  OBVIOUS
<1> USE LockAssumption DEF LockTypeOK, PcValue, Goto
<1>1. CASE Age
  BY <1>1 DEF Age
<1>2. ASSUME NEW w \in Worker, Step(w) PROVE LockTypeOK'
  <2>1. CASE Begin(w)
    BY <2>1 DEF Begin
  <2>2. CASE Open(w)
    <3>1. CASE Create(w)
      BY <2>2, <3>1 DEF Open, Create
    <3>2. CASE UNCHANGED <<file, stale, crashes>> /\ Goto(w, "stat")
      BY <2>2, <3>2 DEF Open
    <3>3. QED
      BY <2>2, <3>1, <3>2 DEF Open
  <2>3. CASE Stat(w)
    BY <2>3 DEF Stat
  <2>4. CASE Unlink(w)
    BY <2>4 DEF Unlink
  <2>5. CASE Reopen(w)
    <3>1. CASE Create(w)
      BY <2>5, <3>1 DEF Reopen, Create
    <3>2. CASE UNCHANGED <<file, stale, crashes>> /\ Goto(w, "idle")
      BY <2>5, <3>2 DEF Reopen
    <3>3. QED
      BY <2>5, <3>1, <3>2 DEF Reopen
  <2>6. CASE Release(w)
    BY <2>6 DEF Release
  <2>7. QED
    BY <1>2, <2>1, <2>2, <2>3, <2>4, <2>5, <2>6 DEF Step
<1>3. ASSUME NEW w \in Worker, Crash(w) PROVE LockTypeOK'
  BY <1>3 DEF Crash
<1>4. CASE UNCHANGED vars
  BY <1>4 DEF vars
<1>5. QED
  BY <1>1, <1>2, <1>3, <1>4 DEF LockNext

(* Every step keeps the invariant: a death raises crashes, and until then    *)
(* only Create puts a file there and only its creator's Release removes it.  *)
LEMMA LockStepInv == LockInv /\ [LockNext]_vars => LockInv'
<1> SUFFICES ASSUME LockInv, [LockNext]_vars PROVE LockInv'
  OBVIOUS
<1>0. LockTypeOK'
  BY LockTypeStep DEF LockInv
<1> SUFFICES ASSUME crashes' = 0 PROVE NobodyDied'
  BY <1>0 DEF LockInv
<1> USE LockAssumption DEF LockInv, LockTypeOK, PcValue, Goto, NobodyDied
<1>1. CASE Age
  BY <1>1 DEF Age
<1>2. ASSUME NEW w \in Worker, Step(w) PROVE NobodyDied'
  <2>0. crashes = 0
    BY <1>2 DEF Step, Begin, Open, Create, Stat, Unlink, Reopen, Release
  <2>1. CASE Begin(w)
    BY <2>0, <2>1 DEF Begin
  <2>2. CASE Open(w)
    BY <2>0, <2>2 DEF Open, Create
  <2>3. CASE Stat(w)
    BY <2>0, <2>3 DEF Stat
  <2>4. CASE Unlink(w)
    BY <2>0, <2>4 DEF Unlink
  <2>5. CASE Reopen(w)
    BY <2>0, <2>5 DEF Reopen, Create
  <2>6. CASE Release(w)
    BY <2>0, <2>6 DEF Release
  <2>7. QED
    BY <1>2, <2>1, <2>2, <2>3, <2>4, <2>5, <2>6 DEF Step
<1>3. ASSUME NEW w \in Worker, Crash(w) PROVE NobodyDied'
  BY <1>3 DEF Crash
<1>4. CASE UNCHANGED vars
  BY <1>4 DEF vars
<1>5. QED
  BY <1>1, <1>2, <1>3, <1>4 DEF LockNext

(* The invariant holds in every state of every behaviour of the lock.        *)
THEOREM LockInvariant == LockSpec => []LockInv
  BY LockInitInv, LockStepInv, PTL DEF LockSpec

(* Types: every worker is at one of its system calls, and a file that is old *)
(* is a dead worker's, whoever takes the lock over.                          *)
THEOREM LockTypeInvariant == LockSpec => []LockTypeOK
<1>1. LockInv => LockTypeOK
  BY DEF LockInv
<1>2. QED
  BY <1>1, LockInvariant, PTL

(* Mutual exclusion: until a worker dies, the exclusive create alone keeps   *)
(* two cycles apart, in any interleaving of any number of workers.           *)
THEOREM AlwaysExclusiveUntilDeath == LockSpec => []ExclusiveUntilDeath
<1>1. LockInv => ExclusiveUntilDeath
  BY DEF LockInv, NobodyDied, ExclusiveUntilDeath, Exclusive
<1>2. QED
  BY <1>1, LockInvariant, PTL

(* Until a worker dies the file and the running cycle go together: release   *)
(* never removes another worker's file.                                      *)
THEOREM FileAlwaysShowsHolder == LockSpec => []FileShowsHolder
<1>1. LockInv => FileShowsHolder
  BY DEF LockInv, NobodyDied, FileShowsHolder
<1>2. QED
  BY <1>1, LockInvariant, PTL

-----------------------------------------------------------------------------
(* The cycle.                                                                *)

Measurement == Evidence \cup {NoEvidence}

FamilyName == {Queue[k].family : k \in 1..Len(Queue)}

TrialType == [trial : Nat, family : FamilyName, seen : Nat]

Stage == {"none", "hypothesis", "measured", "record", "gate", "register", "over"}

CycleType == [at : Stage, results : Seq(Measurement), seen : Nat, id : Nat, selected : Nat]

(* The trials of a family so far, as the deflation counts them.              *)
Deflator(family) == Max({1, Cardinality(OfFamily(family))})

(* A cycle measures what the queue gives it, and keeps what it selected and  *)
(* what it was selected from until its lock is released.                     *)
CycleOK(c) ==
    /\ Len(c.results) <= Len(Queue)
    /\ c.at \in {"measured", "record"} => Len(c.results) > 0
    /\ c.selected # 0 => c.at \in {"register", "over"} /\ c.selected = Best(c.results)

(* Until a worker dies the ledger is the holder's: what it read of it is     *)
(* still true when it writes.                                                *)
ReadIsTrue(c) ==
    /\ c.at = "hypothesis" => c.seen = 0
    /\ c.at \in {"measured", "record"} => c.seen \in {0, Deflator(Queue[Len(c.results)].family)}
    /\ c.at = "record" => c.id = Len(ledger) + 1

CycleHolds ==
    crashes = 0 => \A w \in Worker : /\ cycle[w].at # "none" => pc[w] = "holding"
                                     /\ ReadIsTrue(cycle[w])

ResearchTypes == ledger \in Seq(TrialType) /\ cycle \in [Worker -> CycleType]

ResearchInv ==
    /\ LockInv
    /\ ResearchTypes
    /\ \A w \in Worker : CycleOK(cycle[w])
    /\ CycleHolds
    /\ TrialsAreCounted

-----------------------------------------------------------------------------
(* Least and greatest numbers.                                               *)

(* The greatest of a finite set of numbers is one of them.                   *)
LEMMA MaxFacts ==
    ASSUME NEW S, IsFiniteSet(S), S # {}, S \subseteq Nat
    PROVE  Max(S) \in S /\ \A n \in S : n <= Max(S)
<1> DEFINE f == [n \in S |-> n]
<1>1. f \in [S -> Nat]
  OBVIOUS
<1>2. PICK m \in S : \A n \in S : f[n] <= f[m]
  <2> HIDE DEF f
  <2> QED
    BY <1>1, HighestExists
<1>3. \A n \in S : m >= n
  BY <1>2
<1>4. Max(S) \in S /\ \A n \in S : Max(S) >= n
  BY <1>3 DEF Max
<1> QED
  BY <1>4

LEMMA MinIsIn ==
    ASSUME NEW S, IsFiniteSet(S), S # {}, S \subseteq Nat
    PROVE  Min(S) \in S
<1>1. PICK t \in Nat : \A n \in S : n <= t
  BY MaxFacts
<1> DEFINE f == [n \in S |-> t - n]
<1>2. f \in [S -> Nat]
  BY <1>1
<1>3. PICK m \in S : \A n \in S : f[n] <= f[m]
  <2> HIDE DEF f
  <2> QED
    BY <1>2, HighestExists
<1>4. \A n \in S : m <= n
  <2> SUFFICES ASSUME NEW n \in S PROVE m <= n
    OBVIOUS
  <2>1. t - n <= t - m
    BY <1>3
  <2>2. n \in Nat /\ m \in Nat
    OBVIOUS
  <2> HIDE DEF f
  <2> QED
    BY <2>1, <2>2
<1> QED
  BY <1>4 DEF Min

-----------------------------------------------------------------------------
(* The gate.                                                                 *)

(* What is selected cleared the gate, and nothing that did is higher.        *)
LEMMA BestFacts ==
    ASSUME NEW results \in Seq(Measurement)
    PROVE  /\ Best(results) \in {0} \cup 1..Len(results)
           /\ Best(results) # 0 =>
                  /\ Clears(results, Best(results))
                  /\ \A j \in DOMAIN results : Clears(results, j) => results[j].dsr <= results[Best(results)].dsr
<1> DEFINE cleared == {k \in DOMAIN results : Clears(results, k)}
           highest == {k \in cleared : \A j \in cleared : results[j].dsr <= results[k].dsr}
           f == [k \in cleared |-> results[k].dsr]
<1>1. DOMAIN results = 1..Len(results) /\ Len(results) \in Nat
  OBVIOUS
<1>2. IsFiniteSet(cleared) /\ cleared \subseteq 1..Len(results) /\ cleared \subseteq Nat
  <2>1. IsFiniteSet(1..Len(results)) /\ 1..Len(results) \subseteq Nat
    BY <1>1, FS_Interval
  <2>2. cleared \subseteq 1..Len(results)
    BY <1>1
  <2> QED
    BY <2>1, <2>2, FS_Subset
<1>3. CASE cleared = {}
  BY <1>3 DEF Best
<1>4. CASE cleared # {}
  <2>1. f \in [cleared -> Nat]
    <3> SUFFICES ASSUME NEW k \in cleared PROVE results[k].dsr \in Nat
      OBVIOUS
    <3>1. results[k] \in Measurement /\ results[k] # NoEvidence
      BY DEF Clears
    <3> QED
      BY <3>1, CycleAssumption DEF Measurement
  <2>2. PICK m \in cleared : \A j \in cleared : f[j] <= f[m]
    <3> HIDE DEF f, cleared
    <3> QED
      BY <1>2, <1>4, <2>1, HighestExists
  <2>3. m \in highest
    BY <2>2
  <2>4. Best(results) = Min(highest)
    BY <1>4 DEF Best
  <2>5. Min(highest) \in highest
    <3>1. IsFiniteSet(highest) /\ highest \subseteq Nat /\ highest # {}
      <4>1. highest \subseteq cleared
        OBVIOUS
      <4> HIDE DEF highest, cleared
      <4> QED
        BY <1>2, <2>3, <4>1, FS_Subset
    <3> HIDE DEF highest
    <3> QED
      BY <3>1, MinIsIn
  <2> QED
    BY <1>2, <2>4, <2>5
<1> QED
  BY <1>3, <1>4

(* So what a cycle holds as its selection is the best of its results.        *)
LEMMA SelectedIsBest ==
    ResearchInv => SelectionIsBest
<1> SUFFICES ASSUME ResearchInv, NEW w \in Worker, cycle[w].selected # 0
             PROVE  LET results == cycle[w].results
                        e == results[cycle[w].selected]
                    IN  /\ e.sound /\ e.dsr >= MinDsr
                        /\ \E ks \in SUBSET (DOMAIN results) :
                              /\ \A k \in ks : results[k] # NoEvidence /\ results[k].positive
                              /\ Cardinality({Queue[k].symbol : k \in ks}) >= MinSymbols
                        /\ \A k \in DOMAIN results : Clears(results, k) => results[k].dsr <= e.dsr
  BY DEF SelectionIsBest
<1> DEFINE results == cycle[w].results
           s == cycle[w].selected
<1>1. results \in Seq(Measurement) /\ s = Best(results) /\ s # 0
  BY DEF ResearchInv, ResearchTypes, CycleType, CycleOK
<1> HIDE DEF results, s
<1>2. Clears(results, s) /\ \A j \in DOMAIN results : Clears(results, j) => results[j].dsr <= results[s].dsr
  BY <1>1, BestFacts
<1> DEFINE ks == {i \in DOMAIN results : results[i] # NoEvidence /\ results[i].positive
                                         /\ Queue[i].strategy = Queue[s].strategy}
<1>3. Cardinality({Queue[k].symbol : k \in ks}) >= MinSymbols
  BY <1>2 DEF Clears, Positive
<1>4. ks \in SUBSET (DOMAIN results) /\ \A k \in ks : results[k] # NoEvidence /\ results[k].positive
  OBVIOUS
<1>5. results[s].sound /\ results[s].dsr >= MinDsr
  BY <1>2 DEF Clears
<1> HIDE DEF ks
<1> QED
  BY <1>2, <1>3, <1>4, <1>5 DEF results, s

-----------------------------------------------------------------------------
(* The ledger.                                                               *)

(* One and a natural number make a finite set that is not empty.             *)
LEMMA OneAndANumber ==
    ASSUME NEW n \in Nat
    PROVE  IsFiniteSet({1, n}) /\ {1, n} # {} /\ {1, n} \subseteq Nat
<1>1. IsFiniteSet({1} \cup {n})
  BY FS_Singleton, FS_AddElement
<1>2. {1, n} = {1} \cup {n}
  OBVIOUS
<1> QED
  BY <1>1, <1>2

LEMMA DeflatorIsNat ==
    ASSUME ledger \in Seq(TrialType), NEW family
    PROVE  Deflator(family) \in Nat
<1>1. IsFiniteSet(DOMAIN ledger)
  <2>1. DOMAIN ledger = 1..Len(ledger) /\ Len(ledger) \in Nat
    OBVIOUS
  <2> QED
    BY <2>1, FS_Interval
<1>2. Cardinality(OfFamily(family)) \in Nat
  <2>1. OfFamily(family) \subseteq DOMAIN ledger
    BY DEF OfFamily
  <2> QED
    BY <1>1, <2>1, FS_Subset, FS_CardinalityType
<1> DEFINE n == Cardinality(OfFamily(family))
<1>3. IsFiniteSet({1, n}) /\ {1, n} # {} /\ {1, n} \subseteq Nat
  <2>1. n \in Nat
    BY <1>2
  <2> HIDE DEF n
  <2> QED
    BY <2>1, OneAndANumber
<1>4. Max({1, n}) \in {1, n}
  <2> HIDE DEF n
  <2> QED
    BY <1>3, MaxFacts
<1> QED
  BY <1>2, <1>4 DEF Deflator

(* The next number is one, and the next place as long as they agree.         *)
NextId == Max({0} \cup {ledger[i].trial : i \in DOMAIN ledger}) + 1

LEMMA NextIdFacts ==
    ASSUME ledger \in Seq(TrialType)
    PROVE  /\ NextId \in Nat
           /\ (\A i \in DOMAIN ledger : ledger[i].trial = i) => NextId = Len(ledger) + 1
<1> DEFINE L == Len(ledger)
           f == [i \in 0..L |-> IF i = 0 THEN 0 ELSE ledger[i].trial]
           S == {0} \cup {ledger[i].trial : i \in DOMAIN ledger}
<1>1. L \in Nat /\ DOMAIN ledger = 1..L /\ \A i \in 1..L : ledger[i].trial \in Nat
  <2>1. \A i \in 1..Len(ledger) : ledger[i] \in TrialType
    OBVIOUS
  <2>2. Len(ledger) \in Nat /\ DOMAIN ledger = 1..Len(ledger)
    OBVIOUS
  <2> QED
    BY <2>1, <2>2 DEF TrialType
<1> HIDE DEF L
<1>2. S \subseteq Nat /\ S # {}
  BY <1>1
<1>3. \E m \in S : \A n \in S : n <= m
  <2>1. IsFiniteSet(0..L) /\ 0..L # {} /\ f \in [0..L -> Nat]
    <3>1. IsFiniteSet(0..L)
      BY <1>1, FS_Interval
    <3>2. 0 \in 0..L
      BY <1>1
    <3>3. \A i \in 0..L : i = 0 \/ i \in 1..L
      BY <1>1
    <3>4. f \in [0..L -> Nat]
      BY <1>1, <3>3
    <3> QED
      BY <3>1, <3>2, <3>4
  <2>2. PICK k \in 0..L : \A j \in 0..L : f[j] <= f[k]
    <3> HIDE DEF f
    <3> QED
      BY <2>1, HighestExists
  <2>3. f[k] \in S
    BY <1>1, <2>2
  <2>4. \A n \in S : \E j \in 0..L : n = f[j]
    BY <1>1
  <2> HIDE DEF f, S
  <2> QED
    BY <2>2, <2>3, <2>4
<1>4. Max(S) \in S /\ \A n \in S : n <= Max(S)
  <2>1. PICK m \in S : \A n \in S : m >= n
    BY <1>2, <1>3
  <2>2. Max(S) \in S /\ \A n \in S : Max(S) >= n
    BY <2>1 DEF Max
  <2> HIDE DEF S
  <2> QED
    BY <1>2, <2>2
<1>5. NextId = Max(S) + 1
  BY DEF NextId
<1>6. ASSUME \A i \in DOMAIN ledger : ledger[i].trial = i
      PROVE  Max(S) = L
  <2>1. S = 0..L
    <3>1. {ledger[i].trial : i \in DOMAIN ledger} = 1..L
      BY <1>1, <1>6
    <3> QED
      BY <1>1, <3>1
  <2> HIDE DEF S
  <2> QED
    BY <1>1, <1>4, <2>1
<1> HIDE DEF S
<1>7. NextId \in Nat
  <2>1. Max(S) \in Nat
    BY <1>2, <1>4
  <2> QED
    BY <1>5, <2>1
<1>8. ASSUME \A i \in DOMAIN ledger : ledger[i].trial = i
      PROVE  NextId = L + 1
  BY <1>5, <1>6, <1>8
<1> QED
  BY <1>7, <1>8 DEF L

-----------------------------------------------------------------------------
(* Steps.                                                                    *)

LEMMA LockFacts ==
    ASSUME ResearchInv
    PROVE  /\ pc \in [Worker -> PcValue] /\ crashes \in Nat
           /\ crashes = 0 => \A v, w \in Worker : pc[v] = "holding" /\ pc[w] = "holding" => v = w
  BY LockAssumption DEF ResearchInv, LockInv, LockTypeOK, NobodyDied

(* A step of one cycle that leaves lock and ledger alone.                    *)
LEMMA CycleMoves ==
    ASSUME ResearchInv, NEW w \in Worker, pc[w] = "holding", NEW next, Cycle(w, next),
           UNCHANGED <<vars, ledger>>,
           next \in CycleType, CycleOK(next), crashes = 0 => ReadIsTrue(next)
    PROVE  ResearchInv'
<1>1. cycle' = [cycle EXCEPT ![w] = next] /\ cycle \in [Worker -> CycleType]
  BY DEF Cycle, ResearchInv, ResearchTypes
<1>2. LockInv' /\ UNCHANGED <<pc, crashes>>
  <2>1. UNCHANGED vars /\ UNCHANGED <<pc, crashes>>
    BY DEF vars
  <2> QED
    BY <2>1, LockStepInv DEF ResearchInv
<1>3. ResearchTypes'
  BY <1>1 DEF ResearchInv, ResearchTypes
<1>4. \A v \in Worker : CycleOK(cycle[v])'
  <2>1. \A v \in Worker : cycle'[v] = next \/ cycle'[v] = cycle[v]
    BY <1>1
  <2>2. \A v \in Worker : CycleOK(cycle'[v])
    BY <2>1 DEF ResearchInv
  <2> QED
    BY <2>2 DEF CycleOK
<1>5. CycleHolds'
  <2> SUFFICES ASSUME crashes' = 0, NEW v \in Worker
               PROVE  /\ cycle'[v].at # "none" => pc'[v] = "holding"
                      /\ ReadIsTrue(cycle[v])'
    BY DEF CycleHolds
  <2>1. cycle'[v] = next \/ (v # w /\ cycle'[v] = cycle[v])
    BY <1>1
  <2>2. cycle[v].at # "none" => pc[v] = "holding"
    BY <1>2 DEF ResearchInv, CycleHolds
  <2>3. cycle'[v].at # "none" => pc'[v] = "holding"
    BY <1>1, <1>2, <2>1, <2>2
  <2>4. ReadIsTrue(cycle'[v])
    BY <1>2, <2>1 DEF ResearchInv, CycleHolds
  <2> QED
    BY <2>3, <2>4 DEF ReadIsTrue, Deflator, OfFamily
<1>6. TrialsAreCounted'
  BY <1>2 DEF ResearchInv, TrialsAreCounted
<1> QED
  BY <1>2, <1>3, <1>4, <1>5, <1>6 DEF ResearchInv

LEMMA NoCycleFacts ==
    ASSUME NEW at \in {"none", "hypothesis", "over"}
    PROVE  /\ [NoCycle EXCEPT !.at = at] \in CycleType /\ CycleOK([NoCycle EXCEPT !.at = at])
           /\ ReadIsTrue([NoCycle EXCEPT !.at = at])
           /\ NoCycle \in CycleType /\ CycleOK(NoCycle) /\ ReadIsTrue(NoCycle)
<1> DEFINE next == [NoCycle EXCEPT !.at = at]
<1>1. <<>> \in Seq(Measurement) /\ Len(<<>>) = 0 /\ Len(Queue) \in Nat
  BY QueueAssumption
<1>2. next = [at |-> at, results |-> <<>>, seen |-> 0, id |-> 0, selected |-> 0]
  BY DEF NoCycle
<1>3. next \in CycleType /\ NoCycle \in CycleType
  BY <1>1, <1>2 DEF CycleType, Stage, NoCycle
<1>4. next.at = at /\ next.results = <<>> /\ next.seen = 0 /\ next.selected = 0
  BY <1>2
<1>5. NoCycle.at = "none" /\ NoCycle.results = <<>> /\ NoCycle.seen = 0 /\ NoCycle.selected = 0
  BY DEF NoCycle
<1> HIDE DEF next
<1>6. CycleOK(next) /\ ReadIsTrue(next)
  BY <1>1, <1>4 DEF CycleOK, ReadIsTrue
<1>7. CycleOK(NoCycle) /\ ReadIsTrue(NoCycle)
  BY <1>1, <1>5 DEF CycleOK, ReadIsTrue
<1> QED
  BY <1>3, <1>6, <1>7 DEF next

LEMMA CheckDiskKeeps ==
    ASSUME ResearchInv, NEW w \in Worker, CheckDisk(w)
    PROVE  ResearchInv'
  BY CycleMoves, NoCycleFacts DEF CheckDisk, In

(* A cycle that goes on with what it has.                                    *)
LEMMA CycleGoesOn ==
    ASSUME ResearchInv, NEW w \in Worker, pc[w] = "holding",
           NEW at \in {"gate", "over"}, Cycle(w, [cycle[w] EXCEPT !.at = at]),
           at = "over" \/ cycle[w].at = "hypothesis",
           UNCHANGED <<vars, ledger>>
    PROVE  ResearchInv'
<1> DEFINE next == [cycle[w] EXCEPT !.at = at]
<1>1. cycle[w] \in CycleType /\ CycleOK(cycle[w])
  BY DEF ResearchInv, ResearchTypes
<1>2. next \in CycleType /\ next.at = at /\ next.results = cycle[w].results /\ next.selected = cycle[w].selected
  BY <1>1 DEF CycleType, Stage
<1> HIDE DEF next
<1>3. CycleOK(next) /\ ReadIsTrue(next)
  BY <1>1, <1>2 DEF CycleOK, ReadIsTrue
<1> QED
  BY <1>2, <1>3, CycleMoves DEF next

(* One more hypothesis is measured.                                          *)
LEMMA MeasuredKeeps ==
    ASSUME ResearchInv, NEW w \in Worker, In(w, "hypothesis"), Len(cycle[w].results) < Len(Queue),
           NEW e \in Measurement, NEW seen \in Nat,
           seen \in {0, Deflator(Queue[Len(cycle[w].results) + 1].family)} \/ crashes # 0,
           NEW next \in CycleType, Cycle(w, next), next.at = "measured",
           next.results = Append(cycle[w].results, e), next.seen = seen, next.selected = cycle[w].selected,
           UNCHANGED <<vars, ledger>>
    PROVE  ResearchInv'
<1>1. /\ cycle[w].results \in Seq(Measurement) /\ CycleOK(cycle[w]) /\ cycle[w].at = "hypothesis"
      /\ pc[w] = "holding"
  BY DEF ResearchInv, ResearchTypes, CycleType, In
<1>2. Len(next.results) = Len(cycle[w].results) + 1 /\ Len(cycle[w].results) \in Nat /\ Len(Queue) \in Nat
  BY <1>1, QueueAssumption
<1>3. CycleOK(next)
  BY <1>1, <1>2 DEF CycleOK
<1>4. crashes = 0 => ReadIsTrue(next)
  BY <1>2 DEF ReadIsTrue
<1> QED
  BY <1>1, <1>3, <1>4, CycleMoves

LEMMA UnmeasuredKeeps ==
    ASSUME ResearchInv, NEW w \in Worker, Unmeasured(w)
    PROVE  ResearchInv'
<1> DEFINE next == [cycle[w] EXCEPT !.at = "measured", !.results = Append(@, NoEvidence)]
<1>1. /\ cycle[w] \in CycleType /\ In(w, "hypothesis") /\ Len(cycle[w].results) < Len(Queue) /\ Cycle(w, next)
      /\ UNCHANGED <<vars, ledger>>
  BY DEF Unmeasured, Done, Aside, ResearchInv, ResearchTypes
<1>2. NoEvidence \in Measurement /\ Append(cycle[w].results, NoEvidence) \in Seq(Measurement)
  BY <1>1 DEF Measurement, CycleType
<1>3. /\ next \in CycleType /\ next.at = "measured" /\ next.results = Append(cycle[w].results, NoEvidence)
      /\ next.seen = cycle[w].seen /\ next.selected = cycle[w].selected
  BY <1>1, <1>2 DEF CycleType, Stage
<1>4. cycle[w].seen \in Nat /\ (cycle[w].seen = 0 \/ crashes # 0)
  BY <1>1 DEF CycleType, ResearchInv, CycleHolds, ReadIsTrue, In
<1> HIDE DEF next
<1> QED
  BY <1>1, <1>2, <1>3, <1>4, MeasuredKeeps

LEMMA MeasureKeeps ==
    ASSUME ResearchInv, NEW w \in Worker, NEW e \in Evidence, Measure(w, e)
    PROVE  ResearchInv'
<1> DEFINE seen == Deflator(Queue[Len(cycle[w].results) + 1].family)
           next == [cycle[w] EXCEPT !.at = "measured", !.results = Append(@, e), !.seen = seen]
<1>1. /\ cycle[w] \in CycleType /\ In(w, "hypothesis") /\ Len(cycle[w].results) < Len(Queue) /\ Cycle(w, next)
      /\ UNCHANGED <<vars, ledger>>
  BY DEF Measure, Done, Aside, ResearchInv, ResearchTypes, Deflator
<1>2. e \in Measurement /\ Append(cycle[w].results, e) \in Seq(Measurement)
  BY <1>1 DEF Measurement, CycleType
<1>3. seen \in Nat
  BY DeflatorIsNat DEF ResearchInv, ResearchTypes
<1>4. /\ next \in CycleType /\ next.at = "measured" /\ next.results = Append(cycle[w].results, e)
      /\ next.seen = seen /\ next.selected = cycle[w].selected
  <2> HIDE DEF seen
  <2> QED
    BY <1>1, <1>2, <1>3 DEF CycleType, Stage
<1> HIDE DEF next
<1> QED
  BY <1>1, <1>2, <1>3, <1>4, MeasuredKeeps

LEMMA NextTrialIdKeeps ==
    ASSUME ResearchInv, NEW w \in Worker, NextTrialId(w)
    PROVE  ResearchInv'
<1> DEFINE next == [cycle[w] EXCEPT !.at = "record", !.id = NextId]
<1>1. /\ cycle[w] \in CycleType /\ CycleOK(cycle[w]) /\ In(w, "measured") /\ Cycle(w, next) /\ pc[w] = "holding"
      /\ UNCHANGED <<vars, ledger>>
  BY DEF NextTrialId, NextId, Aside, ResearchInv, ResearchTypes, In
<1>2. NextId \in Nat /\ (crashes = 0 => NextId = Len(ledger) + 1)
  BY NextIdFacts DEF ResearchInv, ResearchTypes, TrialsAreCounted
<1>3. /\ next \in CycleType /\ next.at = "record" /\ next.results = cycle[w].results
      /\ next.seen = cycle[w].seen /\ next.selected = cycle[w].selected /\ next.id = NextId
  BY <1>1, <1>2 DEF CycleType, Stage
<1>4. CycleOK(next)
  BY <1>1, <1>3 DEF CycleOK, In
<1>5. crashes = 0 => ReadIsTrue(next)
  BY <1>1, <1>2, <1>3 DEF ReadIsTrue, ResearchInv, CycleHolds, In
<1> HIDE DEF next
<1> QED
  BY <1>1, <1>3, <1>4, <1>5, CycleMoves

(* The trial is appended under the number of its place, deflated by what is  *)
(* still the number of trials before it.                                     *)
LEMMA RecordKeeps ==
    ASSUME ResearchInv, NEW w \in Worker, Record(w)
    PROVE  ResearchInv'
<1> DEFINE c == cycle[w]
           next == [c EXCEPT !.at = "hypothesis", !.id = 0, !.seen = 0]
           trial == [trial |-> c.id, family |-> Queue[Len(c.results)].family, seen |-> c.seen]
           L == Len(ledger)
<1>1. /\ c \in CycleType /\ CycleOK(c) /\ c.at = "record" /\ pc[w] = "holding"
      /\ cycle' = [cycle EXCEPT ![w] = next] /\ ledger' = Append(ledger, trial)
      /\ UNCHANGED vars
      /\ cycle \in [Worker -> CycleType] /\ ledger \in Seq(TrialType)
  BY DEF Record, Trial, Done, Aside, Cycle, ResearchInv, ResearchTypes, In
<1>2. LockInv' /\ UNCHANGED <<pc, crashes>>
  <2>1. UNCHANGED <<pc, crashes>>
    BY <1>1 DEF vars
  <2> QED
    BY <1>1, <2>1, LockStepInv DEF ResearchInv
<1>3. /\ next \in CycleType /\ next.at = "hypothesis" /\ next.seen = 0
      /\ next.results = c.results /\ next.selected = c.selected
  BY <1>1 DEF CycleType, Stage
<1>4. trial \in TrialType
  <2>1. Len(c.results) \in 1..Len(Queue)
    BY <1>1, QueueAssumption DEF CycleOK, CycleType
  <2> QED
    BY <1>1, <2>1 DEF TrialType, FamilyName, CycleType
<1> HIDE DEF next, L
<1>5. /\ L \in Nat /\ ledger' \in Seq(TrialType) /\ DOMAIN ledger = 1..L /\ DOMAIN ledger' = 1..(L + 1)
      /\ (\A i \in 1..L : ledger'[i] = ledger[i]) /\ ledger'[L + 1] = trial
  <2> HIDE DEF trial
  <2> QED
    BY <1>1, <1>4 DEF L
<1>6. ResearchTypes'
  BY <1>1, <1>3, <1>5 DEF ResearchTypes
<1>7. \A v \in Worker : CycleOK(cycle[v])'
  <2>1. CycleOK(next)
    BY <1>1, <1>3 DEF CycleOK
  <2>2. \A v \in Worker : cycle'[v] = next \/ cycle'[v] = cycle[v]
    BY <1>1
  <2>3. \A v \in Worker : CycleOK(cycle'[v])
    BY <2>1, <2>2 DEF ResearchInv
  <2> QED
    BY <2>3 DEF CycleOK
<1>8. CycleHolds'
  <2> SUFFICES ASSUME crashes' = 0, NEW v \in Worker
               PROVE  /\ cycle'[v].at # "none" => pc'[v] = "holding"
                      /\ ReadIsTrue(cycle[v])'
    BY DEF CycleHolds
  <2>1. CASE v = w
    <3>1. cycle'[v] = next
      BY <1>1, <2>1
    <3> QED
      BY <1>1, <1>2, <1>3, <2>1, <3>1 DEF ReadIsTrue
  <2>2. CASE v # w
    <3>1. cycle'[v] = cycle[v]
      BY <1>1, <2>2
    <3>2. cycle[v].at = "none"
      BY <1>1, <1>2, <2>2, LockFacts DEF ResearchInv, CycleHolds
    <3> QED
      BY <3>1, <3>2 DEF ReadIsTrue
  <2> QED
    BY <2>1, <2>2
<1>9. TrialsAreCounted'
  <2> SUFFICES ASSUME crashes = 0, NEW i \in 1..(L + 1)
               PROVE  /\ ledger'[i].trial = i
                      /\ ledger'[i].seen \in
                             {0, Max({1, Cardinality({j \in 1..(i - 1) : ledger'[j].family = ledger'[i].family})})}
    BY <1>2, <1>5 DEF TrialsAreCounted
  <2>1. CASE i \in 1..L
    <3>1. \A j \in 1..(i - 1) : j \in 1..L
      BY <1>5, <2>1
    <3>2. {j \in 1..(i - 1) : ledger'[j].family = ledger'[i].family} =
          {j \in 1..(i - 1) : ledger[j].family = ledger[i].family}
      BY <1>5, <2>1, <3>1
    <3>3. /\ ledger[i].trial = i
          /\ ledger[i].seen \in
                 {0, Max({1, Cardinality({j \in 1..(i - 1) : ledger[j].family = ledger[i].family})})}
      BY <1>5, <2>1 DEF ResearchInv, TrialsAreCounted
    <3> QED
      BY <1>5, <2>1, <3>2, <3>3
  <2>2. CASE i = L + 1
    <3> DEFINE f == Queue[Len(c.results)].family
    <3>1. c.id = L + 1 /\ c.seen \in {0, Deflator(f)}
      BY <1>1 DEF ResearchInv, CycleHolds, ReadIsTrue, L
    <3>2. OfFamily(f) = {j \in 1..(i - 1) : ledger'[j].family = ledger'[i].family}
      <4>1. ledger'[i].family = f /\ 1..(i - 1) = 1..L
        BY <1>5, <2>2
      <4> HIDE DEF f
      <4> QED
        BY <1>5, <4>1 DEF OfFamily
    <3>3. ledger'[i].trial = c.id /\ ledger'[i].seen = c.seen
      BY <1>5, <2>2
    <3> HIDE DEF f, trial, c
    <3> QED
      BY <2>2, <3>1, <3>2, <3>3 DEF Deflator
  <2> QED
    BY <1>5, <2>1, <2>2
<1> QED
  BY <1>2, <1>6, <1>7, <1>8, <1>9 DEF ResearchInv

LEMMA TrialsKeep ==
    ASSUME ResearchInv, NEW w \in Worker, Trials(w) \/ RecordCut(w)
    PROVE  ResearchInv'
<1>1. CASE CheckDisk(w)
  BY <1>1, CheckDiskKeeps
<1>2. CASE OutOfTime(w)
  <2>1. /\ pc[w] = "holding" /\ cycle[w].at = "hypothesis" /\ Cycle(w, [cycle[w] EXCEPT !.at = "gate"])
        /\ UNCHANGED <<vars, ledger>>
    BY <1>2 DEF OutOfTime, In, Aside
  <2> QED
    BY <2>1, CycleGoesOn
<1>3. CASE LedgerBroken(w)
  <2>1. /\ pc[w] = "holding" /\ Cycle(w, [cycle[w] EXCEPT !.at = "over"]) /\ UNCHANGED <<vars, ledger>>
    BY <1>3 DEF LedgerBroken, Aside
  <2> QED
    BY <2>1, CycleGoesOn
<1>4. CASE NextTrialId(w)
  BY <1>4, NextTrialIdKeeps
<1>5. CASE Record(w)
  BY <1>5, RecordKeeps
<1>6. CASE Unmeasured(w)
  BY <1>6, UnmeasuredKeeps
<1>7. CASE \E e \in Evidence : Measure(w, e)
  BY <1>7, MeasureKeeps
<1>8. CASE RecordCut(w)
  <2>1. /\ pc[w] = "holding" /\ Cycle(w, [cycle[w] EXCEPT !.at = "over"]) /\ UNCHANGED <<vars, ledger>>
    BY <1>8 DEF RecordCut, In, Aside
  <2> QED
    BY <2>1, CycleGoesOn
<1> QED
  BY <1>1, <1>2, <1>3, <1>4, <1>5, <1>6, <1>7, <1>8 DEF Trials

(* The gate selects the best of what the cycle measured, or ends it.         *)
LEMMA GateKeeps ==
    ASSUME ResearchInv, NEW w \in Worker, Gate(w)
    PROVE  ResearchInv'
<1> DEFINE k == Best(cycle[w].results)
           next == [cycle[w] EXCEPT !.at = "register", !.selected = k]
<1>1. /\ cycle[w] \in CycleType /\ CycleOK(cycle[w]) /\ pc[w] = "holding"
      /\ UNCHANGED <<vars, ledger>>
  BY DEF ResearchInv, ResearchTypes, Gate, In
<1>2. CASE k = 0
  <2>1. Cycle(w, [cycle[w] EXCEPT !.at = "over"])
    BY <1>2 DEF Gate
  <2> QED
    BY <1>1, <2>1, CycleGoesOn
<1>3. CASE k # 0
  <2>1. Cycle(w, next)
    BY <1>3 DEF Gate
  <2>2. cycle[w].results \in Seq(Measurement)
    BY <1>1 DEF CycleType
  <2>3. k \in Nat
    BY <2>2, BestFacts
  <2> HIDE DEF k
  <2>4. next \in CycleType /\ next.at = "register" /\ next.results = cycle[w].results /\ next.selected = k
    BY <1>1, <2>3 DEF CycleType, Stage
  <2> HIDE DEF next
  <2>5. CycleOK(next) /\ ReadIsTrue(next)
    BY <1>1, <2>4 DEF CycleOK, ReadIsTrue, k
  <2> QED
    BY <1>1, <2>1, <2>4, <2>5, CycleMoves
<1> QED
  BY <1>2, <1>3

(* A step that leaves the holder, the ledger and the cycles alone.           *)
LEMMA QuietKeeps ==
    ASSUME ResearchInv, LockInv', UNCHANGED <<pc, crashes, ledger, cycle>>
    PROVE  ResearchInv'
<1>1. ResearchTypes' /\ TrialsAreCounted'
  BY DEF ResearchInv, ResearchTypes, TrialsAreCounted
<1>2. \A w \in Worker : CycleOK(cycle[w])'
  BY DEF ResearchInv, CycleOK
<1>3. CycleHolds'
  <2>1. ASSUME NEW w \in Worker, ReadIsTrue(cycle[w])
        PROVE  ReadIsTrue(cycle[w])'
    BY <2>1 DEF ReadIsTrue, Deflator, OfFamily
  <2> QED
    BY <2>1 DEF ResearchInv, CycleHolds
<1> QED
  BY <1>1, <1>2, <1>3 DEF ResearchInv

(* A step that touches neither lock, ledger nor cycles.                      *)
LEMMA AsideKeeps ==
    ASSUME ResearchInv, UNCHANGED <<vars, ledger, cycle>>
    PROVE  ResearchInv'
<1>1. UNCHANGED <<pc, crashes>>
  BY DEF vars
<1>2. LockInv'
  BY LockStepInv DEF ResearchInv
<1> QED
  BY <1>1, <1>2, QuietKeeps

LEMMA SelectingKeeps ==
    ASSUME ResearchInv, NEW w \in Worker, Selecting(w)
    PROVE  ResearchInv'
<1>1. CASE Gate(w)
  BY <1>1, GateKeeps
<1>2. CASE Select(w)
  <2>1. /\ pc[w] = "holding" /\ Cycle(w, [cycle[w] EXCEPT !.at = "over"]) /\ UNCHANGED <<vars, ledger>>
    BY <1>2 DEF Select, In
  <2> QED
    BY <2>1, CycleGoesOn
<1>3. CASE RegisterStep(w)
  <2>1. /\ pc[w] = "holding" /\ UNCHANGED <<vars, ledger>>
        /\ UNCHANGED cycle \/ Cycle(w, [cycle[w] EXCEPT !.at = "over"])
    BY <1>3 DEF RegisterStep, In
  <2> QED
    BY <2>1, CycleGoesOn, AsideKeeps
<1> QED
  BY <1>1, <1>2, <1>3 DEF Selecting

(* A worker takes or gives up the lock: nobody else holds it, and the cycle  *)
(* it gives up is over.                                                      *)
LEMMA LockingKeeps ==
    ASSUME ResearchInv, NEW w \in Worker, Locking(w)
    PROVE  ResearchInv'
<1>1. Step(w) /\ UNCHANGED <<ledger, crashes>>
  BY DEF Locking, Step, Begin, Open, Create, Stat, Unlink, Reopen, Release
<1>2. LockInv'
  BY <1>1, LockStepInv DEF ResearchInv, LockNext
<1>3. pc' = [pc EXCEPT ![w] = pc'[w]] /\ pc \in [Worker -> PcValue] /\ pc' \in [Worker -> PcValue]
  <2>1. pc \in [Worker -> PcValue] /\ pc' \in [Worker -> PcValue]
    BY <1>2 DEF ResearchInv, LockInv, LockTypeOK
  <2>2. \E label : Goto(w, label)
    BY <1>1 DEF Step, Begin, Open, Create, Stat, Unlink, Reopen, Release
  <2> QED
    BY <2>1, <2>2 DEF Goto
<1>4. \/ UNCHANGED cycle /\ pc[w] # "holding"
      \/ cycle' = [cycle EXCEPT ![w] = NoCycle]
  <2>1. CASE UNCHANGED cycle /\ (Begin(w) \/ Open(w) \/ Stat(w) \/ Unlink(w) \/ Reopen(w))
    BY <2>1 DEF Begin, Open, Stat, Unlink, Reopen
  <2> QED
    BY <2>1 DEF Locking, Cycle
<1>5. \A v \in Worker : \/ cycle'[v] = cycle[v] /\ (pc'[v] = pc[v] \/ pc[v] # "holding")
                        \/ cycle'[v] = NoCycle
  BY <1>3, <1>4 DEF ResearchInv, ResearchTypes
<1>6. ResearchTypes'
  BY <1>1, <1>4, NoCycleFacts DEF ResearchInv, ResearchTypes
<1>7. \A v \in Worker : CycleOK(cycle[v])'
  <2>1. \A v \in Worker : CycleOK(cycle'[v])
    BY <1>5, NoCycleFacts DEF ResearchInv
  <2> QED
    BY <2>1 DEF CycleOK
<1>8. CycleHolds'
  <2> SUFFICES ASSUME crashes' = 0, NEW v \in Worker
               PROVE  /\ cycle'[v].at # "none" => pc'[v] = "holding"
                      /\ ReadIsTrue(cycle[v])'
    BY DEF CycleHolds
  <2>1. (cycle[v].at # "none" => pc[v] = "holding") /\ ReadIsTrue(cycle[v])
    BY <1>1 DEF ResearchInv, CycleHolds
  <2>2. ReadIsTrue(NoCycle) /\ NoCycle.at = "none"
    BY NoCycleFacts DEF NoCycle
  <2>3. cycle'[v].at # "none" => pc'[v] = "holding"
    BY <1>5, <2>1, <2>2
  <2>4. ReadIsTrue(cycle'[v])
    BY <1>5, <2>1, <2>2
  <2> QED
    BY <1>1, <2>3, <2>4 DEF ReadIsTrue, Deflator, OfFamily
<1>9. TrialsAreCounted'
  BY <1>1 DEF ResearchInv, TrialsAreCounted
<1> QED
  BY <1>2, <1>6, <1>7, <1>8, <1>9 DEF ResearchInv

(* After a death nothing is said of the ledger or of who holds the lock.     *)
LEMMA DieKeeps ==
    ASSUME ResearchInv, NEW w \in Worker, Die(w)
    PROVE  ResearchInv'
<1>1. Crash(w) /\ UNCHANGED <<ledger, cycle>>
  BY DEF Die, researchVars
<1>2. LockInv' /\ crashes' # 0
  BY <1>1, LockStepInv, LockFacts DEF ResearchInv, LockNext, Crash
<1> QED
  BY <1>1, <1>2 DEF ResearchInv, ResearchTypes, CycleHolds, TrialsAreCounted, CycleOK

LEMMA OldFileKeeps ==
    ASSUME ResearchInv, OldFile
    PROVE  ResearchInv'
<1>1. LockInv' /\ UNCHANGED <<pc, crashes, ledger, cycle>>
  BY LockStepInv DEF OldFile, ResearchInv, LockNext, Age, researchVars
<1> QED
  BY <1>1, QuietKeeps

(* Every step keeps the invariant.                                           *)
LEMMA ResearchStepInv ==
    ResearchInv /\ [ResearchNext]_allVars => ResearchInv'
<1> SUFFICES ASSUME ResearchInv, [ResearchNext]_allVars
             PROVE  ResearchInv'
  OBVIOUS
<1>1. ASSUME NEW w \in Worker, Locking(w) \/ Trials(w) \/ Selecting(w) \/ RecordCut(w) \/ Die(w)
      PROVE  ResearchInv'
  BY <1>1, LockingKeeps, TrialsKeep, SelectingKeeps, DieKeeps
<1>2. CASE OldFile
  BY <1>2, OldFileKeeps
<1>3. CASE Reviewing
  <2>1. UNCHANGED <<vars, ledger, cycle>>
    BY <1>3 DEF Reviewing
  <2> QED
    BY <2>1, AsideKeeps
<1>4. CASE UNCHANGED allVars
  <2>1. UNCHANGED <<vars, ledger, cycle>>
    BY <1>4 DEF allVars, researchVars
  <2> QED
    BY <2>1, AsideKeeps
<1> QED
  BY <1>1, <1>2, <1>3, <1>4 DEF ResearchNext

LEMMA ResearchInitInv == ResearchInit => ResearchInv
<1> SUFFICES ASSUME ResearchInit PROVE ResearchInv
  OBVIOUS
<1>1. LockInv /\ ledger = <<>> /\ cycle = [w \in Worker |-> NoCycle]
  BY LockInitInv DEF ResearchInit
<1>2. ResearchTypes /\ \A w \in Worker : cycle[w] = NoCycle /\ CycleOK(NoCycle) /\ ReadIsTrue(NoCycle)
  BY <1>1, NoCycleFacts DEF ResearchTypes
<1>3. CycleHolds
  <2>1. \A w \in Worker : cycle[w].at = "none" /\ ReadIsTrue(cycle[w])
    <3>1. NoCycle.at = "none"
      BY DEF NoCycle
    <3> QED
      BY <1>2, <3>1
  <2> QED
    BY <2>1 DEF CycleHolds
<1>4. TrialsAreCounted
  BY <1>1 DEF TrialsAreCounted
<1> QED
  BY <1>1, <1>2, <1>3, <1>4 DEF ResearchInv

(* run_cycle, whatever workers, reviewers, deaths and full disks interleave: *)
(* a cycle selects the best of what it measured that clears the whole gate,  *)
(* and until a worker dies the trials it is weighed against are all there    *)
(* were in the ledger, of every cycle so far.                                *)
THEOREM SelectionAlwaysEarned == ResearchSpec => []SelectionIsEarned
<1>1. ResearchInv => SelectionIsEarned
  BY SelectedIsBest DEF ResearchInv, SelectionIsEarned
<1> QED
  BY <1>1, ResearchInitInv, ResearchStepInv, PTL DEF ResearchSpec

-----------------------------------------------------------------------------
(* A step of the cycle is a step of the registry, with its worker as the     *)
(* caller, or leaves the registry alone.                                     *)
LEMMA RegistryIsUsed ==
    ASSUME ResearchInv, [ResearchNext]_allVars
    PROVE  [RegistryNext]_registryVars
<1>0. Reviewer \in Caller /\ \A w \in Worker : w \in Caller
  BY CycleAssumption
<1>1. ASSUME NEW w \in Worker, Locking(w) \/ Trials(w) \/ RecordCut(w)
      PROVE  UNCHANGED registryVars
  BY <1>1 DEF Locking, Trials, CheckDisk, OutOfTime, LedgerBroken, NextTrialId, Record, Unmeasured, Measure,
              RecordCut, Aside
<1>2. ASSUME NEW w \in Worker, Gate(w)
      PROVE  [RegistryNext]_registryVars
  <2> DEFINE k == Best(cycle[w].results)
  <2>1. CASE k = 0
    BY <1>2, <2>1 DEF Gate
  <2>2. CASE k # 0
    <3>1. PICK f \in Family : Register(w, Id(k), {f})
      BY <1>2, <2>2 DEF Gate
    <3>2. cycle[w].results \in Seq(Measurement) /\ Len(cycle[w].results) <= Len(Queue)
      BY DEF ResearchInv, ResearchTypes, CycleType, CycleOK
    <3>3. k \in 1..Len(cycle[w].results)
      BY <2>2, <3>2, BestFacts
    <3>4. k \in 1..Len(Queue)
      <4> HIDE DEF k
      <4> QED
        BY <3>2, <3>3, QueueAssumption
    <3>5. Id(k) \in Candidate /\ {f} \in SUBSET Family
      BY <3>4, QueueAssumption
    <3>6. AskFor(w, Id(k))
      BY <3>1, <3>5 DEF AskFor
    <3> QED
      BY <1>0, <3>5, <3>6 DEF RegistryNext
  <2> QED
    BY <2>1, <2>2
<1>3. ASSUME NEW w \in Worker, Select(w) \/ RegisterStep(w)
      PROVE  RegistryNext
  BY <1>0, <1>3 DEF Select, RegisterStep, CallStep, RegistryNext
<1>4. ASSUME NEW w \in Worker, Die(w)
      PROVE  RegistryNext
  BY <1>0, <1>4 DEF Die, RegistryNext
<1>5. CASE Reviewing
  BY <1>0, <1>5 DEF Reviewing, RegistryNext
<1>6. CASE OldFile
  BY <1>6 DEF OldFile
<1>7. CASE UNCHANGED allVars
  BY <1>7 DEF allVars
<1> QED
  BY <1>1, <1>2, <1>3, <1>4, <1>5, <1>6, <1>7 DEF ResearchNext, Selecting

(* promote_to_champion with cycles registering beside it: a champion is one  *)
(* because a person said so, whoever dies in whichever write.                *)
THEOREM ChampionApprovedInResearch == ResearchSpec => []ChampionIsApproved
<1>1. ResearchInit => ResearchInv /\ RInv
  BY ResearchInitInv DEF ResearchInit, RegistryInit, RInv, FileOK, FileType, CallOK
<1>2. ResearchInv /\ RInv /\ [ResearchNext]_allVars => (ResearchInv /\ RInv)'
  BY ResearchStepInv, RegistryIsUsed, RegistryStep
<1>3. RInv => ChampionIsApproved
  BY DEF RInv, ChampionIsApproved, FileOK, Good
<1> QED
  BY <1>1, <1>2, <1>3, PTL DEF ResearchSpec

(* mark_degraded with cycles registering beside it: only a candidate found   *)
(* degraded as often as the threshold asks for is retired.                   *)
THEOREM RetiredForReviewsInResearch == ResearchSpec => []RetiredForReviews
<1>1. ResearchInit => ResearchInv /\ ReviewInv
  BY ResearchInitInv, ReviewInitInv DEF ResearchInit
<1>2. ResearchInv /\ ReviewInv /\ [ResearchNext]_allVars => (ResearchInv /\ ReviewInv)'
  BY ResearchStepInv, RegistryIsUsed, ReviewStep
<1> QED
  BY <1>1, <1>2, ReviewsAreMade, PTL DEF ResearchSpec

(* The lock of run_cycle: until a worker dies no two cycles run at once.     *)
THEOREM CyclesNeverOverlap == ResearchSpec => []ExclusiveUntilDeath
<1>1. ResearchInv => ExclusiveUntilDeath
  BY DEF ResearchInv, LockInv, NobodyDied, ExclusiveUntilDeath, Exclusive
<1> QED
  BY <1>1, ResearchInitInv, ResearchStepInv, PTL DEF ResearchSpec
==================================================================================
