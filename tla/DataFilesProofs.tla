----------------------------- MODULE DataFilesProofs -----------------------------
(***************************************************************************)
(* What the data files still hold, for any number of processes, readings,    *)
(* streams and versions.                                                     *)
(*   PolledSeries: between a process's read of a partition and its write the *)
(* file is what it read, by the partition's lock or because no other process *)
(* writes the series; so a write only adds.                                  *)
(*   ArchiveMonth: until a source is unlinked for the first time, every      *)
(* manifest belongs to the ZIP beside it and a complete month is frozen; the *)
(* copies of it are then the backup, which nothing ever writes again.        *)
(*   DataLake: no job runs beside the archiver or the maintenance, so Silver *)
(* only shrinks while it is unlinked, and no part comes between the report   *)
(* of a day and the snapshot after it.                                       *)
(*   Backfill: what a download must bring and its cursor has passed, it has; *)
(* a page brings what the cursor passes, for each venue's way of paging.     *)
(***************************************************************************)
EXTENDS PolledSeries, ArchiveMonth, DataLake, Backfill, SetSums

-----------------------------------------------------------------------------
(* Polled readings.                                                          *)

Process == [at : {"off", "asleep", "write", "merge"}, got : SUBSET Minute, mark : 0..MaxMinute,
            part : 0..2, read : SUBSET Minute]

PolledTypes ==
    /\ series \in Collectors
    /\ minute \in Minute
    /\ poller \in [Poller -> Process]
    /\ partition \in [Partition -> SUBSET Minute]
    /\ lockedBy \in [Partition -> Poller \cup {Nobody}]
    /\ returned \in [Partition -> SUBSET Minute]
    /\ upsets \in Nat
    /\ everRun \in SUBSET Poller /\ IsFiniteSet(everRun)
    /\ \A p \in Poller : poller[p].at # "off" => p \in everRun
    /\ \A p \in Poller : poller[p].at \in {"write", "merge"} =>
          poller[p].got # {} /\ poller[p].part \in Partition

(* One process writes the series, and nothing of it was cut short.           *)
Sole == upsets = 0 /\ \E p \in Poller : everRun \subseteq {p}

(* Under the lock, or alone, what a process read is what is there, and what  *)
(* it has written of a poll is there too.                                    *)
WritesInOrder(p) ==
    LET c == poller[p] IN
    /\ c.at \in {"write", "merge"} =>
          /\ c.part \in Filled(c.got)
          /\ \A j \in Partition : j < c.part => PartOf(j, c.got) \subseteq partition[j]
    /\ c.at = "merge" => c.read = partition[c.part] /\ (series.locked => lockedBy[c.part] = p)

MarkIsThere(p) == poller[p].mark # 0 => \E k \in Partition : poller[p].mark \in partition[k]

PolledKept ==
    series.locked \/ Sole =>
        /\ \A k \in Partition : returned[k] \subseteq partition[k]
        /\ \A p \in Poller : MarkIsThere(p) /\ WritesInOrder(p)

PolledInv == PolledTypes /\ PolledKept

-----------------------------------------------------------------------------
(* Partitions of a poll.                                                     *)

LEMMA CollectorFacts ==
    ASSUME NEW c \in Collectors
    PROVE  c.locked \in BOOLEAN /\ c.marked \in BOOLEAN /\ c.apart \in BOOLEAN
<1> DEFINE Listing == [answer : {"listed", "present", "stamped"}, marked : BOOLEAN, locked : BOOLEAN, apart : BOOLEAN]
<1>1. BybitRatio \in Listing /\ BinanceInterest \in Listing /\ BinanceRatio \in Listing /\ OkxInterest \in Listing
  BY DEF BybitRatio, BinanceInterest, BinanceRatio, OkxInterest
<1>2. OkxRatio \in Listing /\ Hyperliquid \in Listing /\ DeribitSummary \in Listing /\ DeribitTicker \in Listing
  BY DEF OkxRatio, Hyperliquid, DeribitSummary, DeribitTicker
<1>3. c \in Listing
  <2> HIDE DEF Listing
  <2> QED
    BY <1>1, <1>2 DEF Collectors
<1> QED
  BY <1>3

(* Every reading has a partition.                                            *)
LEMMA PartOfFacts ==
    ASSUME NEW rows \in SUBSET Minute
    PROVE  /\ \A k \in Partition : PartOf(k, rows) \subseteq rows
           /\ \A t \in rows : \E k \in Partition : t \in PartOf(k, rows)
           /\ Filled(rows) \subseteq Partition
           /\ rows # {} => Filled(rows) # {}
<1>1. Partition = {1, 2}
  BY DEF Partition
<1>2. \A t \in rows : \E k \in Partition : t \in PartOf(k, rows)
  <2> SUFFICES ASSUME NEW t \in rows PROVE \E k \in Partition : t \in PartOf(k, rows)
    OBVIOUS
  <2>1. CASE series.apart
    BY <1>1, <2>1 DEF PartOf
  <2>2. CASE ~series.apart /\ 2 * t <= MaxMinute
    BY <1>1, <2>2 DEF PartOf
  <2>3. CASE ~series.apart /\ ~(2 * t <= MaxMinute)
    <3>1. (2 * t <= MaxMinute) = (2 = 1)
      BY <2>3
    <3> QED
      BY <1>1, <2>3, <3>1 DEF PartOf
  <2> QED
    BY <2>1, <2>2, <2>3
<1>3. \A k \in Partition : PartOf(k, rows) \subseteq rows
  BY DEF PartOf
<1>4. Filled(rows) \subseteq Partition
  BY DEF Filled
<1> QED
  BY <1>2, <1>3, <1>4 DEF Filled

LEMMA FirstPartFacts ==
    ASSUME NEW parts \in SUBSET Partition, parts # {}
    PROVE  FirstPart(parts) \in parts /\ \A j \in parts : FirstPart(parts) <= j
<1>1. Partition = {1, 2}
  BY DEF Partition
<1>2. \E k \in parts : \A j \in parts : k <= j
  <2>1. CASE 1 \in parts
    <3>1. \A j \in parts : 1 <= j
      BY <1>1
    <3> QED
      BY <2>1, <3>1
  <2>2. CASE parts = {2}
    BY <2>2
  <2> QED
    BY <1>1, <2>1, <2>2
<1> QED
  BY <1>2 DEF FirstPart

LEMMA NewestFacts ==
    ASSUME NEW rows \in SUBSET Minute, rows # {}
    PROVE  NewestOf(rows) \in rows
<1> DEFINE f == [t \in rows |-> t]
<1>1. IsFiniteSet(rows)
  <2>1. IsFiniteSet(Minute)
    BY PolledAssumption, FS_Interval DEF Minute
  <2> QED
    BY <2>1, FS_Subset
<1>2. f \in [rows -> Nat]
  BY DEF Minute
<1>3. PICK m \in rows : \A t \in rows : f[t] <= f[m]
  <2> HIDE DEF f
  <2> QED
    BY <1>1, <1>2, HighestExists
<1>4. \A t \in rows : t <= m
  BY <1>3
<1> QED
  BY <1>4 DEF NewestOf

LEMMA FreshFacts ==
    ASSUME PolledTypes, NEW p \in Poller
    PROVE  Fresh(p) \in SUBSET Minute
  BY DEF PolledTypes, Fresh, Answered

-----------------------------------------------------------------------------
(* Steps.                                                                    *)

(* What a step of one process has to show.  Another process' reading is kept *)
(* because the lock is that one's, or because there is none.                 *)
LEMMA ProcessKeeps ==
    ASSUME PolledInv, PolledTypes', UNCHANGED series, NEW p \in Poller, NEW next,
           poller' = [poller EXCEPT ![p] = next],
           everRun \subseteq everRun', p \in everRun', upsets <= upsets',
           series.locked \/ Sole' =>
               /\ \A k \in Partition : partition[k] \subseteq partition'[k]
               /\ \A k \in Partition : returned'[k] \subseteq partition'[k]
               /\ MarkIsThere(p)' /\ WritesInOrder(p)',
           series.locked => \A k \in Partition, q \in Poller : q # p /\ lockedBy[k] = q =>
               lockedBy'[k] = q /\ partition'[k] = partition[k]
    PROVE  PolledInv'
<1> SUFFICES ASSUME (series.locked \/ Sole)'
             PROVE  /\ \A k \in Partition : returned'[k] \subseteq partition'[k]
                    /\ \A q \in Poller : MarkIsThere(q)' /\ WritesInOrder(q)'
  BY DEF PolledInv, PolledKept
<1>1. series.locked \/ Sole
  <2>1. Sole' => Sole
    <3>1. upsets \in Nat /\ upsets' \in Nat
      BY DEF PolledInv, PolledTypes
    <3> QED
      BY <3>1 DEF Sole
  <2> QED
    BY <2>1
<1>2. /\ \A k \in Partition : partition[k] \subseteq partition'[k]
      /\ \A k \in Partition : returned'[k] \subseteq partition'[k]
      /\ MarkIsThere(p)' /\ WritesInOrder(p)'
  OBVIOUS
<1>3. ASSUME NEW q \in Poller, q # p
      PROVE  MarkIsThere(q)' /\ WritesInOrder(q)'
  <2>1. poller'[q] = poller[q] /\ poller[q] \in Process
    BY <1>3 DEF PolledInv, PolledTypes
  <2>2. MarkIsThere(q) /\ WritesInOrder(q)
    BY <1>1 DEF PolledInv, PolledKept
  <2>3. MarkIsThere(q)'
    BY <1>2, <2>1, <2>2 DEF MarkIsThere
  <2>4. PICK c \in Process : c = poller[q]
    BY <2>1
  <2>5. \A rows, k : PartOf(k, rows) = PartOf(k, rows)' /\ Filled(rows) = Filled(rows)'
    BY DEF PartOf, Filled
  <2>6. c.at \in {"write", "merge"} =>
            /\ c.part \in Filled(c.got)
            /\ \A j \in Partition : j < c.part => PartOf(j, c.got) \subseteq partition'[j]
    BY <1>2, <2>2, <2>4 DEF WritesInOrder
  <2>7. ASSUME c.at = "merge"
        PROVE  c.read = partition'[c.part] /\ (series.locked => lockedBy'[c.part] = q)
    <3>1. c.part \in Partition
      BY <2>6, <2>7 DEF Filled
    <3>2. c.read = partition[c.part] /\ (series.locked => lockedBy[c.part] = q)
      BY <2>2, <2>4, <2>7 DEF WritesInOrder
    <3>3. CASE series.locked
      BY <1>3, <3>1, <3>2, <3>3
    <3>4. CASE ~series.locked
      <4>1. Sole'
        BY <3>4
      <4>2. q \in everRun
        BY <2>4, <2>7 DEF PolledInv, PolledTypes
      <4> QED
        BY <1>3, <4>1, <4>2 DEF Sole
    <3> QED
      BY <3>3, <3>4
  <2>8. WritesInOrder(q)'
    BY <2>1, <2>4, <2>5, <2>6, <2>7 DEF WritesInOrder
  <2> QED
    BY <2>3, <2>8
<1> QED
  BY <1>2, <1>3

(* A process that is between two polls has nothing in hand.                  *)
LEMMA AsleepKeeps ==
    ASSUME PolledInv, NEW p \in Poller, NEW mark \in 0..MaxMinute, NEW at \in {"off", "asleep"},
           poller' = [poller EXCEPT ![p] = [at |-> at, got |-> {}, mark |-> mark, part |-> 0, read |-> {}]],
           UNCHANGED <<series, minute, partition, returned>>,
           lockedBy' \in [Partition -> Poller \cup {Nobody}],
           \A k \in Partition, q \in Poller : q # p /\ lockedBy[k] = q => lockedBy'[k] = q,
           upsets' \in Nat, upsets <= upsets', everRun' = everRun \cup {p},
           mark = 0 \/ mark = poller[p].mark
    PROVE  PolledInv'
<1> DEFINE next == [at |-> at, got |-> {}, mark |-> mark, part |-> 0, read |-> {}]
<1>1. PolledTypes /\ next \in Process /\ next.at = at /\ next.mark = mark
  BY DEF PolledInv, Process
<1> HIDE DEF next
<1>2. poller'[p] = next /\ \A q \in Poller : q # p => poller'[q] = poller[q]
  BY <1>1 DEF PolledTypes, next
<1>3. IsFiniteSet(everRun') /\ everRun' \in SUBSET Poller
  BY <1>1, FS_AddElement DEF PolledTypes
<1>4. poller' \in [Poller -> Process]
  BY <1>1 DEF PolledTypes, next
<1>5. PolledTypes'
  BY <1>1, <1>2, <1>3, <1>4 DEF PolledTypes
<1>6. WritesInOrder(p)'
  BY <1>1, <1>2 DEF WritesInOrder
<1>7. series.locked \/ Sole' => MarkIsThere(p)' /\ \A k \in Partition : returned'[k] \subseteq partition'[k]
  <2> SUFFICES ASSUME series.locked \/ Sole'
               PROVE  MarkIsThere(p)' /\ \A k \in Partition : returned'[k] \subseteq partition'[k]
    OBVIOUS
  <2>1. series.locked \/ Sole
    <3>1. Sole' => Sole
      BY <1>1 DEF Sole, PolledTypes
    <3> QED
      BY <3>1
  <2>2. MarkIsThere(p) /\ \A k \in Partition : returned[k] \subseteq partition[k]
    BY <2>1 DEF PolledInv, PolledKept
  <2>3. MarkIsThere(p)'
    <3>1. poller'[p].mark = 0 \/ poller'[p].mark = poller[p].mark
      BY <1>1, <1>2
    <3> QED
      BY <2>2, <3>1 DEF MarkIsThere
  <2> QED
    BY <2>2, <2>3
<1>8. poller' = [poller EXCEPT ![p] = next]
  BY DEF next
<1> QED
  BY <1>5, <1>6, <1>7, <1>8, ProcessKeeps

LEMMA StoppedKeeps ==
    ASSUME PolledInv, NEW p \in Poller, NEW mark \in 0..MaxMinute, NEW at \in {"off", "asleep"},
           poller[p].at # "off", mark = 0 \/ mark = poller[p].mark,
           poller' = [poller EXCEPT ![p] = [at |-> at, got |-> {}, mark |-> mark, part |-> 0, read |-> {}]],
           Interrupted(p)
    PROVE  PolledInv'
<1> DEFINE next == [at |-> at, got |-> {}, mark |-> mark, part |-> 0, read |-> {}]
<1>1. PolledTypes /\ next \in Process /\ next.at = at /\ next.mark = mark
  BY DEF PolledInv, Process
<1> HIDE DEF next
<1>2. poller' = [poller EXCEPT ![p] = next] /\ UNCHANGED <<series, minute, returned, everRun>>
  BY DEF next, Interrupted
<1>3. poller'[p] = next /\ poller' \in [Poller -> Process] /\ \A q \in Poller : q # p => poller'[q] = poller[q]
  BY <1>1, <1>2 DEF PolledTypes
<1>4. lockedBy' \in [Partition -> Poller \cup {Nobody}]
      /\ \A k \in Partition, q \in Poller : q # p /\ lockedBy[k] = q => lockedBy'[k] = q
  BY <1>1 DEF Interrupted, Unlocked, PolledTypes
<1>5. /\ partition' \in [Partition -> SUBSET Minute]
      /\ partition' # partition => ~series.locked
      /\ upsets' \in Nat /\ upsets <= upsets' /\ upsets' # 0
  BY <1>1, PolledAssumption DEF Interrupted, PolledTypes
<1>6. PolledTypes'
  BY <1>1, <1>2, <1>3, <1>4, <1>5 DEF PolledTypes
<1>7. WritesInOrder(p)' /\ ~Sole'
  BY <1>1, <1>3, <1>5 DEF WritesInOrder, Sole
<1>8. series.locked =>
          MarkIsThere(p)' /\ partition' = partition /\ \A k \in Partition : returned'[k] \subseteq partition'[k]
  <2> SUFFICES ASSUME series.locked
               PROVE  MarkIsThere(p)' /\ \A k \in Partition : returned'[k] \subseteq partition'[k]
    BY <1>5
  <2>1. MarkIsThere(p) /\ partition' = partition /\ \A k \in Partition : returned[k] \subseteq partition[k]
    BY <1>5 DEF PolledInv, PolledKept
  <2>2. MarkIsThere(p)'
    <3>1. poller'[p].mark = 0 \/ poller'[p].mark = poller[p].mark
      BY <1>1, <1>3
    <3> QED
      BY <2>1, <3>1 DEF MarkIsThere
  <2> QED
    BY <1>2, <2>1, <2>2
<1>9. p \in everRun' /\ everRun \subseteq everRun' /\ upsets <= upsets'
  BY <1>1, <1>2, <1>5 DEF PolledTypes
<1>10. series.locked \/ Sole' =>
          /\ \A k \in Partition : partition[k] \subseteq partition'[k]
          /\ \A k \in Partition : returned'[k] \subseteq partition'[k]
          /\ MarkIsThere(p)' /\ WritesInOrder(p)'
  BY <1>7, <1>8
<1>11. series.locked => \A k \in Partition, q \in Poller : q # p /\ lockedBy[k] = q =>
          lockedBy'[k] = q /\ partition'[k] = partition[k]
  BY <1>4, <1>8
<1> QED
  BY <1>2, <1>6, <1>9, <1>10, <1>11, ProcessKeeps

LEMMA PollFailsKeeps ==
    ASSUME PolledInv, NEW p \in Poller, poller[p].at # "off", PollFails(p),
           UNCHANGED <<series, minute, partition, lockedBy, returned, everRun, upsets>>
    PROVE  PolledInv'
<1>1. PICK mark \in 0..MaxMinute : mark = poller[p].mark
  BY DEF PolledInv, PolledTypes, Process
<1>2. poller' = [poller EXCEPT ![p] = [at |-> "asleep", got |-> {}, mark |-> mark, part |-> 0, read |-> {}]]
  BY <1>1 DEF PollFails, Asleep
<1>3. /\ lockedBy' \in [Partition -> Poller \cup {Nobody}] /\ upsets' \in Nat /\ upsets <= upsets'
      /\ everRun' = everRun \cup {p}
  BY DEF PolledInv, PolledTypes
<1>4. \A k \in Partition, q \in Poller : q # p /\ lockedBy[k] = q => lockedBy'[k] = q
  OBVIOUS
<1>5. PICK at \in {"off", "asleep"} : at = "asleep"
  OBVIOUS
<1>6. poller' = [poller EXCEPT ![p] = [at |-> at, got |-> {}, mark |-> mark, part |-> 0, read |-> {}]]
  BY <1>2, <1>5
<1> QED
  BY <1>1, <1>3, <1>4, <1>6, AsleepKeeps

LEMMA PollerStartsKeeps ==
    ASSUME PolledInv, NEW p \in Poller, PollerStarts(p)
    PROVE  PolledInv'
<1>1. PICK at \in {"off", "asleep"} : at = "asleep"
  OBVIOUS
<1>2. PICK mark \in 0..MaxMinute : mark = 0
  BY PolledAssumption
<1>3. poller' = [poller EXCEPT ![p] = [at |-> at, got |-> {}, mark |-> mark, part |-> 0, read |-> {}]]
  BY <1>1, <1>2 DEF PollerStarts, Asleep
<1>4. /\ UNCHANGED <<series, minute, partition, lockedBy, returned, upsets>> /\ everRun' = everRun \cup {p}
      /\ lockedBy' \in [Partition -> Poller \cup {Nobody}] /\ upsets' \in Nat /\ upsets <= upsets'
  BY DEF PollerStarts, PolledInv, PolledTypes
<1>5. \A k \in Partition, q \in Poller : q # p /\ lockedBy[k] = q => lockedBy'[k] = q
  BY <1>4
<1> QED
  BY <1>2, <1>3, <1>4, <1>5, AsleepKeeps

(* A poll: the partitions before the first one get nothing of it.            *)
LEMMA PollOnceKeeps ==
    ASSUME PolledInv, NEW p \in Poller, PollOnce(p)
    PROVE  PolledInv'
<1>1. PICK c \in Process : c = poller[p]
  BY DEF PolledInv, PolledTypes
<1>2. PICK got \in SUBSET Minute : got = Fresh(p) /\ got # {}
  BY FreshFacts DEF PolledInv, PollOnce
<1>3. PICK part \in Partition :
          part = FirstPart(Filled(got)) /\ part \in Filled(got) /\ \A j \in Filled(got) : part <= j
  <2>1. Filled(got) \in SUBSET Partition /\ Filled(got) # {}
    BY <1>2, PartOfFacts
  <2> QED
    BY <2>1, FirstPartFacts
<1> DEFINE next == [c EXCEPT !.at = "write", !.got = got, !.part = part]
<1>4. poller' = [poller EXCEPT ![p] = next]
  BY <1>1, <1>2, <1>3 DEF PollOnce, PolledInv, PolledTypes
<1>5. /\ next \in Process /\ next.at = "write" /\ next.got = got /\ next.part = part /\ next.mark = c.mark
  <2>1. part \in 0..2
    BY DEF Partition
  <2> QED
    BY <2>1 DEF Process
<1> HIDE DEF next
<1>6. UNCHANGED <<series, minute, partition, lockedBy, returned, everRun, upsets>> /\ p \in everRun
  BY DEF PollOnce, PolledInv, PolledTypes
<1>7. poller'[p] = next /\ poller' \in [Poller -> Process] /\ \A q \in Poller : q # p => poller'[q] = poller[q]
  BY <1>4, <1>5 DEF PolledInv, PolledTypes
<1>8. PolledTypes' /\ upsets <= upsets'
  BY <1>2, <1>5, <1>6, <1>7 DEF PolledInv, PolledTypes
<1>9. WritesInOrder(p)'
  <2>1. \A rows, k : PartOf(k, rows)' = PartOf(k, rows) /\ Filled(rows)' = Filled(rows)
    BY <1>6 DEF PartOf, Filled
  <2>2. \A j \in Partition : j < part => PartOf(j, got) = {}
    <3> SUFFICES ASSUME NEW j \in Partition, j < part PROVE j \notin Filled(got)
      BY DEF Filled
    <3> QED
      BY <1>3 DEF Partition
  <2> QED
    BY <1>2, <1>3, <1>5, <1>7, <2>1, <2>2 DEF WritesInOrder
<1>10. series.locked \/ Sole' => MarkIsThere(p)' /\ \A k \in Partition : returned'[k] \subseteq partition'[k]
  BY <1>1, <1>5, <1>6, <1>7 DEF PolledInv, PolledKept, MarkIsThere, Sole
<1> QED
  BY <1>4, <1>6, <1>8, <1>9, <1>10, ProcessKeeps

(* A process reads the partition it is about to merge into.                  *)
LEMMA ReadPartitionKeeps ==
    ASSUME PolledInv, NEW p \in Poller, ReadPartition(p)
    PROVE  PolledInv'
<1>1. CASE poller[p].part \in cutShort
  <2>1. /\ poller[p].at # "off" /\ PollFails(p)
        /\ UNCHANGED <<series, minute, partition, lockedBy, returned, everRun, upsets>>
    BY <1>1 DEF ReadPartition
  <2> QED
    BY <2>1, PollFailsKeeps
<1>2. CASE poller[p].part \notin cutShort
  <2>1. PICK c \in Process : c = poller[p]
    BY DEF PolledInv, PolledTypes
  <2>2. /\ c.at = "write" /\ UNCHANGED <<series, minute, partition, returned, everRun, upsets>> /\ p \in everRun
        /\ series.locked => lockedBy[c.part] = Nobody
        /\ lockedBy' = IF series.locked THEN [lockedBy EXCEPT ![c.part] = p] ELSE lockedBy
    BY <1>2, <2>1 DEF ReadPartition, PolledInv, PolledTypes
  <2>3. series.locked \/ Sole => /\ c.part \in Filled(c.got)
                                 /\ \A j \in Partition : j < c.part => PartOf(j, c.got) \subseteq partition[j]
    BY <2>1, <2>2 DEF PolledInv, PolledKept, WritesInOrder
  <2>4. PICK there : there = partition[c.part]
    OBVIOUS
  <2> DEFINE next == [c EXCEPT !.at = "merge", !.read = there]
  <2>5. poller' = [poller EXCEPT ![p] = next]
    BY <1>2, <2>1, <2>4 DEF ReadPartition, PolledInv, PolledTypes
  <2>6. next.at = "merge" /\ next.got = c.got /\ next.part = c.part /\ next.mark = c.mark /\ next.read = there
    BY DEF Process
  <2>7. PolledTypes /\ c.got # {} /\ c.part \in Partition
    BY <2>1, <2>2 DEF PolledInv, PolledTypes
  <2>8. next \in Process
    <3>1. there \in SUBSET Minute
      BY <2>4, <2>7 DEF PolledTypes
    <3> QED
      BY <3>1 DEF Process
  <2> HIDE DEF next
  <2>9. poller'[p] = next /\ poller' \in [Poller -> Process] /\ \A q \in Poller : q # p => poller'[q] = poller[q]
    BY <2>5, <2>7, <2>8 DEF PolledTypes
  <2>10. lockedBy' \in [Partition -> Poller \cup {Nobody}] /\ (series.locked => lockedBy'[c.part] = p)
    BY <2>2, <2>7 DEF PolledTypes
  <2>11. PolledTypes' /\ upsets <= upsets'
    BY <2>2, <2>6, <2>7, <2>9, <2>10 DEF PolledTypes
  <2>12. series.locked \/ Sole' =>
            /\ \A k \in Partition : partition[k] \subseteq partition'[k]
            /\ \A k \in Partition : returned'[k] \subseteq partition'[k]
            /\ MarkIsThere(p)' /\ WritesInOrder(p)'
    <3> SUFFICES ASSUME series.locked \/ Sole'
                 PROVE  /\ \A k \in Partition : returned'[k] \subseteq partition'[k]
                        /\ MarkIsThere(p)' /\ WritesInOrder(p)'
      BY <2>2
    <3>1. series.locked \/ Sole
      BY <2>2 DEF Sole
    <3>2. MarkIsThere(p) /\ \A k \in Partition : returned[k] \subseteq partition[k]
      BY <3>1 DEF PolledInv, PolledKept
    <3>3. MarkIsThere(p)'
      BY <2>1, <2>2, <2>6, <2>9, <3>2 DEF MarkIsThere
    <3>4. \A rows, k : PartOf(k, rows)' = PartOf(k, rows) /\ Filled(rows)' = Filled(rows)
      BY <2>2 DEF PartOf, Filled
    <3>5. WritesInOrder(p)'
      BY <2>2, <2>3, <2>4, <2>6, <2>9, <2>10, <3>1, <3>4 DEF WritesInOrder
    <3> QED
      BY <2>2, <3>2, <3>3, <3>5
  <2>13. series.locked => \A k \in Partition, q \in Poller : q # p /\ lockedBy[k] = q =>
            lockedBy'[k] = q /\ partition'[k] = partition[k]
    BY <2>2, <2>7, PolledAssumption DEF PolledTypes
  <2> QED
    BY <2>2, <2>5, <2>11, <2>12, <2>13, ProcessKeeps
<1> QED
  BY <1>1, <1>2, PollFailsKeeps

(* The merged file has what was there and this poll's part of it; with the   *)
(* last one everything of the poll is there.                                 *)
LEMMA WritePartitionKeeps ==
    ASSUME PolledInv, NEW p \in Poller, WritePartition(p)
    PROVE  PolledInv'
<1>1. PICK c \in Process : c = poller[p]
  BY DEF PolledInv, PolledTypes
<1>2. /\ c.at = "merge" /\ UNCHANGED <<series, minute, everRun, upsets>> /\ p \in everRun
      /\ PolledTypes /\ c.got # {} /\ c.part \in Partition /\ c.got \in SUBSET Minute /\ c.read \in SUBSET Minute
  BY <1>1 DEF WritePartition, PolledInv, PolledTypes, Process
<1>3. PICK k \in Partition : k = c.part
  BY <1>2
<1>4. /\ partition' = [partition EXCEPT ![k] = c.read \cup PartOf(k, c.got)]
      /\ lockedBy' = Unlocked(p)
  BY <1>1, <1>3 DEF WritePartition
<1>5. /\ partition' \in [Partition -> SUBSET Minute]
      /\ partition'[k] = c.read \cup PartOf(k, c.got)
      /\ \A j \in Partition : j # k => partition'[j] = partition[j]
  <2>1. PartOf(k, c.got) \in SUBSET Minute
    BY <1>2, PartOfFacts
  <2> QED
    BY <1>2, <1>4, <2>1 DEF PolledTypes
<1>6. /\ lockedBy' \in [Partition -> Poller \cup {Nobody}]
      /\ \A j \in Partition, q \in Poller : q # p /\ lockedBy[j] = q => lockedBy'[j] = q
  BY <1>2, <1>4 DEF Unlocked, PolledTypes
<1>7. \A rows, j : PartOf(j, rows)' = PartOf(j, rows) /\ Filled(rows)' = Filled(rows)
  BY <1>2 DEF PartOf, Filled
<1>8. ASSUME series.locked \/ Sole'
      PROVE  /\ k \in Filled(c.got)
             /\ \A j \in Partition : partition[j] \subseteq partition'[j]
             /\ \A j \in Partition : j <= k => PartOf(j, c.got) \subseteq partition'[j]
             /\ \A j \in Partition : returned[j] \subseteq partition'[j]
             /\ MarkIsThere(p)
  <2>1. series.locked \/ Sole
    BY <1>2, <1>8 DEF Sole
  <2>2. MarkIsThere(p) /\ WritesInOrder(p) /\ \A j \in Partition : returned[j] \subseteq partition[j]
    BY <2>1 DEF PolledInv, PolledKept
  <2>3. k \in Filled(c.got) /\ c.read = partition[k] /\ \A j \in Partition : j < k => PartOf(j, c.got) \subseteq partition[j]
    BY <1>1, <1>2, <1>3, <2>2 DEF WritesInOrder
  <2>4. \A j \in Partition : partition[j] \subseteq partition'[j]
    BY <1>5, <2>3
  <2>5. \A j \in Partition : j <= k => j < k \/ j = k
    BY DEF Partition
  <2> QED
    BY <1>5, <2>2, <2>3, <2>4, <2>5
<1>9. series.locked => \A j \in Partition, q \in Poller : q # p /\ lockedBy[j] = q =>
          lockedBy'[j] = q /\ partition'[j] = partition[j]
  <2>1. series.locked => lockedBy[k] = p
    BY <1>1, <1>2, <1>3 DEF PolledInv, PolledKept, WritesInOrder
  <2> QED
    BY <1>5, <1>6, <2>1
<1> DEFINE rest == {j \in Filled(c.got) : j > k}
<1>10. CASE rest # {}
  <2>1. PICK part \in Partition : part = FirstPart(rest) /\ part \in rest /\ \A j \in rest : part <= j
    <3>1. rest \in SUBSET Partition
      BY <1>2, PartOfFacts
    <3> HIDE DEF rest
    <3> QED
      BY <1>10, <3>1, FirstPartFacts
  <2> DEFINE next == [c EXCEPT !.at = "write", !.part = part, !.read = {}]
  <2>2. poller' = [poller EXCEPT ![p] = next] /\ returned' = returned
    BY <1>1, <1>3, <1>10, <2>1 DEF WritePartition
  <2>3. next \in Process /\ next.at = "write" /\ next.got = c.got /\ next.part = part /\ next.mark = c.mark
    <3>1. part \in 0..2
      BY DEF Partition
    <3> QED
      BY <3>1 DEF Process
  <2> HIDE DEF next
  <2>4. poller'[p] = next /\ poller' \in [Poller -> Process] /\ \A q \in Poller : q # p => poller'[q] = poller[q]
    BY <1>2, <2>2, <2>3 DEF PolledTypes
  <2>5. PolledTypes' /\ upsets <= upsets'
    BY <1>2, <1>5, <1>6, <2>2, <2>3, <2>4 DEF PolledTypes
  <2>6. series.locked \/ Sole' =>
            /\ \A j \in Partition : partition[j] \subseteq partition'[j]
            /\ \A j \in Partition : returned'[j] \subseteq partition'[j]
            /\ MarkIsThere(p)' /\ WritesInOrder(p)'
    <3> SUFFICES ASSUME series.locked \/ Sole'
                 PROVE  MarkIsThere(p)' /\ WritesInOrder(p)'
      BY <1>8, <2>2
    <3>1. MarkIsThere(p)'
      BY <1>1, <1>8, <2>3, <2>4 DEF MarkIsThere
    <3>2. \A j \in Partition : j < part => PartOf(j, c.got) \subseteq partition'[j]
      <4> SUFFICES ASSUME NEW j \in Partition, j < part PROVE PartOf(j, c.got) \subseteq partition'[j]
        OBVIOUS
      <4>1. CASE j <= k
        BY <1>8, <4>1
      <4>2. CASE ~(j <= k)
        <5>1. j > k /\ ~(part <= j)
          BY <4>2 DEF Partition
        <5>2. j \notin Filled(c.got)
          BY <2>1, <5>1
        <5> QED
          BY <5>2 DEF Filled
      <4> QED
        BY <4>1, <4>2
    <3>3. WritesInOrder(p)'
      BY <1>7, <2>1, <2>3, <2>4, <3>2 DEF WritesInOrder
    <3> QED
      BY <3>1, <3>3
  <2> QED
    BY <1>2, <1>9, <2>2, <2>5, <2>6, ProcessKeeps
<1>11. CASE rest = {}
  <2>1. PICK mark \in 0..MaxMinute : /\ mark = IF series.marked THEN NewestOf(c.got) ELSE 0
                                     /\ mark = 0 \/ mark \in c.got
    <3>1. NewestOf(c.got) \in c.got /\ NewestOf(c.got) \in 0..MaxMinute
      BY <1>2, NewestFacts DEF Minute
    <3> QED
      BY <3>1, PolledAssumption
  <2> DEFINE next == Asleep(mark)
  <2>2. /\ poller' = [poller EXCEPT ![p] = next]
        /\ returned' = [j \in Partition |-> returned[j] \cup PartOf(j, c.got)]
    BY <1>1, <1>3, <1>11, <2>1 DEF WritePartition
  <2>3. next \in Process /\ next.at = "asleep" /\ next.mark = mark
    BY DEF Process, Asleep
  <2> HIDE DEF next
  <2>4. poller'[p] = next /\ poller' \in [Poller -> Process] /\ \A q \in Poller : q # p => poller'[q] = poller[q]
    BY <1>2, <2>2, <2>3 DEF PolledTypes
  <2>5. returned' \in [Partition -> SUBSET Minute]
    BY <1>2, <2>2, PartOfFacts DEF PolledTypes
  <2>6. PolledTypes' /\ upsets <= upsets'
    BY <1>2, <1>5, <1>6, <2>3, <2>4, <2>5 DEF PolledTypes
  <2>7. series.locked \/ Sole' =>
            /\ \A j \in Partition : partition[j] \subseteq partition'[j]
            /\ \A j \in Partition : returned'[j] \subseteq partition'[j]
            /\ MarkIsThere(p)' /\ WritesInOrder(p)'
    <3> SUFFICES ASSUME series.locked \/ Sole'
                 PROVE  /\ \A j \in Partition : returned'[j] \subseteq partition'[j]
                        /\ MarkIsThere(p)' /\ WritesInOrder(p)'
      BY <1>8
    <3>1. \A j \in Partition : PartOf(j, c.got) \subseteq partition'[j]
      <4> SUFFICES ASSUME NEW j \in Partition PROVE PartOf(j, c.got) \subseteq partition'[j]
        OBVIOUS
      <4>1. CASE j <= k
        BY <1>8, <4>1
      <4>2. CASE ~(j <= k)
        <5>1. j > k
          BY <4>2 DEF Partition
        <5>2. j \notin Filled(c.got)
          BY <1>11, <5>1
        <5> QED
          BY <5>2 DEF Filled
      <4> QED
        BY <4>1, <4>2
    <3>2. MarkIsThere(p)'
      <4>1. mark \in c.got => \E j \in Partition : mark \in PartOf(j, c.got)
        BY <1>2, PartOfFacts
      <4> QED
        BY <2>1, <2>3, <2>4, <3>1, <4>1 DEF MarkIsThere
    <3>3. WritesInOrder(p)'
      BY <2>3, <2>4 DEF WritesInOrder
    <3> QED
      BY <1>8, <2>2, <3>1, <3>2, <3>3
  <2> QED
    BY <1>2, <1>9, <2>2, <2>6, <2>7, ProcessKeeps
<1> QED
  BY <1>10, <1>11

(* A process that fails or dies in the middle of a poll.                     *)
LEMMA UpsetsKeep ==
    ASSUME PolledInv, NEW p \in Poller, WriteFails(p) \/ PollerStops(p)
    PROVE  PolledInv'
<1>1. PICK mark \in 0..MaxMinute : mark = poller[p].mark
  BY DEF PolledInv, PolledTypes, Process
<1>2. PICK none \in 0..MaxMinute : none = 0
  BY PolledAssumption
<1>3. CASE WriteFails(p)
  <2>1. PICK at \in {"off", "asleep"} : at = "asleep"
    OBVIOUS
  <2>2. poller' = [poller EXCEPT ![p] = [at |-> at, got |-> {}, mark |-> mark, part |-> 0, read |-> {}]]
    BY <1>1, <1>3, <2>1 DEF WriteFails, PollFails, Asleep
  <2>3. poller[p].at # "off" /\ Interrupted(p)
    BY <1>3 DEF WriteFails
  <2> QED
    BY <1>1, <2>2, <2>3, StoppedKeeps
<1>4. CASE PollerStops(p)
  <2>1. PICK at \in {"off", "asleep"} : at = "off"
    OBVIOUS
  <2>2. poller' = [poller EXCEPT ![p] = [at |-> at, got |-> {}, mark |-> none, part |-> 0, read |-> {}]]
    BY <1>2, <1>4, <2>1 DEF PollerStops, Off
  <2>3. poller[p].at # "off" /\ Interrupted(p)
    BY <1>4 DEF PollerStops
  <2> QED
    BY <1>2, <2>2, <2>3, StoppedKeeps
<1> QED
  BY <1>3, <1>4

(* Every step keeps the invariant.                                           *)
LEMMA PolledStep == PolledInv /\ [PolledNext]_polledVars => PolledInv'
<1> SUFFICES ASSUME PolledInv, [PolledNext]_polledVars PROVE PolledInv'
  OBVIOUS
<1>1. ASSUME UNCHANGED <<series, poller, partition, cutShort, lockedBy, returned, everRun, upsets>>, minute' \in Minute
      PROVE  PolledInv'
  <2>1. \A rows, k : PartOf(k, rows)' = PartOf(k, rows) /\ Filled(rows)' = Filled(rows)
    BY <1>1 DEF PartOf, Filled
  <2>2. \A p \in Poller : (WritesInOrder(p) => WritesInOrder(p)') /\ (MarkIsThere(p) => MarkIsThere(p)')
    BY <1>1, <2>1 DEF WritesInOrder, MarkIsThere
  <2>3. PolledTypes' /\ (Sole' => Sole)
    BY <1>1 DEF PolledInv, PolledTypes, Sole
  <2>4. PolledKept'
    BY <1>1, <2>2, <2>3 DEF PolledInv, PolledKept
  <2> QED
    BY <2>3, <2>4 DEF PolledInv
<1>2. CASE NewReading
  BY <1>1, <1>2, PolledAssumption DEF NewReading, PolledInv, PolledTypes, Minute
<1>3. CASE UNCHANGED polledVars
  BY <1>1, <1>3 DEF polledVars, PolledInv, PolledTypes
<1>4. ASSUME NEW p \in Poller, LockTimesOut(p)
      PROVE  PolledInv'
  <2>1. /\ poller[p].at # "off" /\ PollFails(p)
        /\ UNCHANGED <<series, minute, partition, lockedBy, returned, everRun, upsets>>
    BY <1>4 DEF LockTimesOut
  <2> QED
    BY <2>1, PollFailsKeeps
<1> QED
  BY <1>2, <1>3, <1>4, PollerStartsKeeps, PollOnceKeeps, ReadPartitionKeeps, WritePartitionKeeps, UpsetsKeep
     DEF PolledNext

LEMMA PolledInitInv == PolledInit => PolledInv
<1> SUFFICES ASSUME PolledInit PROVE PolledInv
  OBVIOUS
<1>1. Off \in Process /\ Off.at = "off" /\ Off.mark = 0
  BY PolledAssumption DEF Off, Process
<1>2. \A p \in Poller : poller[p] = Off
  BY DEF PolledInit
<1>3. PolledTypes
  BY <1>1, <1>2, PolledAssumption, FS_EmptySet DEF PolledInit, PolledTypes, Minute
<1>4. PolledKept
  BY <1>1, <1>2 DEF PolledInit, PolledKept, WritesInOrder, MarkIsThere
<1> QED
  BY <1>3, <1>4 DEF PolledInv

(* The collectors' merges (update_partition_parquet and its callers): what a *)
(* poll returned as written stays, and so does the reading at a mark,        *)
(* for any number of processes and readings under the partition's lock, and  *)
(* without it as long as one process writes the series and none is cut short.*)
THEOREM ReadingsAlwaysKept == PolledSpec => []ReadingsAreKept
<1>1. PolledInv => ReadingsAreKept
  <2> SUFFICES ASSUME PolledInv, series.locked \/ (Cardinality(everRun) = 1 /\ upsets = 0)
               PROVE  /\ \A k \in Partition : returned[k] \subseteq partition[k]
                      /\ \A p \in Poller : poller[p].mark # 0 =>
                            \E k \in Partition : poller[p].mark \in partition[k]
    BY DEF ReadingsAreKept
  <2>1. Cardinality(everRun) = 1 => \E p \in Poller : everRun \subseteq {p}
    <3>1. IsFiniteSet(everRun) /\ everRun \subseteq Poller
      BY DEF PolledInv, PolledTypes
    <3> SUFFICES ASSUME Cardinality(everRun) = 1
                 PROVE  \E p \in Poller : everRun \subseteq {p}
      OBVIOUS
    <3>2. PICK p : everRun = {p}
      BY <3>1, FS_Singleton
    <3> QED
      BY <3>1, <3>2
  <2>2. PolledKept /\ (series.locked \/ Sole)
    BY <2>1 DEF PolledInv, Sole
  <2> QED
    BY <2>2 DEF PolledKept, MarkIsThere
<1> QED
  BY <1>1, PolledInitInv, PolledStep, PTL DEF PolledSpec

-----------------------------------------------------------------------------
(* The month of the archive.                                                 *)

Content ==
    {Absent} \cup [zip : Version] \cup [zip : Version, at : Nat]
             \cup [source : Version, at : Nat, output : Version] \cup [silver : Version]

Rotation == [stage : {"idle", "copy", "prune"}, entries : [File -> Content], left : SUBSET File]

ArchTypes ==
    /\ published \in [Stream -> Version]
    /\ verified \in [Stream -> SUBSET Version]
    /\ store \in [File -> Content] /\ backup \in [File -> Content]
    /\ rotation \in Rotation
    /\ daily \in [GoldDay -> {Absent} \cup [sources : [Stream -> Content], at : Nat]]
    /\ now \in Nat
    /\ fetching # Absent => fetching.stream \in Stream /\ fetching.version \in Version
    /\ silvering # Absent => silvering.stream \in Stream /\ silvering.source \in Version

(* Every version in use is one that was verified, and every such is kept.    *)
VersionsAreKept ==
    \A s \in Stream :
        /\ OnDisk(ZipFile(s)) => store[ZipFile(s)] \in [zip : verified[s]]
        /\ OnDisk(Silver(s)) => store[Silver(s)] \in [silver : verified[s]]
        /\ \A v \in verified[s] : Kept(s, v)

GoldIsVerified ==
    /\ \A d \in GoldDay : daily[d] # Absent =>
          \A s \in Stream : daily[d].sources[s].silver \in verified[s]
    /\ continuous # Absent => \A d \in GoldDay, s \in Stream : continuous[d].sources[s].silver \in verified[s]

(* A ZIP that the rotation has not unlinked yet is the one that it hashed.   *)
RotationIsCurrent ==
    /\ rotation.stage = "copy" => \A s \in Stream :
          OnDisk(ZipFile(s)) /\ store[ZipFile(s)] = rotation.entries[ZipFile(s)]
    /\ rotation.stage = "prune" =>
          /\ rotation.left # {}
          /\ \A f \in File : backup[f] = rotation.entries[f]
          /\ \A s \in Stream : ZipFile(s) \in rotation.left => store[ZipFile(s)] = rotation.entries[ZipFile(s)]

(* Until a source is unlinked for the first time, what was made of a ZIP and *)
(* says something of it belongs to it, and a complete month does not change. *)
Belongs(disk, s) ==
    /\ disk[ZipNote(s)] # Absent => disk[ZipFile(s)] # Absent /\ disk[ZipNote(s)].zip = disk[ZipFile(s)].zip
    /\ disk[Silver(s)] # Absent => disk[ZipFile(s)] # Absent /\ disk[Silver(s)].silver = disk[ZipFile(s)].zip
    /\ disk[SilverNote(s)] # Absent =>
          /\ disk[Silver(s)] # Absent
          /\ disk[SilverNote(s)].source = disk[ZipFile(s)].zip
          /\ disk[SilverNote(s)].output = disk[ZipFile(s)].zip

NeverPruned ==
    /\ rotation.stage # "prune"
    /\ rotation.stage = "copy" => rotation.entries = store /\ Complete
    /\ \A s \in Stream : Belongs(store, s)
    /\ fetching # Absent =>
          /\ ~OnDisk(ZipNote(fetching.stream)) /\ OnDisk(ZipFile(fetching.stream))
          /\ fetching.version = store[ZipFile(fetching.stream)].zip
    /\ silvering # Absent =>
          /\ ~OnDisk(SilverNote(silvering.stream)) /\ OnDisk(Silver(silvering.stream))
          /\ silvering.source = store[ZipFile(silvering.stream)].zip

(* From then on the backup is complete, and never written again.             *)
Backed ==
    /\ \A f \in File : backup[f] # Absent
    /\ \A s \in Stream : Belongs(backup, s)

ArchInv ==
    /\ ArchTypes
    /\ VersionsAreKept
    /\ GoldIsVerified
    /\ RotationIsCurrent
    /\ NeverPruned \/ Backed

-----------------------------------------------------------------------------
(* Files.                                                                    *)
LEMMA FileFacts ==
    /\ \A s \in Stream : /\ ZipFile(s) \in File /\ ZipNote(s) \in File
                         /\ SilverNote(s) \in File /\ Silver(s) \in File
    /\ \A s, t : /\ ZipFile(s) # ZipNote(t) /\ ZipFile(s) # SilverNote(t) /\ ZipFile(s) # Silver(t)
                 /\ ZipNote(s) # SilverNote(t) /\ ZipNote(s) # Silver(t) /\ SilverNote(s) # Silver(t)
                 /\ ZipFile(s) = ZipFile(t) => s = t
                 /\ ZipNote(s) = ZipNote(t) => s = t
                 /\ SilverNote(s) = SilverNote(t) => s = t
                 /\ Silver(s) = Silver(t) => s = t
  BY DEF File, ZipFile, ZipNote, SilverNote, Silver

(* The order of the paths has a first file.                                  *)
LEMMA FirstOfIsIn ==
    ASSUME NEW files \in SUBSET File, files # {}
    PROVE  FirstOf(files) \in files
<1> DEFINE rank(f) == IF f[1] <= 2 THEN 2 * f[2] + f[1] ELSE 2 * NStreams + 2 * f[2] + f[1]
           w == [f \in files |-> 4 * NStreams + 4 - rank(f)]
<1>1. \A f \in files : f[1] \in 1..4 /\ f[2] \in 1..NStreams /\ f = <<f[1], f[2]>>
  BY DEF File, Stream
<1>2. NStreams \in Nat
  BY ArchAssumption
<1>3. IsFiniteSet(files)
  <2>1. IsFiniteSet(1..4) /\ IsFiniteSet(Stream)
    <3>1. 1 \in Int /\ 4 \in Int /\ NStreams \in Int
      BY <1>2
    <3>2. IsFiniteSet(1..4)
      BY <3>1, FS_Interval
    <3>3. IsFiniteSet(1..NStreams)
      BY <3>1, FS_Interval
    <3> QED
      BY <3>2, <3>3 DEF Stream
  <2>2. IsFiniteSet((1..4) \X Stream)
    BY <2>1, FS_Product
  <2> QED
    BY <2>2, FS_Subset DEF File
<1>4. \A f \in files : rank(f) \in Nat /\ rank(f) <= 4 * NStreams + 4
  <2> SUFFICES ASSUME NEW f \in files PROVE rank(f) \in Nat /\ rank(f) <= 4 * NStreams + 4
    OBVIOUS
  <2> QED
    BY <1>1, <1>2
<1>5. w \in [files -> Nat]
  <2> HIDE DEF rank
  <2>1. \A f \in files : 4 * NStreams + 4 - rank(f) \in Nat
    BY <1>2, <1>4
  <2> QED
    BY <2>1
<1>6. PICK f \in files : \A g \in files : w[g] <= w[f]
  <2> HIDE DEF w
  <2> QED
    BY <1>3, <1>5, HighestExists
<1>7. ASSUME NEW g \in files, g # f
      PROVE  PathBefore(f, g)
  <2>1. rank(f) <= rank(g)
    <3>1. 4 * NStreams + 4 - rank(g) <= 4 * NStreams + 4 - rank(f)
      BY <1>6
    <3> HIDE DEF rank, w
    <3> QED
      BY <1>2, <1>4, <3>1
  <2>2. PICK a \in 1..4, s \in 1..NStreams : f[1] = a /\ f[2] = s
    BY <1>1
  <2>3. PICK b \in 1..4, t \in 1..NStreams : g[1] = b /\ g[2] = t
    BY <1>1
  <2>4. a # b \/ s # t
    BY <1>1, <1>7, <2>2, <2>3
  <2>5. (IF a <= 2 THEN 2 * s + a ELSE 2 * NStreams + 2 * s + a) <= (IF b <= 2 THEN 2 * t + b ELSE 2 * NStreams + 2 * t + b)
    BY <2>1, <2>2, <2>3
  <2> HIDE DEF rank, w
  <2>6. \/ a <= 2 /\ ~(b <= 2)
        \/ ((a <= 2) <=> (b <= 2)) /\ (s < t \/ (s = t /\ a < b))
    BY <1>2, <2>4, <2>5
  <2> QED
    BY <2>2, <2>3, <2>6 DEF PathBefore, Bronze
<1> QED
  BY <1>6, <1>7 DEF FirstOf


(* What the scripts write.                                                   *)
LEMMA ContentFacts ==
    /\ \A v \in Version : /\ [zip |-> v] \in Content /\ [zip |-> v] # Absent
                          /\ [silver |-> v] \in Content /\ [silver |-> v] # Absent
    /\ \A v \in Version, n \in Nat : [zip |-> v, at |-> n] \in Content
    /\ \A v, u \in Version, n \in Nat : [source |-> v, at |-> n, output |-> u] \in Content
    /\ Absent \in Content /\ NoFiles \in [File -> Content]
  BY ArchAssumption DEF Content, NoFiles

(* A ZIP and a part that are in place are of a version that was verified.    *)
LEMMA InUse ==
    ASSUME ArchInv, NEW s \in Stream
    PROVE  /\ OnDisk(ZipFile(s)) => store[ZipFile(s)].zip \in verified[s] /\ store[ZipFile(s)].zip \in Version
           /\ OnDisk(Silver(s)) => store[Silver(s)].silver \in verified[s] /\ store[Silver(s)].silver \in Version
<1>1. verified[s] \subseteq Version
  BY DEF ArchInv, ArchTypes
<1> QED
  BY <1>1 DEF ArchInv, VersionsAreKept

LEMMA ArchInitHolds ==
    ASSUME ArchInit
    PROVE  ArchInv
<1>1. 1 \in Version
  BY ArchAssumption DEF Version
<1>2. \A f \in File : store[f] = Absent /\ backup[f] = Absent
  BY DEF ArchInit, NoFiles
<1>3. rotation = [stage |-> "idle", entries |-> NoFiles, left |-> {}]
  BY DEF ArchInit, Idle
<1>4. rotation \in Rotation
  BY <1>3, ContentFacts DEF Rotation
<1>5. ArchTypes
  BY <1>1, <1>4, ContentFacts DEF ArchInit, ArchTypes
<1>6. VersionsAreKept
  BY <1>2, FileFacts DEF ArchInit, VersionsAreKept, OnDisk
<1>7. GoldIsVerified
  BY DEF ArchInit, GoldIsVerified
<1>8. RotationIsCurrent
  BY <1>3 DEF RotationIsCurrent
<1>9. NeverPruned
  BY <1>2, <1>3, FileFacts DEF ArchInit, NeverPruned, Belongs
<1> QED
  BY <1>5, <1>6, <1>7, <1>8, <1>9 DEF ArchInv

(* The download of a ZIP: what was verified before is in the backup.         *)
LEMMA DownloadKeeps ==
    ASSUME ArchInv, NEW s \in Stream, Download(s)
    PROVE  ArchInv'
<1>1. store \in [File -> Content] /\ backup \in [File -> Content] /\ verified \in [Stream -> SUBSET Version]
  BY DEF ArchInv, ArchTypes
<1>2. published[s] \in Version
  BY DEF ArchInv, ArchTypes
<1>3. /\ store' \in [File -> Content]
      /\ \A f \in File : store'[f] = IF f = ZipFile(s) THEN [zip |-> published[s]] ELSE store[f]
  BY <1>1, <1>2, ContentFacts, FileFacts DEF Download
<1>4. /\ verified' \in [Stream -> SUBSET Version]
      /\ \A t \in Stream : verified'[t] = IF t = s THEN verified[s] \cup {published[s]} ELSE verified[t]
  BY <1>1, <1>2 DEF Download
<1>5. store[ZipFile(s)] = Absent /\ store'[ZipFile(s)] = [zip |-> published[s]] /\ store'[ZipFile(s)] # Absent
  BY <1>2, <1>3, FileFacts, ContentFacts DEF Download, OnDisk
<1>6. \A t \in Stream : /\ store'[ZipNote(t)] = store[ZipNote(t)] /\ store'[Silver(t)] = store[Silver(t)]
                        /\ store'[SilverNote(t)] = store[SilverNote(t)]
                        /\ t # s => store'[ZipFile(t)] = store[ZipFile(t)]
  BY <1>3, FileFacts
<1>7. fetching' = [stream |-> s, version |-> published[s]]
  BY DEF Download
<1>8. UNCHANGED <<published, backup, daily, continuous, silvering, rotation, now>>
  BY DEF Download
<1>9. ArchTypes'
  <2>1. (fetching # Absent => fetching.stream \in Stream /\ fetching.version \in Version)'
    BY <1>2, <1>7
  <2> QED
    BY <1>3, <1>4, <1>8, <2>1 DEF ArchInv, ArchTypes
<1>10. VersionsAreKept'
  <2> SUFFICES ASSUME NEW t \in Stream
               PROVE  /\ store'[ZipFile(t)] # Absent => store'[ZipFile(t)] \in [zip : verified'[t]]
                      /\ store'[Silver(t)] # Absent => store'[Silver(t)] \in [silver : verified'[t]]
                      /\ \A v \in verified'[t] : Kept(t, v)'
    BY DEF VersionsAreKept, OnDisk
  <2>1. /\ store[ZipFile(t)] # Absent => store[ZipFile(t)] \in [zip : verified[t]]
        /\ store[Silver(t)] # Absent => store[Silver(t)] \in [silver : verified[t]]
        /\ \A v \in verified[t] : Kept(t, v)
    BY DEF ArchInv, VersionsAreKept, OnDisk
  <2>2. CASE t = s
    <3>1. verified'[t] = verified[t] \cup {published[s]}
      BY <1>4, <2>2
    <3>2. store'[ZipFile(t)] \in [zip : verified'[t]]
      BY <1>5, <2>2, <3>1
    <3>3. store'[Silver(t)] # Absent => store'[Silver(t)] \in [silver : verified'[t]]
      BY <1>6, <2>1, <3>1
    <3> PICK new \in Version : new = published[s]
      BY <1>2
    <3>4. Kept(t, new)'
      BY <1>5, <2>2 DEF Kept
    <3>5. \A v \in verified[t] : Kept(t, v)'
      BY <1>5, <1>8, <2>1, <2>2 DEF Kept
    <3> QED
      BY <3>1, <3>2, <3>3, <3>4, <3>5
  <2>3. CASE t # s
    <3>1. verified'[t] = verified[t] /\ store'[ZipFile(t)] = store[ZipFile(t)] /\ store'[Silver(t)] = store[Silver(t)]
      BY <1>4, <1>6, <2>3
    <3> QED
      BY <1>8, <2>1, <3>1 DEF Kept
  <2> QED
    BY <2>2, <2>3
<1>11. GoldIsVerified'
  <2>1. \A t \in Stream : verified[t] \subseteq verified'[t]
    BY <1>4
  <2> QED
    BY <1>8, <2>1 DEF ArchInv, GoldIsVerified
<1>12. RotationIsCurrent'
  <2>1. rotation.stage # "copy"
    BY <1>5 DEF ArchInv, RotationIsCurrent, OnDisk
  <2>2. ASSUME rotation.stage = "prune"
        PROVE  ZipFile(s) \notin rotation.left
    <3>1. Backed /\ \A f \in File : backup[f] = rotation.entries[f]
      BY <2>2 DEF ArchInv, NeverPruned, RotationIsCurrent
    <3>2. rotation.entries[ZipFile(s)] # Absent
      BY <3>1, FileFacts DEF Backed
    <3> QED
      BY <1>5, <2>2, <3>2 DEF ArchInv, RotationIsCurrent
  <2>3. ASSUME rotation.stage = "prune", NEW t \in Stream, ZipFile(t) \in rotation.left
        PROVE  store'[ZipFile(t)] = rotation.entries[ZipFile(t)]
    <3>1. t # s
      BY <2>2, <2>3
    <3> QED
      BY <1>6, <2>3, <3>1 DEF ArchInv, RotationIsCurrent
  <2>4. rotation.stage = "prune" => rotation.left # {} /\ \A f \in File : backup[f] = rotation.entries[f]
    BY DEF ArchInv, RotationIsCurrent
  <2> QED
    BY <1>8, <2>1, <2>3, <2>4 DEF RotationIsCurrent
<1>13. (NeverPruned \/ Backed)'
  <2>1. CASE Backed
    BY <1>8, <2>1 DEF Backed, Belongs
  <2>2. CASE NeverPruned
    <3>1. /\ rotation.stage # "prune" /\ ~Complete
          /\ rotation.stage # "copy"
      BY <1>5, <2>2, FileFacts DEF NeverPruned, Complete, OnDisk
    <3>2. store[ZipNote(s)] = Absent /\ store[Silver(s)] = Absent /\ store[SilverNote(s)] = Absent
      BY <1>5, <2>2 DEF NeverPruned, Belongs
    <3>3. \A t \in Stream : Belongs(store, t)'
      <4> SUFFICES ASSUME NEW t \in Stream PROVE Belongs(store, t)'
        OBVIOUS
      <4>1. CASE t = s
        BY <1>6, <3>2, <4>1 DEF Belongs
      <4>2. CASE t # s
        BY <1>6, <2>2, <4>2 DEF Belongs, NeverPruned
      <4> QED
        BY <4>1, <4>2
    <3>4. (fetching # Absent => /\ ~OnDisk(ZipNote(fetching.stream)) /\ OnDisk(ZipFile(fetching.stream))
                                /\ fetching.version = store[ZipFile(fetching.stream)].zip)'
      BY <1>5, <1>6, <1>7, <3>2 DEF OnDisk
    <3>5. ASSUME silvering # Absent
          PROVE  /\ store'[SilverNote(silvering.stream)] = Absent /\ store'[Silver(silvering.stream)] # Absent
                 /\ silvering.source = store'[ZipFile(silvering.stream)].zip
      <4>1. PICK t \in Stream : t = silvering.stream
        BY <3>5 DEF ArchInv, ArchTypes
      <4>2. /\ store[SilverNote(t)] = Absent /\ store[Silver(t)] # Absent
            /\ silvering.source = store[ZipFile(t)].zip
        BY <2>2, <3>5, <4>1 DEF NeverPruned, OnDisk
      <4>3. t # s
        BY <3>2, <4>2
      <4> QED
        BY <1>6, <4>1, <4>2, <4>3
    <3> QED
      BY <1>8, <3>1, <3>3, <3>4, <3>5 DEF NeverPruned, OnDisk
  <2> QED
    BY <2>1, <2>2 DEF ArchInv
<1> QED
  BY <1>9, <1>10, <1>11, <1>12, <1>13 DEF ArchInv

(* A step that leaves the ZIPs and the copies alone, and makes only parts of *)
(* versions that were verified.                                              *)
LEMMA ZipsStay ==
    ASSUME ArchInv, UNCHANGED <<backup, verified>>,
           \A s \in Stream : /\ store'[ZipFile(s)] = store[ZipFile(s)]
                             /\ store'[Silver(s)] \in {store[Silver(s)]} \cup [silver : verified[s]]
    PROVE  VersionsAreKept' /\ (UNCHANGED rotation => RotationIsCurrent')
<1>1. VersionsAreKept'
  BY DEF ArchInv, VersionsAreKept, OnDisk, Kept
<1>2. ASSUME UNCHANGED rotation PROVE RotationIsCurrent'
  BY <1>2 DEF ArchInv, RotationIsCurrent, OnDisk
<1> QED
  BY <1>1, <1>2

LEMMA ZipManifestKeeps ==
    ASSUME ArchInv, WriteZipManifest
    PROVE  ArchInv'
<1> PICK s \in Stream, v \in Version : s = fetching.stream /\ v = fetching.version
  BY DEF ArchInv, ArchTypes, WriteZipManifest
<1>1. store \in [File -> Content] /\ now \in Nat
  BY DEF ArchInv, ArchTypes
<1>2. /\ store' \in [File -> Content]
      /\ \A f \in File : store'[f] = IF f = ZipNote(s) THEN [zip |-> v, at |-> now] ELSE store[f]
  BY <1>1, ContentFacts, FileFacts DEF WriteZipManifest
<1>3. \A t \in Stream : /\ store'[ZipFile(t)] = store[ZipFile(t)] /\ store'[Silver(t)] = store[Silver(t)]
                        /\ store'[SilverNote(t)] = store[SilverNote(t)]
                        /\ t # s => store'[ZipNote(t)] = store[ZipNote(t)]
  BY <1>2, FileFacts
<1>4. store'[ZipNote(s)].zip = v
  BY <1>2, FileFacts
<1>5. UNCHANGED <<published, backup, daily, continuous, silvering, rotation, verified>> /\ fetching' = Absent /\ now' \in Nat
  BY <1>1 DEF WriteZipManifest
<1>6. ArchTypes'
  BY <1>2, <1>5 DEF ArchInv, ArchTypes
<1>7. VersionsAreKept' /\ RotationIsCurrent'
  BY <1>3, <1>5, ZipsStay
<1>8. GoldIsVerified'
  BY <1>5 DEF ArchInv, GoldIsVerified
<1>9. (NeverPruned \/ Backed)'
  <2>1. CASE Backed
    BY <1>5, <2>1 DEF Backed, Belongs
  <2>2. CASE NeverPruned
    <3>1. store[ZipNote(s)] = Absent /\ store[ZipFile(s)] # Absent /\ v = store[ZipFile(s)].zip
      BY <2>2 DEF NeverPruned, OnDisk, WriteZipManifest
    <3>2. rotation.stage # "prune" /\ rotation.stage # "copy"
      BY <2>2, <3>1, FileFacts DEF NeverPruned, Complete, OnDisk
    <3>3. \A t \in Stream : Belongs(store, t)'
      <4> SUFFICES ASSUME NEW t \in Stream PROVE Belongs(store, t)'
        OBVIOUS
      <4>1. CASE t = s
        BY <1>3, <1>4, <2>2, <3>1, <4>1 DEF Belongs, NeverPruned
      <4>2. CASE t # s
        BY <1>3, <2>2, <4>2 DEF Belongs, NeverPruned
      <4> QED
        BY <4>1, <4>2
    <3>4. ASSUME silvering # Absent
          PROVE  /\ store'[SilverNote(silvering.stream)] = Absent /\ store'[Silver(silvering.stream)] # Absent
                 /\ silvering.source = store'[ZipFile(silvering.stream)].zip
      <4>1. PICK t \in Stream : t = silvering.stream
        BY <3>4 DEF ArchInv, ArchTypes
      <4> QED
        BY <1>3, <2>2, <3>4, <4>1 DEF NeverPruned, OnDisk
    <3> QED
      BY <1>5, <3>2, <3>3, <3>4 DEF NeverPruned, OnDisk
  <2> QED
    BY <2>1, <2>2 DEF ArchInv
<1> QED
  BY <1>6, <1>7, <1>8, <1>9 DEF ArchInv

LEMMA NormalizeKeeps ==
    ASSUME ArchInv, NEW s \in Stream, Normalize(s)
    PROVE  ArchInv'
<1> PICK v \in Version : v = store[ZipFile(s)].zip
  BY InUse DEF Normalize
<1>1. store \in [File -> Content]
  BY DEF ArchInv, ArchTypes
<1>2. /\ store' \in [File -> Content]
      /\ \A f \in File : store'[f] = IF f = Silver(s) THEN [silver |-> v] ELSE store[f]
  BY <1>1, ContentFacts, FileFacts DEF Normalize
<1>3. \A t \in Stream : /\ store'[ZipFile(t)] = store[ZipFile(t)] /\ store'[ZipNote(t)] = store[ZipNote(t)]
                        /\ store'[SilverNote(t)] = store[SilverNote(t)]
                        /\ t # s => store'[Silver(t)] = store[Silver(t)]
  BY <1>2, FileFacts
<1>4. store'[Silver(s)] = [silver |-> v] /\ store'[Silver(s)] # Absent /\ v \in verified[s]
  BY <1>2, FileFacts, ContentFacts, InUse DEF Normalize
<1>5. /\ UNCHANGED <<published, backup, daily, continuous, fetching, rotation, verified, now>>
      /\ silvering' = [stream |-> s, source |-> v]
  BY DEF Normalize
<1>6. ArchTypes'
  <2>1. (silvering # Absent => silvering.stream \in Stream /\ silvering.source \in Version)'
    BY <1>5
  <2> QED
    BY <1>2, <1>5, <2>1 DEF ArchInv, ArchTypes
<1>7. VersionsAreKept' /\ RotationIsCurrent'
  <2>1. \A t \in Stream : store'[Silver(t)] \in {store[Silver(t)]} \cup [silver : verified[t]]
    BY <1>3, <1>4
  <2> QED
    BY <1>3, <1>5, <2>1, ZipsStay
<1>8. GoldIsVerified'
  BY <1>5 DEF ArchInv, GoldIsVerified
<1>9. (NeverPruned \/ Backed)'
  <2>1. CASE Backed
    BY <1>5, <2>1 DEF Backed, Belongs
  <2>2. CASE NeverPruned
    <3>1. store[ZipFile(s)] # Absent /\ store[SilverNote(s)] = Absent
      BY <2>2 DEF NeverPruned, Belongs, OnDisk, Normalize
    <3>2. rotation.stage # "prune" /\ rotation.stage # "copy"
      BY <2>2, <3>1, FileFacts DEF NeverPruned, Complete, OnDisk
    <3>3. \A t \in Stream : Belongs(store, t)'
      <4> SUFFICES ASSUME NEW t \in Stream PROVE Belongs(store, t)'
        OBVIOUS
      <4>1. CASE t = s
        BY <1>3, <1>4, <2>2, <3>1, <4>1 DEF Belongs, NeverPruned
      <4>2. CASE t # s
        BY <1>3, <2>2, <4>2 DEF Belongs, NeverPruned
      <4> QED
        BY <4>1, <4>2
    <3>4. ASSUME fetching # Absent
          PROVE  /\ store'[ZipNote(fetching.stream)] = Absent /\ store'[ZipFile(fetching.stream)] # Absent
                 /\ fetching.version = store'[ZipFile(fetching.stream)].zip
      <4>1. PICK t \in Stream : t = fetching.stream
        BY <3>4 DEF ArchInv, ArchTypes
      <4> QED
        BY <1>3, <2>2, <3>4, <4>1 DEF NeverPruned, OnDisk
    <3>5. /\ store'[SilverNote(s)] = Absent /\ store'[Silver(s)] # Absent /\ v = store'[ZipFile(s)].zip
          /\ silvering'.stream = s /\ silvering'.source = v
      BY <1>3, <1>4, <1>5, <3>1
    <3> QED
      BY <1>5, <3>2, <3>3, <3>4, <3>5 DEF NeverPruned, OnDisk
  <2> QED
    BY <2>1, <2>2 DEF ArchInv
<1> QED
  BY <1>6, <1>7, <1>8, <1>9 DEF ArchInv

LEMMA SilverManifestKeeps ==
    ASSUME ArchInv, WriteSilverManifest
    PROVE  ArchInv'
<1> PICK s \in Stream, v \in Version : s = silvering.stream /\ v = silvering.source
  BY DEF ArchInv, ArchTypes, WriteSilverManifest
<1>1. store \in [File -> Content] /\ now \in Nat
  BY DEF ArchInv, ArchTypes
<1>2. /\ store' \in [File -> Content]
      /\ \A f \in File : f # SilverNote(s) => store'[f] = store[f]
      /\ store[Silver(s)] # Absent => store'[SilverNote(s)] = [source |-> v, at |-> now, output |-> store[Silver(s)].silver]
  <2>1. CASE OnDisk(Silver(s))
    <3> PICK made \in Version : made = store[Silver(s)].silver
      BY <2>1, InUse
    <3>1. store' = [store EXCEPT ![SilverNote(s)] = [source |-> v, at |-> now, output |-> made]]
      BY <2>1 DEF WriteSilverManifest
    <3> QED
      BY <1>1, <3>1, ContentFacts, FileFacts
  <2>2. CASE ~OnDisk(Silver(s))
    BY <1>1, <2>2 DEF WriteSilverManifest, OnDisk
  <2> QED
    BY <2>1, <2>2
<1>3. \A t \in Stream : /\ store'[ZipFile(t)] = store[ZipFile(t)] /\ store'[ZipNote(t)] = store[ZipNote(t)]
                        /\ store'[Silver(t)] = store[Silver(t)]
                        /\ t # s => store'[SilverNote(t)] = store[SilverNote(t)]
  BY <1>2, FileFacts
<1>4. UNCHANGED <<published, backup, daily, continuous, fetching, rotation, verified>> /\ silvering' = Absent /\ now' \in Nat
  BY <1>1 DEF WriteSilverManifest
<1>5. ArchTypes'
  BY <1>2, <1>4 DEF ArchInv, ArchTypes
<1>6. VersionsAreKept' /\ RotationIsCurrent'
  BY <1>3, <1>4, ZipsStay
<1>7. GoldIsVerified'
  BY <1>4 DEF ArchInv, GoldIsVerified
<1>8. (NeverPruned \/ Backed)'
  <2>1. CASE Backed
    BY <1>4, <2>1 DEF Backed, Belongs
  <2>2. CASE NeverPruned
    <3>1. store[SilverNote(s)] = Absent /\ store[Silver(s)] # Absent /\ v = store[ZipFile(s)].zip
      BY <2>2 DEF NeverPruned, OnDisk, WriteSilverManifest
    <3>2. rotation.stage # "prune" /\ rotation.stage # "copy"
      BY <2>2, <3>1, FileFacts DEF NeverPruned, Complete, OnDisk
    <3>3. \A t \in Stream : Belongs(store, t)'
      <4> SUFFICES ASSUME NEW t \in Stream PROVE Belongs(store, t)'
        OBVIOUS
      <4>1. CASE t = s
        <5>1. store'[SilverNote(s)].source = v /\ store'[SilverNote(s)].output = store[Silver(s)].silver
          BY <1>2, <3>1
        <5> QED
          BY <1>3, <2>2, <3>1, <4>1, <5>1 DEF Belongs, NeverPruned
      <4>2. CASE t # s
        BY <1>3, <2>2, <4>2 DEF Belongs, NeverPruned
      <4> QED
        BY <4>1, <4>2
    <3>4. ASSUME fetching # Absent
          PROVE  /\ store'[ZipNote(fetching.stream)] = Absent /\ store'[ZipFile(fetching.stream)] # Absent
                 /\ fetching.version = store'[ZipFile(fetching.stream)].zip
      <4>1. PICK t \in Stream : t = fetching.stream
        BY <3>4 DEF ArchInv, ArchTypes
      <4> QED
        BY <1>3, <2>2, <3>4, <4>1 DEF NeverPruned, OnDisk
    <3> QED
      BY <1>4, <3>2, <3>3, <3>4 DEF NeverPruned, OnDisk
  <2> QED
    BY <2>1, <2>2 DEF ArchInv
<1> QED
  BY <1>5, <1>6, <1>7, <1>8 DEF ArchInv

(* Gold is made of parts that are in place.                                  *)
LEMMA GoldKeeps ==
    ASSUME ArchInv, Finalize \/ \E d \in GoldDay : MaterializeDay(d)
    PROVE  ArchInv'
<1>1. /\ UNCHANGED <<published, store, backup, fetching, silvering, rotation, verified>>
      /\ now \in Nat /\ now' = now + 1
  BY DEF Finalize, MaterializeDay, ArchInv, ArchTypes
<1>2. VersionsAreKept' /\ RotationIsCurrent' /\ (NeverPruned \/ Backed)'
  <2>1. VersionsAreKept'
    BY <1>1 DEF ArchInv, VersionsAreKept, OnDisk, Kept
  <2>2. RotationIsCurrent'
    BY <1>1 DEF ArchInv, RotationIsCurrent, OnDisk
  <2>3. Backed => Backed'
    BY <1>1 DEF Backed, Belongs
  <2>4. NeverPruned => NeverPruned'
    BY <1>1 DEF NeverPruned, Belongs, Complete, OnDisk
  <2> QED
    BY <2>1, <2>2, <2>3, <2>4 DEF ArchInv
<1>3. CASE Finalize
  <2>1. daily' = daily /\ continuous' = daily /\ \A d \in GoldDay : daily[d] # Absent
    BY <1>3 DEF Finalize
  <2>2. GoldIsVerified'
    BY <1>1, <2>1 DEF ArchInv, GoldIsVerified
  <2>3. ArchTypes'
    BY <1>1, <2>1 DEF ArchInv, ArchTypes
  <2> QED
    BY <1>2, <2>2, <2>3 DEF ArchInv
<1>4. ASSUME NEW d \in GoldDay, MaterializeDay(d)
      PROVE  ArchInv'
  <2>1. SilverParts \in [Stream -> Content]
    BY FileFacts DEF SilverParts, ArchInv, ArchTypes
  <2>2. /\ daily' = [daily EXCEPT ![d] = [sources |-> SilverParts, at |-> now]] /\ continuous' = continuous
        /\ \A s \in Stream : store[Silver(s)] # Absent
    BY <1>4 DEF MaterializeDay, OnDisk
  <2>3. daily \in [GoldDay -> {Absent} \cup [sources : [Stream -> Content], at : Nat]]
    BY DEF ArchInv, ArchTypes
  <2>4. /\ daily' \in [GoldDay -> {Absent} \cup [sources : [Stream -> Content], at : Nat]]
        /\ \A e \in GoldDay \ {d} : daily'[e] = daily[e]
        /\ daily'[d].sources = SilverParts
    BY <1>1, <2>1, <2>2, <2>3
  <2>5. \A s \in Stream : SilverParts[s].silver \in verified[s]
    BY <2>2, InUse DEF SilverParts, OnDisk
  <2>6. \A e \in GoldDay : daily'[e] # Absent => \A s \in Stream : daily'[e].sources[s].silver \in verified[s]
    BY <2>4, <2>5 DEF ArchInv, GoldIsVerified
  <2>7. GoldIsVerified'
    BY <1>1, <2>2, <2>6 DEF ArchInv, GoldIsVerified
  <2>8. ArchTypes'
    BY <1>1, <2>4 DEF ArchInv, ArchTypes
  <2> QED
    BY <1>2, <2>7, <2>8 DEF ArchInv
<1> QED
  BY <1>3, <1>4

(* The provider, and a script that is killed.                                *)
LEMMA OthersKeep ==
    ASSUME ArchInv, ScriptKilled \/ \E s \in Stream : Republish(s)
    PROVE  ArchInv'
<1>1. /\ UNCHANGED <<store, backup, daily, continuous, now, verified>>
      /\ fetching' \in {fetching, Absent} /\ silvering' \in {silvering, Absent} /\ rotation' \in {rotation, Idle}
  BY DEF ScriptKilled, Republish
<1>2. published' \in [Stream -> Version]
  <2>1. CASE ScriptKilled
    BY <2>1 DEF ScriptKilled, ArchInv, ArchTypes
  <2>2. ASSUME NEW s \in Stream, Republish(s) PROVE published' \in [Stream -> Version]
    <3>1. published[s] \in 1..MaxVersions /\ published[s] < MaxVersions /\ MaxVersions \in Nat
      BY <2>2, ArchAssumption DEF Republish, ArchInv, ArchTypes, Version
    <3>2. published[s] + 1 \in Version
      BY <3>1 DEF Version
    <3> QED
      BY <2>2, <3>2 DEF Republish, ArchInv, ArchTypes
  <2> QED
    BY <2>1, <2>2
<1>3. Idle \in Rotation /\ Idle.stage = "idle"
  BY ContentFacts DEF Idle, Rotation
<1>4. ArchTypes'
  BY <1>1, <1>2, <1>3 DEF ArchInv, ArchTypes
<1>5. VersionsAreKept'
  BY <1>1 DEF ArchInv, VersionsAreKept, OnDisk, Kept
<1>6. GoldIsVerified'
  BY <1>1 DEF ArchInv, GoldIsVerified
<1>7. RotationIsCurrent'
  BY <1>1, <1>3 DEF ArchInv, RotationIsCurrent, OnDisk
<1>8. CASE Backed
  <2>1. Backed'
    BY <1>1, <1>8 DEF Backed, Belongs
  <2> QED
    BY <1>4, <1>5, <1>6, <1>7, <2>1 DEF ArchInv
<1>9. CASE NeverPruned
  <2>1. NeverPruned'
    BY <1>1, <1>3, <1>9 DEF NeverPruned, Belongs, Complete, OnDisk
  <2> QED
    BY <1>4, <1>5, <1>6, <1>7, <2>1 DEF ArchInv
<1> QED
  BY <1>8, <1>9 DEF ArchInv

-----------------------------------------------------------------------------
(* The rotation.                                                             *)
LEMMA DiscoverKeeps ==
    ASSUME ArchInv, Discover
    PROVE  ArchInv'
<1>1. /\ UNCHANGED <<published, store, backup, daily, continuous, fetching, silvering, now, verified>>
      /\ rotation' = [stage |-> "copy", entries |-> store, left |-> File] /\ Complete
  BY DEF Discover
<1>2. rotation'.stage = "copy" /\ rotation'.entries = store
  BY <1>1
<1>3. ArchTypes'
  <2>1. rotation' \in Rotation
    BY <1>1 DEF ArchInv, ArchTypes, Rotation
  <2> QED
    BY <1>1, <2>1 DEF ArchInv, ArchTypes
<1>4. VersionsAreKept'
  BY <1>1 DEF ArchInv, VersionsAreKept, OnDisk, Kept
<1>5. GoldIsVerified'
  BY <1>1 DEF ArchInv, GoldIsVerified
<1>6. RotationIsCurrent'
  BY <1>1, <1>2, FileFacts DEF RotationIsCurrent, OnDisk, Complete
<1>7. CASE Backed
  <2>1. Backed'
    BY <1>1, <1>7 DEF Backed, Belongs
  <2> QED
    BY <1>3, <1>4, <1>5, <1>6, <2>1 DEF ArchInv
<1>8. CASE NeverPruned
  <2>1. NeverPruned'
    BY <1>1, <1>2, <1>8 DEF NeverPruned, Belongs, Complete, OnDisk
  <2> QED
    BY <1>3, <1>4, <1>5, <1>6, <2>1 DEF ArchInv
<1> QED
  BY <1>7, <1>8 DEF ArchInv

(* A copy only fills a place that is empty.                                  *)
LEMMA CopyKeeps ==
    ASSUME ArchInv, CopyVerified
    PROVE  ArchInv'
<1> DEFINE f == FirstOf(rotation.left)
<1>1. f \in File
  BY FirstOfIsIn DEF CopyVerified, ArchInv, ArchTypes, Rotation
<1>2. UNCHANGED <<published, store, daily, continuous, fetching, silvering, now, verified>> /\ rotation.stage = "copy"
  BY DEF CopyVerified
<1>3. \/ backup[f] = Absent /\ backup' = [backup EXCEPT ![f] = store[f]]
      \/ backup' = backup
  BY DEF CopyVerified
<1>4. rotation' \in {[rotation EXCEPT !.left = @ \ {f}], Idle}
  BY DEF CopyVerified
<1> HIDE DEF f
<1>5. backup' \in [File -> Content] /\ \A g \in File : backup'[g] = backup[g] \/ backup[g] = Absent
  BY <1>1, <1>3 DEF ArchInv, ArchTypes
<1>6. /\ rotation' \in Rotation
      /\ rotation'.stage = "idle" \/ (rotation'.stage = "copy" /\ rotation'.entries = rotation.entries)
  BY <1>2, <1>4, ContentFacts DEF Idle, Rotation, ArchInv, ArchTypes
<1>7. ArchTypes'
  BY <1>2, <1>5, <1>6 DEF ArchInv, ArchTypes
<1>8. VersionsAreKept'
  <2>1. ASSUME NEW s \in Stream, NEW v \in verified[s], Kept(s, v)
        PROVE  Kept(s, v)'
    BY <1>2, <1>5, <2>1, FileFacts DEF Kept
  <2> QED
    BY <1>2, <2>1 DEF ArchInv, VersionsAreKept, OnDisk
<1>9. GoldIsVerified'
  BY <1>2 DEF ArchInv, GoldIsVerified
<1>10. RotationIsCurrent'
  BY <1>2, <1>6 DEF ArchInv, RotationIsCurrent, OnDisk
<1>11. CASE Backed
  <2>1. Backed'
    <3>1. \A g \in File : backup'[g] = backup[g]
      BY <1>5, <1>11 DEF Backed
    <3> QED
      BY <1>11, <3>1, FileFacts DEF Backed, Belongs
  <2> QED
    BY <1>7, <1>8, <1>9, <1>10, <2>1 DEF ArchInv
<1>12. CASE NeverPruned
  <2>1. NeverPruned'
    BY <1>2, <1>6, <1>12 DEF NeverPruned, Belongs, Complete, OnDisk
  <2> QED
    BY <1>7, <1>8, <1>9, <1>10, <2>1 DEF ArchInv
<1> QED
  BY <1>11, <1>12 DEF ArchInv

(* Copies that are all as hashed are a complete month.                       *)
LEMMA VerifyKeeps ==
    ASSUME ArchInv, VerifyBackup
    PROVE  ArchInv'
<1>1. UNCHANGED <<published, store, backup, daily, continuous, fetching, silvering, now, verified>> /\ rotation.stage = "copy"
  BY DEF VerifyBackup
<1>2. \/ rotation' = Idle
      \/ Qualified /\ rotation' = [rotation EXCEPT !.stage = "prune", !.left = File]
  BY DEF VerifyBackup
<1>3. /\ rotation' \in Rotation
      /\ \/ rotation'.stage = "idle"
         \/ /\ Qualified /\ rotation'.stage = "prune"
            /\ rotation'.entries = rotation.entries /\ rotation'.left = File
  <2>1. rotation \in [stage : {"idle", "copy", "prune"}, entries : [File -> Content], left : SUBSET File]
    BY DEF ArchInv, ArchTypes, Rotation
  <2>2. Idle \in Rotation /\ Idle.stage = "idle"
    BY ContentFacts DEF Idle, Rotation
  <2>3. CASE Qualified /\ rotation' = [rotation EXCEPT !.stage = "prune", !.left = File]
    BY <2>1, <2>3 DEF Rotation
  <2> QED
    BY <1>2, <2>2, <2>3
<1>4. ArchTypes'
  BY <1>1, <1>3 DEF ArchInv, ArchTypes
<1>5. VersionsAreKept'
  BY <1>1 DEF ArchInv, VersionsAreKept, OnDisk, Kept
<1>6. GoldIsVerified'
  BY <1>1 DEF ArchInv, GoldIsVerified
<1>7. RotationIsCurrent'
  <2>1. File # {}
    <3>1. 1 \in Stream
      BY ArchAssumption DEF Stream
    <3> QED
      BY <3>1, FileFacts
  <2> QED
    BY <1>1, <1>3, <2>1 DEF ArchInv, RotationIsCurrent, Qualified
<1>8. Qualified /\ NeverPruned => Backed'
  <2> SUFFICES ASSUME Qualified, NeverPruned PROVE Backed'
    OBVIOUS
  <2>1. \A g \in File : backup[g] = store[g] /\ store[g] # Absent
    BY <1>1 DEF NeverPruned, Qualified, Complete, OnDisk
  <2> QED
    BY <1>1, <2>1, FileFacts DEF Backed, NeverPruned, Belongs
<1>9. Backed => Backed'
  BY <1>1 DEF Backed, Belongs
<1>10. rotation'.stage = "idle" /\ NeverPruned => NeverPruned'
  BY <1>1 DEF NeverPruned, Belongs, Complete, OnDisk
<1> QED
  BY <1>3, <1>4, <1>5, <1>6, <1>7, <1>8, <1>9, <1>10 DEF ArchInv

(* What is unlinked is in the backup.                                        *)
LEMMA PruneKeeps ==
    ASSUME ArchInv, Prune
    PROVE  ArchInv'
<1> DEFINE f == FirstOf(rotation.left)
<1>1. Backed /\ rotation.left # {} /\ \A g \in File : backup[g] = rotation.entries[g]
  BY DEF Prune, ArchInv, NeverPruned, RotationIsCurrent
<1>2. f \in File /\ f \in rotation.left
  BY <1>1, FirstOfIsIn DEF ArchInv, ArchTypes, Rotation
<1>3. /\ UNCHANGED <<published, backup, daily, continuous, fetching, silvering, now, verified>>
      /\ rotation.stage = "prune" /\ store' = [store EXCEPT ![f] = Absent]
  BY DEF Prune
<1>4. \/ rotation.left # {f} /\ rotation' = [rotation EXCEPT !.left = @ \ {f}]
      \/ rotation' = Idle
  BY DEF Prune
<1> HIDE DEF f
<1>5. /\ store' \in [File -> Content]
      /\ \A g \in File : store'[g] = IF g = f THEN Absent ELSE store[g]
  BY <1>2, <1>3, ContentFacts DEF ArchInv, ArchTypes
<1>6. /\ rotation' \in Rotation
      /\ \/ rotation'.stage = "idle"
         \/ /\ rotation'.stage = "prune" /\ rotation'.entries = rotation.entries
            /\ rotation'.left = rotation.left \ {f} /\ rotation'.left # {}
  BY <1>2, <1>3, <1>4, ContentFacts DEF Idle, Rotation, ArchInv, ArchTypes
<1>7. ArchTypes'
  BY <1>3, <1>5, <1>6 DEF ArchInv, ArchTypes
<1>8. VersionsAreKept'
  <2> SUFFICES ASSUME NEW s \in Stream
               PROVE  /\ store'[ZipFile(s)] # Absent => store'[ZipFile(s)] \in [zip : verified[s]]
                      /\ store'[Silver(s)] # Absent => store'[Silver(s)] \in [silver : verified[s]]
                      /\ \A v \in verified[s] : Kept(s, v)'
    BY <1>3 DEF VersionsAreKept, OnDisk
  <2>1. /\ store'[ZipFile(s)] = store[ZipFile(s)] \/ store'[ZipFile(s)] = Absent
        /\ store'[Silver(s)] = store[Silver(s)] \/ store'[Silver(s)] = Absent
    BY <1>5, FileFacts
  <2>2. store'[ZipFile(s)] = store[ZipFile(s)] \/ store[ZipFile(s)] = backup[ZipFile(s)]
    BY <1>1, <1>2, <1>3, <1>5, FileFacts DEF ArchInv, RotationIsCurrent
  <2>3. \A v \in verified[s] : Kept(s, v)'
    BY <1>3, <2>2 DEF ArchInv, VersionsAreKept, Kept
  <2> QED
    BY <2>1, <2>3 DEF ArchInv, VersionsAreKept, OnDisk
<1>9. GoldIsVerified'
  BY <1>3 DEF ArchInv, GoldIsVerified
<1>10. RotationIsCurrent'
  <2>1. \A s \in Stream : ZipFile(s) \in rotation.left \ {f} => store'[ZipFile(s)] = rotation.entries[ZipFile(s)]
    BY <1>3, <1>5, FileFacts DEF ArchInv, RotationIsCurrent
  <2> QED
    BY <1>1, <1>3, <1>6, <2>1 DEF RotationIsCurrent
<1>11. Backed'
  BY <1>1, <1>3 DEF Backed, Belongs
<1> QED
  BY <1>7, <1>8, <1>9, <1>10, <1>11 DEF ArchInv

-----------------------------------------------------------------------------
LEMMA ArchStepKeeps ==
    ASSUME ArchInv, [ArchNext]_archVars
    PROVE  ArchInv'
<1>1. CASE UNCHANGED archVars
  BY <1>1 DEF archVars, ArchInv, ArchTypes, VersionsAreKept, GoldIsVerified, RotationIsCurrent,
     NeverPruned, Backed, Belongs, Complete, OnDisk, Kept
<1>2. CASE ArchNext
  BY <1>2, DownloadKeeps, ZipManifestKeeps, NormalizeKeeps, SilverManifestKeeps, GoldKeeps, OthersKeep,
     DiscoverKeeps, CopyKeeps, VerifyKeeps, PruneKeeps DEF ArchNext
<1> QED
  BY <1>1, <1>2

LEMMA ArchInvSuffices ==
    ASSUME ArchInv
    PROVE  NothingIsLost
<1>1. \A s \in Stream : \A v \in verified[s] : Kept(s, v)
  BY DEF ArchInv, VersionsAreKept
<1>2. OosReady => \A d \in GoldDay, s \in Stream : Kept(s, continuous[d].sources[s].silver)
  BY <1>1 DEF ArchInv, GoldIsVerified, OosReady, GoldQualified
<1>3. rotation.stage = "prune" => Backed
  BY DEF ArchInv, NeverPruned
<1> QED
  BY <1>1, <1>2, <1>3, FileFacts DEF NothingIsLost, Backed, Belongs

(***************************************************************************)
(* Through kills, second runs and second publications, every version of a   *)
(* ZIP that was ever verified is here or in the backup, and when sources are *)
(* unlinked the copies are one month (rotate_binance_archive_month,          *)
(* download_binance_archive, normalize_binance_trade_archive).               *)
(***************************************************************************)
THEOREM NothingIsEverLost == ArchSpec => []NothingIsLost
<1>1. ArchInit => ArchInv
  BY ArchInitHolds
<1>2. ArchInv /\ [ArchNext]_archVars => ArchInv'
  BY ArchStepKeeps
<1>3. ArchInv => NothingIsLost
  BY ArchInvSuffices
<1> QED
  BY <1>1, <1>2, <1>3, PTL DEF ArchSpec

-----------------------------------------------------------------------------
(* The day of the lake.                                                      *)

LakeJob == [kind : {"idle", "normalize", "gold"}, queued : BOOLEAN, todo : SUBSET Part, pending : Part \cup {0}]

Entries == UNION {[parts -> [files : SUBSET {"part", "note"}, version : Nat]] : parts \in SUBSET Part}

Archiver == [stage : {"idle", "write", "prune", "unlink"}, left : SUBSET (Part \X {"note", "part"})]
Archive == [tar : {"none", "partial", "tar", "evidence"}, entries : Entries]

LakeTypes ==
    /\ sealed \subseteq Part /\ completed \subseteq Part
    /\ clean \in [Part -> BOOLEAN]
    /\ silver \in [Part -> SUBSET {"part", "note"}] /\ written \in [Part -> Nat]
    /\ job \in LakeJob
    /\ archive \in Archive
    /\ archiver \in Archiver

(* The archiver and the maintenance run exclude the jobs, not each other.    *)
JobsAreExclusive == job # NoJob => archiver = Resting /\ ~maintaining

(* What is left of Silver while it is unlinked is in the archive.            *)
UnlinkedIsArchived ==
    /\ archiver.stage \in {"prune", "unlink"} => archive.tar = "evidence"
    /\ archiver.stage = "unlink" => \A p \in Part : silver[p] # {} =>
          p \in DOMAIN archive.entries /\ silver[p] \subseteq archive.entries[p].files

(* Between the report and its catalog parts may go but none may come.        *)
ReportIsCurrent ==
    /\ maintaining => report # NoReport
    /\ maintaining => \A p \in Discovered : p \in DOMAIN report /\ report[p]

LakeInv ==
    /\ LakeTypes
    /\ JobsAreExclusive
    /\ UnlinkedIsArchived
    /\ ReportIsCurrent
    /\ PrunedIsArchived
    /\ CataloguedIsAssessed

-----------------------------------------------------------------------------
(* The order of the parts has a first one.                                   *)
LEMMA LowestIsIn ==
    ASSUME NEW parts \in SUBSET Part, parts # {}
    PROVE  Lowest(parts) \in parts
<1> DEFINE w == [p \in parts |-> NParts - p]
<1>1. NParts \in Nat /\ \A p \in parts : p \in Int /\ p >= 1 /\ p <= NParts
  BY LakeAssumption DEF Part
<1>2. IsFiniteSet(parts)
  <2>1. 1 \in Int /\ NParts \in Int
    BY <1>1
  <2>2. IsFiniteSet(Part)
    BY <2>1, FS_Interval DEF Part
  <2> QED
    BY <2>2, FS_Subset
<1>3. w \in [parts -> Nat]
  <2>1. \A p \in parts : NParts - p \in Nat
    BY <1>1
  <2> QED
    BY <2>1
<1>4. PICK k \in parts : \A j \in parts : w[j] <= w[k]
  <2> HIDE DEF w
  <2> QED
    BY <1>2, <1>3, HighestExists
<1>5. \A j \in parts : k <= j
  <2> SUFFICES ASSUME NEW j \in parts PROVE k <= j
    OBVIOUS
  <2>1. NParts - j <= NParts - k
    BY <1>4
  <2> HIDE DEF w
  <2> QED
    BY <1>1, <2>1
<1> QED
  BY <1>5 DEF Lowest

(* A report is a function of the parts that were found.                      *)
LEMMA ReportFacts ==
    ASSUME LakeTypes
    PROVE  /\ DailyReport # NoReport /\ DOMAIN DailyReport = Discovered
           /\ \A p \in Discovered : DailyReport[p] = Assessed(p)
<1>1. Discovered \in SUBSET Part
  BY DEF Discovered
<1>2. \A p \in Discovered : Assessed(p) \in BOOLEAN
  BY DEF Assessed
<1>3. DailyReport \in [Discovered -> BOOLEAN]
  BY <1>2 DEF DailyReport
<1>4. DailyReport \in UNION {[parts -> BOOLEAN] : parts \in SUBSET Part}
  BY <1>1, <1>3
<1> QED
  BY <1>4, LakeAssumption DEF DailyReport

LEMMA InventoryType ==
    ASSUME LakeTypes
    PROVE  Inventory \in Entries /\ DOMAIN Inventory = Files /\ \A p \in Files : Inventory[p].files = silver[p]
<1>1. Files \in SUBSET Part
  BY DEF Files
<1>2. \A p \in Files : silver[p] \in SUBSET {"part", "note"} /\ written[p] \in Nat
  BY <1>1 DEF LakeTypes
<1>3. Inventory \in [Files -> [files : SUBSET {"part", "note"}, version : Nat]]
  BY <1>2 DEF Inventory
<1> QED
  BY <1>1, <1>3 DEF Entries, Inventory

LEMMA LakeInitInv == LakeInit => LakeInv
<1> SUFFICES ASSUME LakeInit PROVE LakeInv
  OBVIOUS
<1>1. silver \in [Part -> SUBSET {"part", "note"}] /\ written \in [Part -> Nat]
  BY DEF LakeInit
<1>2. Files = {}
  BY DEF LakeInit, Files
<1>3. Inventory \in Entries
  <2>1. Inventory \in [Files -> [files : SUBSET {"part", "note"}, version : Nat]]
    BY <1>2 DEF Inventory
  <2> QED
    BY <1>2, <2>1 DEF Entries
<1>4. NoJob \in LakeJob
  BY DEF NoJob, LakeJob
<1>5. LakeTypes
  BY <1>1, <1>3, <1>4 DEF LakeInit, LakeTypes, Resting, Archiver, Archive
<1>6. archiver.stage = "idle" /\ job = NoJob /\ maintaining = FALSE /\ completed = {} /\ catalog = {}
  BY DEF LakeInit, Resting
<1> QED
  BY <1>5, <1>6 DEF LakeInv, JobsAreExclusive, UnlinkedIsArchived, ReportIsCurrent, PrunedIsArchived, CataloguedIsAssessed

-----------------------------------------------------------------------------
(* Steps that leave the day's files and evidence alone: only the job, the    *)
(* queue and Gold change, and no job runs beside the archiver.               *)
LEMMA JobsKeep ==
    ASSUME LakeInv, job' \in LakeJob, sealed' \in SUBSET Part,
           job' # NoJob => archiver = Resting /\ ~maintaining,
           UNCHANGED <<clean, silver, written, report, catalog, archive, completed, maintaining, archiver>>
    PROVE  LakeInv'
<1>1. LakeTypes'
  BY DEF LakeInv, LakeTypes
<1>2. JobsAreExclusive'
  BY DEF JobsAreExclusive, Resting, NoJob
<1>3. UnlinkedIsArchived'
  BY DEF LakeInv, UnlinkedIsArchived
<1>4. ReportIsCurrent'
  BY DEF LakeInv, ReportIsCurrent, Discovered
<1>5. PrunedIsArchived' /\ CataloguedIsAssessed'
  BY DEF LakeInv, PrunedIsArchived, CataloguedIsAssessed, Whole
<1> QED
  BY <1>1, <1>2, <1>3, <1>4, <1>5 DEF LakeInv

LEMMA QueueKeeps ==
    ASSUME LakeInv,
           \/ \E p \in Part : Seal(p)
           \/ QueueStarts \/ NormalizeStarts \/ NormalizeEnds \/ MaterializeStarts \/ Materialize
    PROVE  LakeInv'
<1>1. job \in LakeJob /\ sealed \in SUBSET Part /\ NoJob \in LakeJob /\ Discovered \in SUBSET Part
  BY DEF LakeInv, LakeTypes, LakeJob, NoJob, Discovered
<1>2. ASSUME NEW kind \in {"normalize", "gold"}, NEW inputs \in SUBSET Part, Starts(kind, inputs)
      PROVE  LakeInv'
  <2>1. job' \in LakeJob /\ archiver = Resting /\ ~maintaining
    BY <1>2 DEF Starts, LakeJob
  <2>2. UNCHANGED <<sealed, clean, silver, written, report, catalog, archive, completed, maintaining, archiver>>
    BY <1>2 DEF Starts, daysVars
  <2> QED
    BY <1>1, <2>1, <2>2, JobsKeep
<1>3. CASE \E p \in Part : Seal(p)
  <2>1. job' = job /\ sealed' \in SUBSET Part
    BY <1>1, <1>3 DEF Seal
  <2>2. UNCHANGED <<clean, silver, written, report, catalog, archive, completed, maintaining, archiver>>
    BY <1>3 DEF Seal, daysVars
  <2> QED
    BY <1>1, <2>1, <2>2, JobsKeep DEF LakeInv, JobsAreExclusive
<1>4. CASE QueueStarts
  <2>1. UNCHANGED <<job, sealed, clean, silver, written, report, catalog, archive, completed, maintaining, archiver>>
    BY <1>4 DEF QueueStarts, daysVars
  <2> QED
    BY <1>1, <2>1, JobsKeep DEF LakeInv, JobsAreExclusive
<1>5. CASE NormalizeEnds \/ Materialize
  <2>1. job' = NoJob
    BY <1>5 DEF NormalizeEnds, Materialize, JobEnds
  <2>2. UNCHANGED <<sealed, clean, silver, written, report, catalog, archive, completed, maintaining, archiver>>
    BY <1>5 DEF NormalizeEnds, Materialize, daysVars
  <2> QED
    BY <1>1, <2>1, <2>2, JobsKeep
<1>6. CASE NormalizeStarts
  BY <1>1, <1>2, <1>6 DEF NormalizeStarts
<1>7. CASE MaterializeStarts
  BY <1>1, <1>2, <1>7 DEF MaterializeStarts
<1> QED
  BY <1>3, <1>4, <1>5, <1>6, <1>7

(* A job that is running has the directory for itself.                       *)
LEMMA JobsAdd ==
    ASSUME LakeInv, job # NoJob, job' \in LakeJob, NEW p \in Part, NEW file \in {"part", "note"},
           silver' = [silver EXCEPT ![p] = @ \cup {file}],
           written' \in [Part -> Nat],
           completed' \in {completed} \cup (IF Whole(p)' THEN {completed \cup {p}} ELSE {}),
           UNCHANGED <<sealed, clean, report, catalog, archive, maintaining, archiver>>
    PROVE  LakeInv'
<1>1. archiver = Resting /\ ~maintaining
  BY DEF LakeInv, JobsAreExclusive
<1>2. /\ silver' \in [Part -> SUBSET {"part", "note"}]
      /\ \A q \in Part : silver[q] \subseteq silver'[q]
  BY DEF LakeInv, LakeTypes
<1>3. LakeTypes'
  BY <1>2 DEF LakeInv, LakeTypes
<1>4. JobsAreExclusive' /\ UnlinkedIsArchived' /\ ReportIsCurrent'
  BY <1>1 DEF JobsAreExclusive, UnlinkedIsArchived, ReportIsCurrent, Resting
<1>5. CataloguedIsAssessed'
  BY DEF LakeInv, CataloguedIsAssessed
<1>6. PrunedIsArchived'
  <2>1. \A q \in Part : Whole(q) => Whole(q)'
    BY <1>2 DEF Whole
  <2> QED
    BY <2>1 DEF LakeInv, LakeTypes, PrunedIsArchived
<1> QED
  BY <1>3, <1>4, <1>5, <1>6 DEF LakeInv

LEMMA NormalizePartKeeps ==
    ASSUME LakeInv, NormalizePart
    PROVE  LakeInv'
<1> DEFINE p == Lowest(job.todo)
<1>1. job.kind = "normalize" /\ job.todo # {} /\ job \in LakeJob /\ job # NoJob
  BY DEF NormalizePart, LakeInv, LakeTypes, NoJob
<1>2. p \in Part /\ p \in job.todo
  BY <1>1, LowestIsIn DEF LakeJob
<1>3. UNCHANGED <<sealed, clean, maintaining, archiver, written, report, catalog, archive, completed>>
  BY DEF NormalizePart
<1>4. \/ silver[p] = {} /\ silver' = [silver EXCEPT ![p] = {"part"}] /\ job' = [job EXCEPT !.pending = p]
      \/ silver' = silver /\ job' = [job EXCEPT !.todo = @ \ {p}]
      \/ silver' = silver /\ job' = NoJob
  BY DEF NormalizePart, JobEnds
<1> HIDE DEF p
<1>5. CASE silver[p] = {} /\ silver' = [silver EXCEPT ![p] = {"part"}] /\ job' = [job EXCEPT !.pending = p]
  <2>1. silver' = [silver EXCEPT ![p] = @ \cup {"part"}]
    BY <1>5
  <2>2. job' \in LakeJob
    BY <1>1, <1>2, <1>5 DEF LakeJob
  <2>3. written' \in [Part -> Nat]
    BY <1>3 DEF LakeInv, LakeTypes
  <2> QED
    BY <1>1, <1>2, <1>3, <2>1, <2>2, <2>3, JobsAdd
<1>6. CASE silver' = silver /\ (job' = [job EXCEPT !.todo = @ \ {p}] \/ job' = NoJob)
  <2>1. [job EXCEPT !.todo = @ \ {p}] \in LakeJob /\ NoJob \in LakeJob
    BY <1>1 DEF LakeJob, NoJob
  <2>2. job' \in LakeJob /\ sealed' \in SUBSET Part
    BY <1>3, <1>6, <2>1 DEF LakeInv, LakeTypes
  <2>3. archiver = Resting /\ ~maintaining
    BY <1>1 DEF LakeInv, JobsAreExclusive
  <2> QED
    BY <1>3, <1>6, <2>2, <2>3, JobsKeep
<1> QED
  BY <1>4, <1>5, <1>6

LEMMA NormalizeManifestKeeps ==
    ASSUME LakeInv, NormalizeManifest
    PROVE  LakeInv'
<1> PICK p \in Part : p = job.pending
  BY DEF NormalizeManifest, LakeInv, LakeTypes, LakeJob
<1>1. job \in LakeJob /\ job # NoJob
  <2>1. job.pending # 0
    BY DEF NormalizeManifest
  <2> QED
    BY <2>1 DEF NoJob, LakeInv, LakeTypes
<1>2. /\ silver' = [silver EXCEPT ![p] = @ \cup {"note"}]
      /\ written' = [written EXCEPT ![p] = @ + 1]
      /\ job' = [job EXCEPT !.pending = 0, !.todo = @ \ {p}]
      /\ completed' = IF "part" \in silver[p] THEN completed \cup {p} ELSE completed
      /\ UNCHANGED <<sealed, clean, report, catalog, archive, maintaining, archiver>>
  BY DEF NormalizeManifest
<1>3. job' \in LakeJob
  <2>1. job \in [kind : {"idle", "normalize", "gold"}, queued : BOOLEAN, todo : SUBSET Part, pending : Part \cup {0}]
    BY <1>1 DEF LakeJob
  <2> QED
    BY <1>2, <2>1 DEF LakeJob
<1>4. written' \in [Part -> Nat]
  BY <1>2 DEF LakeInv, LakeTypes
<1>5. "part" \in silver[p] => Whole(p)'
  <2>1. silver \in [Part -> SUBSET {"part", "note"}]
    BY DEF LakeInv, LakeTypes
  <2> QED
    BY <1>2, <2>1 DEF Whole
<1>6. completed' \in {completed} \cup (IF Whole(p)' THEN {completed \cup {p}} ELSE {})
  BY <1>2, <1>5
<1> QED
  BY <1>1, <1>2, <1>3, <1>4, <1>6, JobsAdd

-----------------------------------------------------------------------------
(* The maintenance run.                                                      *)
LEMMA MaintainKeeps ==
    ASSUME LakeInv, MaintainReport \/ MaintainCatalog
    PROVE  LakeInv'
<1>1. UNCHANGED <<sealed, clean, job, archiver, silver, written, archive, completed>>
  BY DEF MaintainReport, MaintainCatalog
<1>2. LakeTypes' /\ UnlinkedIsArchived' /\ PrunedIsArchived'
  <2>1. LakeTypes'
    BY <1>1 DEF LakeInv, LakeTypes
  <2>2. UnlinkedIsArchived'
    BY <1>1 DEF LakeInv, UnlinkedIsArchived
  <2>3. PrunedIsArchived'
    BY <1>1 DEF LakeInv, PrunedIsArchived, Whole
  <2> QED
    BY <2>1, <2>2, <2>3
<1>3. CASE MaintainReport
  <2>1. /\ job = NoJob /\ report \in {NoReport, DailyReport} /\ report' = DailyReport /\ catalog' = catalog
        /\ maintaining' = (Discovered # {} /\ \A p \in Discovered : DailyReport[p])
    BY <1>3 DEF MaintainReport, SameText
  <2>2. DailyReport # NoReport /\ DOMAIN DailyReport = Discovered
    BY ReportFacts DEF LakeInv
  <2>3. JobsAreExclusive'
    BY <1>1, <2>1 DEF JobsAreExclusive, NoJob
  <2>4. Discovered' = Discovered
    BY <1>1 DEF Discovered
  <2>5. ReportIsCurrent'
    BY <2>1, <2>2, <2>4 DEF ReportIsCurrent
  <2>6. CataloguedIsAssessed'
    BY <2>1, <2>2 DEF LakeInv, CataloguedIsAssessed
  <2> QED
    BY <1>2, <2>3, <2>5, <2>6 DEF LakeInv
<1>4. CASE MaintainCatalog
  <2>1. maintaining /\ ~maintaining' /\ report' = report /\ catalog' \in {catalog, catalog \cup Discovered}
    BY <1>4 DEF MaintainCatalog
  <2>2. JobsAreExclusive'
    BY <1>1, <2>1 DEF LakeInv, JobsAreExclusive, Resting, NoJob
  <2>3. ReportIsCurrent'
    BY <2>1 DEF ReportIsCurrent
  <2>4. CataloguedIsAssessed'
    BY <2>1 DEF LakeInv, ReportIsCurrent, CataloguedIsAssessed
  <2> QED
    BY <1>2, <2>2, <2>3, <2>4 DEF LakeInv
<1> QED
  BY <1>3, <1>4

-----------------------------------------------------------------------------
(* The archiver: until the files are unlinked it only reads Silver.          *)
LEMMA ArchiverKeeps ==
    ASSUME LakeInv, ArchiveStarts \/ ArchiveVerified \/ ArchiveEvidence \/ PruneCheck \/ ArchiveEnds
    PROVE  LakeInv'
<1>1. /\ UNCHANGED <<sealed, clean, job, maintaining, silver, written, report, catalog, completed>>
  BY DEF ArchiveStarts, ArchiveVerified, ArchiveEvidence, PruneCheck, ArchiveEnds, daysVars
<1>2. ReportIsCurrent' /\ CataloguedIsAssessed'
  BY <1>1 DEF LakeInv, ReportIsCurrent, CataloguedIsAssessed, Discovered
<1>3. JobsAreExclusive'
  <2>1. job = NoJob
    BY DEF ArchiveStarts, ArchiveVerified, ArchiveEvidence, PruneCheck, ArchiveEnds, Resting, LakeInv, JobsAreExclusive
  <2> QED
    BY <1>1, <2>1 DEF JobsAreExclusive, NoJob
<1>4. /\ archive \in Archive
      /\ archiver \in Archiver
      /\ Inventory \in Entries
  BY InventoryType DEF LakeInv, LakeTypes
<1>5. ASSUME archive' \in Archive,
             archiver' \in Archiver,
             archive.tar = "evidence" => archive' = archive,
             UnlinkedIsArchived'
      PROVE  LakeInv'
  <2>1. LakeTypes'
    BY <1>1, <1>5 DEF LakeInv, LakeTypes
  <2>2. PrunedIsArchived'
    BY <1>1, <1>5 DEF LakeInv, PrunedIsArchived, Whole
  <2> QED
    BY <1>5, <1>2, <1>3, <2>1, <2>2 DEF LakeInv
<1>6. Resting.stage = "idle" /\ Resting \in Archiver
  BY DEF Resting, Archiver
<1>7. \A s \in {"write", "prune"} :
         /\ [Resting EXCEPT !.stage = s] \in Archiver
         /\ [Resting EXCEPT !.stage = s].stage = s
  BY DEF Resting, Archiver
<1>8. CASE ArchiveStarts
  <2>1. \/ /\ archive.tar = "none" /\ archive' = [tar |-> "partial", entries |-> Inventory]
           /\ archiver' = [Resting EXCEPT !.stage = "write"]
        \/ /\ archive.tar = "evidence" /\ archive' = archive /\ archiver' = [Resting EXCEPT !.stage = "prune"]
    BY <1>8 DEF ArchiveStarts
  <2>2. UnlinkedIsArchived'
    BY <1>7, <2>1 DEF UnlinkedIsArchived
  <2> QED
    BY <1>4, <1>5, <1>7, <2>1, <2>2 DEF Archive
<1>9. CASE ArchiveVerified
  <2>1. /\ archiver.stage = "write" /\ archive.tar = "partial"
        /\ \/ archive' = [archive EXCEPT !.tar = "tar"] /\ archiver' = archiver
           \/ archiver' = Resting /\ archive' = archive
    BY <1>9 DEF ArchiveVerified
  <2>2. UnlinkedIsArchived'
    BY <1>6, <2>1 DEF UnlinkedIsArchived
  <2> QED
    BY <1>4, <1>5, <1>6, <2>1, <2>2 DEF Archive
<1>10. CASE ArchiveEvidence
  <2>1. /\ archive.tar = "tar" /\ archive' = [archive EXCEPT !.tar = "evidence"]
        /\ archiver' \in {Resting, [Resting EXCEPT !.stage = "prune"]}
    BY <1>10 DEF ArchiveEvidence
  <2>2. archive'.tar = "evidence"
    BY <1>4, <2>1
  <2>3. UnlinkedIsArchived'
    BY <1>6, <1>7, <2>1, <2>2 DEF UnlinkedIsArchived
  <2> QED
    BY <1>4, <1>5, <1>6, <1>7, <2>1, <2>3 DEF Archive
<1>11. CASE PruneCheck
  <2>1. archiver.stage = "prune" /\ archive' = archive /\ archive.tar = "evidence"
    BY <1>11 DEF PruneCheck, daysVars, LakeInv, UnlinkedIsArchived
  <2>2. CASE \A p \in Files : SameAsArchived(p)
    <3> DEFINE files == {f \in Part \X {"note", "part"} : f[2] \in silver[f[1]]}
    <3>1. archiver' = [stage |-> "unlink", left |-> files]
      BY <1>11, <2>2 DEF PruneCheck
    <3>2. files \in SUBSET (Part \X {"note", "part"})
      OBVIOUS
    <3> HIDE DEF files
    <3>3. archiver' \in Archiver
      BY <3>1, <3>2 DEF Archiver
    <3>4. \A p \in Files : p \in DOMAIN archive.entries /\ silver[p] \subseteq archive.entries[p].files
      BY <2>2, InventoryType DEF SameAsArchived, LakeInv
    <3>5. UnlinkedIsArchived'
      BY <1>1, <2>1, <3>4 DEF UnlinkedIsArchived, Files
    <3> QED
      BY <1>4, <1>5, <2>1, <3>3, <3>5
  <2>3. CASE ~\A p \in Files : SameAsArchived(p)
    <3>1. archiver' = Resting
      BY <1>11, <2>3 DEF PruneCheck
    <3>2. UnlinkedIsArchived'
      BY <1>6, <3>1 DEF UnlinkedIsArchived
    <3> QED
      BY <1>4, <1>5, <1>6, <2>1, <3>1, <3>2
  <2> QED
    BY <2>2, <2>3
<1>12. CASE ArchiveEnds
  <2>1. archiver' = Resting /\ archive' = archive
    BY <1>12 DEF ArchiveEnds, daysVars
  <2>2. UnlinkedIsArchived'
    BY <1>6, <2>1 DEF UnlinkedIsArchived
  <2> QED
    BY <1>4, <1>5, <1>6, <2>1, <2>2
<1> QED
  BY <1>8, <1>9, <1>10, <1>11, <1>12

(* What is unlinked of a part that was complete is in the archive.           *)
LEMMA UnlinkKeeps ==
    ASSUME LakeInv, Unlink
    PROVE  LakeInv'
<1> DEFINE p == Lowest({f[1] : f \in archiver.left})
           file == IF <<p, "note">> \in archiver.left THEN "note" ELSE "part"
<1>1. /\ archiver.stage = "unlink" /\ archive.tar = "evidence"
      /\ archiver \in Archiver
  BY DEF Unlink, LakeInv, UnlinkedIsArchived, LakeTypes
<1>2. p \in Part
  <2> DEFINE parts == {f[1] : f \in archiver.left}
  <2>1. parts \in SUBSET Part /\ parts # {}
    BY <1>1 DEF Unlink, Archiver
  <2>2. Lowest(parts) \in parts
    <3> HIDE DEF parts
    <3> QED
      BY <2>1, LowestIsIn
  <2> QED
    BY <2>1, <2>2
<1>3. /\ silver' = [silver EXCEPT ![p] = @ \ {file}]
      /\ archiver' = [archiver EXCEPT !.left = @ \ {<<p, file>>}]
      /\ UNCHANGED <<sealed, clean, job, maintaining, written, report, catalog, archive, completed>>
  BY DEF Unlink
<1> HIDE DEF p, file
<1>4. /\ silver' \in [Part -> SUBSET {"part", "note"}]
      /\ \A q \in Part : silver'[q] \subseteq silver[q] /\ (q # p => silver'[q] = silver[q])
  BY <1>2, <1>3 DEF LakeInv, LakeTypes
<1>5. /\ archiver' \in Archiver
      /\ archiver'.stage = "unlink"
  BY <1>1, <1>3 DEF Archiver
<1>6. LakeTypes'
  BY <1>3, <1>4, <1>5 DEF LakeInv, LakeTypes
<1>7. JobsAreExclusive'
  <2>1. job = NoJob
    BY <1>1 DEF LakeInv, JobsAreExclusive, Resting
  <2> QED
    BY <1>3, <2>1 DEF JobsAreExclusive, NoJob
<1>8. UnlinkedIsArchived'
  BY <1>1, <1>3, <1>4, <1>5 DEF LakeInv, UnlinkedIsArchived
<1>9. ReportIsCurrent' /\ CataloguedIsAssessed'
  <2>1. Discovered' \subseteq Discovered
    BY <1>4 DEF Discovered
  <2>2. ReportIsCurrent'
    BY <1>3, <2>1 DEF LakeInv, ReportIsCurrent
  <2> QED
    BY <1>3, <2>2 DEF LakeInv, CataloguedIsAssessed
<1>10. PrunedIsArchived'
  <2> SUFFICES ASSUME NEW q \in completed
               PROVE  \/ Whole(q)'
                      \/ /\ archive.tar = "evidence" /\ q \in DOMAIN archive.entries
                         /\ archive.entries[q].files = {"part", "note"}
    BY <1>3 DEF PrunedIsArchived
  <2>1. q \in Part
    BY DEF LakeInv, LakeTypes
  <2>2. CASE ~Whole(q)
    BY <2>2 DEF LakeInv, PrunedIsArchived
  <2>3. CASE Whole(q)
    <3>1. silver[q] = {"part", "note"}
      BY <2>3 DEF Whole
    <3>2. q \in DOMAIN archive.entries /\ silver[q] \subseteq archive.entries[q].files
      BY <1>1, <2>1, <3>1 DEF LakeInv, UnlinkedIsArchived
    <3>3. archive.entries \in Entries
      BY DEF LakeInv, LakeTypes, Archive
    <3>4. archive.entries[q].files \subseteq {"part", "note"}
      BY <3>2, <3>3 DEF Entries
    <3> QED
      BY <1>1, <3>1, <3>2, <3>4
  <2> QED
    BY <2>2, <2>3
<1> QED
  BY <1>6, <1>7, <1>8, <1>9, <1>10 DEF LakeInv

-----------------------------------------------------------------------------
LEMMA DiesKeeps ==
    ASSUME LakeInv, Dies
    PROVE  LakeInv'
<1>1. /\ UNCHANGED <<sealed, clean, silver, written, report, catalog, archive, completed>>
      /\ job' \in {job, NoJob} /\ archiver' \in {archiver, Resting}
  BY DEF Dies, JobEnds
<1>10. maintaining' => maintaining
  BY DEF Dies
<1>2. LakeTypes'
  <2>1. NoJob \in LakeJob /\ Resting \in Archiver
    BY DEF NoJob, LakeJob, Resting, Archiver
  <2> QED
    BY <1>1, <2>1 DEF LakeInv, LakeTypes
<1>3. JobsAreExclusive'
  BY <1>1, <1>10 DEF LakeInv, JobsAreExclusive, NoJob, Resting
<1>4. UnlinkedIsArchived'
  BY <1>1 DEF LakeInv, UnlinkedIsArchived, Resting
<1>5. ReportIsCurrent'
  BY <1>1, <1>10 DEF LakeInv, ReportIsCurrent, Discovered
<1>6. PrunedIsArchived' /\ CataloguedIsAssessed'
  BY <1>1 DEF LakeInv, PrunedIsArchived, CataloguedIsAssessed, Whole
<1> QED
  BY <1>2, <1>3, <1>4, <1>5, <1>6 DEF LakeInv

LEMMA LakeStep == LakeInv /\ [LakeNext]_lakeVars => LakeInv'
<1> SUFFICES ASSUME LakeInv, [LakeNext]_lakeVars PROVE LakeInv'
  OBVIOUS
<1>1. CASE UNCHANGED lakeVars
  <2>1. UNCHANGED <<job, sealed, clean, silver, written, report, catalog, archive, completed, maintaining, archiver>>
    BY <1>1 DEF lakeVars, daysVars
  <2> QED
    BY <2>1, JobsKeep DEF LakeInv, LakeTypes, JobsAreExclusive
<1>2. CASE LakeNext
  BY <1>2, QueueKeeps, NormalizePartKeeps, NormalizeManifestKeeps, MaintainKeeps, ArchiverKeeps, UnlinkKeeps,
     DiesKeeps DEF LakeNext
<1> QED
  BY <1>1, <1>2

(* For any number of raw parts, jobs and deaths: a Silver part that was ever *)
(* complete is in Silver or in a verified archive, and every part of a       *)
(* catalog snapshot passed in the day's one report (archive_partition and    *)
(* run_daily_data_maintenance).                                              *)
THEOREM LakeAlwaysAccounted == LakeSpec => []LakeIsAccounted
<1>1. LakeInv => LakeIsAccounted
  BY DEF LakeInv, LakeIsAccounted
<1> QED
  BY <1>1, LakeInitInv, LakeStep, PTL DEF LakeSpec

-----------------------------------------------------------------------------
(* Downloads of a series' history.                                           *)
Rows == [Hour -> {"none", "forming", "final"}]
Downloads ==
    [stage : {"idle", "fetch", "fetched", "write", "done"}, from : Hour, to : Hour,
     cursor : Int, pages : Nat, began : Nat, got : Rows]

BackfillTypes ==
    /\ feed \in Feed
    /\ hour \in Nat
    /\ unlisted \subseteq Hour
    /\ run \in Downloads /\ run.began <= hour
    /\ stored \in Rows
    /\ torn \subseteq Months

(* What the download must bring; how far from its first slot a slot is, and  *)
(* how many slots the cursor has passed.                                     *)
Wanted == {t \in (run.from..run.to) \ unlisted : t < run.began}
Place(t) == IF feed \in Forward THEN t - run.from ELSE run.to - t
Depth(c) ==
    IF feed \in Forward THEN c - run.from
    ELSE IF feed = "okx" THEN run.to + 1 - c
    ELSE run.to - c
Passed == {t \in Wanted : Place(t) < Depth(run.cursor)}

(* What the last of MaxPages pages may leave behind.                         *)
Missable(t) ==
    /\ MaxPages * Limit <= run.to - run.from
    /\ \A u \in Has(run.got) : Place(u) < Place(t)
Brought == \A t \in Wanted : t \in Has(run.got) \/ Missable(t)

PagesAreWhole ==
    /\ run.stage = "fetch" =>
          /\ Passed \subseteq Has(run.got)
          /\ \A u \in Has(run.got) : Place(u) < Depth(run.cursor)
          /\ run.pages * Limit <= Depth(run.cursor) \/ Wanted \subseteq Has(run.got)
    /\ run.stage = "fetched" => Brought

WritesAreWhole ==
    /\ run.stage = "write" =>
          /\ run.cursor \in 1..3
          /\ Brought
          /\ \A t \in Has(run.got) : Month(t) < run.cursor => t \in Has(stored)
    /\ run.stage = "done" => \A t \in Wanted : t \in Has(stored) \/ Missable(t)

NothingForms == feed = "okx" => \A t \in Hour : stored[t] # "forming" /\ run.got[t] # "forming"

BackfillInv ==
    /\ BackfillTypes
    /\ PagesAreWhole
    /\ WritesAreWhole
    /\ NothingForms

-----------------------------------------------------------------------------
(* Ends of sets of slots, and pages cut from them.                           *)
LEMMA HourFacts == Hour \subseteq Nat /\ IsFiniteSet(Hour) /\ \A S \in SUBSET Hour : IsFiniteSet(S)
<1>1. 0 \in Int /\ MaxSlot \in Int
  BY BackfillAssumption
<1>2. IsFiniteSet(Hour)
  BY <1>1, FS_Interval DEF Hour
<1>3. \A S \in SUBSET Hour : IsFiniteSet(S)
  BY <1>2, FS_Subset
<1>4. Hour \subseteq Nat
  BY <1>1 DEF Hour
<1> QED
  BY <1>2, <1>3, <1>4

LEMMA EndsExist ==
    ASSUME NEW S \in SUBSET Hour, S # {}
    PROVE  /\ High(S) \in S /\ \A u \in S : u <= High(S)
           /\ Low(S) \in S /\ \A u \in S : Low(S) <= u
<1>1. IsFiniteSet(S) /\ MaxSlot \in Nat
  BY HourFacts, BackfillAssumption
<1>2. \E t \in S : \A u \in S : t >= u
  <2> DEFINE f == [x \in S |-> x]
  <2>1. f \in [S -> Nat]
    BY HourFacts
  <2>2. \E k \in S : \A j \in S : f[j] <= f[k]
    <3> HIDE DEF f
    <3> QED
      BY <1>1, <2>1, HighestExists
  <2>3. \A x \in S : x \in Nat
    BY HourFacts
  <2> QED
    BY <2>2, <2>3
<1>3. \E t \in S : \A u \in S : t <= u
  <2> DEFINE f == [x \in S |-> MaxSlot - x]
  <2>1. f \in [S -> Nat]
    BY <1>1 DEF Hour
  <2>2. \E k \in S : \A j \in S : f[j] <= f[k]
    <3> HIDE DEF f
    <3> QED
      BY <1>1, <2>1, HighestExists
  <2>3. \A x \in S : x \in Nat
    BY HourFacts
  <2> QED
    BY <1>1, <2>2, <2>3
<1>4. High(S) \in S /\ \A u \in S : High(S) >= u
  BY <1>2 DEF High
<1>5. Low(S) \in S /\ \A u \in S : Low(S) <= u
  BY <1>3 DEF Low
<1>6. \A u \in S : u \in Nat
  BY HourFacts
<1> QED
  BY <1>4, <1>5, <1>6

LEMMA NewestPageFacts ==
    ASSUME NEW S \in SUBSET Hour
    PROVE  /\ Newest(S) \subseteq S
           /\ S # {} => Newest(S) # {}
           /\ \A t \in Newest(S), u \in S : u >= t => u \in Newest(S)
           /\ Cardinality(Newest(S)) < Limit => Newest(S) = S
<1> DEFINE above(t) == {u \in S : u > t}
<1>1. /\ \A t \in S : t \in Nat /\ IsFiniteSet(above(t)) /\ Cardinality(above(t)) \in Nat
      /\ Limit \in Nat /\ Limit > 1 /\ IsFiniteSet(S)
  <2>1. \A t \in S : above(t) \subseteq S
    OBVIOUS
  <2>2. Limit \in Nat /\ Limit > 1
    BY BackfillAssumption
  <2> QED
    BY <2>1, <2>2, HourFacts, FS_Subset, FS_CardinalityType
<1>2. Newest(S) = {t \in S : Cardinality(above(t)) < Limit}
  BY DEF Newest
<1>3. ASSUME S # {} PROVE Newest(S) # {}
  <2>1. High(S) \in S /\ above(High(S)) = {}
    <3>1. High(S) \in S /\ \A u \in S : u <= High(S)
      BY <1>3, EndsExist
    <3>2. \A u \in S : ~(u > High(S))
      <4> SUFFICES ASSUME NEW u \in S PROVE ~(u > High(S))
        OBVIOUS
      <4>1. u \in Nat /\ High(S) \in Nat /\ u <= High(S)
        BY <3>1, HourFacts
      <4> QED
        BY <4>1
    <3> QED
      BY <3>1, <3>2
  <2>2. Cardinality(above(High(S))) = 0
    BY <2>1, FS_EmptySet
  <2> QED
    BY <1>1, <1>2, <2>1, <2>2
<1>4. ASSUME NEW t \in Newest(S), NEW u \in S, u >= t PROVE u \in Newest(S)
  <2>1. t \in S /\ Cardinality(above(t)) < Limit
    BY <1>2
  <2>2. above(u) \subseteq above(t)
    <3> SUFFICES ASSUME NEW v \in S, v > u PROVE v > t
      OBVIOUS
    <3>1. v \in Nat /\ u \in Nat /\ t \in Nat /\ u >= t
      BY <1>1, <1>4, <2>1
    <3> QED
      BY <3>1
  <2>3. Cardinality(above(u)) <= Cardinality(above(t))
    BY <1>1, <2>1, <2>2, FS_Subset
  <2>4. Cardinality(above(u)) \in Nat /\ Cardinality(above(t)) \in Nat
    BY <1>1, <2>1
  <2> HIDE DEF above
  <2>5. Cardinality(above(u)) < Limit
    BY <1>1, <2>1, <2>3, <2>4
  <2> QED
    BY <1>2, <2>5
<1>5. ASSUME Cardinality(Newest(S)) < Limit, Newest(S) # S PROVE FALSE
  <2> DEFINE left == S \ Newest(S)
  <2>1. left # {} /\ left \in SUBSET Hour
    BY <1>2, <1>5
  <2> PICK t \in left : \A u \in left : u <= t
    <3> HIDE DEF left
    <3> QED
      BY <2>1, EndsExist
  <2>2. above(t) \subseteq Newest(S)
    <3> SUFFICES ASSUME NEW u \in S, u > t, u \notin Newest(S) PROVE FALSE
      OBVIOUS
    <3>1. u <= t /\ u \in Nat /\ t \in Nat
      BY <1>1
    <3> QED
      BY <3>1
  <2>3. IsFiniteSet(Newest(S))
    BY <1>1, <1>2, FS_Subset
  <2>4. Cardinality(above(t)) <= Cardinality(Newest(S)) /\ Cardinality(Newest(S)) \in Nat
    BY <2>2, <2>3, FS_Subset, FS_CardinalityType
  <2>5. t \in S /\ t \notin Newest(S) /\ Cardinality(above(t)) \in Nat
    BY <1>1
  <2> HIDE DEF above
  <2>6. Cardinality(above(t)) < Limit
    BY <1>1, <1>5, <2>4, <2>5
  <2> QED
    BY <1>2, <2>5, <2>6
<1> QED
  BY <1>2, <1>3, <1>4, <1>5

LEMMA OldestPageFacts ==
    ASSUME NEW S \in SUBSET Hour
    PROVE  /\ Oldest(S) \subseteq S
           /\ S # {} => Oldest(S) # {}
           /\ \A t \in Oldest(S), u \in S : u <= t => u \in Oldest(S)
           /\ Cardinality(Oldest(S)) < Limit => Oldest(S) = S
<1> DEFINE below(t) == {u \in S : u < t}
<1>1. /\ \A t \in S : t \in Nat /\ IsFiniteSet(below(t)) /\ Cardinality(below(t)) \in Nat
      /\ Limit \in Nat /\ Limit > 1 /\ IsFiniteSet(S)
  <2>1. \A t \in S : below(t) \subseteq S
    OBVIOUS
  <2>2. Limit \in Nat /\ Limit > 1
    BY BackfillAssumption
  <2> QED
    BY <2>1, <2>2, HourFacts, FS_Subset, FS_CardinalityType
<1>2. Oldest(S) = {t \in S : Cardinality(below(t)) < Limit}
  BY DEF Oldest
<1>3. ASSUME S # {} PROVE Oldest(S) # {}
  <2>1. Low(S) \in S /\ below(Low(S)) = {}
    <3>1. Low(S) \in S /\ \A u \in S : Low(S) <= u
      BY <1>3, EndsExist
    <3>2. \A u \in S : ~(u < Low(S))
      <4> SUFFICES ASSUME NEW u \in S PROVE ~(u < Low(S))
        OBVIOUS
      <4>1. u \in Nat /\ Low(S) \in Nat /\ Low(S) <= u
        BY <3>1, HourFacts
      <4> QED
        BY <4>1
    <3> QED
      BY <3>1, <3>2
  <2>2. Cardinality(below(Low(S))) = 0
    BY <2>1, FS_EmptySet
  <2> QED
    BY <1>1, <1>2, <2>1, <2>2
<1>4. ASSUME NEW t \in Oldest(S), NEW u \in S, u <= t PROVE u \in Oldest(S)
  <2>1. t \in S /\ Cardinality(below(t)) < Limit
    BY <1>2
  <2>2. below(u) \subseteq below(t)
    <3> SUFFICES ASSUME NEW v \in S, v < u PROVE v < t
      OBVIOUS
    <3>1. v \in Nat /\ u \in Nat /\ t \in Nat /\ u <= t
      BY <1>1, <1>4, <2>1
    <3> QED
      BY <3>1
  <2>3. Cardinality(below(u)) <= Cardinality(below(t))
    BY <1>1, <2>1, <2>2, FS_Subset
  <2>4. Cardinality(below(u)) \in Nat /\ Cardinality(below(t)) \in Nat
    BY <1>1, <2>1
  <2> HIDE DEF below
  <2>5. Cardinality(below(u)) < Limit
    BY <1>1, <2>1, <2>3, <2>4
  <2> QED
    BY <1>2, <2>5
<1>5. ASSUME Cardinality(Oldest(S)) < Limit, Oldest(S) # S PROVE FALSE
  <2> DEFINE left == S \ Oldest(S)
  <2>1. left # {} /\ left \in SUBSET Hour
    BY <1>2, <1>5
  <2> PICK t \in left : \A u \in left : t <= u
    <3> HIDE DEF left
    <3> QED
      BY <2>1, EndsExist
  <2>2. below(t) \subseteq Oldest(S)
    <3> SUFFICES ASSUME NEW u \in S, u < t, u \notin Oldest(S) PROVE FALSE
      OBVIOUS
    <3>1. t <= u /\ u \in Nat /\ t \in Nat
      BY <1>1
    <3> QED
      BY <3>1
  <2>3. IsFiniteSet(Oldest(S))
    BY <1>1, <1>2, FS_Subset
  <2>4. Cardinality(below(t)) <= Cardinality(Oldest(S)) /\ Cardinality(Oldest(S)) \in Nat
    BY <2>2, <2>3, FS_Subset, FS_CardinalityType
  <2>5. t \in S /\ t \notin Oldest(S) /\ Cardinality(below(t)) \in Nat
    BY <1>1
  <2> HIDE DEF below
  <2>6. Cardinality(below(t)) < Limit
    BY <1>1, <1>5, <2>4, <2>5
  <2> QED
    BY <1>2, <2>5, <2>6
<1> QED
  BY <1>2, <1>3, <1>4, <1>5

-----------------------------------------------------------------------------
(* One page of each feed: what it keeps of what the cursor passes; and that  *)
(* a page that is not the last moves the cursor on by Limit slots, unless    *)
(* nothing is left.                                                          *)
Covers(page) == \A t \in Wanted : t \in Passed \/ t \in page.keep
Advances(page) ==
    /\ \A t \in Wanted : Place(t) < Depth(page.next) => t \in Passed \/ t \in page.keep
    /\ \A u \in page.keep : u \in Hour /\ Place(u) < Depth(page.next)
    /\ Depth(run.cursor) <= Depth(page.next) /\ Depth(page.next) <= run.to - run.from
    /\ Depth(run.cursor) + Limit <= Depth(page.next) \/ Covers(page)
Brings(page) ==
    /\ page.last \in BOOLEAN /\ page.next \in Int
    /\ page.last => Covers(page)
    /\ ~page.last => Advances(page)

LEMMA RowsFillSlots ==
    ASSUME NEW rows \in SUBSET Hour, NEW a \in Int, NEW b \in Int,
           Cardinality(rows) >= Limit, \A u \in rows : a <= u /\ u <= b
    PROVE  a + Limit <= b + 1
<1>1. rows \subseteq a..b
  BY HourFacts
<1>2. IsFiniteSet(a..b) /\ Cardinality(a..b) = IF a > b THEN 0 ELSE b - a + 1
  BY FS_Interval
<1>3. Cardinality(rows) <= Cardinality(a..b) /\ Cardinality(rows) \in Nat
  BY <1>1, <1>2, HourFacts, FS_Subset, FS_CardinalityType
<1>4. Limit \in Nat /\ Limit > 1
  BY BackfillAssumption
<1> PICK n \in Nat : n = Cardinality(rows)
  BY <1>3
<1> QED
  BY <1>2, <1>3, <1>4

LEMMA WantedIsListed ==
    ASSUME BackfillTypes
    PROVE  /\ Listed \subseteq Hour
           /\ \A t \in Wanted : t \in Nat /\ t \in Listed /\ RowNow(t) = "final" /\ run.from <= t /\ t <= run.to
           /\ run.from \in Nat /\ run.to \in Nat /\ run.cursor \in Int
           /\ Limit \in Nat /\ Limit > 1
<1>1. run.from \in Hour /\ run.to \in Hour /\ run.cursor \in Int /\ run.began \in Nat /\ hour \in Nat /\ run.began <= hour
  BY DEF BackfillTypes, Downloads
<1>2. MaxSlot \in Nat
  BY BackfillAssumption
<1>3. Listed \subseteq Hour
  BY DEF Listed
<1>4. ASSUME NEW t \in Wanted
      PROVE  t \in Nat /\ t \in Hour /\ t < hour /\ t \notin unlisted /\ run.from <= t /\ t <= run.to
  BY <1>1, <1>2 DEF Wanted, Hour
<1>5. ASSUME NEW t \in Wanted
      PROVE  t \in Listed /\ RowNow(t) = "final"
  <2>1. t < hour /\ t <= hour
    BY <1>1, <1>4
  <2> QED
    BY <1>4, <2>1 DEF Listed, RowNow
<1>6. run.from \in Nat /\ run.to \in Nat
  BY <1>1, <1>2 DEF Hour
<1>7. Limit \in Nat /\ Limit > 1
  BY BackfillAssumption
<1> QED
  BY <1>1, <1>3, <1>4, <1>5, <1>6, <1>7

LEMMA BackwardFacts ==
    ASSUME BackfillTypes, NEW S \in SUBSET Hour, S # {}, NEW next
    PROVE  /\ Backward(Newest(S), next).keep = Newest(S) /\ Backward(Newest(S), next).next = next
           /\ Backward(Newest(S), next).last \in BOOLEAN
           /\ Low(Newest(S)) \in Nat /\ Low(Newest(S)) \in S
           /\ \A t \in S : t >= Low(Newest(S)) => t \in Newest(S)
           /\ Backward(Newest(S), next).last => \A t \in S : t >= run.from => t \in Newest(S)
           /\ Newest(S) \in SUBSET Hour /\ Newest(S) \subseteq S /\ \A u \in Newest(S) : Low(Newest(S)) <= u
           /\ ~Backward(Newest(S), next).last =>
                 Low(Newest(S)) > run.from /\ Cardinality(Newest(S)) >= Limit
<1> DEFINE rows == Newest(S)
           low == Low(rows)
<1>1. /\ rows \subseteq S /\ rows # {}
      /\ \A t \in rows, u \in S : u >= t => u \in rows
      /\ Cardinality(rows) < Limit => rows = S
  BY NewestPageFacts
<1>2. low \in rows /\ rows \in SUBSET Hour /\ \A u \in rows : low <= u
  <2> HIDE DEF rows
  <2>1. rows \in SUBSET Hour
    BY <1>1
  <2> QED
    BY <1>1, <2>1, EndsExist
<1>3. Backward(rows, next) = [keep |-> rows, next |-> next, last |-> low <= run.from \/ Cardinality(rows) < Limit]
  BY DEF Backward
<1>4. /\ low \in Nat /\ low \in S /\ run.from \in Nat
      /\ Cardinality(rows) \in Nat /\ Limit \in Nat
  <2>1. IsFiniteSet(rows)
    BY <1>2, HourFacts
  <2> QED
    BY <1>1, <1>2, <2>1, HourFacts, WantedIsListed, FS_CardinalityType
<1>5. ASSUME NEW t \in S, t >= low PROVE t \in rows
  BY <1>1, <1>2, <1>5
<1>6. ASSUME low <= run.from \/ Cardinality(rows) < Limit, NEW t \in S, t >= run.from
      PROVE  t \in rows
  <2>1. CASE Cardinality(rows) < Limit
    BY <1>1, <2>1
  <2>2. CASE low <= run.from
    <3>1. t \in Nat
      BY HourFacts
    <3> HIDE DEF low
    <3>2. t >= low
      BY <1>4, <1>6, <2>2, <3>1
    <3> QED
      BY <1>5, <3>2
  <2> QED
    BY <1>6, <2>1, <2>2
<1> HIDE DEF rows, low
<1>7. /\ Backward(rows, next).keep = rows /\ Backward(rows, next).next = next
      /\ Backward(rows, next).last = (low <= run.from \/ Cardinality(rows) < Limit)
  BY <1>3
<1>8. ~Backward(rows, next).last => low > run.from /\ Cardinality(rows) >= Limit
  <2> SUFFICES ASSUME ~Backward(rows, next).last PROVE low > run.from /\ Cardinality(rows) >= Limit
    OBVIOUS
  <2>1. ~(low <= run.from) /\ ~(Cardinality(rows) < Limit)
    BY <1>7
  <2> QED
    BY <1>4, <2>1
<1>9. /\ rows \in SUBSET Hour /\ rows \subseteq S /\ \A u \in rows : low <= u
      /\ Backward(rows, next).last \in BOOLEAN
      /\ \A t \in S : t >= low => t \in rows
      /\ Backward(rows, next).last => \A t \in S : t >= run.from => t \in rows
  BY <1>1, <1>2, <1>5, <1>6, <1>7
<1> QED
  BY <1>4, <1>7, <1>8, <1>9 DEF rows, low

(* Bybit's candles and the funding rates: from the newest backward.          *)
LEMMA BackwardBrings ==
    ASSUME BackfillTypes, feed \notin Forward, feed # "okx",
           NEW S, S = Listed \cap (run.from..run.cursor)
    PROVE  Brings(IF Newest(S) = {} THEN NoMore ELSE Backward(Newest(S), Low(Newest(S)) - 1))
<1>1. S \in SUBSET Hour
  BY WantedIsListed
<1>2. \A t \in Wanted : t \in Passed \/ (t \in S /\ t >= run.from /\ t \in Nat)
  <2> SUFFICES ASSUME NEW t \in Wanted, t \notin Passed PROVE t \in S /\ t >= run.from /\ t \in Nat
    OBVIOUS
  <2>1. t \in Nat /\ t \in Listed /\ run.from <= t /\ run.from \in Nat /\ run.cursor \in Int
    BY WantedIsListed
  <2>2. ~(run.to - t < run.to - run.cursor)
    BY DEF Passed, Place, Depth
  <2> QED
    BY <2>1, <2>2, WantedIsListed
<1>3. CASE Newest(S) = {}
  <2>1. S = {}
    BY <1>1, <1>3, NewestPageFacts
  <2>2. Brings(NoMore)
    BY <1>2, <2>1 DEF Brings, Covers, NoMore
  <2> QED
    BY <1>3, <2>2
<1>4. CASE Newest(S) # {}
  <2> DEFINE page == Backward(Newest(S), Low(Newest(S)) - 1)
  <2>1. S # {}
    BY <1>1, <1>4, NewestPageFacts
  <2>2. /\ page.keep = Newest(S) /\ page.next = Low(Newest(S)) - 1 /\ page.last \in BOOLEAN
        /\ Low(Newest(S)) \in Nat
        /\ \A t \in S : t >= Low(Newest(S)) => t \in Newest(S)
        /\ page.last => \A t \in S : t >= run.from => t \in Newest(S)
        /\ Newest(S) \in SUBSET Hour /\ Newest(S) \subseteq S /\ \A u \in Newest(S) : Low(Newest(S)) <= u
        /\ ~page.last => Low(Newest(S)) > run.from /\ Cardinality(Newest(S)) >= Limit
    BY <1>1, <2>1, BackwardFacts
  <2> PICK low \in Nat : low = Low(Newest(S))
    BY <2>2
  <2> HIDE DEF page
  <2>3. page.next \in Int
    BY <2>2
  <2>4. page.last => Covers(page)
    BY <1>2, <2>2 DEF Covers
  <2>5. ASSUME ~page.last PROVE Advances(page)
    <3>1. /\ run.from \in Nat /\ run.to \in Nat /\ run.cursor \in Int /\ Limit \in Nat
          /\ page.next = low - 1
      BY <2>2, WantedIsListed
    <3>2. \A u \in Newest(S) : low <= u /\ u <= run.cursor
      <4> SUFFICES ASSUME NEW u \in Newest(S) PROVE low <= u /\ u <= run.cursor
        OBVIOUS
      <4>1. u \in S /\ low <= u
        BY <2>2
      <4>2. u \in run.from..run.cursor
        BY <4>1
      <4> QED
        BY <3>1, <4>1, <4>2
    <3>3. low + Limit <= run.cursor + 1
      <4>1. Newest(S) \in SUBSET Hour /\ Cardinality(Newest(S)) >= Limit
        BY <2>2, <2>5
      <4>2. low \in Int
        OBVIOUS
      <4> QED
        BY <3>1, <3>2, <4>1, <4>2, RowsFillSlots
    <3>4. Depth(run.cursor) = run.to - run.cursor /\ Depth(page.next) = run.to - (low - 1)
      BY <3>1 DEF Depth
    <3>5. ASSUME NEW t \in Wanted, Place(t) < Depth(page.next) PROVE t \in Passed \/ t \in page.keep
      <4>1. t \in Nat /\ run.to - t < run.to - (low - 1)
        BY <3>4, <3>5, WantedIsListed DEF Place
      <4>2. t >= low
        BY <3>1, <4>1
      <4> QED
        BY <1>2, <2>2, <4>2
    <3>6. ASSUME NEW u \in page.keep PROVE u \in Hour /\ Place(u) < Depth(page.next)
      <4>1. u \in Hour /\ u \in Nat /\ low <= u
        BY <2>2, <3>2, <3>6, HourFacts
      <4>2. Place(u) = run.to - u
        BY DEF Place
      <4> QED
        BY <3>1, <3>4, <4>1, <4>2
    <3>7. low > run.from
      BY <2>2, <2>5
    <3>8. /\ Depth(run.cursor) <= Depth(page.next) /\ Depth(page.next) <= run.to - run.from
          /\ Depth(run.cursor) + Limit <= Depth(page.next)
      BY <3>1, <3>3, <3>4, <3>7
    <3> QED
      BY <3>5, <3>6, <3>8 DEF Advances
  <2>6. Brings(page)
    BY <2>2, <2>3, <2>4, <2>5 DEF Brings
  <2> QED
    BY <1>4, <2>6 DEF page
<1> QED
  BY <1>3, <1>4

(* OKX: backward, from the cursor on exclusively, and only what is confirmed.*)
LEMMA OkxBrings ==
    ASSUME BackfillTypes, feed = "okx"
    PROVE  Brings(OkxPage)
<1> DEFINE S == {t \in Listed : t < run.cursor}
<1>1. S \in SUBSET Hour
  BY WantedIsListed
<1>2. \A t \in Wanted : t \in Passed \/ (t \in S /\ t >= run.from /\ t \in Nat /\ RowNow(t) = "final")
  <2> SUFFICES ASSUME NEW t \in Wanted, t \notin Passed
               PROVE  t \in S /\ t >= run.from /\ t \in Nat /\ RowNow(t) = "final"
    OBVIOUS
  <2>1. t \in Nat /\ t \in Listed /\ run.from <= t /\ run.from \in Nat /\ run.cursor \in Int /\ RowNow(t) = "final"
    BY WantedIsListed
  <2>2. ~(run.to - t < run.to + 1 - run.cursor)
    BY DEF Passed, Place, Depth, Forward
  <2> QED
    BY <2>1, <2>2, WantedIsListed
<1>3. OkxPage = IF Newest(S) = {} THEN NoMore
                ELSE [Backward(Newest(S), Low(Newest(S))) EXCEPT !.keep = Confirmed(Newest(S))]
  BY DEF OkxPage, OkxRows
<1>s. \A t \in S : t < run.cursor
  OBVIOUS
<1> HIDE DEF S
<1>4. CASE Newest(S) = {}
  <2>1. S = {}
    BY <1>1, <1>4, NewestPageFacts
  <2> QED
    BY <1>2, <1>3, <1>4, <2>1 DEF Brings, Covers, NoMore
<1>5. CASE Newest(S) # {}
  <2> DEFINE low == Low(Newest(S))
             plain == Backward(Newest(S), low)
  <2>1. S # {} /\ OkxPage = [plain EXCEPT !.keep = Confirmed(Newest(S))]
    BY <1>1, <1>3, <1>5, NewestPageFacts
  <2>2. /\ plain.next = low /\ plain.last \in BOOLEAN /\ low \in Nat
        /\ \A t \in S : t >= low => t \in Newest(S)
        /\ plain.last => \A t \in S : t >= run.from => t \in Newest(S)
        /\ Newest(S) \in SUBSET Hour /\ Newest(S) \subseteq S /\ \A u \in Newest(S) : low <= u
        /\ ~plain.last => low > run.from /\ Cardinality(Newest(S)) >= Limit
    BY <1>1, <2>1, BackwardFacts
  <2>3. OkxPage.keep = Confirmed(Newest(S)) /\ OkxPage.next = plain.next /\ OkxPage.last = plain.last
    BY <2>1 DEF Backward
  <2> HIDE DEF low, plain
  <2>4. OkxPage.next \in Int /\ OkxPage.last \in BOOLEAN
    BY <2>2, <2>3
  <2>5. ASSUME OkxPage.last PROVE Covers(OkxPage)
    <3> SUFFICES ASSUME NEW t \in Wanted, t \notin Passed PROVE t \in OkxPage.keep
      BY DEF Covers
    <3>1. t \in Newest(S) /\ RowNow(t) = "final"
      BY <1>2, <2>2, <2>3, <2>5
    <3> QED
      BY <2>3, <3>1 DEF Confirmed
  <2>6. ASSUME ~OkxPage.last PROVE Advances(OkxPage)
    <3>1. /\ run.from \in Nat /\ run.to \in Nat /\ run.cursor \in Int /\ Limit \in Nat
          /\ OkxPage.next = low /\ low \in Nat /\ low > run.from /\ Cardinality(Newest(S)) >= Limit
      BY <2>2, <2>3, <2>6, WantedIsListed
    <3>2. \A u \in Newest(S) : low <= u /\ u <= run.cursor - 1 /\ u \in Nat /\ u \in Hour
      <4> SUFFICES ASSUME NEW u \in Newest(S)
                   PROVE  low <= u /\ u <= run.cursor - 1 /\ u \in Nat /\ u \in Hour
        OBVIOUS
      <4>1. u \in S /\ low <= u
        BY <2>2
      <4>2. u \in Hour /\ u \in Nat /\ u < run.cursor
        BY <1>1, <1>s, <4>1, HourFacts
      <4> QED
        BY <3>1, <4>1, <4>2
    <3>3. low + Limit <= run.cursor
      <4>1. /\ Newest(S) \in SUBSET Hour /\ low \in Int /\ run.cursor - 1 \in Int
            /\ \A u \in Newest(S) : low <= u /\ u <= run.cursor - 1
        BY <2>2, <3>1, <3>2
      <4>2. low + Limit <= run.cursor - 1 + 1
        BY <3>1, <4>1, RowsFillSlots
      <4> QED
        BY <3>1, <4>2
    <3>4. Depth(run.cursor) = run.to + 1 - run.cursor /\ Depth(OkxPage.next) = run.to + 1 - low
      BY <3>1 DEF Depth, Forward
    <3>5. ASSUME NEW t \in Wanted, Place(t) < Depth(OkxPage.next) PROVE t \in Passed \/ t \in OkxPage.keep
      <4> SUFFICES ASSUME t \notin Passed PROVE t \in OkxPage.keep
        OBVIOUS
      <4>1. t \in Nat /\ run.to - t < run.to + 1 - low
        BY <3>4, <3>5, WantedIsListed DEF Place, Forward
      <4>2. t >= low
        BY <3>1, <4>1
      <4>3. t \in Newest(S) /\ RowNow(t) = "final"
        BY <1>2, <2>2, <4>2
      <4> QED
        BY <2>3, <4>3 DEF Confirmed
    <3>6. ASSUME NEW u \in OkxPage.keep PROVE u \in Hour /\ Place(u) < Depth(OkxPage.next)
      <4>1. u \in Newest(S)
        BY <2>3, <3>6 DEF Confirmed
      <4>2. u \in Hour /\ u \in Nat /\ low <= u
        BY <3>2, <4>1
      <4>3. Place(u) = run.to - u
        BY DEF Place, Forward
      <4> QED
        BY <3>1, <3>4, <4>2, <4>3
    <3>7. /\ Depth(run.cursor) <= Depth(OkxPage.next) /\ Depth(OkxPage.next) <= run.to - run.from
          /\ Depth(run.cursor) + Limit <= Depth(OkxPage.next)
      BY <3>1, <3>3, <3>4
    <3> QED
      BY <3>5, <3>6, <3>7 DEF Advances
  <2> QED
    BY <2>4, <2>5, <2>6 DEF Brings
<1> QED
  BY <1>4, <1>5

(* Open interest: the venue's own cursor points at what is left.             *)
LEMMA InterestBrings ==
    ASSUME BackfillTypes, feed = "interest"
    PROVE  Brings(InterestPage)
<1> DEFINE S == Listed \cap (run.from..run.cursor)
           left == {t \in S : \A u \in Newest(S) : t < u}
<1>1. S \in SUBSET Hour /\ left \in SUBSET Hour
  BY WantedIsListed
<1>2. /\ InterestPage.keep = Newest(S) /\ InterestPage.last = (left = {})
      /\ InterestPage.next = IF left = {} THEN 0 ELSE High(left)
  BY DEF InterestPage, InterestCursor, InterestRows
<1>3. \A t \in Wanted : t \in Passed \/ (t \in S /\ t \in Nat)
  <2> SUFFICES ASSUME NEW t \in Wanted, t \notin Passed PROVE t \in S /\ t \in Nat
    OBVIOUS
  <2>1. t \in Nat /\ t \in Listed /\ run.from <= t /\ run.from \in Nat /\ run.cursor \in Int
    BY WantedIsListed
  <2>2. ~(run.to - t < run.to - run.cursor)
    BY DEF Passed, Place, Depth, Forward
  <2> QED
    BY <2>1, <2>2, WantedIsListed
<1>4. \A t \in S : t \in Newest(S) \/ t \in left
  <2> SUFFICES ASSUME NEW t \in S, t \notin Newest(S), NEW u \in Newest(S) PROVE t < u
    OBVIOUS
  <2> HIDE DEF S
  <2>1. u \in S /\ ~(t >= u)
    BY <1>1, NewestPageFacts
  <2>2. t \in Nat /\ u \in Nat
    BY <1>1, <2>1, HourFacts
  <2> QED
    BY <2>1, <2>2
<1>5. ASSUME left # {}
      PROVE  /\ Newest(S) \in SUBSET Hour /\ Cardinality(Newest(S)) >= Limit
             /\ \A u \in Newest(S) : u \in Nat /\ u <= run.cursor
             /\ \A t \in left, u \in Newest(S) : t < u
             /\ \A t \in left : t >= run.from
  <2>1. run.from \in Nat /\ run.cursor \in Int /\ Limit \in Nat
    BY WantedIsListed
  <2>2. \A t \in S : t \in Nat /\ run.from <= t /\ t <= run.cursor
    BY <1>1, <2>1, HourFacts
  <2>3. PICK t \in S : \A u \in Newest(S) : t < u
    BY <1>5
  <2> HIDE DEF S
  <2>4. Newest(S) \subseteq S /\ (Cardinality(Newest(S)) < Limit => Newest(S) = S)
    BY <1>1, NewestPageFacts
  <2>5. t \notin Newest(S)
    <3> SUFFICES ASSUME t \in Newest(S) PROVE FALSE
      OBVIOUS
    <3>1. t < t /\ t \in Nat
      BY <2>2, <2>3
    <3> QED
      BY <3>1
  <2>6. Newest(S) \in SUBSET Hour /\ Cardinality(Newest(S)) \in Nat
    <3>1. Newest(S) \in SUBSET Hour
      BY <1>1, <2>4
    <3> QED
      BY <3>1, HourFacts, FS_CardinalityType
  <2>7. Cardinality(Newest(S)) >= Limit
    BY <2>1, <2>3, <2>4, <2>5, <2>6
  <2> QED
    BY <2>2, <2>4, <2>6, <2>7
<1> HIDE DEF S, left
<1>6. left # {} => High(left) \in Nat /\ High(left) \in left /\ \A u \in left : u <= High(left)
  BY <1>1, EndsExist, HourFacts
<1>7. InterestPage.next \in Int /\ InterestPage.last \in BOOLEAN
  BY <1>2, <1>6
<1>8. InterestPage.last => Covers(InterestPage)
  BY <1>2, <1>3, <1>4 DEF Covers
<1>9. ASSUME ~InterestPage.last PROVE Advances(InterestPage)
  <2>1. left # {} /\ InterestPage.next = High(left)
    BY <1>2, <1>9
  <2> PICK high \in Nat : high = High(left)
    BY <1>6, <2>1
  <2>2. run.from \in Nat /\ run.to \in Nat /\ run.cursor \in Int /\ Limit \in Nat
    BY WantedIsListed
  <2>3. \A u \in Newest(S) : u \in Hour /\ u \in Nat /\ high + 1 <= u /\ u <= run.cursor
    <3> SUFFICES ASSUME NEW u \in Newest(S)
                 PROVE  u \in Hour /\ u \in Nat /\ high + 1 <= u /\ u <= run.cursor
      OBVIOUS
    <3>1. u \in Hour /\ u \in Nat /\ u <= run.cursor /\ high < u
      BY <1>5, <1>6, <2>1
    <3> QED
      BY <3>1
  <2>4. high + 1 + Limit <= run.cursor + 1
    <3>1. high + 1 \in Int /\ Newest(S) \in SUBSET Hour /\ Cardinality(Newest(S)) >= Limit
      BY <1>5, <2>1
    <3> QED
      BY <2>2, <2>3, <3>1, RowsFillSlots
  <2>5. high >= run.from
    BY <1>5, <1>6, <2>1
  <2>6. Depth(run.cursor) = run.to - run.cursor /\ Depth(InterestPage.next) = run.to - high
    BY <2>1 DEF Depth, Forward
  <2>7. ASSUME NEW t \in Wanted, Place(t) < Depth(InterestPage.next)
        PROVE  t \in Passed \/ t \in InterestPage.keep
    <3>1. t \in Nat /\ run.to - t < run.to - high
      BY <2>6, <2>7, WantedIsListed DEF Place, Forward
    <3>2. ~(t <= high)
      BY <2>2, <3>1
    <3> QED
      BY <1>2, <1>3, <1>4, <1>6, <2>1, <3>2
  <2>8. ASSUME NEW u \in InterestPage.keep PROVE u \in Hour /\ Place(u) < Depth(InterestPage.next)
    <3>1. u \in Hour /\ u \in Nat /\ high + 1 <= u
      BY <1>2, <2>3, <2>8
    <3>2. Place(u) = run.to - u
      BY DEF Place, Forward
    <3> QED
      BY <2>2, <2>6, <3>1, <3>2
  <2>9. /\ Depth(run.cursor) <= Depth(InterestPage.next) /\ Depth(InterestPage.next) <= run.to - run.from
        /\ Depth(run.cursor) + Limit <= Depth(InterestPage.next)
    BY <2>2, <2>4, <2>5, <2>6
  <2> QED
    BY <2>7, <2>8, <2>9 DEF Advances
<1> QED
  BY <1>7, <1>8, <1>9 DEF Brings

(* Binance and Hyperliquid: from the oldest forward.                         *)
Ahead == Listed \cap (run.cursor..run.to)
OldestOf(S, rows) ==
    /\ rows \in SUBSET Hour
    /\ rows = {} => S = {}
    /\ \A t \in Wanted : t \in Passed \/ (t \in S /\ t \in Nat /\ t <= run.to)
    /\ rows # {} => /\ High(rows) \in Nat /\ High(rows) >= run.cursor
                    /\ \A u \in rows : u \in Nat /\ u <= High(rows) /\ run.cursor <= u
                    /\ \A t \in S : t <= High(rows) => t \in rows
                    /\ Cardinality(rows) < Limit => rows = S
                    /\ Cardinality(rows) \in Nat

LEMMA ForwardFacts ==
    ASSUME BackfillTypes, feed \in Forward
    PROVE  OldestOf(Ahead, Oldest(Ahead))
<1> DEFINE S == Ahead
           rows == Oldest(S)
<1>1. S \in SUBSET Hour
  BY WantedIsListed DEF Ahead
<1>S. \A u \in S : u >= run.cursor /\ run.cursor <= u
  BY WantedIsListed DEF Ahead
<1>2. /\ rows \subseteq S /\ (S # {} => rows # {})
      /\ \A t \in rows, u \in S : u <= t => u \in rows
      /\ Cardinality(rows) < Limit => rows = S
  BY <1>1, OldestPageFacts
<1>3. \A t \in Wanted : t \in Passed \/ (t \in S /\ t \in Nat /\ t <= run.to)
  <2> SUFFICES ASSUME NEW t \in Wanted, t \notin Passed PROVE t \in S /\ t \in Nat /\ t <= run.to
    OBVIOUS
  <2>1. t \in Nat /\ t \in Listed /\ t <= run.to /\ run.to \in Nat /\ run.cursor \in Int
    BY WantedIsListed
  <2>2. ~(t - run.from < run.cursor - run.from)
    BY DEF Passed, Place, Depth
  <2> QED
    BY <2>1, <2>2, WantedIsListed DEF Ahead
<1> HIDE DEF S, rows
<1>4. ASSUME rows # {}
      PROVE  /\ High(rows) \in rows /\ High(rows) \in Nat /\ High(rows) >= run.cursor
             /\ \A u \in rows : u \in Nat /\ u <= High(rows) /\ run.cursor <= u /\ u \in Hour
             /\ Cardinality(rows) \in Nat
  <2>1. rows \in SUBSET Hour
    BY <1>1, <1>2
  <2>2. High(rows) \in rows /\ \A u \in rows : u <= High(rows)
    BY <1>4, <2>1, EndsExist
  <2>3. \A u \in rows : u \in Nat
    BY <2>1, HourFacts
  <2>5. Cardinality(rows) \in Nat
    BY <2>1, HourFacts, FS_CardinalityType
  <2>6. \A u \in rows : u \in Nat /\ u <= High(rows) /\ run.cursor <= u /\ u \in Hour
    BY <1>2, <1>S, <2>1, <2>2, <2>3
  <2>7. High(rows) \in rows /\ High(rows) \in Nat /\ High(rows) >= run.cursor
    BY <1>2, <1>S, <2>2, <2>3
  <2> QED
    BY <2>5, <2>6, <2>7
<1>5. rows \in SUBSET Hour
  BY <1>1, <1>2
<1>6. OldestOf(S, rows)
  BY <1>2, <1>3, <1>4, <1>5 DEF OldestOf
<1> QED
  BY <1>6 DEF S, rows

(* What the cursor passes when it steps behind the newest row of a page.     *)
LEMMA ForwardAdvances ==
    ASSUME BackfillTypes, feed \in Forward, NEW S, NEW rows, OldestOf(S, rows), rows # {},
           NEW page, page.keep = rows, page.next = High(rows) + 1, ~(High(rows) >= run.to)
    PROVE  Advances(page)
<1>1. /\ rows \in SUBSET Hour
      /\ \A t \in Wanted : t \in Passed \/ (t \in S /\ t \in Nat /\ t <= run.to)
      /\ High(rows) \in Nat /\ High(rows) >= run.cursor
      /\ \A u \in rows : u \in Nat /\ u <= High(rows) /\ run.cursor <= u
      /\ \A t \in S : t <= High(rows) => t \in rows
      /\ Cardinality(rows) < Limit => rows = S
      /\ Cardinality(rows) \in Nat
  BY DEF OldestOf
<1>2. run.from \in Nat /\ run.to \in Nat /\ run.cursor \in Int /\ Limit \in Nat
  BY WantedIsListed
<1> PICK high \in Nat : high = High(rows)
  BY <1>1
<1>h. page.next = high + 1 /\ high >= run.cursor /\ ~(high >= run.to)
  BY <1>1
<1>3. Depth(run.cursor) = run.cursor - run.from /\ Depth(page.next) = high + 1 - run.from
  BY <1>2, <1>h DEF Depth
<1>4. ASSUME NEW t \in Wanted, Place(t) < Depth(page.next) PROVE t \in Passed \/ t \in page.keep
  <2>1. t \in Nat /\ t - run.from < high + 1 - run.from
    BY <1>3, <1>4, WantedIsListed DEF Place
  <2>2. t <= high
    BY <1>2, <2>1
  <2> QED
    BY <1>1, <2>2
<1>5. ASSUME NEW u \in page.keep PROVE u \in Hour /\ Place(u) < Depth(page.next)
  <2>1. u \in Hour /\ u \in Nat /\ u <= high
    BY <1>1, <1>5
  <2>2. Place(u) = u - run.from
    BY DEF Place
  <2> QED
    BY <1>2, <1>3, <2>1, <2>2
<1>6. Depth(run.cursor) <= Depth(page.next) /\ Depth(page.next) <= run.to - run.from
  BY <1>2, <1>3, <1>h
<1>7. Depth(run.cursor) + Limit <= Depth(page.next) \/ Covers(page)
  <2>1. CASE Cardinality(rows) < Limit
    BY <1>1, <2>1 DEF Covers
  <2>2. CASE ~(Cardinality(rows) < Limit)
    <3>1. /\ Cardinality(rows) >= Limit /\ rows \in SUBSET Hour /\ high \in Int
          /\ \A u \in rows : run.cursor <= u /\ u <= high
      BY <1>1, <1>2, <2>2
    <3>2. run.cursor + Limit <= high + 1
      BY <1>2, <3>1, RowsFillSlots
    <3> QED
      BY <1>2, <1>3, <3>2
  <2> QED
    BY <2>1, <2>2
<1> QED
  BY <1>4, <1>5, <1>6, <1>7 DEF Advances

LEMMA BinanceBrings ==
    ASSUME BackfillTypes, feed = "binance"
    PROVE  Brings(BinancePage)
<1> DEFINE S == Ahead
           rows == Oldest(S)
           page == [keep |-> rows, next |-> High(rows) + 1,
                    last |-> High(rows) >= run.to \/ Cardinality(rows) < Limit]
<1>1. BinancePage = IF rows = {} THEN NoMore ELSE page
  BY DEF BinancePage, BinanceRows, Ahead
<1>o. OldestOf(S, rows)
  BY ForwardFacts DEF Forward
<1>2. /\ rows = {} => S = {}
      /\ \A t \in Wanted : t \in Passed \/ (t \in S /\ t \in Nat /\ t <= run.to)
      /\ rows # {} => /\ High(rows) \in Nat /\ High(rows) >= run.cursor
                      /\ \A t \in S : t <= High(rows) => t \in rows
                      /\ Cardinality(rows) < Limit => rows = S
                      /\ Cardinality(rows) \in Nat
  <2> HIDE DEF S, rows
  <2> QED
    BY <1>o DEF OldestOf
<1>3. run.to \in Nat
  BY WantedIsListed
<1>a. ASSUME rows # {}, ~(High(rows) >= run.to) PROVE Advances(page)
  <2>1. feed \in Forward /\ page.keep = rows /\ page.next = High(rows) + 1
    BY DEF Forward
  <2> HIDE DEF S, rows, page
  <2> QED
    BY <1>a, <1>o, <2>1, ForwardAdvances
<1> HIDE DEF S, rows
<1>4. CASE rows = {}
  BY <1>1, <1>2, <1>4 DEF Brings, Covers, NoMore
<1>5. CASE rows # {}
  <2> PICK high \in Nat : high = High(rows)
    BY <1>2, <1>5
  <2>1. /\ page.keep = rows /\ page.next = high + 1
        /\ page.last = (high >= run.to \/ Cardinality(rows) < Limit)
    OBVIOUS
  <2>2. page.next \in Int /\ page.last \in BOOLEAN
    BY <2>1
  <2> HIDE DEF page
  <2>3. ASSUME NEW t \in Wanted, page.last PROVE t \in Passed \/ t \in page.keep
    <3> SUFFICES ASSUME t \notin Passed PROVE t \in rows
      BY <2>1
    <3>1. t \in S /\ t \in Nat /\ t <= run.to
      BY <1>2
    <3>2. CASE Cardinality(rows) < Limit
      BY <1>2, <1>5, <3>1, <3>2
    <3>3. CASE high >= run.to
      <4>1. t <= high
        BY <1>3, <3>1, <3>3
      <4> QED
        BY <1>2, <1>5, <3>1, <4>1
    <3> QED
      BY <2>1, <2>3, <3>2, <3>3
  <2>4. page.last => Covers(page)
    BY <2>3 DEF Covers
  <2>5. ~page.last => Advances(page)
    BY <1>5, <1>a, <2>1
  <2>6. Brings(page)
    BY <2>2, <2>4, <2>5 DEF Brings
  <2> QED
    BY <1>1, <1>5, <2>6
<1> QED
  BY <1>4, <1>5

(* A row alone on its page is the last one: a page has room for two.         *)
LEMMA HyperliquidBrings ==
    ASSUME BackfillTypes, feed = "hyperliquid", \A t \in Has(run.got) : Place(t) < Depth(run.cursor)
    PROVE  Brings(HyperliquidPage)
<1> DEFINE S == Ahead
           rows == Oldest(S)
           seen == Has(run.got) # {} /\ High(rows) <= High(Has(run.got))
           page == [keep |-> rows, next |-> High(rows) + 1,
                    last |-> seen \/ High(rows) >= run.to \/ Cardinality(rows) < 2]
<1>1. HyperliquidPage = IF rows = {} THEN NoMore ELSE page
  BY DEF HyperliquidPage, HyperliquidRows, Ahead
<1>o. OldestOf(S, rows)
  BY ForwardFacts DEF Forward
<1>2. /\ rows = {} => S = {}
      /\ \A t \in Wanted : t \in Passed \/ (t \in S /\ t \in Nat /\ t <= run.to)
      /\ rows # {} => /\ High(rows) \in Nat /\ High(rows) >= run.cursor
                      /\ \A t \in S : t <= High(rows) => t \in rows
                      /\ Cardinality(rows) < Limit => rows = S
                      /\ Cardinality(rows) \in Nat
  <2> HIDE DEF S, rows
  <2> QED
    BY <1>o DEF OldestOf
<1>3. run.from \in Nat /\ run.to \in Nat /\ run.cursor \in Int /\ Limit \in Nat /\ Limit >= 2
  BY WantedIsListed, BackfillAssumption
<1>4. Has(run.got) \in SUBSET Hour /\ \A t \in Has(run.got) : t \in Nat /\ t < run.cursor
  <2>1. Has(run.got) \in SUBSET Hour
    BY DEF Has
  <2> SUFFICES ASSUME NEW t \in Has(run.got) PROVE t \in Nat /\ t < run.cursor
    BY <2>1
  <2>2. t \in Nat
    BY <2>1, HourFacts
  <2>3. t - run.from < run.cursor - run.from
    BY DEF Place, Depth, Forward
  <2> QED
    BY <1>3, <2>2, <2>3
<1>a. ASSUME rows # {}, ~(High(rows) >= run.to) PROVE Advances(page)
  <2>1. feed \in Forward /\ page.keep = rows /\ page.next = High(rows) + 1
    BY DEF Forward
  <2> HIDE DEF S, rows, page, seen
  <2> QED
    BY <1>a, <1>o, <2>1, ForwardAdvances
<1> HIDE DEF S, rows, seen
<1>5. CASE rows = {}
  <2>1. HyperliquidPage = NoMore
    BY <1>1, <1>5
  <2>2. Brings(NoMore)
    BY <1>2, <1>5 DEF Brings, Covers, NoMore
  <2> QED
    BY <2>1, <2>2
<1>6. CASE rows # {}
  <2> PICK high \in Nat : high = High(rows)
    BY <1>2, <1>6
  <2>1. ~seen
    <3> SUFFICES ASSUME Has(run.got) # {}, high <= High(Has(run.got)) PROVE FALSE
      BY DEF seen
    <3>1. High(Has(run.got)) \in Has(run.got)
      BY <1>4, EndsExist
    <3>2. High(Has(run.got)) < run.cursor /\ High(Has(run.got)) \in Nat
      BY <1>4, <3>1
    <3> QED
      BY <1>2, <1>3, <1>6, <3>2
  <2>2. /\ page.keep = rows /\ page.next = high + 1
        /\ page.last = (high >= run.to \/ Cardinality(rows) < 2)
    BY <2>1
  <2>3. page.next \in Int /\ page.last \in BOOLEAN
    BY <2>2
  <2> HIDE DEF page
  <2>4. ASSUME NEW t \in Wanted, page.last PROVE t \in Passed \/ t \in page.keep
    <3> SUFFICES ASSUME t \notin Passed PROVE t \in rows
      BY <2>2
    <3>1. t \in S /\ t \in Nat /\ t <= run.to
      BY <1>2
    <3>2. CASE Cardinality(rows) < 2
      <4>1. Cardinality(rows) < Limit
        BY <1>2, <1>3, <1>6, <3>2
      <4> QED
        BY <1>2, <1>6, <3>1, <4>1
    <3>3. CASE high >= run.to
      <4>1. t <= high
        BY <1>3, <3>1, <3>3
      <4> QED
        BY <1>2, <1>6, <3>1, <4>1
    <3> QED
      BY <2>2, <2>4, <3>2, <3>3
  <2>5. page.last => Covers(page)
    BY <2>4 DEF Covers
  <2>6. ~page.last => Advances(page)
    BY <1>6, <1>a, <2>2
  <2>7. Brings(page)
    BY <2>3, <2>5, <2>6 DEF Brings
  <2> QED
    BY <1>1, <1>6, <2>7
<1> QED
  BY <1>5, <1>6

LEMMA PageBrings ==
    ASSUME BackfillTypes, PagesAreWhole, run.stage = "fetch"
    PROVE  /\ Brings(Page)
           /\ feed = "okx" => \A t \in Page.keep : RowNow(t) = "final"
<1>1. feed \in {"bybit", "binance", "okx", "hyperliquid", "funding", "interest"}
  BY DEF BackfillTypes, Feed, Klines
<1>2. CASE feed = "bybit"
  <2>1. Page = BybitPage
    BY <1>2 DEF Page
  <2>2. BybitPage = IF BybitRows = {} THEN NoMore ELSE Backward(BybitRows, Low(BybitRows) - 1)
    BY DEF BybitPage
  <2>3. Brings(BybitPage)
    BY <1>2, <2>2, BackwardBrings DEF BybitRows, Forward
  <2> QED
    BY <1>2, <2>1, <2>3
<1>3. CASE feed = "binance"
  <2>1. Page = BinancePage
    BY <1>3 DEF Page
  <2> QED
    BY <1>3, <2>1, BinanceBrings
<1>4. CASE feed = "okx"
  <2>1. Page = OkxPage
    BY <1>4 DEF Page
  <2>2. \A t \in OkxPage.keep : RowNow(t) = "final"
    BY DEF OkxPage, NoMore, Backward, Confirmed
  <2> QED
    BY <1>4, <2>1, <2>2, OkxBrings
<1>5. CASE feed = "hyperliquid"
  <2>1. Page = HyperliquidPage
    BY <1>5 DEF Page
  <2>2. \A t \in Has(run.got) : Place(t) < Depth(run.cursor)
    BY DEF PagesAreWhole
  <2> QED
    BY <1>5, <2>1, <2>2, HyperliquidBrings
<1>6. CASE feed = "funding"
  <2>1. Page = FundingPage
    BY <1>6 DEF Page
  <2>2. FundingPage = IF FundingRows = {} THEN NoMore ELSE Backward(FundingRows, Low(FundingRows) - 1)
    BY DEF FundingPage
  <2>3. Brings(FundingPage)
    BY <1>6, <2>2, BackwardBrings DEF FundingRows, Forward
  <2> QED
    BY <1>6, <2>1, <2>3
<1>7. CASE feed = "interest"
  <2>1. Page = InterestPage
    BY <1>7 DEF Page
  <2> QED
    BY <1>7, <2>1, InterestBrings
<1> QED
  BY <1>1, <1>2, <1>3, <1>4, <1>5, <1>6, <1>7

-----------------------------------------------------------------------------
(* Rows that are put after others.                                           *)
LEMMA FirstKeptFacts ==
    ASSUME NEW a \in Rows, NEW b \in Rows
    PROVE  /\ FirstKept(a, b) \in Rows
           /\ Has(FirstKept(a, b)) = Has(a) \cup Has(b)
           /\ (\A t \in Hour : a[t] # "forming" /\ b[t] # "forming") =>
                 \A t \in Hour : FirstKept(a, b)[t] # "forming"
  BY DEF FirstKept, Has, Rows

LEMMA MonthFacts ==
    ASSUME NEW m \in Months, NEW rows \in Rows
    PROVE  /\ MonthOf(m, rows) \in Rows
           /\ Has(MonthOf(m, rows)) = {t \in Has(rows) : Month(t) = m}
           /\ \A t \in Hour : rows[t] # "forming" => MonthOf(m, rows)[t] # "forming"
  BY DEF MonthOf, Has, Rows

LEMMA NoRowsFacts == NoRows \in Rows /\ Has(NoRows) = {} /\ NoRun \in Downloads /\ NoRun.stage = "idle" /\ NoRun.got = NoRows /\ NoRun.began = 0
<1>1. NoRows \in Rows /\ Has(NoRows) = {}
  BY DEF NoRows, Rows, Has
<1>2. 0 \in Hour
  BY BackfillAssumption DEF Hour
<1> HIDE DEF NoRows
<1> QED
  BY <1>1, <1>2 DEF NoRun, Downloads

LEMMA BackfillInitInv == BackfillInit => BackfillInv
<1> SUFFICES ASSUME BackfillInit PROVE BackfillInv
  OBVIOUS
<1>1. /\ feed \in Feed /\ hour = 1 /\ unlisted \subseteq Hour /\ run = NoRun /\ stored = NoRows /\ torn = {}
  BY DEF BackfillInit
<1>2. BackfillTypes
  BY <1>1, NoRowsFacts DEF BackfillTypes
<1>3. PagesAreWhole /\ WritesAreWhole
  BY <1>1, NoRowsFacts DEF PagesAreWhole, WritesAreWhole
<1>4. \A t \in Hour : NoRows[t] # "forming"
  BY DEF NoRows
<1>5. NothingForms
  BY <1>1, <1>4, NoRowsFacts DEF NothingForms
<1> QED
  BY <1>2, <1>3, <1>5 DEF BackfillInv

(* A download that is given up, wherever it was.                             *)
LEMMA GivesUpKeeps ==
    ASSUME BackfillInv, run' = NoRun, UNCHANGED <<feed, hour, unlisted>>,
           stored' \in Rows, torn' \subseteq Months,
           \A t \in Hour : stored'[t] = stored[t] \/ stored'[t] = "none"
    PROVE  BackfillInv'
<1>1. BackfillTypes'
  BY NoRowsFacts DEF BackfillInv, BackfillTypes
<1>2. PagesAreWhole' /\ WritesAreWhole'
  BY NoRowsFacts DEF PagesAreWhole, WritesAreWhole
<1>3. \A t \in Hour : NoRows[t] # "forming"
  BY DEF NoRows
<1>4. NothingForms'
  BY <1>3, NoRowsFacts DEF BackfillInv, NothingForms
<1> QED
  BY <1>1, <1>2, <1>4 DEF BackfillInv

LEMMA TickKeeps ==
    ASSUME BackfillInv, hour' \in {hour, hour + 1}, UNCHANGED <<feed, unlisted, run, stored, torn>>
    PROVE  BackfillInv'
<1>1. BackfillTypes'
  <2>1. hour \in Nat /\ run \in Downloads /\ run.began <= hour
    BY DEF BackfillInv, BackfillTypes
  <2>2. run.began \in Nat
    BY <2>1 DEF Downloads
  <2>3. hour' \in Nat /\ run.began <= hour'
    BY <2>1, <2>2
  <2> QED
    BY <2>3 DEF BackfillInv, BackfillTypes
<1>2. PagesAreWhole' /\ WritesAreWhole' /\ NothingForms'
  BY DEF BackfillInv, PagesAreWhole, WritesAreWhole, NothingForms, Brought, Missable, Wanted, Passed, Place, Depth
<1> QED
  BY <1>1, <1>2 DEF BackfillInv

LEMMA FetchRangeKeeps ==
    ASSUME BackfillInv, NEW from \in Hour, NEW to \in Hour, FetchRange(from, to)
    PROVE  BackfillInv'
<1> DEFINE cursor == IF feed \in Forward THEN from ELSE IF feed = "okx" THEN to + 1 ELSE to
           fresh == [stage |-> "fetch", from |-> from, to |-> to, began |-> hour, got |-> NoRows,
                     pages |-> 0, cursor |-> cursor]
<1>1. run' = fresh /\ UNCHANGED <<feed, hour, unlisted, stored, torn>>
  BY DEF FetchRange
<1>2. from \in Nat /\ to \in Nat /\ hour \in Nat /\ cursor \in Int
  BY HourFacts DEF BackfillInv, BackfillTypes
<1>3. fresh \in Downloads /\ fresh.began = hour
  BY <1>2, NoRowsFacts DEF Downloads
<1>4. /\ run'.stage = "fetch" /\ run'.from = from /\ run'.to = to /\ run'.cursor = cursor
      /\ run'.began = hour /\ run'.got = NoRows /\ run'.pages = 0
  BY <1>1
<1>5. BackfillTypes'
  BY <1>1, <1>2, <1>3 DEF BackfillInv, BackfillTypes
<1>6. Depth(run.cursor)' = 0
  BY <1>1, <1>2, <1>4 DEF Depth
<1>7. Passed' = {}
  <2> SUFFICES ASSUME NEW t \in Passed' PROVE FALSE
    OBVIOUS
  <2>1. t \in Wanted' /\ Place(t)' < 0
    BY <1>6 DEF Passed
  <2>2. t \in from..to
    BY <1>4, <2>1 DEF Wanted
  <2>3. Place(t)' = IF feed \in Forward THEN t - from ELSE to - t
    BY <1>1, <1>4 DEF Place
  <2> QED
    BY <1>2, <2>1, <2>2, <2>3
<1>8. PagesAreWhole'
  <2>1. 0 * Limit <= 0
    BY BackfillAssumption
  <2>2. Has(run.got)' = {}
    BY <1>4, NoRowsFacts DEF Has
  <2> QED
    BY <1>4, <1>6, <1>7, <2>1, <2>2 DEF PagesAreWhole
<1>9. WritesAreWhole'
  BY <1>4 DEF WritesAreWhole
<1>10. NothingForms'
  BY <1>1, <1>4 DEF BackfillInv, NothingForms, NoRows
<1> QED
  BY <1>5, <1>8, <1>9, <1>10 DEF BackfillInv

LEMMA OnePageMore == ASSUME NEW p \in Nat, NEW n \in Nat PROVE (p + 1) * n = p * n + n
OBVIOUS

LEMMA FetchPageKeeps ==
    ASSUME BackfillInv, FetchPage
    PROVE  BackfillInv'
<1> DEFINE fresh == [t \in Hour |-> IF t \in Page.keep THEN RowNow(t) ELSE "none"]
<1>1. /\ run.stage = "fetch" /\ UNCHANGED <<feed, hour, unlisted, stored, torn>>
      /\ run' = [run EXCEPT !.got = FirstKept(@, fresh), !.cursor = Page.next, !.pages = @ + 1,
                            !.stage = IF Page.last \/ PagesUsedUp THEN "fetched" ELSE "fetch"]
  BY DEF FetchPage
<1>2. BackfillTypes /\ PagesAreWhole /\ NothingForms
  BY DEF BackfillInv
<1>3. Brings(Page) /\ (feed = "okx" => \A t \in Page.keep : RowNow(t) = "final")
  BY <1>1, <1>2, PageBrings
<1> PICK page : page = Page
  OBVIOUS
<1> PICK stage : stage = IF page.last \/ PagesUsedUp THEN "fetched" ELSE "fetch"
  OBVIOUS
<1>4. run \in Downloads /\ run.got \in Rows
  BY <1>2 DEF BackfillTypes, Downloads
<1>5. /\ fresh \in Rows /\ Has(fresh) = {t \in Hour : t \in page.keep}
      /\ feed = "okx" => \A t \in Hour : fresh[t] # "forming"
  BY <1>3 DEF Rows, Has, RowNow
<1> HIDE DEF fresh
<1> PICK got \in Rows : got = FirstKept(run.got, fresh)
  BY <1>4, <1>5, FirstKeptFacts
<1>6. Has(got) = Has(run.got) \cup {t \in Hour : t \in page.keep}
  BY <1>4, <1>5, FirstKeptFacts
<1> PICK pages \in Nat : pages = run.pages + 1
  BY <1>4 DEF Downloads
<1>7. /\ run' = [run EXCEPT !.got = got, !.cursor = page.next, !.pages = pages, !.stage = stage]
      /\ page.last \in BOOLEAN /\ page.next \in Int /\ stage \in {"fetch", "fetched"}
  BY <1>1, <1>3 DEF Brings
<1>8. /\ run' \in Downloads
      /\ run'.stage = stage /\ run'.cursor = page.next /\ run'.got = got /\ run'.pages = run.pages + 1
      /\ run'.from = run.from /\ run'.to = run.to /\ run'.began = run.began
  <2>1. stage \in {"idle", "fetch", "fetched", "write", "done"}
    BY <1>7
  <2>2. run' \in Downloads
    BY <1>4, <1>7, <2>1 DEF Downloads
  <2>3. /\ run'.stage = stage /\ run'.cursor = page.next /\ run'.got = got /\ run'.pages = pages
        /\ run'.from = run.from /\ run'.to = run.to /\ run'.began = run.began
    BY <1>4, <1>7 DEF Downloads
  <2> QED
    BY <2>2, <2>3
<1>9. BackfillTypes'
  BY <1>1, <1>2, <1>8 DEF BackfillTypes
<1>10. /\ Wanted' = Wanted /\ Wanted \subseteq Hour
       /\ \A t : Place(t)' = Place(t)
       /\ Depth(run.cursor)' = Depth(page.next)
       /\ Has(run.got)' = Has(got)
  <2>1. Wanted' = Wanted
    BY <1>1, <1>8 DEF Wanted
  <2>2. Wanted \subseteq Hour
    BY <1>2, WantedIsListed
  <2>3. \A t : Place(t)' = Place(t)
    BY <1>1, <1>8 DEF Place
  <2>4. Depth(run.cursor)' = Depth(page.next)
    BY <1>1, <1>8 DEF Depth
  <2>5. Has(run.got)' = Has(got)
    BY <1>8 DEF Has
  <2> QED
    BY <2>1, <2>2, <2>3, <2>4, <2>5
<1>11. Passed \subseteq Has(run.got) /\ \A u \in Has(run.got) : Place(u) < Depth(run.cursor)
  BY <1>1, <1>2 DEF PagesAreWhole
<1>12. Covers(page) => Wanted \subseteq Has(got)
  BY <1>6, <1>10, <1>11 DEF Covers
<1>13. /\ run.from \in Nat /\ run.to \in Nat /\ run.cursor \in Int /\ run.pages \in Nat
       /\ Limit \in Nat /\ run.pages * Limit \in Int
       /\ Depth(run.cursor) \in Int /\ Depth(page.next) \in Int
       /\ \A t \in Hour : Place(t) \in Int
  <2>1. /\ run.from \in Nat /\ run.to \in Nat /\ run.cursor \in Int /\ run.pages \in Nat
        /\ Limit \in Nat
    BY <1>2, <1>4, WantedIsListed DEF Downloads
  <2>2. Depth(run.cursor) \in Int /\ Depth(page.next) \in Int
    BY <1>7, <2>1 DEF Depth
  <2>3. \A t \in Hour : Place(t) \in Int
    BY <2>1, HourFacts DEF Place
  <2> QED
    BY <2>1, <2>2, <2>3
<1>14. ASSUME ~page.last
       PROVE  /\ \A t \in Wanted : Place(t) < Depth(page.next) => t \in Has(got)
              /\ \A u \in Has(got) : Place(u) < Depth(page.next)
              /\ Depth(page.next) <= run.to - run.from
              /\ (run.pages + 1) * Limit <= Depth(page.next) \/ Wanted \subseteq Has(got)
  <2>1. Advances(page)
    BY <1>3, <1>14 DEF Brings
  <2>2. \A t \in Wanted : Place(t) < Depth(page.next) => t \in Has(got)
    BY <1>6, <1>10, <1>11, <2>1 DEF Advances
  <2>3. ASSUME NEW u \in Has(got) PROVE Place(u) < Depth(page.next)
    <3>1. CASE u \in page.keep
      BY <2>1, <3>1 DEF Advances
    <3>2. CASE u \in Has(run.got)
      <4>1. u \in Hour /\ Place(u) < Depth(run.cursor)
        BY <1>11, <3>2 DEF Has
      <4>2. Depth(run.cursor) <= Depth(page.next)
        BY <2>1 DEF Advances
      <4>3. Place(u) \in Int
        BY <1>13, <4>1
      <4> QED
        BY <1>13, <4>1, <4>2, <4>3
    <3> QED
      BY <1>6, <2>3, <3>1, <3>2
  <2>4. (run.pages + 1) * Limit <= Depth(page.next) \/ Wanted \subseteq Has(got)
    <3>1. CASE Covers(page) \/ Wanted \subseteq Has(run.got)
      BY <1>6, <1>12, <3>1
    <3>2. CASE Depth(run.cursor) + Limit <= Depth(page.next) /\ run.pages * Limit <= Depth(run.cursor)
      <4>1. (run.pages + 1) * Limit = run.pages * Limit + Limit
        BY <1>13, OnePageMore
      <4> QED
        BY <1>13, <3>2, <4>1
    <3>3. Depth(run.cursor) + Limit <= Depth(page.next) \/ Covers(page)
      BY <2>1 DEF Advances
    <3>4. run.pages * Limit <= Depth(run.cursor) \/ Wanted \subseteq Has(run.got)
      BY <1>1, <1>2 DEF PagesAreWhole
    <3> QED
      BY <3>1, <3>2, <3>3, <3>4
  <2>5. Depth(page.next) <= run.to - run.from
    BY <2>1 DEF Advances
  <2> QED
    BY <2>2, <2>3, <2>4, <2>5
<1>15. PagesAreWhole'
  <2>1. ASSUME stage = "fetched" PROVE Brought'
    <3> SUFFICES ASSUME NEW t \in Wanted, t \notin Has(got)
                 PROVE  /\ MaxPages * Limit <= run.to - run.from
                        /\ \A u \in Has(got) : Place(u) < Place(t)
      BY <1>8, <1>10 DEF Brought, Missable
    <3>1. ~page.last
      BY <1>3, <1>12 DEF Brings
    <3>2. run.pages + 1 = MaxPages
      BY <2>1, <3>1 DEF PagesUsedUp
    <3>3. MaxPages * Limit <= Depth(page.next) /\ Depth(page.next) <= run.to - run.from
      BY <1>14, <3>1, <3>2
    <3>4. MaxPages * Limit <= run.to - run.from
      <4>1. MaxPages * Limit \in Int
        BY <1>13, <3>2
      <4> QED
        BY <1>13, <3>3, <4>1
    <3>5. ~(Place(t) < Depth(page.next)) /\ Place(t) \in Int
      BY <1>10, <1>13, <1>14, <3>1
    <3>6. ASSUME NEW u \in Has(got) PROVE Place(u) < Place(t)
      <4>1. Place(u) < Depth(page.next) /\ Place(u) \in Int
        BY <1>13, <1>14, <3>1 DEF Has
      <4> QED
        BY <1>13, <3>5, <4>1
    <3> QED
      BY <3>4, <3>6
  <2>2. ASSUME stage = "fetch"
        PROVE  /\ Passed' \subseteq Has(got)
               /\ \A u \in Has(got) : Place(u) < Depth(page.next)
               /\ (run.pages + 1) * Limit <= Depth(page.next) \/ Wanted \subseteq Has(got)
    <3>1. ~page.last
      BY <2>2
    <3>2. Passed' \subseteq Has(got)
      BY <1>10, <1>14, <3>1 DEF Passed
    <3> QED
      BY <1>14, <3>1, <3>2
  <2>3. ASSUME stage = "fetch"
        PROVE  /\ Passed' \subseteq Has(run.got)'
               /\ \A u \in Has(run.got)' : Place(u)' < Depth(run.cursor)'
               /\ (run.pages * Limit)' <= Depth(run.cursor)' \/ Wanted' \subseteq Has(run.got)'
    BY <1>8, <1>10, <2>2, <2>3
  <2> QED
    BY <1>7, <1>8, <2>1, <2>3 DEF PagesAreWhole
<1>16. WritesAreWhole'
  BY <1>7, <1>8 DEF WritesAreWhole
<1>17. NothingForms'
  <2> SUFFICES ASSUME feed = "okx" PROVE \A t \in Hour : stored[t] # "forming" /\ got[t] # "forming"
    BY <1>1, <1>8 DEF NothingForms
  <2>1. \A t \in Hour : stored[t] # "forming" /\ run.got[t] # "forming"
    BY <1>2 DEF NothingForms
  <2> QED
    BY <1>4, <1>5, <2>1, FirstKeptFacts
<1> QED
  BY <1>9, <1>15, <1>16, <1>17 DEF BackfillInv

(* What the rest of a job does with the rows it has brought.                 *)
LEMMA MissableStays ==
    ASSUME feed' = feed, run'.from = run.from, run'.to = run.to,
           Has(run.got)' \subseteq Has(run.got)
    PROVE  \A t : Missable(t) => Missable(t)'
<1>1. \A t : Place(t)' = Place(t)
  BY DEF Place
<1> QED
  BY <1>1 DEF Missable

LEMMA ValidateKeeps ==
    ASSUME BackfillInv, NEW anomalous \in BOOLEAN, Validate(anomalous)
    PROVE  BackfillInv'
<1>1. run.stage = "fetched" /\ UNCHANGED <<feed, hour, unlisted, stored, torn>>
  BY DEF Validate
<1>2. BackfillTypes /\ PagesAreWhole /\ NothingForms
  BY DEF BackfillInv
<1>3. CASE run' = NoRun
  BY <1>1, <1>2, <1>3, GivesUpKeeps DEF BackfillTypes
<1>4. CASE run' # NoRun
  <2>1. run' = [run EXCEPT !.got = Within, !.cursor = 1, !.stage = "write"]
    BY <1>4 DEF Validate
  <2>2. run \in Downloads /\ run.got \in Rows
    BY <1>2 DEF BackfillTypes, Downloads
  <2>3. /\ Within \in Rows /\ Has(Within) = {t \in Has(run.got) : t \in run.from..run.to}
        /\ \A t \in Hour : run.got[t] # "forming" => Within[t] # "forming"
    BY <2>2 DEF Within, Rows, Has
  <2> PICK within \in Rows : within = Within
    BY <2>3
  <2>4. /\ run' \in Downloads
        /\ run'.stage = "write" /\ run'.cursor = 1 /\ run'.got = within
        /\ run'.from = run.from /\ run'.to = run.to /\ run'.began = run.began
    <3>1. run' = [run EXCEPT !.got = within, !.cursor = 1, !.stage = "write"] /\ 1 \in Int
      BY <2>1
    <3> QED
      BY <2>2, <3>1 DEF Downloads
  <2>5. Wanted' = Wanted
    BY <1>1, <2>4 DEF Wanted
  <2>6. Brought'
    <3>1. Brought
      BY <1>1, <1>2 DEF PagesAreWhole
    <3>2. Wanted \subseteq run.from..run.to
      BY DEF Wanted
    <3>3. Has(run.got)' = Has(within)
      BY <2>4 DEF Has
    <3>4. \A t : Missable(t) => Missable(t)'
      BY <1>1, <2>3, <2>4, <3>3, MissableStays
    <3> QED
      BY <2>3, <2>5, <3>1, <3>2, <3>3, <3>4 DEF Brought
  <2>7. BackfillTypes'
    BY <1>1, <1>2, <2>4 DEF BackfillTypes
  <2>8. PagesAreWhole'
    BY <2>4 DEF PagesAreWhole
  <2>9. WritesAreWhole'
    <3>1. \A t \in Hour : ~(Month(t) < 1)
      BY DEF Month
    <3>2. \A t \in Has(run.got)' : Month(t) < 1 => t \in Has(stored)'
      BY <3>1 DEF Has
    <3>3. (run.cursor)' = 1 /\ 1 \in 1..3
      BY <2>4
    <3>4. \A t \in Has(run.got)' : Month(t) < (run.cursor)' => t \in Has(stored)'
      BY <3>2, <3>3
    <3> QED
      BY <2>4, <2>6, <3>3, <3>4 DEF WritesAreWhole
  <2>10. NothingForms'
    BY <1>1, <1>2, <2>3, <2>4 DEF NothingForms
  <2> QED
    BY <2>7, <2>8, <2>9, <2>10 DEF BackfillInv
<1> QED
  BY <1>3, <1>4

LEMMA WriteMonthKeeps ==
    ASSUME BackfillInv, WriteMonth
    PROVE  BackfillInv'
<1> DEFINE m == run.cursor
           group == MonthOf(m, run.got)
<1>1. run.stage = "write" /\ m \in Months /\ UNCHANGED <<feed, hour, unlisted, torn>>
  BY DEF WriteMonth
<1>2. BackfillTypes /\ WritesAreWhole /\ NothingForms
  BY DEF BackfillInv
<1>3. run \in Downloads /\ run.got \in Rows /\ stored \in Rows /\ torn \subseteq Months
  BY <1>2 DEF BackfillTypes, Downloads
<1>4. \/ run' = NoRun /\ stored' = stored
      \/ stored' = FirstKept(stored, group) /\ run' = [run EXCEPT !.cursor = @ + 1]
  BY DEF WriteMonth
<1>5. CASE run' = NoRun /\ stored' = stored
  BY <1>1, <1>3, <1>5, GivesUpKeeps
<1>6. CASE stored' = FirstKept(stored, group) /\ run' = [run EXCEPT !.cursor = @ + 1]
  <2>1. /\ group \in Rows /\ Has(group) = {t \in Has(run.got) : Month(t) = m}
        /\ \A t \in Hour : run.got[t] # "forming" => group[t] # "forming"
    BY <1>1, <1>3, MonthFacts
  <2> PICK next \in {2, 3} : next = m + 1
    BY <1>1 DEF Months
  <2>2. run' = [run EXCEPT !.cursor = next]
    BY <1>6
  <2>3. /\ run' \in Downloads /\ run'.stage = "write" /\ run'.cursor = next /\ run'.got = run.got
        /\ run'.from = run.from /\ run'.to = run.to /\ run'.began = run.began
    BY <1>1, <1>3, <2>2 DEF Downloads
  <2> HIDE DEF group
  <2>4. stored' \in Rows /\ Has(stored)' = Has(stored) \cup Has(group)
    <3>1. FirstKept(stored, group) \in Rows /\ Has(FirstKept(stored, group)) = Has(stored) \cup Has(group)
      BY <1>3, <2>1, FirstKeptFacts
    <3> QED
      BY <1>6, <3>1
  <2>5. Wanted' = Wanted
    BY <1>1, <2>3 DEF Wanted
  <2>6. BackfillTypes'
    BY <1>1, <1>2, <2>3, <2>4 DEF BackfillTypes
  <2>7. PagesAreWhole'
    BY <2>3 DEF PagesAreWhole
  <2>8. \A t \in Has(run.got) : Month(t) < next => t \in Has(stored)'
    <3> SUFFICES ASSUME NEW t \in Has(run.got), Month(t) < next PROVE t \in Has(stored)'
      OBVIOUS
    <3>1. Month(t) \in {1, 2} /\ m \in {1, 2}
      BY <1>1 DEF Month, Months
    <3>2. Month(t) < m \/ Month(t) = m
      BY <3>1
    <3>3. Month(t) < m => t \in Has(stored)
      BY <1>1, <1>2 DEF WritesAreWhole
    <3> QED
      BY <2>1, <2>4, <3>2, <3>3
  <2>9. WritesAreWhole'
    <3>1. Brought
      BY <1>1, <1>2 DEF WritesAreWhole
    <3>2. next \in 1..3
      OBVIOUS
    <3>3. Has(run.got)' = Has(run.got)
      BY <2>3 DEF Has
    <3>4. Brought'
      BY <1>1, <2>3, <2>5, <3>1, <3>3, MissableStays DEF Brought
    <3> QED
      BY <2>3, <2>8, <3>2, <3>3, <3>4 DEF WritesAreWhole
  <2>10. NothingForms'
    <3> SUFFICES ASSUME feed = "okx" PROVE \A t \in Hour : stored'[t] # "forming" /\ run.got[t] # "forming"
      BY <1>1, <2>3 DEF NothingForms
    <3>1. \A t \in Hour : stored[t] # "forming" /\ run.got[t] # "forming"
      BY <1>2 DEF NothingForms
    <3> QED
      BY <1>3, <1>6, <2>1, <3>1, FirstKeptFacts
  <2> QED
    BY <2>6, <2>7, <2>9, <2>10 DEF BackfillInv
<1> QED
  BY <1>4, <1>5, <1>6

LEMMA DownloadEndsKeeps ==
    ASSUME BackfillInv, DownloadEnds
    PROVE  BackfillInv'
<1>1. /\ run.stage = "write" /\ run.cursor \notin Months /\ UNCHANGED <<feed, hour, unlisted, stored, torn>>
      /\ run' = [run EXCEPT !.stage = "done"]
  BY DEF DownloadEnds
<1>2. BackfillTypes /\ WritesAreWhole /\ NothingForms
  BY DEF BackfillInv
<1>3. run \in Downloads
  BY <1>2 DEF BackfillTypes
<1>4. /\ run' \in Downloads /\ run'.stage = "done" /\ run'.got = run.got
      /\ run'.from = run.from /\ run'.to = run.to /\ run'.began = run.began
  BY <1>1, <1>3 DEF Downloads
<1>5. Wanted' = Wanted
  BY <1>1, <1>4 DEF Wanted
<1>6. run.cursor = 3
  BY <1>1, <1>2 DEF WritesAreWhole, Months
<1>7. \A t \in Wanted : t \in Has(stored) \/ Missable(t)
  <2> SUFFICES ASSUME NEW t \in Wanted, ~Missable(t) PROVE t \in Has(stored)
    OBVIOUS
  <2>1. t \in Has(run.got) /\ (Month(t) < 3 => t \in Has(stored))
    BY <1>1, <1>2, <1>6 DEF WritesAreWhole, Brought
  <2>2. Month(t) < 3
    BY DEF Month
  <2> QED
    BY <2>1, <2>2
<1>8. BackfillTypes'
  BY <1>1, <1>2, <1>4 DEF BackfillTypes
<1>9. PagesAreWhole' /\ NothingForms'
  BY <1>1, <1>2, <1>4 DEF PagesAreWhole, NothingForms
<1>10. WritesAreWhole'
  <2>1. Has(run.got)' = Has(run.got) /\ Has(stored)' = Has(stored)
    BY <1>1, <1>4 DEF Has
  <2>2. \A t : Missable(t) => Missable(t)'
    BY <1>1, <1>4, <2>1, MissableStays
  <2> QED
    BY <1>4, <1>5, <1>7, <2>1, <2>2 DEF WritesAreWhole
<1> QED
  BY <1>8, <1>9, <1>10 DEF BackfillInv

LEMMA DownloadKilledKeeps ==
    ASSUME BackfillInv, DownloadKilled
    PROVE  BackfillInv'
<1>1. /\ run' = NoRun /\ UNCHANGED <<feed, hour, unlisted>>
      /\ \/ UNCHANGED <<stored, torn>>
         \/ /\ run.cursor \in Months
            /\ torn' = torn \union {run.cursor}
            /\ stored' = [t \in Hour |-> IF Month(t) = run.cursor THEN "none" ELSE stored[t]]
  BY DEF DownloadKilled
<1>2. stored \in Rows /\ torn \subseteq Months
  BY DEF BackfillInv, BackfillTypes
<1>3. /\ stored' \in Rows /\ torn' \subseteq Months
      /\ \A t \in Hour : stored'[t] = stored[t] \/ stored'[t] = "none"
  BY <1>1, <1>2 DEF Rows
<1> QED
  BY <1>1, <1>3, GivesUpKeeps

LEMMA BackfillStep == BackfillInv /\ [BackfillNext]_backfillVars => BackfillInv'
<1> SUFFICES ASSUME BackfillInv, [BackfillNext]_backfillVars PROVE BackfillInv'
  OBVIOUS
<1>1. CASE UNCHANGED backfillVars
  BY <1>1, TickKeeps DEF backfillVars
<1>2. CASE ClockTicks
  BY <1>2, TickKeeps DEF ClockTicks
<1>3. ASSUME NEW from \in Hour, NEW to \in Hour, FetchRange(from, to) PROVE BackfillInv'
  BY <1>3, FetchRangeKeeps
<1>4. CASE RequestFails
  <2>1. run' = NoRun /\ UNCHANGED <<feed, hour, unlisted, stored, torn>> /\ stored \in Rows /\ torn \subseteq Months
    BY <1>4 DEF RequestFails, BackfillInv, BackfillTypes
  <2> QED
    BY <2>1, GivesUpKeeps
<1>5. ASSUME NEW anomalous \in BOOLEAN, Validate(anomalous) PROVE BackfillInv'
  BY <1>5, ValidateKeeps
<1> QED
  BY <1>1, <1>2, <1>3, <1>4, <1>5, FetchPageKeeps, WriteMonthKeeps, DownloadEndsKeeps, DownloadKilledKeeps
  DEF BackfillNext

(* Whatever the feed, the size of its pages, their largest number and the    *)
(* hour: a download that ended brought every row of its range that the venue *)
(* had when it began, but for rows beyond all it brought, and those only in  *)
(* a range of more slots than MaxPages pages hold (MAX_PAGES); OKX's         *)
(* partitions hold no candle that was forming, and a range that the audit    *)
(* calls FULL without gaps or errors has every row between its ends          *)
(* (fetch_klines and its six kin, validate_dataset, write_klines, _audit_job).*)
THEOREM HistoryAlwaysWhole == BackfillSpec => []HistoryIsWhole
<1>1. BackfillInv => HistoryIsWhole
  <2> SUFFICES ASSUME BackfillInv PROVE HistoryIsWhole
    OBVIOUS
  <2>1. RangeIsWhole
    <3> SUFFICES ASSUME run.stage = "done", NEW t \in (run.from..run.to) \ unlisted, t < run.began,
                        t \notin Has(stored)
                 PROVE  /\ run.to - run.from >= MaxPages * Limit
                        /\ \A u \in Has(run.got) : IF feed \in Forward THEN u < t ELSE t < u
      BY DEF RangeIsWhole
    <3>1. t \in Wanted
      BY DEF Wanted
    <3>2. Missable(t) /\ BackfillTypes
      BY <3>1 DEF BackfillInv, WritesAreWhole
    <3>3. /\ run.from \in Nat /\ run.to \in Nat /\ t \in Nat
          /\ MaxPages \in Nat /\ Limit \in Nat /\ MaxPages * Limit \in Int
      BY <3>1, <3>2, WantedIsListed, BackfillAssumption
    <3>4. run.to - run.from >= MaxPages * Limit
      BY <3>2, <3>3 DEF Missable
    <3>5. ASSUME NEW u \in Has(run.got) PROVE IF feed \in Forward THEN u < t ELSE t < u
      <4>1. u \in Nat
        BY HourFacts DEF Has
      <4>2. Place(u) < Place(t)
        BY <3>2 DEF Missable
      <4> QED
        BY <3>3, <4>1, <4>2 DEF Place
    <3> QED
      BY <3>4, <3>5
  <2>2. OkxIsFinal
    BY DEF BackfillInv, NothingForms, OkxIsFinal
  <2>3. FullIsWhole
    <3> SUFFICES ASSUME NEW from \in Hour, NEW to \in Hour,
                        Coverage(from, to).status = "FULL", ~Coverage(from, to).gaps,
                        NEW t \in (from + 1)..(to - 1)
                 PROVE  t \in Has(stored)
      BY DEF FullIsWhole
    <3> DEFINE rows == Has(stored)
    <3>1. rows # {} /\ Low(rows) <= from + 1 /\ High(rows) >= to - 1 /\ ~HasGap(rows)
      BY DEF Coverage
    <3>2. rows \in SUBSET Hour /\ from \in Nat /\ to \in Nat /\ MaxSlot \in Nat
      BY HourFacts, BackfillAssumption DEF Has
    <3> HIDE DEF rows
    <3>3. Low(rows) \in rows /\ High(rows) \in rows /\ Low(rows) \in Nat /\ High(rows) \in Nat
      BY <3>1, <3>2, EndsExist, HourFacts
    <3>4. t \in Hour
      BY <3>2 DEF Hour
    <3>5. t = Low(rows) \/ t = High(rows) \/ (Low(rows) < t /\ t < High(rows))
      BY <3>1, <3>2, <3>3
    <3>6. t \in rows
      BY <3>1, <3>3, <3>4, <3>5 DEF HasGap
    <3> QED
      BY <3>6 DEF rows
  <2> QED
    BY <2>1, <2>2, <2>3 DEF HistoryIsWhole
<1> QED
  BY <1>1, BackfillInitInv, BackfillStep, PTL DEF BackfillSpec
==================================================================================
