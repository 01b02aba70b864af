------------------------------ MODULE PolledSeries ------------------------------
(***************************************************************************)
(* The pollers of readings that no venue lists for long: a process asks its  *)
(* venue again and again and merges what is new into monthly partitions.     *)
(* Two processes may run on one series (a restart that overlaps the old      *)
(* container, a second one by hand); each may die, and a request, the lock   *)
(* or a write may fail, which the loop logs and forgets.                     *)
(***************************************************************************)
EXTENDS Naturals, FiniteSets

CONSTANTS Poller,       \* processes
          MaxMinute,    \* bound: readings of the venue
          Retained,     \* readings the venue still lists
          MaxUpsets,    \* bound: deaths and failed writes
          Nobody

ASSUME PolledAssumption == MaxMinute \in Nat \ {0} /\ MaxUpsets \in Nat /\ Nobody \notin Poller

Minute == 1..MaxMinute

(***************************************************************************)
(* What each collector does with one poll.  "answer" is what it makes of the *)
(* venue's answer: the readings still listed, the present one, or a reading  *)
(* that is stamped with the poll's own time; "marked" says that it remembers *)
(* the newest reading it wrote; "locked" that it merges under the lock; and  *)
(* "apart" that one poll fills partitions of several data sets.              *)
(***************************************************************************)
BybitRatio      == [answer |-> "listed",  marked |-> TRUE,  locked |-> FALSE, apart |-> FALSE]
BinanceInterest == [answer |-> "listed",  marked |-> TRUE,  locked |-> TRUE,  apart |-> FALSE]
BinanceRatio    == [answer |-> "listed",  marked |-> TRUE,  locked |-> TRUE,  apart |-> FALSE]
OkxInterest     == [answer |-> "present", marked |-> TRUE,  locked |-> TRUE,  apart |-> FALSE]
OkxRatio        == [answer |-> "listed",  marked |-> TRUE,  locked |-> TRUE,  apart |-> FALSE]
Hyperliquid     == [answer |-> "stamped", marked |-> FALSE, locked |-> TRUE,  apart |-> TRUE]
DeribitSummary  == [answer |-> "stamped", marked |-> FALSE, locked |-> TRUE,  apart |-> FALSE]
DeribitTicker   == [answer |-> "stamped", marked |-> FALSE, locked |-> TRUE,  apart |-> FALSE]
Collectors == {BybitRatio, BinanceInterest, BinanceRatio, OkxInterest, OkxRatio,
               Hyperliquid, DeribitSummary, DeribitTicker}

VARIABLES series,       \* the collector whose series it is
          minute,       \* the venue's newest reading
          poller,       \* the processes
          partition,    \* partition -> its readings
          cutShort,       \* partitions that cannot be read
          lockedBy,     \* partition -> the process that has its lock file
          returned,     \* partition -> readings of polls that returned
          everRun, upsets

polledVars == <<series, minute, poller, partition, cutShort, lockedBy, returned, everRun, upsets>>

Partition == 1..2
Off == [at |-> "off", got |-> {}, mark |-> 0, part |-> 0, read |-> {}]
Asleep(mark) == [at |-> "asleep", got |-> {}, mark |-> mark, part |-> 0, read |-> {}]
NewestOf(S) == CHOOSE t \in S : \A u \in S : u <= t

PolledInit ==
    /\ series \in Collectors /\ minute = 1
    /\ poller = [p \in Poller |-> Off]
    /\ partition = [k \in Partition |-> {}] /\ cutShort = {}
    /\ lockedBy = [k \in Partition |-> Nobody]
    /\ returned = [k \in Partition |-> {}] /\ everRun = {} /\ upsets = 0

NewReading ==
    /\ minute < MaxMinute
    /\ minute' = minute + 1
    /\ UNCHANGED <<series, poller, partition, cutShort, lockedBy, returned, everRun, upsets>>

(* The mark is the process's own: a new process knows none. *)
PollerStarts(p) ==
    /\ poller[p].at = "off"
    /\ poller' = [poller EXCEPT ![p] = Asleep(0)]
    /\ everRun' = everRun \union {p}
    /\ UNCHANGED <<series, minute, partition, cutShort, lockedBy, returned, upsets>>

(* A reading goes to the partition of its month, or to one of each data set. *)
PartOf(k, rows) ==
    IF series.apart THEN rows ELSE {t \in rows : (2 * t <= MaxMinute) = (k = 1)}
Filled(rows) == {k \in Partition : PartOf(k, rows) # {}}
FirstPart(parts) == IF parts = {} THEN 0 ELSE CHOOSE k \in parts : \A j \in parts : k <= j

Answered == IF series.answer = "listed" THEN {t \in Minute : t <= minute /\ t + Retained > minute}
            ELSE {minute}
Fresh(p) == IF series.marked THEN {t \in Answered : t > poller[p].mark} ELSE Answered

PollOnce(p) ==
    /\ poller[p].at = "asleep" /\ Fresh(p) # {}
    /\ poller' = [poller EXCEPT ![p].at = "write", ![p].got = Fresh(p),
                                ![p].part = FirstPart(Filled(Fresh(p)))]
    /\ UNCHANGED <<series, minute, partition, cutShort, lockedBy, returned, everRun, upsets>>

(* The poll fails: the loop logs it and sleeps; the mark stays. *)
PollFails(p) == poller' = [poller EXCEPT ![p] = Asleep(poller[p].mark)]
Unlocked(p) == [k \in Partition |-> IF lockedBy[k] = p THEN Nobody ELSE lockedBy[k]]

(* A slip: the lock is left out. *)
Mutant_ReadWithoutLock(p) ==
    LET k == poller[p].part IN
    /\ poller[p].at = "write"
    /\ IF k \in cutShort THEN PollFails(p)
       ELSE poller' = [poller EXCEPT ![p].at = "merge", ![p].read = partition[k]]
    /\ UNCHANGED <<series, minute, partition, cutShort, lockedBy, returned, everRun, upsets>>

(* What is there is read, under the lock where there is one. *)
ReadPartition(p) ==
    LET k == poller[p].part IN
    /\ poller[p].at = "write"
    /\ series.locked => lockedBy[k] = Nobody
    /\ IF k \in cutShort THEN PollFails(p) /\ UNCHANGED lockedBy
       ELSE /\ poller' = [poller EXCEPT ![p].at = "merge", ![p].read = partition[k]]
            /\ lockedBy' = IF series.locked THEN [lockedBy EXCEPT ![k] = p] ELSE lockedBy
    /\ UNCHANGED <<series, minute, partition, cutShort, returned, everRun, upsets>>

LockTimesOut(p) ==
    /\ poller[p].at = "write" /\ series.locked
    /\ lockedBy[poller[p].part] # Nobody
    /\ PollFails(p)
    /\ UNCHANGED <<series, minute, partition, cutShort, lockedBy, returned, everRun, upsets>>

(* The merged file takes the place of the old one; after the last partition
   the poll returns, and the mark is set. *)
WritePartition(p) ==
    LET k == poller[p].part
        rest == {j \in Filled(poller[p].got) : j > k}
    IN
    /\ poller[p].at = "merge"
    /\ partition' = [partition EXCEPT ![k] = poller[p].read \union PartOf(k, poller[p].got)]
    /\ cutShort' = cutShort \ {k}
    /\ lockedBy' = Unlocked(p)
    /\ IF rest # {}
       THEN /\ poller' = [poller EXCEPT ![p].at = "write", ![p].part = FirstPart(rest), ![p].read = {}]
            /\ UNCHANGED returned
       ELSE /\ poller' = [poller EXCEPT ![p] =
                                Asleep(IF series.marked THEN NewestOf(poller[p].got) ELSE 0)]
            /\ returned' = [j \in Partition |-> returned[j] \union PartOf(j, poller[p].got)]
    /\ UNCHANGED <<series, minute, everRun, upsets>>

(* What a process leaves that stops in a write: a file that is rewritten in
   place may be cut short, a temporary file is not in the way. *)
Interrupted(p) ==
    /\ upsets < MaxUpsets /\ upsets' = upsets + 1
    /\ lockedBy' = Unlocked(p)
    /\ \/ UNCHANGED <<partition, cutShort>>
       \/ /\ poller[p].at = "merge" /\ ~series.locked
          /\ cutShort' = cutShort \union {poller[p].part}
          /\ partition' = [partition EXCEPT ![poller[p].part] = {}]
    /\ UNCHANGED <<series, minute, returned, everRun>>

WriteFails(p) == poller[p].at = "merge" /\ PollFails(p) /\ Interrupted(p)
PollerStops(p) ==
    /\ poller[p].at # "off"
    /\ poller' = [poller EXCEPT ![p] = Off]
    /\ Interrupted(p)

PolledNext ==
    \/ NewReading
    \/ \E p \in Poller :
        \/ PollerStarts(p) \/ PollOnce(p) \/ ReadPartition(p) \/ LockTimesOut(p)
        \/ WritePartition(p) \/ WriteFails(p) \/ PollerStops(p)

PolledSpec == PolledInit /\ [][PolledNext]_polledVars

(***************************************************************************)
(* Properties                                                                *)
(***************************************************************************)
(* What a poll returned as written stays in its partition, whatever other    *)
(* process merges into it, and whoever dies or fails; and with it everything *)
(* that was listed up to a process's mark.  A series whose file is rewritten *)
(* in place is promised this only as long as one process writes it and no    *)
(* write is cut short.                                                       *)
ReadingsAreKept ==
    series.locked \/ (Cardinality(everRun) = 1 /\ upsets = 0) =>
        /\ \A k \in Partition : returned[k] \subseteq partition[k]
        /\ \A p \in Poller : poller[p].mark # 0 =>
              \E k \in Partition : poller[p].mark \in partition[k]
=================================================================================
