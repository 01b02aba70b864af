-------------------------------- MODULE CycleLock --------------------------------
(***************************************************************************)
(* The lock file that keeps two research cycles from running on one ledger  *)
(* (CycleLock of src/research/locking.py).  Every system call is a step.    *)
(* The file's age is whether it is older than stale_after_seconds; a cycle  *)
(* is stopped by its wall-clock limit well before that, so only the file of *)
(* a worker that died grows old.                                            *)
(***************************************************************************)
EXTENDS Naturals

CONSTANTS
    Worker,       \* invocations of the research worker
    None,
    MaxCrashes    \* bound on the workers that die

ASSUME LockAssumption == MaxCrashes \in Nat /\ None \notin Worker

VARIABLES
    file,     \* the worker that created the lock file, None if there is none
    stale,    \* the file is older than stale_after_seconds
    pc,       \* every worker's next system call
    crashes   \* workers that died so far

vars == <<file, stale, pc, crashes>>

PcValue == {"idle", "open", "stat", "unlink", "reopen", "holding", "dead"}

LockInit ==
    /\ file = None
    /\ stale = FALSE
    /\ pc = [w \in Worker |-> "idle"]
    /\ crashes = 0

Goto(w, label) == pc' = [pc EXCEPT ![w] = label]

(* A worker starts a cycle; one that was refused ends and may start again.   *)
Begin(w) ==
    /\ pc[w] = "idle"
    /\ Goto(w, "open")
    /\ UNCHANGED <<file, stale, crashes>>

Mutant_CreateShared(w) ==
    /\ file' = w
    /\ Goto(w, "holding")
    /\ UNCHANGED <<stale, crashes>>
(* O_CREAT | O_EXCL.                                                         *)
Create(w) ==
    /\ file = None
    /\ file' = w
    /\ stale' = FALSE
    /\ Goto(w, "holding")
    /\ UNCHANGED crashes

Open(w) ==
    /\ pc[w] = "open"
    /\ \/ Create(w)
       \/ file # None /\ Goto(w, "stat") /\ UNCHANGED <<file, stale, crashes>>

(* _steal_if_stale: a file that is gone, or old, may be taken over.          *)
Mutant_NeverStale(w) ==
    /\ pc[w] = "stat"
    /\ Goto(w, IF file = None THEN "reopen" ELSE "idle")
    /\ UNCHANGED <<file, stale, crashes>>
Stat(w) ==
    /\ pc[w] = "stat"
    /\ Goto(w, IF file = None THEN "reopen" ELSE IF stale THEN "unlink" ELSE "idle")
    /\ UNCHANGED <<file, stale, crashes>>

Unlink(w) ==
    /\ pc[w] = "unlink"
    /\ file' = None
    /\ stale' = FALSE
    /\ Goto(w, "reopen")
    /\ UNCHANGED crashes

(* The second O_EXCL raises FileExistsError if another worker was faster.    *)
Reopen(w) ==
    /\ pc[w] = "reopen"
    /\ \/ Create(w)
       \/ file # None /\ Goto(w, "idle") /\ UNCHANGED <<file, stale, crashes>>

Mutant_ReleaseForgotten(w) ==
    /\ pc[w] = "holding"
    /\ Goto(w, "idle")
    /\ UNCHANGED <<file, stale, crashes>>
Release(w) ==
    /\ pc[w] = "holding"
    /\ file' = None
    /\ stale' = FALSE
    /\ Goto(w, "idle")
    /\ UNCHANGED crashes

Crash(w) ==
    /\ crashes < MaxCrashes
    /\ pc[w] \notin {"idle", "dead"}
    /\ Goto(w, "dead")
    /\ crashes' = crashes + 1
    /\ UNCHANGED <<file, stale>>

Age ==
    /\ file # None
    /\ ~stale
    /\ pc[file] = "dead"
    /\ stale' = TRUE
    /\ UNCHANGED <<file, pc, crashes>>

Step(w) == Begin(w) \/ Open(w) \/ Stat(w) \/ Unlink(w) \/ Reopen(w) \/ Release(w)

LockNext == Age \/ \E w \in Worker : Step(w) \/ Crash(w)

LockSpec == LockInit /\ [][LockNext]_vars

(* Cycles are started again and again, a running worker goes on, a file ages.*)
LockFairSpec == LockSpec /\ WF_vars(Age) /\ \A w \in Worker : WF_vars(Step(w))

-----------------------------------------------------------------------------
(* Every variable keeps its type, and only a dead worker's file is old.      *)
LockTypeOK ==
    /\ file \in Worker \cup {None}
    /\ stale \in BOOLEAN
    /\ pc \in [Worker -> PcValue]
    /\ crashes \in 0..MaxCrashes
    /\ stale => file # None /\ pc[file] = "dead"

(* "Two research-worker invocations can never run concurrently."             *)
Exclusive == \A v, w \in Worker : pc[v] = "holding" /\ pc[w] = "holding" => v = w

(* They cannot as long as no worker dies, the exclusive create sees to that. *)
ExclusiveUntilDeath == crashes = 0 => Exclusive

(* The lock file is there exactly while its creator runs its cycle, until a  *)
(* worker dies: no cycle runs without it and none leaves it behind.          *)
FileShowsHolder ==
    crashes = 0 =>
        /\ \A w \in Worker : pc[w] = "holding" => file = w
        /\ file # None => pc[file] = "holding"

(* A dead worker's lock "must not permanently block every future cycle".     *)
DeadLockIsTakenOver ==
    (file # None /\ pc[file] = "dead") ~> (file = None \/ \E w \in Worker : pc[w] = "holding")
================================================================================
