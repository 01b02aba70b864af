-------------------------------- MODULE DataLake --------------------------------
(***************************************************************************)
(* One closed UTC day of one stream in the lake: the collector's raw parts   *)
(* (Bronze), the normalized parts made of them (Silver), the feature sets    *)
(* made of those (Gold), the daily quality report with its catalog snapshot, *)
(* and the archive that frees the inodes of Silver.  Jobs are processes: the *)
(* processing queue starts them one after the other, an operator may start   *)
(* one by hand when the queue is not running, and each may be killed between *)
(* any two writes.  As their documents ask, the archiver runs exclusively    *)
(* with respect to the jobs, and the daily maintenance outside their window. *)
(***************************************************************************)
EXTENDS Naturals, FiniteSets

CONSTANTS NParts,      \* raw parts of the day, in the order of their paths
          MaxJobs,     \* bound: jobs started
          MaxKilled,   \* bound: processes killed
          NoReport

Part == 1..NParts

ASSUME LakeAssumption ==
    /\ NParts \in Nat
    /\ NoReport \notin UNION {[parts -> BOOLEAN] : parts \in SUBSET Part}

VARIABLES sealed,      \* raw parts with their manifest
          clean,       \* part -> its rows pass the quality checks
          silver,      \* part -> its files in Silver: the "part", its manifest (the "note")
          written,     \* part -> how often its note was written: a note carries a time
          job,         \* the running job
          queue,       \* status.json of the processing queue
          gold,        \* inputs -> "none", "torn" (a file without its manifest) or "done"
          report,      \* the daily quality report: assessed part -> verdict
          catalog,     \* parts in the catalog snapshots of the day
          maintaining, \* the maintenance run is between its report and its catalog
          archive,     \* "none", "partial", "tar" or "evidence", and the files it lists
          archiver,    \* stage of the archiver, and the files it still unlinks
          jobs, killed,
          completed    \* parts that ever were complete in Silver

daysVars == <<silver, written, gold, report, catalog, archive, completed>>
lakeVars == <<sealed, clean, job, queue, maintaining, archiver, jobs, killed, daysVars>>

NoJob == [kind |-> "idle", queued |-> FALSE, todo |-> {}, pending |-> 0]
Resting == [stage |-> "idle", left |-> {}]
Lowest(parts) == CHOOSE p \in parts : \A q \in parts : p <= q

Whole(p) == silver[p] = {"part", "note"}
Discovered == {p \in Part : "note" \in silver[p]}
Files == {p \in Part : silver[p] # {}}
(* What an inventory of the directory sees: every file with its hash. *)
Inventory == [p \in Files |-> [files |-> silver[p], version |-> written[p]]]

LakeInit ==
    /\ sealed = {} /\ clean \in [Part -> BOOLEAN]
    /\ silver = [p \in Part |-> {}] /\ written = [p \in Part |-> 0]
    /\ job = NoJob /\ queue = [state |-> "none", done |-> {}]
    /\ gold = [inputs \in SUBSET Part |-> "none"]
    /\ report = NoReport /\ catalog = {} /\ maintaining = FALSE
    /\ archive = [tar |-> "none", entries |-> Inventory] /\ archiver = Resting
    /\ jobs = 0 /\ killed = 0 /\ completed = {}

(* The collector closes its last parts of the day when it next flushes. *)
Seal(p) ==
    /\ p \notin sealed
    /\ sealed' = sealed \union {p}
    /\ UNCHANGED <<clean, job, queue, maintaining, archiver, jobs, killed, daysVars>>

(***************************************************************************)
(* The processing queue: a new run directory, the normalizer and then the    *)
(* Gold of the day; a job that fails stops it for review.                    *)
(***************************************************************************)
QueueStarts ==
    /\ queue.state # "RUNNING" /\ job = NoJob /\ jobs < MaxJobs
    /\ queue' = [state |-> "RUNNING", done |-> {}]
    /\ UNCHANGED <<sealed, clean, job, maintaining, archiver, jobs, killed, daysVars>>

NextJob == IF "normalize" \in queue.done THEN "gold" ELSE "normalize"

(* The queue's next job, or any by hand when it does not run. *)
Starts(kind, inputs) ==
    /\ job = NoJob /\ ~maintaining /\ archiver = Resting /\ jobs < MaxJobs
    /\ queue.state = "RUNNING" => kind = NextJob
    /\ job' = [kind |-> kind, queued |-> queue.state = "RUNNING", todo |-> inputs, pending |-> 0]
    /\ jobs' = jobs + 1
    /\ UNCHANGED <<sealed, clean, queue, maintaining, archiver, killed, daysVars>>

JobEnds(ok) ==
    /\ job' = NoJob
    /\ queue' = IF ~job.queued THEN queue
                ELSE IF ~ok THEN [queue EXCEPT !.state = "STOPPED"]
                ELSE [state |-> IF job.kind = "gold" THEN "PROCESSED" ELSE "RUNNING",
                      done |-> queue.done \union {job.kind}]

(***************************************************************************)
(* Normalize: the raw parts with a manifest as they are found at the start,  *)
(* each into one Silver part.  A part with its note is verified; one without *)
(* the other is a collision, and the job raises.                             *)
(***************************************************************************)
NormalizeStarts == Starts("normalize", sealed)

NormalizePart ==
    LET p == Lowest(job.todo) IN
    /\ job.kind = "normalize" /\ job.todo # {} /\ job.pending = 0
    /\ \/ /\ silver[p] = {}
          /\ silver' = [silver EXCEPT ![p] = {"part"}]
          /\ job' = [job EXCEPT !.pending = p]
          /\ UNCHANGED queue
       \/ /\ Whole(p)
          /\ job' = [job EXCEPT !.todo = @ \ {p}]
          /\ UNCHANGED <<silver, queue>>
       \/ Cardinality(silver[p]) = 1 /\ JobEnds(FALSE) /\ UNCHANGED silver
    /\ UNCHANGED <<sealed, clean, maintaining, archiver, jobs, killed,
                   written, gold, report, catalog, archive, completed>>

NormalizeManifest ==
    LET p == job.pending IN
    /\ p # 0
    /\ silver' = [silver EXCEPT ![p] = @ \union {"note"}]
    /\ written' = [written EXCEPT ![p] = @ + 1]
    /\ completed' = IF "part" \in silver[p] THEN completed \union {p} ELSE completed
    /\ job' = [job EXCEPT !.pending = 0, !.todo = @ \ {p}]
    /\ UNCHANGED <<sealed, clean, queue, maintaining, archiver, jobs, killed,
                   gold, report, catalog, archive>>

(* The queue does not take a selection without a raw part for done. *)
NormalizeEnds ==
    /\ job.kind = "normalize" /\ job.todo = {}
    /\ JobEnds(sealed # {})
    /\ UNCHANGED <<sealed, clean, maintaining, archiver, jobs, killed, daysVars>>

(***************************************************************************)
(* Gold of the day: every Silver part found is assessed, one that fails      *)
(* raises, and so does a day without parts.  The name of the sets holds the  *)
(* hashes of their inputs: the same inputs again are verified, or collide    *)
(* with the file that a killed job left without its manifest.                *)
(***************************************************************************)
MaterializeStarts == Starts("gold", Discovered)

Assessed(p) == Whole(p) /\ clean[p]

Materialize ==
    LET ok == /\ job.todo # {} /\ gold[job.todo] # "torn"
              /\ \A p \in job.todo : Assessed(p)
    IN
    /\ job.kind = "gold"
    /\ gold' = IF ok THEN [gold EXCEPT ![job.todo] = "done"] ELSE gold
    /\ JobEnds(ok)
    /\ UNCHANGED <<sealed, clean, maintaining, archiver, jobs, killed,
                   silver, written, report, catalog, archive, completed>>

(***************************************************************************)
(* Daily maintenance: the quality report of the day is written once, and     *)
(* another run must find the same text or raise.  A qualified report is      *)
(* followed by a catalog snapshot of the parts that are found then.          *)
(***************************************************************************)
DailyReport == [p \in Discovered |-> Assessed(p)]
SameText == report \in {NoReport, DailyReport}

(* A report that is there is left as it is, whatever it says. *)
Mutant_ReportKept ==
    /\ job = NoJob /\ queue.state # "RUNNING" /\ ~maintaining
    /\ report' = IF report = NoReport THEN DailyReport ELSE report
    /\ maintaining' = (Discovered # {} /\ \A p \in Discovered : DailyReport[p])
    /\ UNCHANGED <<sealed, clean, job, queue, archiver, jobs, killed,
                   silver, written, gold, catalog, archive, completed>>

MaintainReport ==
    /\ job = NoJob /\ queue.state # "RUNNING" /\ ~maintaining
    /\ SameText
    /\ report' = DailyReport
    /\ maintaining' = (Discovered # {} /\ \A p \in Discovered : DailyReport[p])
    /\ UNCHANGED <<sealed, clean, job, queue, archiver, jobs, killed,
                   silver, written, gold, catalog, archive, completed>>

(* Each part is verified again: one that lost its file since raises. *)
MaintainCatalog ==
    /\ maintaining /\ maintaining' = FALSE
    /\ catalog' = IF \A p \in Discovered : Whole(p) THEN catalog \union Discovered ELSE catalog
    /\ UNCHANGED <<sealed, clean, job, queue, archiver, jobs, killed,
                   silver, written, gold, report, archive, completed>>

(***************************************************************************)
(* The archiver takes a day whose two jobs the queue's status names as       *)
(* completed, once the queue has stopped.  An archive without its evidence   *)
(* is left for review: the archiver refuses that day from then on.           *)
(***************************************************************************)
ArchiveStarts ==
    /\ archiver = Resting /\ job = NoJob /\ Files # {}
    /\ queue.state \in {"STOPPED", "PROCESSED"} /\ queue.done = {"normalize", "gold"}
    /\ \/ /\ archive.tar = "none"
          /\ archive' = [tar |-> "partial", entries |-> Inventory]
          /\ archiver' = [Resting EXCEPT !.stage = "write"]
       \/ /\ archive.tar = "evidence"
          /\ archiver' = [Resting EXCEPT !.stage = "prune"]
          /\ UNCHANGED archive
    /\ UNCHANGED <<sealed, clean, job, queue, maintaining, jobs, killed,
                   silver, written, gold, report, catalog, completed>>

(* The bundle is restored and compared, and the directory once more. *)
ArchiveVerified ==
    /\ archiver.stage = "write" /\ archive.tar = "partial"
    /\ IF Inventory = archive.entries
       THEN archive' = [archive EXCEPT !.tar = "tar"] /\ UNCHANGED archiver
       ELSE archiver' = Resting /\ UNCHANGED archive
    /\ UNCHANGED <<sealed, clean, job, queue, maintaining, jobs, killed,
                   silver, written, gold, report, catalog, completed>>

(* Without --prune the archiver ends here. *)
ArchiveEvidence ==
    /\ archiver.stage = "write" /\ archive.tar = "tar"
    /\ archive' = [archive EXCEPT !.tar = "evidence"]
    /\ archiver' \in {Resting, [Resting EXCEPT !.stage = "prune"]}
    /\ UNCHANGED <<sealed, clean, job, queue, maintaining, jobs, killed,
                   silver, written, gold, report, catalog, completed>>

(* Only the files that the archive has are compared. *)
Mutant_LatePartsForgotten(p) ==
    p \in DOMAIN archive.entries =>
        /\ Inventory[p].files \subseteq archive.entries[p].files
        /\ "note" \in Inventory[p].files => Inventory[p].version = archive.entries[p].version

(* Every file that is there must be one of the archive's, with its content. *)
SameAsArchived(p) ==
    /\ p \in DOMAIN archive.entries
    /\ Inventory[p].files \subseteq archive.entries[p].files
    /\ "note" \in Inventory[p].files => Inventory[p].version = archive.entries[p].version

PruneCheck ==
    /\ archiver.stage = "prune"
    /\ archiver' = IF \A p \in Files : SameAsArchived(p)
                   THEN [stage |-> "unlink", left |-> {f \in Part \X {"note", "part"} : f[2] \in silver[f[1]]}]
                   ELSE Resting
    /\ UNCHANGED <<sealed, clean, job, queue, maintaining, jobs, killed, daysVars>>

(* In the order of the names: a part's note before the part. *)
Unlink ==
    LET p == Lowest({f[1] : f \in archiver.left})
        file == IF <<p, "note">> \in archiver.left THEN "note" ELSE "part"
    IN
    /\ archiver.stage = "unlink" /\ archiver.left # {}
    /\ silver' = [silver EXCEPT ![p] = @ \ {file}]
    /\ archiver' = [archiver EXCEPT !.left = @ \ {<<p, file>>}]
    /\ UNCHANGED <<sealed, clean, job, queue, maintaining, jobs, killed,
                   written, gold, report, catalog, archive, completed>>

(* rmdir: a directory that is not empty again raises, and stays. *)
ArchiveEnds ==
    /\ archiver.stage = "unlink" /\ archiver.left = {}
    /\ archiver' = Resting
    /\ UNCHANGED <<sealed, clean, job, queue, maintaining, jobs, killed, daysVars>>

(***************************************************************************)
(* A process is killed: the job (with the queue, or not), the maintenance    *)
(* run or the archiver.  Gold that was being written may be torn.            *)
(***************************************************************************)
Dies ==
    /\ killed < MaxKilled /\ killed' = killed + 1
    /\ \/ /\ job # NoJob /\ JobEnds(FALSE)
          /\ gold' \in IF job.kind = "gold" /\ job.todo # {} /\ gold[job.todo] = "none" /\ \A p \in job.todo : Assessed(p)
                       THEN {gold, [gold EXCEPT ![job.todo] = "torn"]} ELSE {gold}
          /\ UNCHANGED <<maintaining, archiver>>
       \/ maintaining /\ maintaining' = FALSE /\ UNCHANGED <<job, queue, gold, archiver>>
       \/ archiver # Resting /\ archiver' = Resting /\ UNCHANGED <<job, queue, gold, maintaining>>
    /\ UNCHANGED <<sealed, clean, jobs, silver, written, report, catalog, archive, completed>>

LakeNext ==
    \/ \E p \in Part : Seal(p)
    \/ QueueStarts \/ NormalizeStarts \/ NormalizePart \/ NormalizeManifest \/ NormalizeEnds
    \/ MaterializeStarts \/ Materialize
    \/ MaintainReport \/ MaintainCatalog
    \/ ArchiveStarts \/ ArchiveVerified \/ ArchiveEvidence \/ PruneCheck \/ Unlink \/ ArchiveEnds
    \/ Dies

(***************************************************************************)
(* A Silver part that was ever complete is in Silver, or in an archive whose *)
(* restored bytes were compared, with its manifest; through kills, late      *)
(* parts, second runs and parts that are made again after a pruning.         *)
(* (archive_partition beside AtomicNormalizedWriter.write_source_part.)      *)
(***************************************************************************)
PrunedIsArchived ==
    \A p \in completed :
        \/ Whole(p)
        \/ /\ archive.tar = "evidence"
           /\ p \in DOMAIN archive.entries /\ archive.entries[p].files = {"part", "note"}

(***************************************************************************)
(* What a catalog snapshot of the day lists was assessed, and passed, in the *)
(* one quality report the day has: no late part, and no part that was made   *)
(* again, enters a snapshot beside a report that does not know it.           *)
(* (run_daily_data_maintenance; docs/DAILY_DATA_MAINTENANCE_RUNBOOK.md.)     *)
(***************************************************************************)
CataloguedIsAssessed ==
    catalog # {} => report # NoReport /\ \A p \in catalog : p \in DOMAIN report /\ report[p]

(* Both: nothing of a closed day is lost or used unassessed. *)
LakeIsAccounted == PrunedIsArchived /\ CataloguedIsAssessed

LakeSpec == LakeInit /\ [][LakeNext]_lakeVars
================================================================================
