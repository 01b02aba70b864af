------------------------------ MODULE ArchiveMonth ------------------------------
(***************************************************************************)
(* One month of Binance's public trade archive, through the operator's       *)
(* scripts: backfill_binance_public_archive.py downloads the ZIPs (Bronze),  *)
(* normalize_... makes Silver of them, materialize_... and finalize_... make *)
(* Gold of Silver, rotate_... copies the month to another volume and prunes  *)
(* it here.  Each of them writes a file first and its manifest second, may   *)
(* be killed between any two writes, and is started again by hand; the       *)
(* provider may publish a month again with other content.                    *)
(*   A file is its content: a version of the provider's ZIP, or what was     *)
(* made from one; a manifest also carries the time it was written, so two    *)
(* manifests of the same content are different files.                        *)
(***************************************************************************)
EXTENDS Naturals, FiniteSets

CONSTANTS NStreams,      \* spot and perpetual streams of the month, in the order of their paths
          GoldDay,       \* days of the month
          MaxVersions,   \* publications of one ZIP
          MaxStamp,      \* bound: manifests written
          MaxKills,      \* bound: scripts killed
          Absent

Version == 1..MaxVersions

ASSUME ArchAssumption ==
    /\ NStreams \in Nat \ {0} /\ MaxVersions \in Nat \ {0}
    /\ Absent \notin [zip : Version] \cup [silver : Version]

Stream == 1..NStreams

VARIABLES published,   \* stream -> the version the provider serves
          store,       \* file -> its content under data_dir
          backup,      \* file -> its content under backup_root/period
          daily,       \* day -> the manifest of the daily Gold
          continuous,  \* the manifest of the continuous Gold
          fetching,    \* the ZIP whose manifest is still to be written
          silvering,   \* the Silver part whose manifest is still to be written
          rotation,    \* the rotation script: stage, what it hashed, what it has done
          now,         \* manifests written so far (the clock)
          kills,
          verified     \* stream -> versions ever put in place with the right checksum

archVars == <<published, store, backup, daily, continuous, fetching, silvering, rotation, now, kills, verified>>

(* A month's files, in the order of their paths: Bronze of every stream, then Silver. *)
Kind == <<"zip", "zip.manifest", "silver.manifest", "silver">>
File == (1..4) \X Stream
ZipFile(s)        == <<1, s>>
ZipNote(s)    == <<2, s>>
SilverNote(s) == <<3, s>>
Silver(s)     == <<4, s>>
Bronze(f) == f[1] <= 2
PathBefore(f, g) ==
    \/ Bronze(f) /\ ~Bronze(g)
    \/ (Bronze(f) <=> Bronze(g)) /\ (f[2] < g[2] \/ (f[2] = g[2] /\ f[1] < g[1]))
FirstOf(files) == CHOOSE f \in files : \A g \in files \ {f} : PathBefore(f, g)

OnDisk(f) == store[f] # Absent
NoFiles == [f \in File |-> Absent]
Idle == [stage |-> "idle", entries |-> NoFiles, left |-> {}]

ArchInit ==
    /\ published = [s \in Stream |-> 1]
    /\ store = NoFiles /\ backup = NoFiles
    /\ daily = [d \in GoldDay |-> Absent] /\ continuous = Absent
    /\ fetching = Absent /\ silvering = Absent
    /\ rotation = Idle
    /\ now = 0 /\ kills = 0
    /\ verified = [s \in Stream |-> {}]

(***************************************************************************)
(* Download: into .part, compared with the provider's checksum, renamed; the *)
(* manifest follows.  A ZIP that is in place is only compared: a mismatch    *)
(* raises, a match returns, and no manifest is written either way.           *)
(***************************************************************************)
Download(s) ==
    /\ fetching = Absent
    /\ ~OnDisk(ZipFile(s))
    /\ store' = [store EXCEPT ![ZipFile(s)] = [zip |-> published[s]]]
    /\ verified' = [verified EXCEPT ![s] = @ \union {published[s]}]
    /\ fetching' = [stream |-> s, version |-> published[s]]
    /\ UNCHANGED <<published, backup, daily, continuous, silvering, rotation, now, kills>>

WriteZipManifest ==
    /\ fetching # Absent /\ now < MaxStamp
    /\ store' = [store EXCEPT ![ZipNote(fetching.stream)] = [zip |-> fetching.version, at |-> now]]
    /\ now' = now + 1
    /\ fetching' = Absent
    /\ UNCHANGED <<published, backup, daily, continuous, silvering, rotation, kills, verified>>

(***************************************************************************)
(* Normalize: the stream's identity comes from the ZIP's manifest, without   *)
(* which it raises.  A part and a manifest that are both in place are only   *)
(* compared; otherwise the part is made (again), then the manifest.          *)
(***************************************************************************)
Normalize(s) ==
    /\ silvering = Absent
    /\ OnDisk(ZipNote(s)) /\ OnDisk(ZipFile(s))
    /\ ~(OnDisk(Silver(s)) /\ OnDisk(SilverNote(s)))
    /\ store' = [store EXCEPT ![Silver(s)] = [silver |-> store[ZipFile(s)].zip]]
    /\ silvering' = [stream |-> s, source |-> store[ZipFile(s)].zip]
    /\ UNCHANGED <<published, backup, daily, continuous, fetching, rotation, now, kills, verified>>

(* The manifest hashes the part as it is then: it raises if the part is gone. *)
WriteSilverManifest ==
    LET s == silvering.stream IN
    /\ silvering # Absent /\ now < MaxStamp
    /\ store' = IF OnDisk(Silver(s))
                THEN [store EXCEPT ![SilverNote(s)] = [source |-> silvering.source, at |-> now,
                                                       output |-> store[Silver(s)].silver]]
                ELSE store
    /\ now' = now + 1
    /\ silvering' = Absent
    /\ UNCHANGED <<published, backup, daily, continuous, fetching, rotation, kills, verified>>

(***************************************************************************)
(* Gold of one day: the hashes of the Silver parts of both markets, outputs, *)
(* manifest.  The outputs of a day without a manifest are written again, so  *)
(* a kill before the manifest leaves nothing that counts.  A manifest that   *)
(* does not match the Silver parts of today raises: it is never rewritten.   *)
(***************************************************************************)
SilverParts == [s \in Stream |-> store[Silver(s)]]

MaterializeDay(d) ==
    /\ \A s \in Stream : OnDisk(Silver(s)) /\ OnDisk(SilverNote(s))
    /\ daily[d] = Absent /\ now < MaxStamp
    /\ daily' = [daily EXCEPT ![d] = [sources |-> SilverParts, at |-> now]]
    /\ now' = now + 1
    /\ UNCHANGED <<published, store, backup, continuous, fetching, silvering, rotation, kills, verified>>

(* The whole month is stitched from its days alone: Silver is not looked at. *)
Finalize ==
    /\ \A d \in GoldDay : daily[d] # Absent
    /\ continuous = Absent /\ now < MaxStamp
    /\ continuous' = daily
    /\ now' = now + 1
    /\ UNCHANGED <<published, store, backup, daily, fetching, silvering, rotation, kills, verified>>

(***************************************************************************)
(* The audit that declares a month ready for out-of-sample research.         *)
(***************************************************************************)
SilverQualified(s) ==
    /\ OnDisk(SilverNote(s)) /\ OnDisk(Silver(s)) /\ OnDisk(ZipFile(s)) /\ OnDisk(ZipNote(s))
    /\ store[ZipFile(s)].zip = store[SilverNote(s)].source
    /\ store[ZipFile(s)].zip = store[ZipNote(s)].zip
    /\ store[Silver(s)].silver = store[SilverNote(s)].output

GoldQualified ==
    /\ continuous # Absent
    /\ \A d \in GoldDay : continuous[d] = daily[d]

OosReady == GoldQualified /\ \A s \in Stream : SilverQualified(s)

(***************************************************************************)
(* Rotation.  The month must be complete: every stream with its manifests,   *)
(* and a manifest without its file raises.  Then every file is hashed,       *)
(* copied (an existing copy must have the hash), all copies are hashed       *)
(* again, the manifest is written and the sources are unlinked one by one.   *)
(***************************************************************************)
Complete == \A f \in File : OnDisk(f)

Discover ==
    /\ rotation.stage = "idle" /\ Complete
    /\ rotation' = [stage |-> "copy", entries |-> store, left |-> File]
    /\ UNCHANGED <<published, store, backup, daily, continuous, fetching, silvering, now, kills, verified>>

(* A copy that is in place already is written over. *)
Mutant_CopyOverwrites ==
    LET f == FirstOf(rotation.left) IN
    /\ rotation.stage = "copy" /\ rotation.left # {}
    /\ backup' = [backup EXCEPT ![f] = store[f]]
    /\ rotation' = [rotation EXCEPT !.left = @ \ {f}]
    /\ UNCHANGED <<published, store, daily, continuous, fetching, silvering, now, kills, verified>>

(* A source that changed since it was hashed, or another copy: the script raises. *)
CopyVerified ==
    LET f == FirstOf(rotation.left) IN
    /\ rotation.stage = "copy" /\ rotation.left # {}
    /\ \/ /\ backup[f] = Absent /\ store[f] = rotation.entries[f]
          /\ backup' = [backup EXCEPT ![f] = store[f]]
          /\ rotation' = [rotation EXCEPT !.left = @ \ {f}]
       \/ /\ backup[f] = rotation.entries[f]
          /\ rotation' = [rotation EXCEPT !.left = @ \ {f}]
          /\ UNCHANGED backup
       \/ /\ \/ backup[f] \notin {Absent, rotation.entries[f]}
             \/ backup[f] = Absent /\ store[f] # rotation.entries[f]
          /\ rotation' = Idle
          /\ UNCHANGED backup
    /\ UNCHANGED <<published, store, daily, continuous, fetching, silvering, now, kills, verified>>

Qualified == \A f \in File : backup[f] = rotation.entries[f]

(* Without --prune-source the script ends here. *)
VerifyBackup ==
    /\ rotation.stage = "copy" /\ rotation.left = {}
    /\ rotation' \in IF Qualified THEN {Idle, [rotation EXCEPT !.stage = "prune", !.left = File]} ELSE {Idle}
    /\ UNCHANGED <<published, store, backup, daily, continuous, fetching, silvering, now, kills, verified>>

(* Unlinking a file that is gone raises. *)
Prune ==
    LET f == FirstOf(rotation.left) IN
    /\ rotation.stage = "prune"
    /\ store' = [store EXCEPT ![f] = Absent]
    /\ rotation' = IF OnDisk(f) /\ rotation.left # {f} THEN [rotation EXCEPT !.left = @ \ {f}] ELSE Idle
    /\ UNCHANGED <<published, backup, daily, continuous, fetching, silvering, now, kills, verified>>

(***************************************************************************)
(* The provider publishes a ZIP again; a script is killed.  A .part that a   *)
(* killed script leaves is written over by the next one; a copy refuses it   *)
(* once and removes it, which is one more run of the script that raises.     *)
(***************************************************************************)
Republish(s) ==
    /\ published[s] < MaxVersions
    /\ published' = [published EXCEPT ![s] = @ + 1]
    /\ UNCHANGED <<store, backup, daily, continuous, fetching, silvering, rotation, now, kills, verified>>

ScriptKilled ==
    /\ kills < MaxKills /\ kills' = kills + 1
    /\ \/ fetching # Absent /\ fetching' = Absent /\ UNCHANGED <<silvering, rotation>>
       \/ silvering # Absent /\ silvering' = Absent /\ UNCHANGED <<fetching, rotation>>
       \/ rotation # Idle /\ rotation' = Idle /\ UNCHANGED <<fetching, silvering>>
    /\ UNCHANGED <<published, store, backup, daily, continuous, now, verified>>

ArchNext ==
    \/ \E s \in Stream : Download(s) \/ Normalize(s) \/ Republish(s)
    \/ WriteZipManifest \/ WriteSilverManifest
    \/ \E d \in GoldDay : MaterializeDay(d)
    \/ Finalize
    \/ Discover \/ CopyVerified \/ VerifyBackup \/ Prune
    \/ ScriptKilled

(***************************************************************************)
(* Every version of a ZIP that was ever verified against the provider's      *)
(* checksum is still here or in the backup, through kills, second runs and   *)
(* second publications; and when sources are being unlinked, the copies are  *)
(* one month: each Silver part and both manifests belong to the ZIP beside   *)
(* them.  So the Gold of a month that the audit declares ready can be traced *)
(* to the ZIPs it was made from.  (rotate_binance_archive_month,             *)
(* download_binance_archive, normalize_binance_trade_archive and             *)
(* audit_binance_archive_month.)                                             *)
(***************************************************************************)
Kept(s, version) ==
    \E copy \in {store[ZipFile(s)], backup[ZipFile(s)]} : copy # Absent /\ copy.zip = version

NothingIsLost ==
    /\ \A s \in Stream : \A v \in verified[s] : Kept(s, v)
    /\ OosReady => \A d \in GoldDay, s \in Stream : Kept(s, continuous[d].sources[s].silver)
    /\ rotation.stage = "prune" => \A s \in Stream :
          LET zip == backup[ZipFile(s)].zip IN
          /\ backup[ZipNote(s)].zip = zip /\ backup[Silver(s)].silver = zip
          /\ backup[SilverNote(s)].source = zip /\ backup[SilverNote(s)].output = zip

ArchSpec == ArchInit /\ [][ArchNext]_archVars
================================================================================
