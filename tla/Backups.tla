------------------------------- MODULE Backups -------------------------------
(***************************************************************************)
(* The cron job that stores dumps of the delivery-db as versions of an OCM *)
(* component and removes old ones (src/delivery_db_backup.py).  The        *)
(* version is derived from a listing of the delivery-service, which caches *)
(* it (src/components.py, component_versions).                             *)
(***************************************************************************)
EXTENDS Faults, FiniteSets

CONSTANTS
  BackupVersions,   \* minor versions, an initial segment of Nat; the initial version is 1
  Retention         \* backup_retention_count

ASSUME BackupAssumption == Retention \in Nat /\ BackupVersions \subseteq Nat /\ None \notin Nat

VARIABLES
  backups,    \* backups[v]: the dump (its digest) of version v, None without such a version
  dumps,      \* blobs in the OCI registry
  taken,      \* how many dumps were taken so far: the digest of the last one
  versions,   \* cached listing of the delivery-service, None if there is none (or a stale one)
  run         \* locals of main()

backupVars == <<backups, dumps, taken, versions, run, faults>>

NoRun == [pc |-> "idle", version |-> None, purge |-> {}, blob |-> None, failed |-> FALSE]

BackupsInit ==
  /\ FaultsInit
  /\ backups = [v \in BackupVersions |-> None]
  /\ dumps = {}
  /\ taken = 0
  /\ versions = None
  /\ run = NoRun

Existing == {v \in BackupVersions : backups[v] # None}
Greatest(all) == CHOOSE v \in all : \A w \in all : w <= v

\* component_versions: for 60 seconds, a listing comes from the cache.
Listing == IF versions = None THEN Existing ELSE versions

\* version.process_version(operation='bump_minor')
NextVersion(all) == IF all = {} THEN 1 ELSE Greatest(all) + 1

\* The job is started by its schedule, or because the last pod failed (backoffLimit).
StartBackup ==
  /\ run.pc = "idle"
  /\ NextVersion(Listing) \in BackupVersions
  /\ Spend("backup")
  /\ versions' = Listing
  /\ run' = [NoRun EXCEPT !.pc = "upload", !.version = NextVersion(Listing)]
  /\ UNCHANGED <<backups, dumps, taken>>

\* create_local_backup, upload_from_file
UploadDump ==
  /\ run.pc = "upload"
  /\ taken' = taken + 1
  /\ dumps' = dumps \union {taken'}
  /\ run' = [run EXCEPT !.pc = "publish", !.blob = taken']
  /\ UNCHANGED <<backups, versions, faults>>

\* upload_component_descriptor with UploadMode.OVERWRITE
PublishBackup ==
  /\ run.pc = "publish"
  /\ backups' = [backups EXCEPT ![run.version] = run.blob]
  /\ run' = IF Retention = 0 THEN NoRun ELSE [run EXCEPT !.pc = "list", !.blob = None]
  /\ UNCHANGED <<dumps, taken, versions, faults>>

Newer(v, all) == {w \in all : w > v}
\* Mutant: sorted in the wrong order.
NewestFirst(all) == {v \in all : Cardinality({w \in all : w < v}) >= Retention}
\* sorted_versions[:-backup_retention_count]
Purgeable(all) == {v \in all : Cardinality(Newer(v, all)) >= Retention}

\* The tags are read from the registry itself.
ListBackups ==
  /\ run.pc = "list"
  /\ run' = IF Purgeable(Existing) = {} THEN NoRun
            ELSE [run EXCEPT !.pc = "purge", !.purge = Purgeable(Existing)]
  /\ UNCHANGED <<backups, dumps, taken, versions, faults>>

\* Mutant: the blob goes first.
RemoveBlobFirst ==
  /\ run.pc = "purge"
  /\ \E v \in run.purge :
       /\ \A w \in run.purge : v <= w
       /\ dumps' = dumps \ {backups[v]}
  /\ UNCHANGED <<backups, taken, versions, run, faults>>
\* The oldest goes first.
\* "local blobs can only be deleted if no ref remains -> delete component-descriptor first"
RemoveBackup ==
  /\ run.pc = "purge"
  /\ \E v \in run.purge :
       /\ \A w \in run.purge : v <= w
       /\ backups' = [backups EXCEPT ![v] = None]
       /\ run' = [run EXCEPT !.pc = "blob", !.purge = @ \ {v}, !.blob = backups[v]]
  /\ UNCHANGED <<dumps, taken, versions, faults>>

RemoveDump ==
  /\ run.pc = "blob"
  /\ dumps' = dumps \ {run.blob}
  /\ run' = IF run.purge = {} THEN NoRun ELSE [run EXCEPT !.pc = "purge", !.blob = None]
  /\ UNCHANGED <<backups, taken, versions, faults>>

\* pg_dump, the registry or the credentials fail, or the pod is killed.
BackupFails ==
  /\ run.pc # "idle"
  /\ Spend("fails")
  /\ run' = [NoRun EXCEPT !.failed = TRUE]
  /\ UNCHANGED <<backups, dumps, taken, versions>>

-----------------------------------------------------------------------------
(* The environment *)

\* Another client of the delivery-service asks for the versions of the component.
ListVersions ==
  /\ versions = None
  /\ versions' = Existing
  /\ UNCHANGED <<backups, dumps, taken, run, faults>>

\* ttl_seconds=60
ExpireVersions ==
  /\ versions # None
  /\ versions' = None
  /\ UNCHANGED <<backups, dumps, taken, run, faults>>

BackupStep ==
  UploadDump \/ PublishBackup \/ ListBackups \/ RemoveBackup \/ RemoveDump

BackupsNext == StartBackup \/ BackupStep \/ BackupFails \/ ListVersions \/ ExpireVersions

\* A run goes on, and the next one is started on schedule.
BackupsFairness == WF_backupVars(StartBackup \/ BackupStep)

BackupsSpec == BackupsInit /\ [][BackupsNext]_backupVars /\ BackupsFairness

-----------------------------------------------------------------------------
(* Properties *)

\* Every backup can be restored: its dump is in the registry, also while an old version is being
\* removed, or if a run broke off there.
BackupsAreComplete == \A v \in Existing : backups[v] \in dumps

\* Only backups with at least Retention newer ones are removed.
NewerBackupsExist ==
  [][\A v \in Existing : backups'[v] = None
       => LET remaining == {w \in BackupVersions : backups'[w] # None}
          IN Cardinality(Newer(v, remaining)) >= Retention]_backupVars

\* A run that does not fail leaves at most Retention backups behind: it also removes those which
\* earlier runs, that failed, left behind.
OldBackupsAreRemoved ==
  run.pc = "idle" /\ ~run.failed /\ Retention > 0 => Cardinality(Existing) <= Retention

\* Old backups are removed, and only old ones.
BackupsAreKept == []OldBackupsAreRemoved /\ NewerBackupsExist
=============================================================================
