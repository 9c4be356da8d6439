--------------------------- MODULE ControllerProofs ---------------------------
(***************************************************************************)
(* What the controllers guarantee, for any number of versions, runs and    *)
(* failures and any retention (Backups), of artefacts, scanners and        *)
(* services (ArtefactEnumerator), of members, sprints and replicas         *)
(* (IssueReplicator), of findings, scopes, categories and sprints          *)
(* (Rescoring), and of cached calls (DbCache).                             *)
(***************************************************************************)
EXTENDS Backups, ArtefactEnumerator, IssueReplicator, Rescoring, DbCache, TLAPS,
        FiniteSetTheorems, SequenceTheorems, WellFoundedInduction

-----------------------------------------------------------------------------
(* Back-ups *)

BackupsTypeOK ==
  /\ backups \in [BackupVersions -> Nat \union {None}]
  /\ dumps \subseteq Nat
  /\ taken \in Nat
  /\ versions \in (SUBSET BackupVersions) \union {None}
  /\ run \in [pc : {"idle", "upload", "publish", "list", "purge", "blob"},
              version : BackupVersions \union {None}, purge : SUBSET BackupVersions,
              blob : Nat \union {None}, failed : BOOLEAN]

\* A dump is that of one version at most, and a new one is none of those there are.
Distinct ==
  /\ \A d \in dumps : d <= taken
  /\ \A v, w \in Existing : backups[v] = backups[w] => v = w

\* The dump a run holds has been uploaded, and belongs to no version yet, or no longer.
Held ==
  /\ run.pc \in {"upload", "publish"} => run.version \in BackupVersions
  /\ run.pc = "publish" => run.blob \in dumps
  /\ run.pc \in {"publish", "blob"} => \A v \in Existing : backups[v] # run.blob

\* What is to be purged is old, also after older versions were removed.
Purged ==
  run.pc \in {"purge", "blob"} =>
    \A v \in run.purge : Cardinality(Newer(v, Existing)) >= Retention

BackupsInv == BackupsAreComplete /\ Distinct /\ Held /\ Purged

\* Initially there is no back-up and no run.
LEMMA BackupsInitial == BackupsInit => BackupsTypeOK /\ BackupsInv
<1> SUFFICES ASSUME BackupsInit PROVE BackupsTypeOK /\ BackupsInv
  OBVIOUS
<1>1. /\ backups = [v \in BackupVersions |-> None] /\ dumps = {} /\ taken = 0
      /\ versions = None /\ run = NoRun
  BY DEF BackupsInit
<1>2. BackupsTypeOK
  BY <1>1 DEF BackupsTypeOK, NoRun
<1>3. Existing = {}
  BY <1>1 DEF Existing
<1>4. BackupsInv
  BY <1>1, <1>3 DEF BackupsInv, BackupsAreComplete, Distinct, Held, Purged, NoRun
<1> QED
  BY <1>2, <1>4

\* A run that begins, is over, or failed holds nothing.
LEMMA BackupsPause ==
  ASSUME BackupsTypeOK, BackupsInv, UNCHANGED <<backups, dumps, taken>>,
         versions' \in (SUBSET BackupVersions) \union {None},
         \/ run' = run
         \/ run'.pc \in {"idle", "upload", "list"} /\ run' \in
              [pc : {"idle", "upload", "list"}, version : BackupVersions \union {None},
               purge : SUBSET BackupVersions, blob : Nat \union {None}, failed : BOOLEAN],
         run'.pc = "upload" => run'.version \in BackupVersions
  PROVE  BackupsTypeOK' /\ BackupsInv'
<1>1. BackupsTypeOK'
  BY DEF BackupsTypeOK
<1>2. BackupsAreComplete' /\ Distinct'
  BY DEF BackupsInv, BackupsAreComplete, Existing, Distinct
<1>3. Held'
  BY DEF BackupsInv, Held, Existing
<1>4. Purged'
  BY DEF BackupsInv, Purged, Existing
<1> QED
  BY <1>1, <1>2, <1>3, <1>4 DEF BackupsInv

LEMMA BackupsStarts ==
  BackupsTypeOK /\ BackupsInv /\ StartBackup => BackupsTypeOK' /\ BackupsInv'
<1> SUFFICES ASSUME BackupsTypeOK, BackupsInv, StartBackup PROVE BackupsTypeOK' /\ BackupsInv'
  OBVIOUS
<1>1. versions' \in (SUBSET BackupVersions) \union {None}
  BY DEF StartBackup, Listing, Existing, BackupsTypeOK
<1>2. run'.pc = "upload" /\ run'.version \in BackupVersions /\ run' \in
        [pc : {"idle", "upload", "list"}, version : BackupVersions \union {None},
         purge : SUBSET BackupVersions, blob : Nat \union {None}, failed : BOOLEAN]
  BY DEF StartBackup, NoRun
<1> QED
  BY <1>1, <1>2, BackupsPause DEF StartBackup

\* A dump gets a digest no other has; the version that is published, new or overwritten, gets it.
LEMMA BackupsUploads ==
  BackupsTypeOK /\ BackupsInv /\ UploadDump => BackupsTypeOK' /\ BackupsInv'
<1> SUFFICES ASSUME BackupsTypeOK, BackupsInv, UploadDump PROVE BackupsTypeOK' /\ BackupsInv'
  OBVIOUS
<1>1. taken + 1 \notin dumps /\ taken' = taken + 1 /\ dumps' = dumps \union {taken + 1}
  BY DEF UploadDump, BackupsInv, Distinct, BackupsTypeOK
<1>2. /\ run' = [run EXCEPT !.pc = "publish", !.blob = taken + 1]
      /\ run.pc = "upload" /\ UNCHANGED <<backups, versions>>
  BY <1>1 DEF UploadDump
<1>3. BackupsTypeOK'
  <2>1. taken + 1 \in Nat /\ dumps \union {taken + 1} \subseteq Nat
    BY DEF BackupsTypeOK
  <2>2. run' \in [pc : {"publish"}, version : BackupVersions \union {None},
                  purge : SUBSET BackupVersions, blob : Nat \union {None}, failed : BOOLEAN]
    BY <1>2, <2>1 DEF BackupsTypeOK
  <2> QED
    BY <1>1, <1>2, <2>1, <2>2 DEF BackupsTypeOK
<1>4. run'.pc = "publish" /\ run'.version = run.version /\ run'.blob = taken + 1
  BY <1>2 DEF BackupsTypeOK
<1>5. BackupsAreComplete' /\ Distinct'
  BY <1>1, <1>2 DEF BackupsInv, BackupsAreComplete, Distinct, Existing, BackupsTypeOK
<1>6. Held'
  BY <1>1, <1>2, <1>4 DEF BackupsInv, BackupsAreComplete, Held, Existing
<1>7. Purged'
  BY <1>4 DEF Purged
<1> QED
  BY <1>3, <1>5, <1>6, <1>7 DEF BackupsInv

LEMMA BackupsPublishes ==
  BackupsTypeOK /\ BackupsInv /\ PublishBackup => BackupsTypeOK' /\ BackupsInv'
<1> SUFFICES ASSUME BackupsTypeOK, BackupsInv, PublishBackup PROVE BackupsTypeOK' /\ BackupsInv'
  OBVIOUS
<1>1. /\ run.version \in BackupVersions /\ run.blob \in dumps
      /\ \A v \in Existing : backups[v] # run.blob
      /\ backups' = [backups EXCEPT ![run.version] = run.blob]
      /\ UNCHANGED <<dumps, taken, versions>>
  BY DEF PublishBackup, BackupsInv, Held
<1>2. run'.pc \in {"idle", "list"} /\ run' \in
        [pc : {"idle", "list"}, version : BackupVersions \union {None},
         purge : SUBSET BackupVersions, blob : Nat \union {None}, failed : BOOLEAN]
  BY DEF PublishBackup, NoRun, BackupsTypeOK
<1>3. BackupsTypeOK'
  BY <1>1, <1>2 DEF BackupsTypeOK
<1>4. BackupsAreComplete' /\ Distinct'
  BY <1>1 DEF BackupsInv, BackupsAreComplete, Distinct, Existing, BackupsTypeOK
<1>5. Held' /\ Purged'
  BY <1>2 DEF Held, Purged
<1> QED
  BY <1>3, <1>4, <1>5 DEF BackupsInv

LEMMA BackupsLists ==
  BackupsTypeOK /\ BackupsInv /\ ListBackups => BackupsTypeOK' /\ BackupsInv'
<1> SUFFICES ASSUME BackupsTypeOK, BackupsInv, ListBackups PROVE BackupsTypeOK' /\ BackupsInv'
  OBVIOUS
<1>1. UNCHANGED <<backups, dumps, taken, versions>>
  BY DEF ListBackups
<1>2. CASE run' = NoRun
  <2>1. run'.pc = "idle" /\ run' \in
          [pc : {"idle", "upload", "list"}, version : BackupVersions \union {None},
           purge : SUBSET BackupVersions, blob : Nat \union {None}, failed : BOOLEAN]
    BY <1>2 DEF NoRun
  <2> QED
    BY <1>1, <2>1, BackupsPause DEF BackupsTypeOK
<1>3. CASE run' = [run EXCEPT !.pc = "purge", !.purge = Purgeable(Existing)]
  <2>1. Purgeable(Existing) \subseteq BackupVersions
    BY DEF Purgeable, Existing
  <2>2. BackupsTypeOK'
    BY <1>1, <1>3, <2>1 DEF BackupsTypeOK
  <2>3. run'.pc = "purge" /\ run'.purge = Purgeable(Existing)
    BY <1>3 DEF BackupsTypeOK
  <2>4. BackupsAreComplete' /\ Distinct' /\ Existing' = Existing
    BY <1>1 DEF BackupsInv, BackupsAreComplete, Distinct, Existing
  <2>5. Held' /\ Purged'
    BY <2>3, <2>4 DEF Held, Purged, Purgeable
  <2> QED
    BY <2>2, <2>4, <2>5 DEF BackupsInv
<1> QED
  BY <1>2, <1>3 DEF ListBackups

\* The version goes first, then its dump, which then is that of no version; what is newer than a
\* version to be purged is not older than the one that is removed.
LEMMA BackupsRemoval ==
  ASSUME BackupsTypeOK, BackupsInv, NEW v \in run.purge, \A w \in run.purge : v <= w,
         backups' = [backups EXCEPT ![v] = None]
  PROVE  /\ Existing' = Existing \ {v}
         /\ \A w \in run.purge : Newer(w, Existing') = Newer(w, Existing)
<1>1. v \in BackupVersions /\ run.purge \subseteq BackupVersions
  BY DEF BackupsTypeOK
<1>2. Existing' = Existing \ {v}
  BY <1>1 DEF Existing, BackupsTypeOK
<1>3. ASSUME NEW w \in run.purge PROVE Newer(w, Existing') = Newer(w, Existing)
  <2>1. v \in Nat /\ w \in Nat /\ v <= w
    BY <1>1, BackupAssumption
  <2>2. ~ (v > w)
    BY <2>1
  <2>. QED  BY <1>2, <2>2 DEF Newer
<1> QED
  BY <1>2, <1>3

LEMMA BackupsRemoves ==
  BackupsTypeOK /\ BackupsInv /\ RemoveBackup => BackupsTypeOK' /\ BackupsInv'
<1> SUFFICES ASSUME BackupsTypeOK, BackupsInv, RemoveBackup PROVE BackupsTypeOK' /\ BackupsInv'
  OBVIOUS
<1>1. PICK v \in run.purge :
        /\ \A w \in run.purge : v <= w
        /\ backups' = [backups EXCEPT ![v] = None]
        /\ run' = [run EXCEPT !.pc = "blob", !.purge = @ \ {v}, !.blob = backups[v]]
  BY DEF RemoveBackup
<1>2. run.pc = "purge" /\ UNCHANGED <<dumps, taken, versions>> /\ v \in BackupVersions
  BY DEF RemoveBackup, BackupsTypeOK
<1>3. /\ Existing' = Existing \ {v}
      /\ \A w \in run.purge : Newer(w, Existing') = Newer(w, Existing)
  BY <1>1, BackupsRemoval
<1>4. BackupsTypeOK'
  BY <1>1, <1>2 DEF BackupsTypeOK
<1>5. run'.pc = "blob" /\ run'.purge = run.purge \ {v} /\ run'.blob = backups[v]
  BY <1>1 DEF BackupsTypeOK
<1>6. \A w \in Existing' : w \in Existing /\ w # v /\ backups'[w] = backups[w]
  BY <1>1, <1>3 DEF BackupsTypeOK, Existing
<1>7. BackupsAreComplete' /\ Distinct'
  BY <1>2, <1>6 DEF BackupsInv, BackupsAreComplete, Distinct
<1>8. Held'
  BY <1>2, <1>5, <1>6 DEF BackupsInv, Distinct, Held, Existing
<1>9. Purged'
  BY <1>2, <1>3, <1>5 DEF BackupsInv, Purged
<1> QED
  BY <1>4, <1>7, <1>8, <1>9 DEF BackupsInv

LEMMA BackupsForgets ==
  BackupsTypeOK /\ BackupsInv /\ RemoveDump => BackupsTypeOK' /\ BackupsInv'
<1> SUFFICES ASSUME BackupsTypeOK, BackupsInv, RemoveDump PROVE BackupsTypeOK' /\ BackupsInv'
  OBVIOUS
<1>1. /\ run.pc = "blob" /\ dumps' = dumps \ {run.blob}
      /\ UNCHANGED <<backups, taken, versions>>
  BY DEF RemoveDump
<1>2. /\ run'.pc \in {"idle", "purge"} /\ run'.purge = IF run'.pc = "idle" THEN {} ELSE run.purge
      /\ run' \in [pc : {"idle", "purge"}, version : BackupVersions \union {None},
                   purge : SUBSET BackupVersions, blob : Nat \union {None}, failed : BOOLEAN]
  BY DEF RemoveDump, NoRun, BackupsTypeOK
<1>3. BackupsTypeOK'
  BY <1>1, <1>2 DEF BackupsTypeOK
<1>4. BackupsAreComplete' /\ Distinct'
  BY <1>1 DEF BackupsInv, BackupsAreComplete, Distinct, Existing, Held
<1>5. Held' /\ Purged'
  BY <1>1, <1>2 DEF BackupsInv, Held, Purged, Existing
<1> QED
  BY <1>3, <1>4, <1>5 DEF BackupsInv

LEMMA BackupsOthers ==
  BackupsTypeOK /\ BackupsInv /\ (BackupFails \/ ListVersions \/ ExpireVersions)
    => BackupsTypeOK' /\ BackupsInv'
<1> SUFFICES ASSUME BackupsTypeOK, BackupsInv, BackupFails \/ ListVersions \/ ExpireVersions
             PROVE  BackupsTypeOK' /\ BackupsInv'
  OBVIOUS
<1>1. versions' \in (SUBSET BackupVersions) \union {None} /\ UNCHANGED <<backups, dumps, taken>>
  <2>1. Existing \in SUBSET BackupVersions
    BY DEF Existing
  <2>2. versions' \in {versions, Existing, None} /\ UNCHANGED <<backups, dumps, taken>>
    BY DEF BackupFails, ListVersions, ExpireVersions
  <2> QED
    BY <2>1, <2>2 DEF BackupsTypeOK
<1>2. CASE BackupFails
  <2>1. run'.pc = "idle" /\ run' \in
          [pc : {"idle", "upload", "list"}, version : BackupVersions \union {None},
           purge : SUBSET BackupVersions, blob : Nat \union {None}, failed : BOOLEAN]
    BY <1>2 DEF BackupFails, NoRun
  <2> QED
    BY <1>1, <2>1, BackupsPause
<1>3. CASE ListVersions \/ ExpireVersions
  <2>1. run' = run
    BY <1>3 DEF ListVersions, ExpireVersions
  <2>2. run'.pc = "upload" => run'.version \in BackupVersions
    BY <2>1 DEF BackupsInv, Held
  <2> QED
    BY <1>1, <2>1, <2>2, BackupsPause
<1> QED
  BY <1>2, <1>3

\* BackupsInv, with the types, is inductive.
LEMMA BackupsInductive ==
  BackupsTypeOK /\ BackupsInv /\ [BackupsNext]_backupVars => BackupsTypeOK' /\ BackupsInv'
<1> SUFFICES ASSUME BackupsTypeOK, BackupsInv, [BackupsNext]_backupVars
             PROVE  BackupsTypeOK' /\ BackupsInv'
  OBVIOUS
<1>1. CASE BackupsNext
  BY <1>1, BackupsStarts, BackupsUploads, BackupsPublishes, BackupsLists, BackupsRemoves,
     BackupsForgets, BackupsOthers DEF BackupsNext, BackupStep
<1>2. CASE UNCHANGED backupVars
  BY <1>2 DEF backupVars, BackupsTypeOK, BackupsInv, BackupsAreComplete, Distinct, Held, Purged,
              Existing
<1> QED
  BY <1>1, <1>2

\* The types of the variables of Backups, and what relates the versions, the dumps and a run.
THEOREM BackupsInvariant == BackupsSpec => [](BackupsTypeOK /\ BackupsInv)
  BY BackupsInitial, BackupsInductive, PTL DEF BackupsSpec

\* Whenever a run breaks off, and however often, each version has its dump in the registry.
THEOREM BackupsRestorable == BackupsSpec => []BackupsAreComplete
<1>1. BackupsInv => BackupsAreComplete
  BY DEF BackupsInv
<1> QED
  BY <1>1, BackupsInvariant, PTL

\* What a step removes had enough newer versions, which remain.
LEMMA BackupsRetention ==
  ASSUME BackupsTypeOK, BackupsInv, [BackupsNext]_backupVars, NEW v \in Existing,
         backups'[v] = None
  PROVE  Cardinality(Newer(v, {w \in BackupVersions : backups'[w] # None})) >= Retention
<1>1. v \in BackupVersions /\ backups[v] # None /\ backups' # backups
  BY DEF Existing
<1>2. ~PublishBackup
  <2> SUFFICES ASSUME PublishBackup PROVE FALSE
    OBVIOUS
  <2>1. run.version \in BackupVersions /\ run.blob \in Nat
    BY DEF PublishBackup, BackupsInv, Held, BackupsTypeOK
  <2>2. backups'[v] = run.blob \/ backups'[v] = backups[v]
    BY <1>1, <2>1 DEF PublishBackup, BackupsTypeOK
  <2> QED
    BY <1>1, <2>1, <2>2, BackupAssumption
<1>3. RemoveBackup
  BY <1>1, <1>2 DEF BackupsNext, BackupStep, StartBackup, UploadDump, ListBackups, RemoveDump,
                    BackupFails, ListVersions, ExpireVersions, backupVars
<1>4. PICK u \in run.purge :
        (\A w \in run.purge : u <= w) /\ backups' = [backups EXCEPT ![u] = None]
  BY <1>3 DEF RemoveBackup
<1>5. u = v
  BY <1>1, <1>4 DEF BackupsTypeOK
<1>6. Newer(v, Existing') = Newer(v, Existing)
  BY <1>4, <1>5, BackupsRemoval
<1>7. Cardinality(Newer(v, Existing)) >= Retention
  BY <1>3, <1>4, <1>5 DEF BackupsInv, Purged, RemoveBackup
<1> QED
  BY <1>6, <1>7 DEF Existing

\* Only back-ups with at least Retention newer ones are removed.
THEOREM OldOnesRemoved == BackupsSpec => NewerBackupsExist
<1>1. BackupsTypeOK /\ BackupsInv /\ [BackupsNext]_backupVars =>
        [\A v \in Existing : backups'[v] = None
           => LET remaining == {w \in BackupVersions : backups'[w] # None}
              IN Cardinality(Newer(v, remaining)) >= Retention]_backupVars
  BY BackupsRetention
<1> QED
  BY <1>1, BackupsInvariant, PTL DEF BackupsSpec, NewerBackupsExist

-----------------------------------------------------------------------------
(* How many back-ups remain *)

LEMMA LeastOf ==
  ASSUME NEW S \in SUBSET Nat, S # {}
  PROVE  \E m \in S : \A v \in S : m <= v
<1>1. IsWellFoundedOn({p \in Nat \X Nat : p[1] < p[2]}, Nat)
  BY NatLessThanWellFounded DEF OpToRel
<1>2. PICK m \in S : \A v \in S : <<v, m>> \notin {p \in Nat \X Nat : p[1] < p[2]}
  BY <1>1, WFMin
<1>3. ASSUME NEW v \in S PROVE m <= v
  <2>1. <<v, m>> \in Nat \X Nat /\ m \in Nat /\ v \in Nat
    OBVIOUS
  <2>2. ~ (v < m)
    BY <1>2, <2>1
  <2> QED
    BY <2>1, <2>2
<1> QED
  BY <1>2, <1>3

\* Of any versions, those that are not purgeable are Retention at most: the oldest of them has less
\* than Retention newer ones.
LEMMA RemainingAreFew ==
  ASSUME NEW all \in SUBSET BackupVersions, IsFiniteSet(all)
  PROVE  Cardinality(all \ Purgeable(all)) <= Retention
<1> DEFINE rest == all \ Purgeable(all)
<1>1. CASE rest = {}
  BY <1>1, FS_EmptySet, BackupAssumption
<1>2. CASE rest # {}
  <2>1. PICK m \in rest : \A v \in rest : m <= v
    <3>1. rest \in SUBSET Nat
      BY BackupAssumption
    <3> QED
      BY <1>2, <3>1, LeastOf
  <2>2. Newer(m, all) \in SUBSET all /\ m \notin Newer(m, all)
    BY BackupAssumption DEF Newer
  <2>3. IsFiniteSet(Newer(m, all)) /\ Cardinality(Newer(m, all)) \in Nat
    BY <2>2, FS_Subset, FS_CardinalityType
  <2>4. Cardinality(Newer(m, all)) < Retention
    BY <2>3, BackupAssumption DEF Purgeable
  <2>5. rest \in SUBSET (Newer(m, all) \union {m})
    <3>1. \A v \in rest : v \in all /\ v \in Nat /\ m \in Nat /\ m <= v
      BY <2>1, BackupAssumption
    <3>2. \A v \in rest : v = m \/ v > m
      BY <3>1
    <3> QED
      BY <3>1, <3>2 DEF Newer
  <2>6. /\ IsFiniteSet(Newer(m, all) \union {m})
        /\ Cardinality(Newer(m, all) \union {m}) = Cardinality(Newer(m, all)) + 1
    BY <2>2, <2>3, FS_AddElement
  <2>7. IsFiniteSet(rest) /\ Cardinality(rest) <= Cardinality(Newer(m, all)) + 1
    BY <2>5, <2>6, FS_Subset
  <2>8. Cardinality(rest) \in Nat
    BY <2>7, FS_CardinalityType
  <2> QED
    BY <2>3, <2>4, <2>7, <2>8, BackupAssumption
<1> QED
  BY <1>1, <1>2

\* There are finitely many back-ups, and what a run has yet to purge are all but the newest ones.
Surplus ==
  /\ IsFiniteSet(Existing)
  /\ run.pc \in {"purge", "blob"} => Cardinality(Existing \ run.purge) <= Retention
  /\ OldBackupsAreRemoved

\* Where the back-ups are the same: a run that begins or fails, or a list with nothing to purge.
LEMMA SurplusKept ==
  ASSUME BackupsTypeOK, Surplus, UNCHANGED backups,
         \/ run' = run
         \/ run'.pc \in {"upload", "publish", "list"}
         \/ run'.pc = "idle" /\ run'.failed
  PROVE  Surplus'
BY DEF Surplus, OldBackupsAreRemoved, Existing

LEMMA SurplusInductive ==
  ASSUME BackupsTypeOK, BackupsInv, Surplus, [BackupsNext]_backupVars
  PROVE  Surplus'
<1>0. Existing \in SUBSET BackupVersions
  BY DEF Existing
<1>1. CASE StartBackup \/ UploadDump \/ BackupFails \/ ListVersions \/ ExpireVersions
           \/ UNCHANGED backupVars
  <2>1. UNCHANGED backups
    BY <1>1 DEF StartBackup, UploadDump, BackupFails, ListVersions, ExpireVersions, backupVars
  <2>2. run' = run \/ run'.pc \in {"upload", "publish"} \/ (run'.pc = "idle" /\ run'.failed)
    BY <1>1 DEF StartBackup, UploadDump, BackupFails, ListVersions, ExpireVersions, backupVars,
                NoRun, BackupsTypeOK
  <2> QED
    BY <2>1, <2>2, SurplusKept
<1>2. CASE PublishBackup
  <2>1. run.version \in BackupVersions /\ run.blob \in Nat
    BY <1>2 DEF PublishBackup, BackupsInv, Held, BackupsTypeOK
  <2>2. Existing' = Existing \union {run.version}
    BY <1>2, <2>1, BackupAssumption DEF PublishBackup, Existing, BackupsTypeOK
  <2>3. IsFiniteSet(Existing')
    BY <2>2, FS_AddElement DEF Surplus
  <2>4. IF Retention = 0 THEN run'.pc = "idle" ELSE run'.pc = "list"
    BY <1>2 DEF PublishBackup, NoRun, BackupsTypeOK
  <2> QED
    BY <2>3, <2>4 DEF Surplus, OldBackupsAreRemoved
<1>3. CASE ListBackups
  <2>1. UNCHANGED backups /\ Existing' = Existing
    BY <1>3 DEF ListBackups, Existing
  <2>2. Cardinality(Existing \ Purgeable(Existing)) <= Retention
    BY <1>0, RemainingAreFew DEF Surplus
  <2>3. CASE Purgeable(Existing) = {}
    <3>1. run'.pc = "idle" /\ Existing \ Purgeable(Existing) = Existing
      BY <1>3, <2>3 DEF ListBackups, NoRun
    <3> QED
      BY <2>1, <2>2, <3>1 DEF Surplus, OldBackupsAreRemoved
  <2>4. CASE Purgeable(Existing) # {}
    <3>1. run'.pc = "purge" /\ run'.purge = Purgeable(Existing)
      BY <1>3, <2>4 DEF ListBackups, BackupsTypeOK
    <3> QED
      BY <2>1, <2>2, <3>1 DEF Surplus, OldBackupsAreRemoved
  <2> QED
    BY <2>3, <2>4
<1>4. CASE RemoveBackup
  <2>1. PICK v \in run.purge :
          /\ \A w \in run.purge : v <= w
          /\ backups' = [backups EXCEPT ![v] = None]
          /\ run' = [run EXCEPT !.pc = "blob", !.purge = @ \ {v}, !.blob = backups[v]]
    BY <1>4 DEF RemoveBackup
  <2>2. Existing' = Existing \ {v}
    BY <2>1, BackupsRemoval
  <2>3. run'.pc = "blob" /\ run'.purge = run.purge \ {v}
    BY <2>1 DEF BackupsTypeOK
  <2>4. Existing' \ run'.purge = Existing \ run.purge
    BY <2>1, <2>2, <2>3
  <2>5. IsFiniteSet(Existing')
    BY <2>2, FS_RemoveElement DEF Surplus
  <2> QED
    BY <1>4, <2>3, <2>4, <2>5 DEF Surplus, OldBackupsAreRemoved, RemoveBackup
<1>5. CASE RemoveDump
  <2>1. UNCHANGED backups /\ Existing' = Existing /\ run.pc = "blob"
    BY <1>5 DEF RemoveDump, Existing
  <2>2. CASE run.purge = {}
    <3>1. run'.pc = "idle" /\ Existing \ run.purge = Existing
      BY <1>5, <2>2 DEF RemoveDump, NoRun
    <3> QED
      BY <2>1, <3>1 DEF Surplus, OldBackupsAreRemoved
  <2>3. CASE run.purge # {}
    <3>1. run'.pc = "purge" /\ run'.purge = run.purge
      BY <1>5, <2>3 DEF RemoveDump, BackupsTypeOK
    <3> QED
      BY <2>1, <3>1 DEF Surplus, OldBackupsAreRemoved
  <2> QED
    BY <2>2, <2>3
<1> QED
  BY <1>1, <1>2, <1>3, <1>4, <1>5 DEF BackupsNext, BackupStep

\* For any retention, however often the job fails: a run that does not fail leaves at most Retention
\* back-ups behind, and none is removed that has not as many newer ones.
THEOREM OnlyOldOnesRemoved == BackupsSpec => BackupsAreKept
<1>1. BackupsInit => Surplus
  <2> SUFFICES ASSUME BackupsInit PROVE Surplus
    OBVIOUS
  <2>1. Existing = {} /\ run.pc = "idle"
    BY DEF BackupsInit, Existing, NoRun
  <2> QED
    BY <2>1, FS_EmptySet, BackupAssumption DEF Surplus, OldBackupsAreRemoved
<1>2. BackupsSpec => []Surplus
  BY <1>1, SurplusInductive, BackupsInvariant, PTL DEF BackupsSpec
<1>3. Surplus => OldBackupsAreRemoved
  BY DEF Surplus
<1> QED
  BY <1>2, <1>3, OldOnesRemoved, PTL DEF BackupsAreKept

-----------------------------------------------------------------------------
(* Artefact enumerator *)

EnumeratorTypeOK ==
  /\ FaultsTypeOK
  /\ present \subseteq Artefacts
  /\ snapshots \in [Artefacts -> Snapshots \union {None}]
  /\ scans \in [Artefacts -> SUBSET Scanners]
  /\ items \in [Artefacts -> [Services -> {NONE, LOW, HIGH}]]
  /\ working \in [Artefacts -> [Services -> [active : BOOLEAN] \union {None}]]
  /\ open \subseteq Artefacts
  /\ round \in [pc : {"idle", "process", "update", "create"}, found : SUBSET Artefacts,
                todo : SUBSET Artefacts, read : [Artefacts -> Snapshots \union {None}],
                updated : [Artefacts -> Snapshots \union {None}],
                due : SUBSET (Artefacts \X Services \X {LOW, HIGH})]

Gone(a) == snapshots[a] = None \/ ~snapshots[a].active

\* The issue replicator knows, or is about to know, a as a part of the BoM.
TakenAsPresent(a) == a \in open \/ (working[a][Replicator] # None /\ working[a][Replicator].active)

\* It is going to hear the contrary.
WillHear(a) ==
  \/ round.pc = "create" /\ <<a, Replicator, HIGH>> \in round.due
  \/ items[a][Replicator] # NONE /\ working[a][Replicator] = None
  \/ working[a][Replicator] # None /\ ~working[a][Replicator].active

\* What a run has read is what is stored, and it reports what it marks as inactive.
RoundInv ==
  /\ round.pc = "idle" => round = Idle
  /\ round.pc = "process" =>
       /\ round.read = snapshots
       /\ \A a \in Artefacts : round.updated[a] # None => round.updated[a].active
  /\ round.pc = "update" =>
       \A a \in Artefacts : round.updated[a] # None /\ ~round.updated[a].active
                              => <<a, Replicator, HIGH>> \in round.due

Unbroken == Grace # 0 /\ Never("abort") /\ Never("overlap")

ReportInv ==
  /\ RoundInv
  /\ Unbroken => \A a \in Artefacts : Gone(a) /\ TakenAsPresent(a) => WillHear(a)

EnumeratorInv == EnumeratorTypeOK /\ ReportInv

LEMMA EnumeratorUnbroken ==
  ASSUME FaultsTypeOK, UNCHANGED faults \/ \E kind : Spend(kind)
  PROVE  FaultsTypeOK' /\ (Unbroken' => Unbroken)
<1>1. CASE UNCHANGED faults
  BY <1>1 DEF faults, FaultsTypeOK, Unbroken, Never
<1>2. ASSUME NEW kind, Spend(kind)
      PROVE  FaultsTypeOK' /\ (Unbroken' => Unbroken)
  <2>1. CASE kind \in DOMAIN Limit
    BY <1>2, <2>1, LimitAssumption, EnumeratorAssumption DEF Spend, FaultsTypeOK, Unbroken, Never
  <2>2. CASE kind \notin DOMAIN Limit
    <3>1. spent' = spent /\ left' \in Nat
      BY <1>2, <2>2 DEF Spend, FaultsTypeOK
    <3>. QED  BY <3>1 DEF FaultsTypeOK, Unbroken, Never
  <2>. QED  BY <2>1, <2>2
<1>. QED  BY <1>1, <1>2

LEMMA EnumeratorBroken ==
  ASSUME FaultsTypeOK, Spend("abort") \/ Spend("overlap")
  PROVE  ~Unbroken'
  BY EnumeratorAssumption DEF Spend, FaultsTypeOK, Unbroken, Never

\* Snapshots remain snapshots; those of the artefacts that are found are active.
LEMMA ActivatedType ==
  ASSUME NEW snapshot \in Snapshots \union {None}
  PROVE  Activated(snapshot) \in Snapshots /\ Activated(snapshot).active
<1>1. Created \in Snapshots /\ Created.active
  BY DEF Created, Snapshots
<1>2. CASE snapshot # None /\ ~snapshot.active
  BY <1>2 DEF Activated, Snapshots
<1>. QED  BY <1>1, <1>2 DEF Activated

LEMMA RefreshedType ==
  ASSUME NEW snapshot \in Snapshots, NEW a, NEW count \in Nat \union {None}
  PROVE  /\ Refreshed(snapshot, a, count) \in Snapshots
         /\ Refreshed(snapshot, a, count).active = snapshot.active
<1> DEFINE of == [s \in Services |->
                    IF s \in DueServices(snapshot, a, count)
                    THEN [age |-> 0, status |-> StatusOf(s, count)] ELSE snapshot.of[s]]
<1>1. ASSUME NEW s \in Services
      PROVE  [age |-> 0, status |-> StatusOf(s, count)] \in States
  <2>1. StatusOf(s, count) \in Nat \union {None}
    BY DEF StatusOf
  <2>. QED  BY <2>1 DEF States
<1>2. of \in [Services -> States \union {None}]
  BY <1>1 DEF Snapshots
<1> HIDE DEF of
<1>3. /\ [snapshot EXCEPT !.of = of] \in Snapshots
      /\ [snapshot EXCEPT !.of = of].active = snapshot.active
  BY <1>2 DEF Snapshots
<1>. QED  BY <1>3 DEF Refreshed, of

LEMMA DeactivatedType ==
  ASSUME NEW snapshot \in Snapshots
  PROVE  /\ Deactivated(snapshot) \in Snapshots /\ ~Deactivated(snapshot).active
         /\ snapshot.active => Deactivated(snapshot).age = 0
  BY DEF Deactivated, Snapshots

\* Steps that change neither the snapshots nor what is being reported.
LEMMA NothingReported ==
  ASSUME EnumeratorInv, EnumeratorTypeOK', Unbroken' => Unbroken, RoundInv',
         UNCHANGED <<snapshots, items, working, open>>,
         round.pc = "create" => round'.pc = "create" /\ round'.due = round.due
  PROVE  EnumeratorInv'
  BY DEF EnumeratorInv, ReportInv, Gone, TakenAsPresent, WillHear

LEMMA IdleType ==
  /\ Idle \in [pc : {"idle"}, found : SUBSET Artefacts,
               todo : SUBSET Artefacts, read : [Artefacts -> Snapshots \union {None}],
               updated : [Artefacts -> Snapshots \union {None}],
               due : SUBSET (Artefacts \X Services \X {LOW, HIGH})]
  /\ \A a \in Artefacts : Idle.updated[a] = None
<1>1. [a \in Artefacts |-> None] \in [Artefacts -> Snapshots \union {None}]
  OBVIOUS
<1>. QED  BY <1>1 DEF Idle

LEMMA EnumeratorStart ==
  ASSUME EnumeratorInv, StartRun \/ EndRun \/ Abort PROVE EnumeratorInv'
<1>0. EnumeratorTypeOK /\ RoundInv
  BY DEF EnumeratorInv, ReportInv
<1>1. /\ UNCHANGED <<present, snapshots, scans, items, working, open>>
      /\ UNCHANGED faults \/ \E kind : Spend(kind)
  BY DEF StartRun, EndRun, Abort
<1>2. FaultsTypeOK' /\ (Unbroken' => Unbroken)
  BY <1>0, <1>1, EnumeratorUnbroken DEF EnumeratorTypeOK
<1>3. CASE StartRun
  <2>1. PICK lost \in SUBSET present :
          round' = [round EXCEPT !.pc = "process", !.read = snapshots,
                                 !.found = present \ lost, !.todo = present \ lost]
    BY <1>3 DEF StartRun
  <2>2. round.pc = "idle" /\ \A a \in Artefacts : round.updated[a] = None
    BY <1>0, <1>3, IdleType DEF StartRun, RoundInv
  <2>3. present \ lost \subseteq Artefacts
    BY <1>0 DEF EnumeratorTypeOK
  <2>4. round' \in [pc : {"process"}, found : SUBSET Artefacts,
                todo : SUBSET Artefacts, read : [Artefacts -> Snapshots \union {None}],
                updated : [Artefacts -> Snapshots \union {None}],
                due : SUBSET (Artefacts \X Services \X {LOW, HIGH})]
    BY <1>0, <2>1, <2>3 DEF EnumeratorTypeOK
  <2>5. round'.pc = "process" /\ round'.read = snapshots /\ round'.updated = round.updated
    BY <1>0, <2>1 DEF EnumeratorTypeOK
  <2>6. EnumeratorTypeOK'
    BY <1>0, <1>1, <1>2, <2>4 DEF EnumeratorTypeOK
  <2>7. RoundInv'
    BY <1>1, <2>2, <2>5 DEF RoundInv
  <2>. QED  BY <1>1, <1>2, <2>2, <2>6, <2>7, NothingReported
<1>4. CASE EndRun \/ Abort
  <2>1. round' = Idle
    BY <1>4 DEF EndRun, Abort
  <2>2. EnumeratorTypeOK'
    BY <1>0, <1>1, <1>2, <2>1, IdleType DEF EnumeratorTypeOK
  <2>3. RoundInv'
    BY <2>1, IdleType DEF RoundInv
  <2>4. CASE EndRun
    <3>1. ASSUME NEW a \in Artefacts PROVE WillHear(a)' <=> WillHear(a)
      BY <1>1, <2>1, <2>4, IdleType DEF WillHear, EndRun
    <3>. QED  BY <1>1, <1>2, <2>2, <2>3, <3>1 DEF EnumeratorInv, ReportInv, Gone, TakenAsPresent
  <2>5. CASE Abort
    <3>1. ~Unbroken'
      BY <1>0, <2>5, EnumeratorBroken DEF EnumeratorTypeOK, Abort
    <3>. QED  BY <2>2, <2>3, <3>1 DEF EnumeratorInv, ReportInv
  <2>. QED  BY <1>4, <2>4, <2>5
<1>. QED  BY <1>3, <1>4

LEMMA EnumeratorProcess ==
  ASSUME EnumeratorInv, NEW a \in Artefacts, ProcessArtefact(a) PROVE EnumeratorInv'
<1>0. EnumeratorTypeOK /\ RoundInv
  BY DEF EnumeratorInv, ReportInv
<1>1. /\ UNCHANGED <<present, snapshots, scans, items, working, open>>
      /\ UNCHANGED faults \/ \E kind : Spend(kind)
      /\ round.pc = "process"
  BY DEF ProcessArtefact
<1>2. FaultsTypeOK' /\ (Unbroken' => Unbroken)
  BY <1>0, <1>1, EnumeratorUnbroken DEF EnumeratorTypeOK
<1> DEFINE snapshot == Activated(round.read[a])
<1>3. PICK count \in {Cardinality(scans[a]), None} :
        round' = [round EXCEPT
            !.todo = @ \ {a},
            !.updated[a] = Refreshed(snapshot, a, count),
            !.due = @ \union
              {<<a, s, Priority(snapshot, s, StatusOf(s, count))>> :
                 s \in DueServices(snapshot, a, count)}]
  BY DEF ProcessArtefact
<1>4. count \in Nat \union {None}
  <2>1. IsFiniteSet(scans[a])
    <3>1. scans[a] \in SUBSET Scanners
      BY <1>0 DEF EnumeratorTypeOK
    <3>. QED  BY <3>1, FS_Subset, EnumeratorAssumption
  <2>. QED  BY <2>1, FS_CardinalityType
<1>5. snapshot \in Snapshots /\ snapshot.active
  <2>1. round.read[a] \in Snapshots \union {None}
    BY <1>0 DEF EnumeratorTypeOK
  <2>. QED  BY <2>1, ActivatedType
<1> HIDE DEF snapshot
<1>6. Refreshed(snapshot, a, count) \in Snapshots /\ Refreshed(snapshot, a, count).active
  BY <1>4, <1>5, RefreshedType
<1> DEFINE wanted == {<<a, s, Priority(snapshot, s, StatusOf(s, count))>> :
                     s \in DueServices(snapshot, a, count)}
<1>7. wanted \subseteq Artefacts \X Services \X {LOW, HIGH}
  <2> SUFFICES ASSUME NEW s \in DueServices(snapshot, a, count)
               PROVE  s \in Services /\ Priority(snapshot, s, StatusOf(s, count)) \in {LOW, HIGH}
    OBVIOUS
  <2>1. Priority(snapshot, s, StatusOf(s, count)) \in {NONE, LOW, HIGH}
    BY DEF Priority
  <2>. QED  BY <2>1 DEF DueServices, ServicesOf, Services
<1> DEFINE refreshed == Refreshed(snapshot, a, count)
<1> HIDE DEF wanted, refreshed
<1>8. round' = [round EXCEPT !.todo = round.todo \ {a},
                  !.updated = [round.updated EXCEPT ![a] = refreshed],
                  !.due = round.due \union wanted]
  BY <1>3 DEF wanted, refreshed
<1>9. [round.updated EXCEPT ![a] = refreshed] \in [Artefacts -> Snapshots \union {None}]
      /\ \A b \in Artefacts : [round.updated EXCEPT ![a] = refreshed][b]
                                = IF b = a THEN refreshed ELSE round.updated[b]
  BY <1>0, <1>6 DEF EnumeratorTypeOK, refreshed
<1> DEFINE updated == [round.updated EXCEPT ![a] = refreshed]
<1> HIDE DEF updated
<1>10. /\ round' \in [pc : {"process"}, found : SUBSET Artefacts,
                todo : SUBSET Artefacts, read : [Artefacts -> Snapshots \union {None}],
                updated : [Artefacts -> Snapshots \union {None}],
                due : SUBSET (Artefacts \X Services \X {LOW, HIGH})]
       /\ round'.pc = "process" /\ round'.read = round.read /\ round'.updated = updated
  BY <1>0, <1>1, <1>7, <1>8, <1>9 DEF EnumeratorTypeOK, updated
<1>11. EnumeratorTypeOK'
  BY <1>0, <1>1, <1>2, <1>10 DEF EnumeratorTypeOK
<1>12. RoundInv'
  BY <1>0, <1>1, <1>6, <1>9, <1>10 DEF RoundInv, updated, refreshed
<1>. QED  BY <1>1, <1>2, <1>11, <1>12, NothingReported

\* Only a snapshot that is inactive already is deleted.
LEMMA EnumeratorInactive ==
  ASSUME EnumeratorInv, ProcessInactive PROVE EnumeratorInv'
<1>0. EnumeratorTypeOK /\ RoundInv
  BY DEF EnumeratorInv, ReportInv
<1> DEFINE gone == {a \in Artefacts : round.read[a] # None /\ a \notin round.found}
           deletable == {a \in gone : Deactivated(round.read[a]).age >= Grace}
           marked == {a \in gone \ deletable : round.read[a].active}
           updated == [a \in Artefacts |-> IF a \in marked THEN Deactivated(round.read[a])
                                           ELSE round.updated[a]]
           wanted == round.due \union {<<a, Replicator, HIGH>> : a \in marked}
<1>1. /\ UNCHANGED <<present, scans, items, working, open>>
      /\ UNCHANGED faults \/ \E kind : Spend(kind)
      /\ round.pc = "process" /\ round.read = snapshots
      /\ \A a \in Artefacts : round.updated[a] # None => round.updated[a].active
  BY <1>0 DEF ProcessInactive, RoundInv
<1>2. FaultsTypeOK' /\ (Unbroken' => Unbroken)
  BY <1>0, <1>1, EnumeratorUnbroken DEF EnumeratorTypeOK
<1>3. round' = [round EXCEPT !.pc = "update", !.updated = updated, !.due = wanted]
  BY DEF ProcessInactive
<1>4. \/ snapshots' = [a \in Artefacts |-> IF a \in deletable THEN None ELSE snapshots[a]]
      \/ UNCHANGED snapshots
  BY DEF ProcessInactive
<1>5. \A a \in Artefacts : round.read[a] # None => round.read[a] \in Snapshots
  BY <1>0 DEF EnumeratorTypeOK
<1>6. Grace # 0 => \A a \in deletable : ~round.read[a].active
  <2> SUFFICES ASSUME Grace # 0, NEW a \in deletable, round.read[a].active PROVE FALSE
    OBVIOUS
  <2>1. Deactivated(round.read[a]).age = 0 /\ Deactivated(round.read[a]).age >= Grace
    BY <1>5, DeactivatedType
  <2>. QED  BY <2>1, EnumeratorAssumption
<1>7. /\ updated \in [Artefacts -> Snapshots \union {None}]
      /\ \A a \in Artefacts :
           updated[a] # None /\ ~updated[a].active => <<a, Replicator, HIGH>> \in wanted
  <2>1. \A a \in Artefacts : updated[a] = IF a \in marked THEN Deactivated(round.read[a])
                                          ELSE round.updated[a]
    OBVIOUS
  <2>2. \A a \in marked :
          Deactivated(round.read[a]) \in Snapshots /\ <<a, Replicator, HIGH>> \in wanted
    BY <1>5, DeactivatedType
  <2>3. \A a \in Artefacts : round.updated[a] \in Snapshots \union {None}
    BY <1>0 DEF EnumeratorTypeOK
  <2>4. updated = [a \in Artefacts |-> updated[a]]
    OBVIOUS
  <2> HIDE DEF updated, wanted, marked
  <2>5. \A a \in Artefacts : updated[a] \in Snapshots \union {None}
    BY <2>1, <2>2, <2>3
  <2>6. updated \in [Artefacts -> Snapshots \union {None}]
    BY <2>4, <2>5
  <2>. QED  BY <1>1, <2>1, <2>2, <2>6
<1>8. wanted \subseteq Artefacts \X Services \X {LOW, HIGH}
  BY <1>0 DEF EnumeratorTypeOK, Services
<1>9. Grace # 0 =>
        \A a \in Artefacts : snapshots'[a] = snapshots[a] \/ (snapshots'[a] = None /\ Gone(a))
  <2> HIDE DEF marked, updated, wanted
  <2>1. Grace # 0 => \A a \in deletable : Gone(a)
    BY <1>1, <1>6 DEF Gone
  <2> HIDE DEF deletable
  <2>. QED  BY <1>4, <2>1
<1>10. snapshots' \in [Artefacts -> Snapshots \union {None}]
  <2> HIDE DEF deletable, marked, updated, wanted
  <2>. QED  BY <1>0, <1>4 DEF EnumeratorTypeOK
<1> HIDE DEF gone, deletable, marked, updated, wanted
<1>11. /\ round' \in [pc : {"update"}, found : SUBSET Artefacts,
                todo : SUBSET Artefacts, read : [Artefacts -> Snapshots \union {None}],
                updated : [Artefacts -> Snapshots \union {None}],
                due : SUBSET (Artefacts \X Services \X {LOW, HIGH})]
       /\ round'.pc = "update" /\ round'.updated = updated /\ round'.due = wanted
  BY <1>0, <1>3, <1>7, <1>8 DEF EnumeratorTypeOK
<1>12. EnumeratorTypeOK'
  BY <1>0, <1>1, <1>2, <1>10, <1>11 DEF EnumeratorTypeOK
<1>13. RoundInv'
  BY <1>7, <1>11 DEF RoundInv
<1>14. Unbroken' => \A a \in Artefacts : (Gone(a) /\ TakenAsPresent(a) => WillHear(a))'
  <2>1. Grace # 0 => \A a \in Artefacts : Gone(a)' => Gone(a)
    BY <1>9 DEF Gone
  <2>2. \A a \in Artefacts : WillHear(a) => WillHear(a)'
    BY <1>1 DEF WillHear
  <2>. QED  BY <1>1, <1>2, <2>1, <2>2 DEF EnumeratorInv, ReportInv, TakenAsPresent, Unbroken
<1>. QED  BY <1>12, <1>13, <1>14 DEF EnumeratorInv, ReportInv

LEMMA EnumeratorUpdate ==
  ASSUME EnumeratorInv, UpdateSnapshots PROVE EnumeratorInv'
<1>0. EnumeratorTypeOK /\ RoundInv
  BY DEF EnumeratorInv, ReportInv
<1>1. /\ UNCHANGED <<present, scans, items, working, open>>
      /\ UNCHANGED faults \/ \E kind : Spend(kind)
      /\ round.pc = "update"
      /\ round' = [round EXCEPT !.pc = "create"]
      /\ \/ snapshots' = [a \in Artefacts |->
             IF round.updated[a] # None THEN round.updated[a] ELSE snapshots[a]]
         \/ UNCHANGED snapshots
  BY DEF UpdateSnapshots
<1>2. FaultsTypeOK' /\ (Unbroken' => Unbroken)
  BY <1>0, <1>1, EnumeratorUnbroken DEF EnumeratorTypeOK
<1>3. /\ round' \in [pc : {"create"}, found : SUBSET Artefacts,
                todo : SUBSET Artefacts, read : [Artefacts -> Snapshots \union {None}],
                updated : [Artefacts -> Snapshots \union {None}],
                due : SUBSET (Artefacts \X Services \X {LOW, HIGH})]
      /\ round'.pc = "create" /\ round'.due = round.due
  BY <1>0, <1>1 DEF EnumeratorTypeOK
<1>4. /\ snapshots' \in [Artefacts -> Snapshots \union {None}]
      /\ \A a \in Artefacts : \/ snapshots'[a] = snapshots[a]
                              \/ snapshots'[a] = round.updated[a] /\ round.updated[a] # None
  BY <1>0, <1>1 DEF EnumeratorTypeOK
<1>5. EnumeratorTypeOK'
  BY <1>0, <1>1, <1>2, <1>3, <1>4 DEF EnumeratorTypeOK
<1>6. RoundInv'
  BY <1>3 DEF RoundInv
<1>7. Unbroken' => \A a \in Artefacts : (Gone(a) /\ TakenAsPresent(a) => WillHear(a))'
  <2> SUFFICES ASSUME Unbroken', NEW a \in Artefacts, Gone(a)', TakenAsPresent(a)'
               PROVE  WillHear(a)'
    OBVIOUS
  <2>1. CASE snapshots'[a] = snapshots[a]
    <3>1. WillHear(a)
      BY <1>1, <1>2, <2>1 DEF EnumeratorInv, ReportInv, Gone, TakenAsPresent
    <3>. QED  BY <1>1, <3>1 DEF WillHear
  <2>2. CASE snapshots'[a] = round.updated[a] /\ round.updated[a] # None
    <3>1. <<a, Replicator, HIGH>> \in round.due
      BY <1>0, <1>1, <2>2 DEF RoundInv, Gone
    <3>. QED  BY <1>3, <3>1 DEF WillHear
  <2>. QED  BY <1>4, <2>1, <2>2
<1>. QED  BY <1>5, <1>6, <1>7 DEF EnumeratorInv, ReportInv

LEMMA EnumeratorCreate ==
  ASSUME EnumeratorInv, NEW a \in Artefacts, NEW s \in Services, NEW prio \in {LOW, HIGH},
         CreateItem(a, s, prio)
  PROVE  EnumeratorInv'
<1>0. EnumeratorTypeOK /\ RoundInv
  BY DEF EnumeratorInv, ReportInv
<1>1. /\ UNCHANGED <<present, snapshots, scans, working, open>>
      /\ round.pc = "create"
      /\ round' = [round EXCEPT !.due = @ \ {<<a, s, prio>>}]
      /\ items' = [items EXCEPT ![a][s] = IF @ < prio THEN prio ELSE @]
      /\ IF working[a][s] # None THEN Spend("overlap") ELSE UNCHANGED faults
  BY DEF CreateItem
<1>2. FaultsTypeOK' /\ (Unbroken' => Unbroken)
  BY <1>0, <1>1, EnumeratorUnbroken DEF EnumeratorTypeOK
<1>3. /\ round' \in [pc : {"create"}, found : SUBSET Artefacts,
                todo : SUBSET Artefacts, read : [Artefacts -> Snapshots \union {None}],
                updated : [Artefacts -> Snapshots \union {None}],
                due : SUBSET (Artefacts \X Services \X {LOW, HIGH})]
      /\ round'.pc = "create" /\ round'.due = round.due \ {<<a, s, prio>>}
  BY <1>0, <1>1 DEF EnumeratorTypeOK
<1>4. /\ items' \in [Artefacts -> [Services -> {NONE, LOW, HIGH}]]
      /\ items'[a][s] # NONE
      /\ \A b \in Artefacts, t \in Services : items[b][t] # NONE => items'[b][t] # NONE
  <2>1. items[a] \in [Services -> {NONE, LOW, HIGH}] /\ items[a][s] \in {NONE, LOW, HIGH}
    BY <1>0 DEF EnumeratorTypeOK
  <2>2. PICK p \in {LOW, HIGH} : p = IF items[a][s] < prio THEN prio ELSE items[a][s]
    BY <2>1 DEF NONE, LOW, HIGH
  <2>3. items' = [items EXCEPT ![a] = [items[a] EXCEPT ![s] = p]]
    BY <1>1, <2>2
  <2>4. /\ [items[a] EXCEPT ![s] = p] \in [Services -> {NONE, LOW, HIGH}]
        /\ \A t \in Services : [items[a] EXCEPT ![s] = p][t] = IF t = s THEN p ELSE items[a][t]
    BY <2>1
  <2>5. \A b \in Artefacts : items'[b] = IF b = a THEN [items[a] EXCEPT ![s] = p] ELSE items[b]
    BY <1>0, <2>3 DEF EnumeratorTypeOK
  <2>6. p # NONE
    BY DEF NONE, LOW, HIGH
  <2>7. items' \in [Artefacts -> [Services -> {NONE, LOW, HIGH}]]
    BY <1>0, <2>3, <2>4 DEF EnumeratorTypeOK
  <2>. QED  BY <2>4, <2>5, <2>6, <2>7
<1>5. EnumeratorTypeOK'
  BY <1>0, <1>1, <1>2, <1>3, <1>4 DEF EnumeratorTypeOK
<1>6. RoundInv'
  BY <1>3 DEF RoundInv
<1>7. Unbroken' => \A b \in Artefacts : (Gone(b) /\ TakenAsPresent(b) => WillHear(b))'
  <2> SUFFICES ASSUME Unbroken', NEW b \in Artefacts, Gone(b)', TakenAsPresent(b)'
               PROVE  WillHear(b)'
    OBVIOUS
  <2>1. WillHear(b)
    BY <1>1, <1>2 DEF EnumeratorInv, ReportInv, Gone, TakenAsPresent
  <2>2. working[a][s] = None
    BY <1>0, <1>1, EnumeratorBroken DEF EnumeratorTypeOK
  <2>3. Replicator \in Services
    BY DEF Services
  <2>. QED  BY <1>1, <1>3, <1>4, <2>1, <2>2, <2>3 DEF WillHear
<1>. QED  BY <1>5, <1>6, <1>7 DEF EnumeratorInv, ReportInv

LEMMA EnumeratorExtension ==
  ASSUME EnumeratorInv, NEW a \in Artefacts, NEW s \in Services, Begin(a, s) \/ End(a, s)
  PROVE  EnumeratorInv'
<1>0. EnumeratorTypeOK /\ RoundInv
  BY DEF EnumeratorInv, ReportInv
<1>1. UNCHANGED <<present, snapshots, round, faults>>
  BY DEF Begin, End
<1>2. FaultsTypeOK' /\ (Unbroken' => Unbroken)
  BY <1>0, <1>1, EnumeratorUnbroken DEF EnumeratorTypeOK
<1>3. RoundInv'
  BY <1>0, <1>1 DEF RoundInv
<1>4. Replicator \in Services
  BY DEF Services
<1>5. ASSUME NEW work \in [active : BOOLEAN] \union {None},
             working' = [working EXCEPT ![a][s] = work]
      PROVE  /\ working' \in [Artefacts -> [Services -> [active : BOOLEAN] \union {None}]]
             /\ \A b \in Artefacts, t \in Services :
                  working'[b][t] = IF b = a /\ t = s THEN work ELSE working[b][t]
  BY <1>0, <1>5 DEF EnumeratorTypeOK
<1>6. CASE Begin(a, s)
  <2> DEFINE work == [active |-> snapshots[a] # None /\ snapshots[a].active]
  <2>1. work \in [active : BOOLEAN]
    BY <1>0 DEF EnumeratorTypeOK, Snapshots
  <2>2. work.active => ~Gone(a)
    BY DEF Gone
  <2>3. UNCHANGED <<scans, items, open>> /\ items[a][s] # NONE /\ working[a][s] = None
    BY <1>6 DEF Begin
  <2>4. working' = [working EXCEPT ![a][s] = work]
    BY <1>6 DEF Begin
  <2> HIDE DEF work
  <2>5. /\ working' \in [Artefacts -> [Services -> [active : BOOLEAN] \union {None}]]
        /\ \A b \in Artefacts, t \in Services :
             working'[b][t] = IF b = a /\ t = s THEN work ELSE working[b][t]
    BY <1>5, <2>1, <2>4
  <2>6. EnumeratorTypeOK'
    BY <1>0, <1>1, <1>2, <2>3, <2>5 DEF EnumeratorTypeOK
  <2>7. \A b \in Artefacts :
          (Gone(b) <=> Gone(b)') /\ (Gone(b) /\ TakenAsPresent(b)' => TakenAsPresent(b))
    BY <1>1, <1>4, <2>2, <2>3, <2>5 DEF Gone, TakenAsPresent
  <2>8. \A b \in Artefacts : Gone(b) /\ WillHear(b) => WillHear(b)'
    BY <1>1, <1>4, <2>2, <2>3, <2>5 DEF WillHear
  <2>. QED  BY <1>1, <1>2, <1>3, <2>6, <2>7, <2>8 DEF EnumeratorInv, ReportInv
<1>7. CASE End(a, s)
  <2>1. /\ working[a][s] # None
        /\ working' = [working EXCEPT ![a][s] = None]
        /\ items' = [items EXCEPT ![a][s] = NONE]
        /\ IF s = Replicator
           THEN /\ open' = IF working[a][s].active THEN open \union {a} ELSE open \ {a}
                /\ UNCHANGED scans
           ELSE /\ scans' = [scans EXCEPT ![a] = @ \union {s}]
                /\ UNCHANGED open
    BY <1>7 DEF End
  <2>2. /\ working' \in [Artefacts -> [Services -> [active : BOOLEAN] \union {None}]]
        /\ \A b \in Artefacts, t \in Services :
             working'[b][t] = IF b = a /\ t = s THEN None ELSE working[b][t]
    BY <1>5, <2>1
  <2>3. /\ items' \in [Artefacts -> [Services -> {NONE, LOW, HIGH}]]
        /\ \A b \in Artefacts, t \in Services :
             items'[b][t] = IF b = a /\ t = s THEN NONE ELSE items[b][t]
    BY <1>0, <2>1 DEF EnumeratorTypeOK
  <2>4. scans' \in [Artefacts -> SUBSET Scanners] /\ open' \subseteq Artefacts
    <3>1. CASE s = Replicator
      BY <1>0, <2>1, <3>1 DEF EnumeratorTypeOK
    <3>2. CASE s # Replicator
      <4>1. s \in Scanners /\ UNCHANGED open
        BY <2>1, <3>2 DEF Services
      <4>2. scans' = [scans EXCEPT ![a] = scans[a] \union {s}]
        BY <2>1, <3>2
      <4>3. scans[a] \union {s} \in SUBSET Scanners
        BY <1>0, <4>1 DEF EnumeratorTypeOK
      <4>. QED  BY <1>0, <4>1, <4>2, <4>3 DEF EnumeratorTypeOK
    <3>. QED  BY <3>1, <3>2
  <2>5. EnumeratorTypeOK'
    BY <1>0, <1>1, <1>2, <2>2, <2>3, <2>4 DEF EnumeratorTypeOK
  <2>6. \A b \in Artefacts : Gone(b) <=> Gone(b)'
    BY <1>1 DEF Gone
  <2>7. ASSUME Unbroken, NEW b \in Artefacts, Gone(b), TakenAsPresent(b)' PROVE WillHear(b)'
    <3>1. CASE b # a \/ s # Replicator
      <4>1. TakenAsPresent(b)
        BY <1>4, <2>1, <2>2, <2>7, <3>1 DEF TakenAsPresent
      <4>2. WillHear(b)
        BY <2>7, <4>1 DEF EnumeratorInv, ReportInv
      <4>. QED  BY <1>1, <1>4, <2>2, <2>3, <3>1, <4>2 DEF WillHear
    <3>2. CASE b = a /\ s = Replicator
      <4>1. working[a][s].active
        BY <1>4, <2>1, <2>2, <2>7, <3>2 DEF TakenAsPresent
      <4>2. TakenAsPresent(a)
        BY <2>1, <3>2, <4>1 DEF TakenAsPresent
      <4>3. WillHear(a)
        BY <2>7, <3>2, <4>2 DEF EnumeratorInv, ReportInv
      <4>4. round.pc = "create" /\ <<a, Replicator, HIGH>> \in round.due
        BY <2>1, <3>2, <4>1, <4>3 DEF WillHear
      <4>. QED  BY <1>1, <3>2, <4>4 DEF WillHear
    <3>. QED  BY <3>1, <3>2
  <2>. QED  BY <1>2, <1>3, <2>5, <2>6, <2>7 DEF EnumeratorInv, ReportInv
<1>. QED  BY <1>6, <1>7

LEMMA EnumeratorEnvironment ==
  ASSUME EnumeratorInv,
         (\E a \in Artefacts : Appear(a) \/ Vanish(a)) \/ UNCHANGED enumeratorVars
  PROVE  EnumeratorInv'
<1>0. EnumeratorTypeOK /\ RoundInv
  BY DEF EnumeratorInv, ReportInv
<1>1. /\ UNCHANGED <<snapshots, scans, items, working, open, round>>
      /\ present' \subseteq Artefacts
      /\ UNCHANGED faults \/ \E kind : Spend(kind)
  BY <1>0 DEF Appear, Vanish, enumeratorVars, EnumeratorTypeOK
<1>2. FaultsTypeOK' /\ (Unbroken' => Unbroken)
  BY <1>0, <1>1, EnumeratorUnbroken DEF EnumeratorTypeOK
<1>3. EnumeratorTypeOK' /\ RoundInv'
  BY <1>0, <1>1, <1>2 DEF EnumeratorTypeOK, RoundInv
<1>. QED  BY <1>1, <1>2, <1>3, NothingReported

LEMMA EnumeratorTick ==
  ASSUME EnumeratorInv, Tick PROVE EnumeratorInv'
<1>0. EnumeratorTypeOK /\ RoundInv
  BY DEF EnumeratorInv, ReportInv
<1>1. UNCHANGED <<present, scans, items, working, open, round, faults>> /\ round.pc = "idle"
  BY DEF Tick
<1>2. FaultsTypeOK' /\ (Unbroken' => Unbroken)
  BY <1>0, <1>1, EnumeratorUnbroken DEF EnumeratorTypeOK
<1>3. \A age \in Nat : Older(age) \in Nat
  BY DEF Older
<1>4. \A state \in States \union {None} : Aged(state) \in States \union {None}
  BY <1>3 DEF Aged, States
<1>5. ASSUME NEW snapshot \in Snapshots
      PROVE  /\ [Aged(snapshot) EXCEPT !.of = [s \in Services |-> Aged(@[s])]] \in Snapshots
             /\ [Aged(snapshot) EXCEPT !.of = [s \in Services |-> Aged(@[s])]].active
                  = snapshot.active
  <2>1. Aged(snapshot) = [snapshot EXCEPT !.age = Older(snapshot.age)]
    BY EnumeratorAssumption DEF Aged
  <2>2. /\ Aged(snapshot) \in Snapshots /\ Aged(snapshot).active = snapshot.active
        /\ Aged(snapshot).of = snapshot.of
    BY <1>3, <2>1 DEF Snapshots
  <2> DEFINE of == [s \in Services |-> Aged(Aged(snapshot).of[s])]
  <2>3. of \in [Services -> States \union {None}]
    BY <1>4, <2>2 DEF Snapshots
  <2> HIDE DEF of
  <2>4. /\ [Aged(snapshot) EXCEPT !.of = of] \in Snapshots
        /\ [Aged(snapshot) EXCEPT !.of = of].active = snapshot.active
    BY <2>2, <2>3 DEF Snapshots
  <2>. QED  BY <2>4 DEF of
<1>6. ASSUME NEW a \in Artefacts
      PROVE  /\ snapshots'[a] \in Snapshots \union {None}
             /\ Gone(a)' => Gone(a)
  <2>1. snapshots'[a] = IF snapshots[a] = None THEN None
          ELSE [Aged(snapshots[a]) EXCEPT !.of = [s \in Services |-> Aged(@[s])]]
    BY DEF Tick
  <2>2. CASE snapshots[a] = None
    BY <2>1, <2>2 DEF Gone
  <2>3. CASE snapshots[a] # None
    <3>1. snapshots[a] \in Snapshots
      BY <1>0, <2>3 DEF EnumeratorTypeOK
    <3>2. snapshots'[a] \in Snapshots /\ snapshots'[a].active = snapshots[a].active
      BY <1>5, <2>1, <2>3, <3>1
    <3>. QED  BY <3>2, EnumeratorAssumption DEF Gone
  <2>. QED  BY <2>2, <2>3
<1>7. EnumeratorTypeOK'
  <2>1. snapshots' \in [Artefacts -> Snapshots \union {None}]
    BY <1>6 DEF Tick
  <2>. QED  BY <1>0, <1>1, <1>2, <2>1 DEF EnumeratorTypeOK
<1>8. RoundInv'
  BY <1>0, <1>1 DEF RoundInv
<1>. QED  BY <1>1, <1>2, <1>6, <1>7, <1>8 DEF EnumeratorInv, ReportInv, TakenAsPresent, WillHear

\* A run works on the snapshots that are stored, and has requested the replicator for all it marks
\* as inactive; unless it was killed, or met an item in process, the replicator that takes an
\* artefact for present will hear of it, by an item that exists or one the run is to create.
THEOREM EnumeratorInvariant == EnumeratorSpec => []EnumeratorInv
<1>1. EnumeratorInit => EnumeratorInv
  <2> SUFFICES ASSUME EnumeratorInit PROVE EnumeratorInv
    OBVIOUS
  <2>1. FaultsTypeOK
    BY LimitAssumption DEF EnumeratorInit, FaultsInit, FaultsTypeOK
  <2>2. EnumeratorTypeOK
    BY <2>1, IdleType DEF EnumeratorInit, EnumeratorTypeOK
  <2>3. RoundInv
    BY IdleType DEF EnumeratorInit, RoundInv
  <2>4. \A a \in Artefacts : ~TakenAsPresent(a)
    BY DEF EnumeratorInit, TakenAsPresent, Services
  <2>. QED  BY <2>2, <2>3, <2>4 DEF EnumeratorInv, ReportInv
<1>2. EnumeratorInv /\ [EnumeratorNext]_enumeratorVars => EnumeratorInv'
  BY EnumeratorStart, EnumeratorProcess, EnumeratorInactive, EnumeratorUpdate, EnumeratorCreate,
     EnumeratorExtension, EnumeratorEnvironment, EnumeratorTick
  DEF EnumeratorNext, Run, ProcessAny, CreateAny
<1>. QED  BY <1>1, <1>2, PTL DEF EnumeratorSpec

\* For any artefacts, extensions and intervals, and any grace period but 0, whatever look-up, query,
\* update or deletion fails: the issue replicator has heard of each artefact that left the BoM,
\* unless the job was killed or an item was to be created while one was being processed.
THEOREM InactiveIsHeardOf == EnumeratorSpec => []InactiveIsReported
<1>1. EnumeratorInv => InactiveIsReported
  <2> SUFFICES ASSUME EnumeratorInv, Unbroken, NEW a \in Artefacts, Settled(a), Gone(a)
               PROVE  a \notin open
    BY DEF InactiveIsReported, Unbroken, Gone
  <2>. QED  BY DEF EnumeratorInv, ReportInv, TakenAsPresent, WillHear, Settled
<1>. QED  BY <1>1, EnumeratorInvariant, PTL

-----------------------------------------------------------------------------
(* Issue replicator *)

IssueRecords(labels) ==
  [labels : labels, open : BOOLEAN, pending : BOOLEAN, lists : SUBSET Members]
Issues == IssueRecords(AllLabels)

\* The list a replica has cached: an issue that is not listed has no labels.
KnownIssues == UNION {[S -> IssueRecords(AllLabels \union {None})] : S \in SUBSET Nat}

Locals == [pc : {"idle", "snapshots", "findings", "list", "edit"}, item : Members \union {None},
           members : SUBSET Members, scanned : SUBSET Members,
           due : [Members -> Sprints \union {None}], known : KnownIssues \union {None},
           todo : SUBSET AllLabels]

ReplicatorTypeOK ==
  /\ FaultsTypeOK
  /\ per_finding \in BOOLEAN
  /\ in_bom \subseteq Members
  /\ scanned \subseteq Members
  /\ due \in [Members -> Sprints \union {None}]
  /\ requests \subseteq Members
  /\ leaving \subseteq Members
  /\ issues \in Seq(Issues)
  /\ replica \in [Replicas -> Locals]
  /\ overtaken \in BOOLEAN
  /\ reopened \in BOOLEAN

\* The condition of OneOpenIssue.
Alone == Never("parallel") /\ Never("repeat") /\ ~reopened

\* An issue that is open is the latest with its labels.
OpenIsLatest ==
  \A i, j \in DOMAIN issues :
    issues[i].open /\ issues[j].labels = issues[i].labels => j <= i

\* What a replica has cached is about the issues there are.
KnownIsTrue(w) ==
  replica[w].pc = "edit" =>
    /\ replica[w].known \in KnownIssues
    /\ DOMAIN replica[w].known \subseteq DOMAIN issues
    /\ \A i \in DOMAIN replica[w].known : replica[w].known[i].labels \in {None, issues[i].labels}

\* For labels that it has yet to deal with, it knows the open issues and the latest one.
KnowsLatest(w) ==
  replica[w].pc = "edit" =>
    \A labels \in replica[w].todo : \A j \in DOMAIN issues :
      issues[j].labels = labels =>
        /\ issues[j].open => j \in Known(w, labels)
        /\ Known(w, labels) # {} => \E i \in Known(w, labels) : j <= i

IssuesInv ==
  /\ \A w \in Replicas : replica[w].pc # "edit" => replica[w].known = None
  /\ Alone =>
       /\ \A v, w \in Replicas : replica[v].pc # "idle" /\ replica[w].pc # "idle" => v = w
       /\ OpenIsLatest
       /\ \A w \in Replicas : KnownIsTrue(w) /\ KnowsLatest(w)

ReplicatorInv == ReplicatorTypeOK /\ IssuesInv

LEMMA ReplicatorAlone ==
  ASSUME FaultsTypeOK, UNCHANGED faults \/ \E kind : Spend(kind), reopened => reopened'
  PROVE  FaultsTypeOK' /\ (Alone' => Alone)
<1>1. CASE UNCHANGED faults
  BY <1>1 DEF faults, FaultsTypeOK, Alone, Never
<1>2. ASSUME NEW kind, Spend(kind)
      PROVE  FaultsTypeOK' /\ (Alone' => Alone)
  <2>1. CASE kind \in DOMAIN Limit
    BY <1>2, <2>1, LimitAssumption, ReplicatorAssumption DEF Spend, FaultsTypeOK, Alone, Never
  <2>2. CASE kind \notin DOMAIN Limit
    <3>1. spent' = spent /\ left' \in Nat
      BY <1>2, <2>2 DEF Spend, FaultsTypeOK
    <3>. QED  BY <3>1 DEF FaultsTypeOK, Alone, Never
  <2>. QED  BY <2>1, <2>2
<1>. QED  BY <1>1, <1>2

LEMMA ReplicatorDisturbed ==
  ASSUME FaultsTypeOK, Spend("parallel") \/ Spend("repeat")
  PROVE  ~Alone'
  BY ReplicatorAssumption DEF Spend, FaultsTypeOK, Alone, Never

LEMMA FreeType ==
  Free \in Locals /\ Free.pc = "idle" /\ Free.known = None
  BY DEF Free, Locals

\* The greatest element of a set of natural numbers.
LEMMA LatestOf ==
  ASSUME NEW n \in Nat, NEW ids \in SUBSET (1 .. n), ids # {}
  PROVE  Latest(ids) \in ids /\ \A j \in ids : j <= Latest(ids)
<1> DEFINE bounds == {k \in Nat : \A i \in ids : i <= k}
<1>1. n \in bounds /\ bounds \in SUBSET Nat
  OBVIOUS
<1>2. PICK m \in bounds : \A k \in bounds : m <= k
  BY <1>1, LeastOf
<1>3. m \in ids
  <2> SUFFICES ASSUME m \notin ids PROVE FALSE
    OBVIOUS
  <2>1. m \in Nat /\ \A i \in ids : i \in Nat /\ i > 0 /\ i <= m
    BY <1>2
  <2>2. \A i \in ids : i <= m - 1
    BY <2>1
  <2>3. m - 1 \in Nat
    <3>1. PICK i \in ids : TRUE
      OBVIOUS
    <3>. QED  BY <2>1, <3>1
  <2>4. m - 1 \in bounds
    BY <2>2, <2>3
  <2>. QED  BY <1>2, <2>1, <2>4
<1>4. \E i \in ids : \A j \in ids : j <= i
  BY <1>2, <1>3
<1>. QED  BY <1>4 DEF Latest

\* Steps of a replica, and of the environment, that leave the issues alone.
LEMMA ReplicaSteps ==
  ASSUME ReplicatorInv, ReplicatorTypeOK', Alone' => Alone, UNCHANGED issues,
         NEW w \in Replicas, NEW r \in Locals, replica' = [replica EXCEPT ![w] = r],
         r.pc = "edit" => r = replica[w],
         r.pc # "edit" => r.known = None,
         Alone' /\ replica[w].pc = "idle" /\ r.pc # "idle" =>
           \A v \in Replicas : replica[v].pc = "idle"
  PROVE  ReplicatorInv'
<1>1. \A v \in Replicas : replica'[v] = IF v = w THEN r ELSE replica[v]
  BY DEF ReplicatorInv, ReplicatorTypeOK
<1>2. Alone' => \A v \in Replicas : (KnownIsTrue(v) /\ KnowsLatest(v))'
  BY <1>1 DEF ReplicatorInv, IssuesInv, KnownIsTrue, KnowsLatest, Known
<1>3. Alone' => \A u, v \in Replicas : replica'[u].pc # "idle" /\ replica'[v].pc # "idle" => u = v
  BY <1>1 DEF ReplicatorInv, IssuesInv
<1>. QED  BY <1>1, <1>2, <1>3 DEF ReplicatorInv, IssuesInv, OpenIsLatest

\* A step of a replica that knows no issues after it.
Forgets(w, r) ==
  /\ replica' = [replica EXCEPT ![w] = r]
  /\ r.pc # "edit"
  /\ r.known = None
  /\ Alone' /\ replica[w].pc = "idle" /\ r.pc # "idle" =>
       \A v \in Replicas : replica[v].pc = "idle"

LEMMA IssuesReplicaQuiet ==
  ASSUME ReplicatorInv, NEW w \in Replicas,
         \/ \E m \in Members : Claim(w, m)
         \/ QuerySnapshots(w) \/ ReadFindings(w) \/ Finish(w) \/ FailReplication(w)
  PROVE  ReplicatorInv'
<1>0. ReplicatorTypeOK /\ replica[w] \in Locals
      /\ (replica[w].pc # "edit" => replica[w].known = None)
  BY DEF ReplicatorInv, ReplicatorTypeOK, IssuesInv
<1>1. /\ UNCHANGED <<per_finding, in_bom, scanned, due, leaving, issues, overtaken, reopened>>
      /\ requests' \subseteq requests
      /\ UNCHANGED faults \/ \E kind : Spend(kind)
  BY DEF Claim, QuerySnapshots, ReadFindings, Finish, FailReplication
<1>2. FaultsTypeOK' /\ (Alone' => Alone)
  BY <1>0, <1>1, ReplicatorAlone DEF ReplicatorTypeOK
<1>3. \E r \in Locals : Forgets(w, r)
  <2>1. ASSUME NEW m \in Members, Claim(w, m) PROVE \E r \in Locals : Forgets(w, r)
    <3> DEFINE r == [replica[w] EXCEPT !.pc = "snapshots", !.item = m]
    <3>1. r \in Locals /\ r.pc = "snapshots" /\ r.known = None
      BY <1>0, <2>1 DEF Locals, Claim
    <3>2. replica' = [replica EXCEPT ![w] = r]
      BY <1>0, <2>1 DEF Claim
    <3>3. Alone' => \A v \in Replicas : replica[v].pc = "idle"
      BY <1>0, <2>1, ReplicatorDisturbed DEF Claim, ReplicatorTypeOK
    <3> HIDE DEF r
    <3>. QED  BY <3>1, <3>2, <3>3 DEF Forgets
  <2>2. CASE QuerySnapshots(w)
    <3> DEFINE r == [replica[w] EXCEPT !.pc = "findings", !.members = ActiveSnapshots]
    <3>1. r \in Locals /\ r.pc = "findings" /\ r.known = None
      BY <1>0, <2>2 DEF Locals, QuerySnapshots, ActiveSnapshots, ReplicatorTypeOK
    <3>2. replica' = [replica EXCEPT ![w] = r] /\ replica[w].pc # "idle"
      BY <2>2 DEF QuerySnapshots
    <3> HIDE DEF r
    <3>. QED  BY <3>1, <3>2 DEF Forgets
  <2>3. CASE ReadFindings(w)
    <3> DEFINE members == replica[w].members
               dues == [m \in Members |-> IF m \in members THEN due[m] ELSE None]
               r == [replica[w] EXCEPT !.pc = "list", !.scanned = scanned \intersect members,
                                       !.due = dues]
    <3>1. dues \in [Members -> Sprints \union {None}]
      BY <1>0 DEF ReplicatorTypeOK
    <3>2. replica' = [replica EXCEPT ![w] = r]
      BY <2>3 DEF ReadFindings
    <3> HIDE DEF dues
    <3>3. r \in Locals /\ r.pc = "list" /\ r.known = None
      BY <1>0, <2>3, <3>1 DEF Locals, ReadFindings, ReplicatorTypeOK
    <3>4. replica[w].pc # "idle"
      BY <2>3 DEF ReadFindings
    <3> HIDE DEF r
    <3>. QED  BY <3>2, <3>3, <3>4 DEF Forgets
  <2>4. CASE Finish(w) \/ FailReplication(w)
    BY <2>4, FreeType DEF Finish, FailReplication, ClearCache, Forgets
  <2>. QED  BY <2>1, <2>2, <2>3, <2>4
<1>4. PICK r \in Locals : Forgets(w, r)
  BY <1>3
<1>5. ReplicatorTypeOK'
  BY <1>0, <1>1, <1>2, <1>4 DEF ReplicatorTypeOK, Forgets
<1>. QED  BY <1>1, <1>2, <1>4, <1>5, ReplicaSteps DEF Forgets

\* A closed issue that is not among the listed ones has newer closed ones.
LEMMA ListedIsLatest ==
  ASSUME ReplicatorTypeOK, OpenIsLatest,
         NEW i \in Listed, NEW j \in DOMAIN issues, issues[j].labels = issues[i].labels,
         i < j
  PROVE  j \in Listed
<1> DEFINE closed == DOMAIN issues \ Open(issues)
<1>1. DOMAIN issues = 1 .. Len(issues) /\ Len(issues) \in Nat
  BY DEF ReplicatorTypeOK
<1>2. i \in DOMAIN issues /\ i \notin Open(issues)
  BY <1>1 DEF Listed, Open, OpenIsLatest
<1>3. CASE j \in Open(issues)
  BY <1>3 DEF Listed
<1>4. CASE j \in closed
  <2> DEFINE later(n) == {k \in closed : k > n}
  <2>1. Cardinality(later(i)) < ClosedIssues
    BY <1>2 DEF Listed
  <2>2. later(j) \in SUBSET later(i)
    BY <1>1, <1>2
  <2>3. IsFiniteSet(later(i))
    <3>1. later(i) \in SUBSET (1 .. Len(issues)) /\ IsFiniteSet(1 .. Len(issues))
      BY <1>1, FS_Interval
    <3>. QED  BY <3>1, FS_Subset
  <2>4. /\ Cardinality(later(j)) <= Cardinality(later(i))
        /\ Cardinality(later(j)) \in Nat /\ Cardinality(later(i)) \in Nat
    BY <2>2, <2>3, FS_Subset, FS_CardinalityType
  <2>5. Cardinality(later(j)) < ClosedIssues
    BY <2>1, <2>4, ReplicatorAssumption
  <2>. QED  BY <1>4, <2>5 DEF Listed
<1>. QED  BY <1>3, <1>4

LEMMA IssuesList ==
  ASSUME ReplicatorInv, NEW w \in Replicas, ListIssues(w)
  PROVE  ReplicatorInv'
<1>0. /\ ReplicatorTypeOK /\ replica[w] \in Locals
      /\ replica[w].known = None /\ replica[w].pc = "list"
      /\ DOMAIN issues = 1 .. Len(issues) /\ Len(issues) \in Nat
  BY DEF ReplicatorInv, ReplicatorTypeOK, IssuesInv, ListIssues
<1>1. /\ UNCHANGED <<per_finding, in_bom, scanned, due, requests, leaving, issues, overtaken,
                     reopened, faults>>
  BY DEF ListIssues
<1>2. FaultsTypeOK' /\ (Alone' => Alone)
  BY <1>0, <1>1, ReplicatorAlone DEF ReplicatorTypeOK
<1> DEFINE known == [i \in DOMAIN issues |-> IF i \in Listed THEN issues[i]
                                             ELSE [issues[i] EXCEPT !.labels = None]]
           r == [replica[w] EXCEPT !.pc = "edit", !.todo = Labels, !.known = known]
<1>3. replica' = [replica EXCEPT ![w] = r]
  <2> DEFINE next == [replica[w] EXCEPT !.pc = "edit", !.todo = Labels,
                        !.known = IF @ # None THEN @ ELSE known]
  <2>1. replica' = [replica EXCEPT ![w] = next]
    BY DEF ListIssues
  <2>2. next = r
    <3> HIDE DEF known
    <3>. QED  BY <1>0 DEF Locals
  <2>. QED  BY <2>1, <2>2
<1>4. \A i \in DOMAIN issues : issues[i] \in Issues
  BY <1>0 DEF ReplicatorTypeOK
<1>5. /\ known \in KnownIssues /\ DOMAIN known = DOMAIN issues
      /\ \A i \in DOMAIN issues : known[i].labels = IF i \in Listed THEN issues[i].labels ELSE None
  <2>1. ASSUME NEW i \in DOMAIN issues
        PROVE  /\ issues[i] \in IssueRecords(AllLabels \union {None})
               /\ [issues[i] EXCEPT !.labels = None] \in IssueRecords(AllLabels \union {None})
               /\ [issues[i] EXCEPT !.labels = None].labels = None
    <3>1. issues[i] \in Issues
      BY <1>4
    <3>. QED  BY <3>1 DEF Issues, IssueRecords
  <2>2. \A i \in DOMAIN issues : known[i] = IF i \in Listed THEN issues[i]
                                            ELSE [issues[i] EXCEPT !.labels = None]
    OBVIOUS
  <2>3. known \in [DOMAIN issues -> IssueRecords(AllLabels \union {None})]
    BY <2>1
  <2>4. DOMAIN issues \in SUBSET Nat
    BY <1>0
  <2> HIDE DEF known
  <2>. QED  BY <2>1, <2>2, <2>3, <2>4 DEF KnownIssues
<1> HIDE DEF known
<1>6. Labels \subseteq AllLabels
  BY DEF Labels, AllLabels
<1>7. r \in Locals /\ r.pc = "edit" /\ r.known = known /\ r.todo = Labels
  BY <1>0, <1>5, <1>6 DEF Locals
<1> HIDE DEF r
<1>8. \A v \in Replicas : replica'[v] = IF v = w THEN r ELSE replica[v]
  BY <1>0, <1>3 DEF ReplicatorTypeOK
<1>9. ReplicatorTypeOK'
  BY <1>0, <1>1, <1>2, <1>3, <1>7 DEF ReplicatorTypeOK
<1>10. KnownIsTrue(w)'
  BY <1>1, <1>5, <1>7, <1>8 DEF KnownIsTrue
<1>11. Alone => KnowsLatest(w)'
  <2> SUFFICES ASSUME Alone, NEW labels \in Labels, NEW j \in DOMAIN issues,
                      issues[j].labels = labels
               PROVE  /\ issues[j].open => j \in Known(w, labels)'
                      /\ Known(w, labels)' # {} => \E i \in Known(w, labels)' : j <= i
    BY <1>1, <1>7, <1>8 DEF KnowsLatest
  <2>1. Known(w, labels)' = {i \in Listed : issues[i].labels = labels}
    <3>1. Known(w, labels)' = {i \in DOMAIN issues : known[i].labels = labels}
      BY <1>5, <1>7, <1>8 DEF Known
    <3>2. Listed \subseteq DOMAIN issues
      BY DEF Listed, Open
    <3>3. labels # None
      BY <1>6, ReplicatorAssumption
    <3>. QED  BY <1>5, <3>1, <3>2, <3>3
  <2>2. issues[j].open => j \in Listed
    BY DEF Listed, Open
  <2>3. ASSUME NEW i \in Known(w, labels)' PROVE \E k \in Known(w, labels)' : j <= k
    <3>1. i \in Listed /\ issues[i].labels = labels /\ i \in DOMAIN issues
      BY <2>1 DEF Listed, Open
    <3>2. CASE i < j
      <4>1. j \in Listed
        BY <3>1, <3>2, <1>0, ListedIsLatest DEF ReplicatorInv, IssuesInv
      <4>. QED  BY <1>0, <2>1, <4>1
    <3>3. CASE j <= i
      BY <3>3
    <3>. QED  BY <1>0, <3>1, <3>2, <3>3
  <2>. QED  BY <2>1, <2>2, <2>3
<1>12. \A v \in Replicas \ {w} :
         (KnownIsTrue(v) => KnownIsTrue(v)') /\ (KnowsLatest(v) => KnowsLatest(v)')
  BY <1>1, <1>8 DEF KnownIsTrue, KnowsLatest, Known
<1>13. Alone' => \A u, v \in Replicas : replica'[u].pc # "idle" /\ replica'[v].pc # "idle" => u = v
  BY <1>0, <1>2, <1>7, <1>8 DEF ReplicatorInv, IssuesInv
<1>. QED
  BY <1>1, <1>2, <1>7, <1>8, <1>9, <1>10, <1>11, <1>12, <1>13
  DEF ReplicatorInv, IssuesInv, OpenIsLatest

\* What is left to do remains known, whatever is done about the other labels.
LEMMA IssuesEditedBy ==
  ASSUME ReplicatorInv, ReplicatorTypeOK', Alone' => Alone, NEW w \in Replicas, NEW labels,
         replica[w].pc = "edit",
         replica' = [replica EXCEPT ![w].todo = @ \ {labels}],
         Alone' =>
           /\ DOMAIN issues \subseteq DOMAIN issues'
           /\ \A i \in DOMAIN issues :
                /\ issues'[i].labels = issues[i].labels
                /\ issues'[i].open => issues[i].open \/ issues[i].labels = labels
           /\ \A i \in DOMAIN issues' \ DOMAIN issues : issues'[i].labels = labels
           /\ OpenIsLatest'
  PROVE  ReplicatorInv'
<1>0. replica[w] \in Locals /\ replica \in [Replicas -> Locals]
  BY DEF ReplicatorInv, ReplicatorTypeOK
<1>1. /\ replica'[w].known = replica[w].known
      /\ replica'[w].todo = replica[w].todo \ {labels}
      /\ replica'[w].pc = "edit"
      /\ \A v \in Replicas \ {w} : replica'[v] = replica[v]
  BY <1>0 DEF Locals
<1>2. \A v \in Replicas : replica'[v].pc # "edit" => replica'[v].known = None
  BY <1>1 DEF ReplicatorInv, IssuesInv
<1>3. ASSUME Alone'
      PROVE  /\ \A u, v \in Replicas : replica'[u].pc # "idle" /\ replica'[v].pc # "idle" => u = v
             /\ \A v \in Replicas : KnownIsTrue(v)' /\ KnowsLatest(v)'
  <2>1. \A u, v \in Replicas : replica[u].pc # "idle" /\ replica[v].pc # "idle" => u = v
    BY <1>3 DEF ReplicatorInv, IssuesInv
  <2>2. \A v \in Replicas \ {w} : replica'[v].pc = "idle"
    BY <1>1, <2>1
  <2>3. \A v \in Replicas \ {w} : KnownIsTrue(v)' /\ KnowsLatest(v)'
    BY <2>2 DEF KnownIsTrue, KnowsLatest
  <2>4. KnownIsTrue(w) /\ KnowsLatest(w)
    BY <1>3 DEF ReplicatorInv, IssuesInv
  <2>5. KnownIsTrue(w)'
    BY <1>1, <1>3, <2>4 DEF KnownIsTrue
  <2>6. KnowsLatest(w)'
    <3> SUFFICES ASSUME NEW other \in replica[w].todo \ {labels}, NEW j \in DOMAIN issues',
                        issues'[j].labels = other
                 PROVE  /\ issues'[j].open => j \in Known(w, other)'
                        /\ Known(w, other)' # {} => \E i \in Known(w, other)' : j <= i
      BY <1>1 DEF KnowsLatest
    <3>1. Known(w, other)' = Known(w, other)
      BY <1>1 DEF Known
    <3>2. j \in DOMAIN issues /\ issues[j].labels = other
      BY <1>3
    <3>3. issues'[j].open => issues[j].open
      BY <1>3, <3>2
    <3>. QED  BY <1>1, <2>4, <3>1, <3>2, <3>3 DEF KnowsLatest
  <2>. QED  BY <1>1, <2>2, <2>3, <2>5, <2>6
<1>. QED  BY <1>2, <1>3 DEF ReplicatorInv, IssuesInv

LEMMA IssuesEdit ==
  ASSUME ReplicatorInv, NEW w \in Replicas, NEW labels \in Labels, Replicate(w, labels)
  PROVE  ReplicatorInv'
<1>0. /\ ReplicatorTypeOK /\ replica[w] \in Locals /\ replica[w].pc = "edit"
      /\ issues \in Seq(Issues) /\ DOMAIN issues = 1 .. Len(issues) /\ Len(issues) \in Nat
      /\ labels \in replica[w].todo /\ labels \in AllLabels
  BY DEF ReplicatorInv, ReplicatorTypeOK, Replicate, Labels, AllLabels
<1>1. /\ UNCHANGED <<per_finding, in_bom, scanned, due, requests, leaving, overtaken, reopened>>
      /\ replica' = [replica EXCEPT ![w].todo = @ \ {labels}]
  BY DEF Replicate
<1>2. UNCHANGED faults \/ Spend("repeat")
  BY DEF Replicate, CloseIssues, UpdateIssue, CreateIssue, Skip
<1>3. FaultsTypeOK' /\ (Alone' => Alone)
  BY <1>0, <1>1, <1>2, ReplicatorAlone DEF ReplicatorTypeOK
<1>4. replica' \in [Replicas -> Locals]
  <2>1. [replica[w] EXCEPT !.todo = @ \ {labels}] \in Locals
    BY <1>0 DEF Locals
  <2>. QED  BY <1>0, <1>1, <2>1 DEF ReplicatorTypeOK
<1> DEFINE edited == Edited(w, labels)
<1>5. edited \in Issues /\ edited.labels = labels
  <2>1. Findings(w, labels) \in SUBSET Members
    BY <1>0 DEF Findings, Locals
  <2>. QED  BY <1>0, <2>1 DEF Edited, Issues, IssueRecords
<1> HIDE DEF edited
<1>6. \A i \in DOMAIN issues : issues[i] \in Issues
  BY <1>0
\* What becomes of the issues.
<1> DEFINE Right ==
             /\ issues' \in Seq(Issues)
             /\ Alone' =>
                  /\ DOMAIN issues \subseteq DOMAIN issues'
                  /\ \A i \in DOMAIN issues :
                       /\ issues'[i].labels = issues[i].labels
                       /\ issues'[i].open => issues[i].open \/ issues[i].labels = labels
                  /\ \A i \in DOMAIN issues' \ DOMAIN issues : issues'[i].labels = labels
                  /\ OpenIsLatest'
<1>7. Alone' => /\ OpenIsLatest /\ KnownIsTrue(w) /\ KnowsLatest(w)
  BY <1>3 DEF ReplicatorInv, IssuesInv
<1>8. ASSUME UNCHANGED issues PROVE Right
  BY <1>0, <1>7, <1>8 DEF OpenIsLatest
<1>9. ASSUME CloseIssues(w, labels) PROVE Right
  <2> DEFINE After(i) == IF i \in KnownOpen(w, labels) THEN [issues[i] EXCEPT !.open = FALSE]
                         ELSE issues[i]
  <2>1. issues' = [i \in 1 .. Len(issues) |-> After(i)]
    BY <1>0, <1>9 DEF CloseIssues
  <2>2. \A i \in DOMAIN issues : /\ After(i) \in Issues
                                 /\ After(i).labels = issues[i].labels
                                 /\ After(i).open => issues[i].open
    <3> SUFFICES ASSUME NEW i \in DOMAIN issues
                 PROVE  /\ After(i) \in Issues
                        /\ After(i).labels = issues[i].labels
                        /\ After(i).open => issues[i].open
      OBVIOUS
    <3>1. issues[i] \in Issues
      BY <1>6
    <3>. QED  BY <3>1 DEF Issues, IssueRecords
  <2> HIDE DEF After
  <2>3. issues' \in [1 .. Len(issues) -> Issues]
    BY <1>0, <2>1, <2>2
  <2>4. issues' \in Seq(Issues)
    BY <1>0, <2>3, SeqDef
  <2>5. /\ DOMAIN issues' = DOMAIN issues
        /\ \A i \in DOMAIN issues : issues'[i].labels = issues[i].labels
                                    /\ (issues'[i].open => issues[i].open)
    BY <1>0, <2>1, <2>2
  <2>6. OpenIsLatest => OpenIsLatest'
    BY <2>5 DEF OpenIsLatest
  <2>. QED  BY <1>7, <2>4, <2>5, <2>6
<1>10. ASSUME UpdateIssue(w, labels) PROVE Right
  <2> DEFINE ids == Known(w, labels)
  <2>1. ids # {} /\ (issues' = issues \/ issues' = [issues EXCEPT ![Latest(ids)] = edited])
    BY <1>10 DEF UpdateIssue, edited
  <2>2. issues' \in Seq(Issues) /\ DOMAIN issues' = DOMAIN issues
    BY <1>0, <1>5, <2>1
  <2>3. ASSUME Alone', issues' # issues
        PROVE  Right
    <3>1. ids \in SUBSET (1 .. Len(issues))
      BY <1>0, <1>7, <2>3 DEF KnownIsTrue, Known
    <3> DEFINE m == Latest(ids)
    <3>2. m \in ids /\ (\A j \in ids : j <= m)
      BY <1>0, <2>1, <3>1, LatestOf
    <3> HIDE DEF m
    <3>3. issues[m].labels = labels /\ m \in DOMAIN issues
      <4>1. m \in DOMAIN issues /\ replica[w].known[m].labels = labels
        BY <1>0, <3>1, <3>2 DEF Known
      <4>2. labels # None
        BY <1>0, ReplicatorAssumption
      <4>3. replica[w].known[m].labels \in {None, issues[m].labels}
        BY <1>0, <1>7, <2>3, <3>2 DEF KnownIsTrue, Known
      <4>. QED  BY <4>1, <4>2, <4>3
    <3>4. \A j \in DOMAIN issues : issues[j].labels = labels => j <= m
      <4> SUFFICES ASSUME NEW j \in DOMAIN issues, issues[j].labels = labels
                   PROVE  j <= m
        OBVIOUS
      <4>1. PICK i \in ids : j <= i
        BY <1>0, <1>7, <2>1, <2>3 DEF KnowsLatest
      <4>2. i <= m
        BY <3>2
      <4>. QED  BY <1>0, <3>1, <3>2, <4>1, <4>2
    <3>5. issues' = [issues EXCEPT ![m] = edited]
      BY <2>1, <2>3 DEF m
    <3>6. /\ \A i \in DOMAIN issues : issues'[i].labels = issues[i].labels
          /\ \A i \in DOMAIN issues : i # m => issues'[i] = issues[i]
      BY <1>0, <1>5, <3>3, <3>5
    <3>7. OpenIsLatest'
      BY <1>0, <1>7, <2>2, <2>3, <3>3, <3>4, <3>6 DEF OpenIsLatest
    <3>. QED  BY <1>0, <2>2, <3>3, <3>6, <3>7
  <2>. QED  BY <1>8, <2>2, <2>3
<1>11. ASSUME CreateIssue(w, labels) PROVE Right
  <2>1. /\ Known(w, labels) = {}
        /\ \/ issues' = Append(issues, edited)
           \/ Spend("repeat") /\ issues' = issues \o <<edited, edited>>
    BY <1>11 DEF CreateIssue, edited
  <2>2. issues' \in Seq(Issues)
    <3>1. <<edited, edited>> \in Seq(Issues)
      BY <1>5
    <3>2. CASE issues' = Append(issues, edited)
      BY <1>0, <1>5, <3>2, AppendProperties
    <3>3. CASE issues' = issues \o <<edited, edited>>
      BY <1>0, <3>1, <3>3, ConcatProperties
    <3>. QED  BY <2>1, <3>2, <3>3
  <2>3. ASSUME Alone'
        PROVE  Right
    <3>1. issues' = Append(issues, edited)
      BY <1>0, <2>1, <2>3, ReplicatorDisturbed DEF ReplicatorTypeOK
    <3>2. /\ DOMAIN issues' = 1 .. Len(issues) + 1
          /\ \A i \in DOMAIN issues : issues'[i] = issues[i]
          /\ issues'[Len(issues) + 1] = edited
      BY <1>0, <1>5, <3>1
    <3>3. \A j \in DOMAIN issues : issues[j].labels = labels => ~issues[j].open
      BY <1>0, <1>7, <2>1, <2>3 DEF KnowsLatest
    <3>4. OpenIsLatest'
      BY <1>0, <1>5, <1>6, <1>7, <2>3, <3>2, <3>3 DEF OpenIsLatest
    <3>. QED  BY <1>0, <1>5, <2>2, <3>2, <3>4
  <2>. QED  BY <2>2, <2>3
<1>12. Right
  BY <1>8, <1>9, <1>10, <1>11 DEF Replicate, Skip
<1>13. ReplicatorTypeOK'
  BY <1>0, <1>1, <1>3, <1>4, <1>12 DEF ReplicatorTypeOK
<1>. QED  BY <1>0, <1>1, <1>3, <1>12, <1>13, IssuesEditedBy

LEMMA IssuesEnvironment ==
  ASSUME ReplicatorInv,
         \/ \E m \in Members : Request(m) \/ LeaveGroup(m) \/ Find(m) \/ Upgrade(m)
         \/ \E i \in DOMAIN issues : Toggle(i)
         \/ UNCHANGED replicatorVars
  PROVE  ReplicatorInv'
<1>0. /\ ReplicatorTypeOK /\ issues \in Seq(Issues)
      /\ DOMAIN issues = 1 .. Len(issues) /\ Len(issues) \in Nat
  BY DEF ReplicatorInv, ReplicatorTypeOK
<1>1. CASE \/ \E m \in Members : Request(m) \/ LeaveGroup(m) \/ Find(m) \/ Upgrade(m)
           \/ UNCHANGED replicatorVars
  <2>1. /\ UNCHANGED <<per_finding, issues, replica, reopened>>
        /\ UNCHANGED faults \/ \E kind : Spend(kind)
    BY <1>1 DEF Request, LeaveGroup, Find, Upgrade, replicatorVars
  <2>2. FaultsTypeOK' /\ (Alone' => Alone)
    BY <1>0, <2>1, ReplicatorAlone DEF ReplicatorTypeOK
  <2>3. /\ in_bom' \subseteq Members /\ scanned' \subseteq Members
        /\ requests' \subseteq Members /\ leaving' \subseteq Members
    BY <1>0, <1>1 DEF ReplicatorTypeOK, Request, LeaveGroup, Find, Upgrade, replicatorVars
  <2>4. due' \in [Members -> Sprints \union {None}]
    BY <1>0, <1>1 DEF ReplicatorTypeOK, Request, LeaveGroup, Find, Upgrade, replicatorVars
  <2>5. overtaken' \in BOOLEAN
    BY <1>0, <1>1 DEF ReplicatorTypeOK, Request, LeaveGroup, Find, Upgrade, replicatorVars
  <2>6. ReplicatorTypeOK'
    BY <1>0, <2>1, <2>2, <2>3, <2>4, <2>5 DEF ReplicatorTypeOK
  <2>. QED
    BY <2>1, <2>2, <2>6
    DEF ReplicatorInv, IssuesInv, OpenIsLatest, KnownIsTrue, KnowsLatest, Known
<1>2. ASSUME NEW k \in DOMAIN issues, Toggle(k)
      PROVE  ReplicatorInv'
  <2>0. issues[k] \in Issues /\ issues[k].open \in BOOLEAN
    <3>1. issues[k] \in Issues
      BY <1>0
    <3>. QED  BY <3>1 DEF Issues, IssueRecords
  <2>1. /\ UNCHANGED <<per_finding, in_bom, scanned, due, requests, leaving, replica, overtaken>>
        /\ \E kind : Spend(kind)
        /\ reopened' = (reopened \/ ~issues[k].open)
        /\ issues' = [issues EXCEPT ![k] = [issues[k] EXCEPT !.open = ~issues[k].open]]
    BY <1>2 DEF Toggle
  <2>2. FaultsTypeOK' /\ (Alone' => Alone)
    BY <1>0, <2>1, ReplicatorAlone DEF ReplicatorTypeOK
  <2> DEFINE toggled == [issues[k] EXCEPT !.open = ~issues[k].open]
  <2>3. toggled \in Issues /\ toggled.labels = issues[k].labels /\ toggled.open = ~issues[k].open
    BY <2>0 DEF Issues, IssueRecords
  <2> HIDE DEF toggled
  <2>4. /\ issues' \in Seq(Issues) /\ DOMAIN issues' = DOMAIN issues
        /\ issues'[k] = toggled
        /\ \A i \in DOMAIN issues : i # k => issues'[i] = issues[i]
    BY <1>0, <2>1, <2>3 DEF toggled
  <2>5. reopened' \in BOOLEAN
    BY <1>0, <2>0, <2>1 DEF ReplicatorTypeOK
  <2>6. ReplicatorTypeOK'
    BY <1>0, <2>1, <2>2, <2>4, <2>5 DEF ReplicatorTypeOK
  <2>7. Alone' => \A i \in DOMAIN issues : /\ issues'[i].labels = issues[i].labels
                                           /\ issues'[i].open => issues[i].open
    BY <2>1, <2>3, <2>4 DEF Alone
  <2>8. Alone' => OpenIsLatest'
    BY <2>2, <2>4, <2>7 DEF ReplicatorInv, IssuesInv, OpenIsLatest
  <2>9. Alone' => \A v \in Replicas : KnownIsTrue(v)'
    BY <2>1, <2>2, <2>4, <2>7 DEF ReplicatorInv, IssuesInv, KnownIsTrue
  <2>10. Alone' => \A v \in Replicas : KnowsLatest(v)'
    <3> SUFFICES ASSUME Alone', NEW v \in Replicas
                 PROVE  KnowsLatest(v)'
      OBVIOUS
    <3>1. KnowsLatest(v)
      BY <2>2 DEF ReplicatorInv, IssuesInv
    <3>2. replica' = replica
      BY <2>1
    <3>. QED  BY <2>4, <2>7, <3>1, <3>2 DEF KnowsLatest, Known
  <2>. QED  BY <2>1, <2>2, <2>6, <2>8, <2>9, <2>10 DEF ReplicatorInv, IssuesInv
<1>. QED  BY <1>1, <1>2

LEMMA IssuesInitial == ReplicatorInit => ReplicatorInv
<1> SUFFICES ASSUME ReplicatorInit PROVE ReplicatorInv
  OBVIOUS
<1>1. FaultsTypeOK
  BY LimitAssumption DEF ReplicatorInit, FaultsInit, FaultsTypeOK
<1>2. issues = <<>> /\ issues \in Seq(Issues) /\ DOMAIN issues = {}
  BY DEF ReplicatorInit
<1>3. due \in [Members -> Sprints \union {None}]
  BY DEF ReplicatorInit
<1>4. replica \in [Replicas -> Locals] /\ \A w \in Replicas : replica[w] = Free
  BY FreeType DEF ReplicatorInit
<1>5. ReplicatorTypeOK
  BY <1>1, <1>2, <1>3, <1>4 DEF ReplicatorInit, ReplicatorTypeOK
<1>. QED
  BY <1>2, <1>4, <1>5, FreeType
  DEF ReplicatorInv, IssuesInv, OpenIsLatest, KnownIsTrue, KnowsLatest

\* The inductive invariant of the issue replicator: unless two replicas work at once, a
\* creation is repeated or an issue is reopened, an open issue is the latest with its
\* labels, and a replica knows the open and the latest ones of the labels it has yet to
\* deal with (replicate_issue, _create_or_update_or_close_issue).
THEOREM ReplicatorInvariant == ReplicatorSpec => []ReplicatorInv
<1>1. ReplicatorInit => ReplicatorInv
  BY IssuesInitial
<1>2. ReplicatorInv /\ [ReplicatorNext]_replicatorVars => ReplicatorInv'
  <2> SUFFICES ASSUME ReplicatorInv, [ReplicatorNext]_replicatorVars PROVE ReplicatorInv'
    OBVIOUS
  <2>1. ASSUME NEW w \in Replicas,
               \/ \E m \in Members : Claim(w, m)
               \/ QuerySnapshots(w) \/ ReadFindings(w) \/ Finish(w) \/ FailReplication(w)
        PROVE  ReplicatorInv'
    BY <2>1, IssuesReplicaQuiet
  <2>2. ASSUME NEW w \in Replicas, ListIssues(w) PROVE ReplicatorInv'
    BY <2>2, IssuesList
  <2>3. ASSUME NEW w \in Replicas, ReplicateAny(w) PROVE ReplicatorInv'
    BY <2>3, IssuesEdit DEF ReplicateAny
  <2>4. CASE \/ \E m \in Members : Request(m) \/ LeaveGroup(m) \/ Find(m) \/ Upgrade(m)
             \/ \E i \in DOMAIN issues : Toggle(i)
             \/ UNCHANGED replicatorVars
    BY <2>4, IssuesEnvironment
  <2>. QED  BY <2>1, <2>2, <2>3, <2>4 DEF ReplicatorNext, Work
<1>. QED  BY <1>1, <1>2, PTL DEF ReplicatorSpec

\* OneOpenIssue: no two open issues have the same labels, however often issues are
\* closed, forgotten and created anew and replicas are killed (_create_or_update_issue).
THEOREM OneIsOpen == ReplicatorSpec => []OneOpenIssue
<1>1. ReplicatorInv => OneOpenIssue
  <2> SUFFICES ASSUME ReplicatorInv, Alone, NEW labels \in Labels
               PROVE  Cardinality(OpenWith(labels)) <= 1
    BY DEF OneOpenIssue, Alone
  <2>1. DOMAIN issues = 1 .. Len(issues) /\ Len(issues) \in Nat /\ OpenIsLatest
    BY DEF ReplicatorInv, ReplicatorTypeOK, IssuesInv
  <2>2. \A i, j \in OpenWith(labels) : i = j
    BY <2>1 DEF OpenWith, Open, OpenIsLatest
  <2>3. CASE OpenWith(labels) = {}
    BY <2>3, FS_EmptySet
  <2>4. CASE OpenWith(labels) # {}
    <3>1. PICK i \in OpenWith(labels) : TRUE
      BY <2>4
    <3>2. OpenWith(labels) = {i}
      BY <2>2, <3>1
    <3>. QED  BY <3>2, FS_Singleton
  <2>. QED  BY <2>3, <2>4
<1>. QED  BY <1>1, ReplicatorInvariant, PTL

\* While an artefact of the group is not scanned, no step of a replica closes an issue: it edits,
\* creates or skips (create_or_update_or_close_issue, whatever was listed before and whoever
\* edits at the same time).
THEOREM PendingIsOpen == ReplicatorSpec => PendingStaysOpen
<1> DEFINE StaysOpen ==
             \A w \in Replicas, i \in DOMAIN issues :
               replica[w].pc = "edit" /\ replica'[w] # replica[w] /\ issues[i].open =>
                 \/ i \in DOMAIN issues' /\ issues'[i].open
                 \/ replica[w].members \subseteq replica[w].scanned
<1>1. ReplicatorInv /\ [ReplicatorNext]_replicatorVars => [StaysOpen]_replicatorVars
  <2> SUFFICES ASSUME ReplicatorInv, ReplicatorNext,
                      NEW w \in Replicas, NEW i \in DOMAIN issues,
                      replica[w].pc = "edit", replica'[w] # replica[w], issues[i].open,
                      ~(replica[w].members \subseteq replica[w].scanned)
               PROVE  i \in DOMAIN issues' /\ issues'[i].open
    OBVIOUS
  <2>1. issues \in Seq(Issues) /\ replica \in [Replicas -> Locals]
    BY DEF ReplicatorInv, ReplicatorTypeOK
  <2>2. CASE issues' = issues
    BY <2>2
  <2>3. CASE issues' # issues
    <3>1. PICK v \in Replicas : \E labels \in Labels : Replicate(v, labels)
      <4>1. replica' # replica
        OBVIOUS
      <4> QED
        BY <2>3, <4>1 DEF ReplicatorNext, Work, ReplicateAny, QuerySnapshots, ReadFindings,
                          ListIssues, Finish, FailReplication, Claim, Request, LeaveGroup, Find,
                          Upgrade, Toggle
    <3>2. PICK labels \in Labels : Replicate(v, labels)
      BY <3>1
    <3>3. v = w
      BY <2>1, <3>2 DEF Replicate
    <3>4. ~Obsolete(w, labels)
      BY DEF Obsolete, FullyScanned, NotScanned
    <3>5. CASE UpdateIssue(w, labels)
      <4> DEFINE k == Latest(Known(w, labels))
                 issue == Edited(w, labels)
      <4>1. issues' = [issues EXCEPT ![k] = issue]
        BY <2>3, <3>5 DEF UpdateIssue
      <4>2. issue.open
        BY DEF Edited
      <4> HIDE DEF k, issue
      <4>3. DOMAIN issues' = DOMAIN issues /\ (issues'[i] = issue \/ issues'[i] = issues[i])
        BY <4>1
      <4> QED
        BY <4>2, <4>3
    <3>6. CASE CreateIssue(w, labels)
      <4> DEFINE issue == Edited(w, labels)
      <4>1. issues' = Append(issues, issue) \/ issues' = issues \o <<issue, issue>>
        BY <3>6 DEF CreateIssue
      <4> HIDE DEF issue
      <4>2. CASE issues' = Append(issues, issue)
        <5>1. i \in DOMAIN issues' /\ issues'[i] = issues[i]
          BY <2>1, <4>2
        <5> QED
          BY <5>1
      <4>3. CASE issues' = issues \o <<issue, issue>>
        <5>1. i \in DOMAIN issues' /\ issues'[i] = issues[i]
          BY <2>1, <4>3
        <5> QED
          BY <5>1
      <4> QED
        BY <4>1, <4>2, <4>3
    <3> QED
      BY <2>3, <3>2, <3>3, <3>4, <3>5, <3>6 DEF Replicate, CloseIssues, Skip
  <2> QED
    BY <2>2, <2>3
<1> QED
  BY <1>1, ReplicatorInvariant, PTL DEF ReplicatorSpec, PendingStaysOpen

-----------------------------------------------------------------------------
(* Rescorings *)

Severities == 1..Len(Categories)
Entries == [category : Severities, discovered : {0, 1}]
Decisions == [scope : UNION {Scopes(x) : x \in Rows}, category : Severities,
              due : Nat \union {None}]

RescoringInv ==
  /\ findings \in [Rows -> Entries \union {None}]
  /\ rescorings \in Seq(Decisions)

\* The parts of a place and of its row.
LEMMA PlaceRow ==
  ASSUME NEW p \in Places
  PROVE  /\ DOMAIN p = Attributes /\ DOMAIN Row(p) = Attributes
         /\ \A field \in Attributes : p[field] # None
         /\ Row(p).component = p.component /\ Row(p).artefact = p.artefact
         /\ Row(p).release = p.release
         /\ Row(p).version = IF p \in Unversioned THEN None ELSE p.version
         /\ p \notin Unversioned => Row(p) = p
<1>1. p = [field \in Attributes |-> p[field]] /\ \A field \in Attributes : p[field] # None
  BY RescoringAssumption
<1>2. DOMAIN p = Attributes
  BY <1>1
<1>3. CASE p \notin Unversioned
  BY <1>1, <1>2, <1>3 DEF Row
<1>4. CASE p \in Unversioned
  <2>1. Row(p) = [p EXCEPT !.version = None]
    BY <1>4 DEF Row
  <2>. QED  BY <1>1, <1>2, <1>4, <2>1 DEF Attributes
<1>. QED  BY <1>3, <1>4

\* A rescoring with a version is about one row, all attributes of which it names.
LEMMA VersionedScope ==
  ASSUME NEW r \in Decisions, r.scope.version # None
  PROVE  \E q \in Places \ Unversioned : r.scope = q
<1>1. PICK x \in Rows : r.scope \in Scopes(x)
  BY DEF Decisions
<1>2. PICK q \in Places : x = Row(q)
  BY <1>1 DEF Rows
<1>3. PICK kept \in {{}, {"component"}, {"component", "artefact"}, DOMAIN x} :
        r.scope = [field \in DOMAIN x |-> IF field \in kept THEN x[field] ELSE None]
  BY <1>1 DEF Scopes
<1>4. DOMAIN x = Attributes
  BY <1>2, PlaceRow
<1>5. kept = DOMAIN x /\ x.version # None
  BY <1>3, <1>4 DEF Attributes
<1>6. q \notin Unversioned /\ x = q
  BY <1>2, <1>5, PlaceRow
<1>7. r.scope = [field \in Attributes |-> q[field]]
  BY <1>3, <1>4, <1>5, <1>6
<1>8. q = [field \in Attributes |-> q[field]]
  BY RescoringAssumption
<1>. QED  BY <1>6, <1>7, <1>8

\* A rescoring that matches the finding of a place is one whose attributes are those of the place.
Applies(r, p) == \A field \in Attributes : IfSet(r.scope[field], p[field])

LEMMA MatchingApplies ==
  ASSUME NEW r \in Decisions, NEW p \in Places
  PROVE  Matches(r, Row(p)) <=> Applies(r, p)
<1>0. Applies(r, p) => Matches(r, Row(p))
  BY PlaceRow DEF Applies, Matches, IfSet, Attributes
<1> SUFFICES ASSUME Matches(r, Row(p)) PROVE Applies(r, p)
  BY <1>0
<1>1. /\ IfSet(r.scope.component, p.component) /\ IfSet(r.scope.artefact, p.artefact)
      /\ IfSet(r.scope.release, p.release)
      /\ p \notin Unversioned => IfSet(r.scope.version, p.version)
  BY PlaceRow DEF Matches, Attributes
<1>2. r.scope.version # None => p \notin Unversioned
  <2> SUFFICES ASSUME r.scope.version # None PROVE p \notin Unversioned
    OBVIOUS
  <2>1. PICK q \in Places \ Unversioned : r.scope = q
    BY VersionedScope
  <2>2. q.component = p.component /\ q.artefact = p.artefact
    BY <1>1, <2>1, PlaceRow DEF IfSet, Attributes
  <2>. QED  BY <2>1, <2>2, RescoringAssumption
<1>. QED  BY <1>1, <1>2 DEF Applies, IfSet, Attributes
LEMMA Agreement == RescoringInv => ConsumersAgree
<1> SUFFICES ASSUME RescoringInv, NEW p \in Places
             PROVE  /\ ProposalRescorings(p, rescorings) = SummaryRescorings(p, rescorings)
                    /\ ProposalRescorings(p, rescorings)
                         = ForFinding(Row(p), GroupRescorings(Group(p), rescorings))
  BY DEF ConsumersAgree
<1> DEFINE chosen == {i \in DOMAIN rescorings : Applies(rescorings[i], p)}
           result == [i \in chosen |-> rescorings[i]]
<1>1. \A i \in DOMAIN rescorings : rescorings[i] \in Decisions
  BY DEF RescoringInv
<1>2. \A i \in DOMAIN rescorings : Matches(rescorings[i], Row(p)) <=> Applies(rescorings[i], p)
  BY <1>1, MatchingApplies
<1>3. DOMAIN p = Attributes
  BY PlaceRow
<1>4. ProposalRescorings(p, rescorings) = result
  <2>1. Selected(p, rescorings) = result
    BY <1>3 DEF Selected, RestrictValues, Restrict, Applies
  <2>2. ForFinding(Row(p), result)
          = [i \in {j \in chosen : Matches(result[j], Row(p))} |-> result[i]]
    BY DEF ForFinding, RestrictValues, Restrict
  <2>3. {j \in chosen : Matches(result[j], Row(p))} = chosen
    BY <1>2
  <2>. QED  BY <2>1, <2>2, <2>3 DEF ProposalRescorings
<1>5. SummaryRescorings(p, rescorings) = result
  <2> DEFINE C(r) == IfSet(r.scope.component, p.component) /\ IfSet(r.scope.version, p.version)
             A(r) == IfSet(r.scope.artefact, p.artefact) /\ IfSet(r.scope.release, p.release)
             cs == {i \in DOMAIN rescorings : C(rescorings[i])}
             component == [i \in cs |-> rescorings[i]]
             both == {i \in cs : A(component[i])}
             selected == [i \in both |-> component[i]]
  <2>1. SummaryRescorings(p, rescorings)
          = [i \in {j \in both : Matches(selected[j], Row(p))} |-> selected[i]]
    BY DEF SummaryRescorings, ForFinding, RestrictValues, Restrict
  <2>2. {j \in both : Matches(selected[j], Row(p))} = chosen
    BY <1>2 DEF Applies, Attributes
  <2>. QED  BY <2>1, <2>2
<1>6. ForFinding(Row(p), GroupRescorings(Group(p), rescorings)) = result
  <2> DEFINE Of(r) == \E q \in Places : Group(q) = Group(p)
                                        /\ \A field \in DOMAIN q : IfSet(r.scope[field], q[field])
             of == {i \in DOMAIN rescorings : Of(rescorings[i])}
             group == [i \in of |-> rescorings[i]]
  <2>1. GroupRescorings(Group(p), rescorings) = group
    BY DEF GroupRescorings, RestrictValues, Restrict
  <2>2. ForFinding(Row(p), group) = [i \in {j \in of : Matches(group[j], Row(p))} |-> group[i]]
    BY DEF ForFinding, RestrictValues, Restrict
  <2>3. {j \in of : Matches(group[j], Row(p))} = chosen
    <3>1. ASSUME NEW i \in chosen PROVE Of(rescorings[i])
      BY <1>3, <3>1 DEF Applies
    <3>. QED  BY <1>2, <3>1
  <2>. QED  BY <2>1, <2>2, <2>3
<1>. QED  BY <1>4, <1>5, <1>6

\* The rescoring that counts is one of those there are.
LEMMA NewestIsOne ==
  ASSUME RescoringInv, NEW x
  PROVE  NewestOf(ForFinding(x, rescorings)) \in Decisions \union {None}
<1> DEFINE chosen == {i \in DOMAIN rescorings : Matches(rescorings[i], x)}
           rs == [i \in chosen |-> rescorings[i]]
<1>1. ForFinding(x, rescorings) = rs
  BY DEF ForFinding, RestrictValues, Restrict
<1>2. CASE chosen = {}
  BY <1>1, <1>2 DEF NewestOf
<1>3. CASE chosen # {}
  <2>1. chosen \in SUBSET Nat
    BY DEF RescoringInv
  <2>2. \E i \in chosen : \A j \in chosen : i <= j
    BY <1>3, <2>1, LeastOf
  <2> DEFINE m == CHOOSE i \in chosen : \A j \in chosen : i <= j
  <2>3. m \in chosen
    BY <2>2
  <2>4. NewestOf(rs) = rs[m]
    BY <1>3 DEF NewestOf
  <2> HIDE DEF m
  <2>5. rescorings[m] \in Decisions
    BY <2>3 DEF RescoringInv
  <2>. QED  BY <1>1, <2>3, <2>4, <2>5
<1>. QED  BY <1>2, <1>3

LEMMA RescoringConstants ==
  /\ \A c \in Severities : Categories[c].time \in Nat \union {None}
  /\ \A i \in 1..Len(Due) : Due[i] \in Nat
  /\ Len(Due) \in Nat /\ Len(Due) >= 1
  /\ Offset \in Int /\ None \notin Nat
<1>1. Categories \in Seq([value : Nat, time : Nat \union {None}])
  BY RescoringAssumption
<1>2. \A c \in 1..Len(Categories) : Categories[c] \in [value : Nat, time : Nat \union {None}]
  <2> DEFINE S == [value : Nat, time : Nat \union {None}]
  <2>1. Categories \in Seq(S)
    BY <1>1
  <2> HIDE DEF S
  <2>2. \A c \in 1..Len(Categories) : Categories[c] \in S
    BY <2>1
  <2>. QED  BY <2>2 DEF S
<1>3. Due \in Seq(Nat) /\ Due # <<>>
  BY RescoringAssumption
<1>4. (\A i \in 1..Len(Due) : Due[i] \in Nat) /\ Len(Due) \in Nat /\ Len(Due) >= 1
  BY <1>3
<1>. QED  BY <1>2, <1>4, RescoringAssumption DEF Severities

LEMMA DueDateType ==
  ASSUME NEW f \in Entries, NEW r \in Decisions \union {None}
  PROVE  DueDate(f, r) \in Nat \union {None}
<1>1. \A c \in Severities : Categories[c].time \in Nat \union {None}
  BY RescoringConstants
<1>2. f.category \in Severities /\ f.discovered \in Nat
  BY DEF Entries
<1>3. CASE r = None
  BY <1>1, <1>2, <1>3 DEF DueDate
<1>4. CASE r # None
  <2>1. r.category \in Severities /\ r.due \in Nat \union {None}
    BY <1>4 DEF Decisions
  <2>2. CASE r.due # None
    BY <1>4, <2>1, <2>2 DEF DueDate
  <2>3. CASE r.due = None
    BY <1>1, <1>2, <1>4, <2>1, <2>3 DEF DueDate
  <2>. QED  BY <2>2, <2>3
<1>. QED  BY <1>3, <1>4

LEMMA FirstSprint ==
  ASSUME NEW date \in Nat, \E i \in 1..Len(Due) : Due[i] >= date
  PROVE  /\ First(date) \in 1..Len(Due) /\ Due[First(date)] >= date
         /\ \A i \in 1..Len(Due) : Due[i] >= date => First(date) <= i
<1> DEFINE ends == {i \in 1..Len(Due) : Due[i] >= date}
<1>1. ends \in SUBSET Nat /\ ends # {} /\ Len(Due) \in Nat
  BY RescoringConstants
<1>2. PICK m \in ends : \A i \in ends : m <= i
  BY <1>1, LeastOf
<1>3. \A j \in 1..m-1 : Due[j] < date
  <2> SUFFICES ASSUME NEW j \in 1..m-1 PROVE Due[j] < date
    OBVIOUS
  <2>1. j \in 1..Len(Due) /\ ~(m <= j) /\ Due[j] \in Nat
    BY <1>1, RescoringConstants
  <2>. QED  BY <1>2, <2>1
<1>4. \E i \in 1..Len(Due) : Due[i] >= date /\ \A j \in 1..i-1 : Due[j] < date
  BY <1>2, <1>3
<1> DEFINE first == CHOOSE i \in 1..Len(Due) : Due[i] >= date /\ \A j \in 1..i-1 : Due[j] < date
<1>5. first \in 1..Len(Due) /\ Due[first] >= date /\ \A j \in 1..first-1 : Due[j] < date
  BY <1>4
<1> HIDE DEF first
<1>6. ASSUME NEW i \in 1..Len(Due), Due[i] >= date PROVE first <= i
  <2>1. first \in Nat /\ i \in Nat /\ i >= 1 /\ Due[i] \in Nat
    BY <1>1, <1>5, RescoringConstants
  <2>2. ~(i \in 1..first-1)
    BY <1>5, <1>6, <2>1
  <2>. QED  BY <2>1, <2>2
<1>7. First(date) = first
  BY DEF First, first
<1>. QED  BY <1>5, <1>6, <1>7

\* What is due later is assigned to the same sprint or a later one.
LEMMA SprintsMonotonic ==
  ASSUME NEW a \in Nat, NEW b \in Nat, a <= b
  PROVE  SprintFor(a) <= SprintFor(b)
<1>0. Len(Due) \in Nat /\ Len(Due) >= 1 /\ Offset \in Int /\ a # None /\ b # None
      /\ \A i \in 1..Len(Due) : Due[i] \in Nat
  BY RescoringConstants
<1>1. \A i \in Int : Moved(i) \in 1..Len(Due)
  BY <1>0 DEF Moved
<1>2. \A i, j \in Int : i <= j => Moved(i) <= Moved(j)
  BY <1>0 DEF Moved
<1>3. CASE \E i \in 1..Len(Due) : Due[i] >= b
  <2>1. \E i \in 1..Len(Due) : Due[i] >= a
    BY <1>0, <1>3
  <2>2. First(b) \in 1..Len(Due) /\ Due[First(b)] >= b
    BY <1>3, FirstSprint
  <2>3. Due[First(b)] >= a
    BY <1>0, <2>2
  <2>4. First(a) \in 1..Len(Due) /\ First(a) <= First(b)
    BY <2>1, <2>2, <2>3, FirstSprint
  <2>5. Moved(First(a) + Offset) <= Moved(First(b) + Offset)
    BY <1>0, <1>2, <2>2, <2>4
  <2>. QED  BY <1>0, <1>3, <2>1, <2>5 DEF SprintFor
<1>4. CASE ~ \E i \in 1..Len(Due) : Due[i] >= b
  <2>1. SprintFor(b) = Len(Due)
    BY <1>0, <1>4 DEF SprintFor
  <2>2. CASE \E i \in 1..Len(Due) : Due[i] >= a
    <3>1. First(a) \in 1..Len(Due)
      BY <2>2, FirstSprint
    <3>2. SprintFor(a) = Moved(First(a) + Offset)
      BY <1>0, <2>2 DEF SprintFor
    <3>3. Moved(First(a) + Offset) \in 1..Len(Due)
      <4>1. First(a) + Offset \in Int
        BY <1>0, <3>1
      <4>. QED  BY <1>1, <4>1
    <3> DEFINE m == Moved(First(a) + Offset)
    <3>4. m \in 1..Len(Due) => m <= Len(Due)
      BY <1>0
    <3>. QED  BY <2>1, <3>2, <3>3, <3>4
  <2>3. CASE ~ \E i \in 1..Len(Due) : Due[i] >= a
    BY <1>0, <2>1, <2>3 DEF SprintFor
  <2>. QED  BY <2>2, <2>3
<1>. QED  BY <1>3, <1>4

LEMMA SprintsOrdered == RescoringInv => SprintsInOrder
<1> SUFFICES ASSUME RescoringInv, NEW x \in Rows, NEW y \in Rows,
                    findings[x] # None, findings[y] # None,
                    DueDate(findings[x], NewestOf(ForFinding(x, rescorings))) # None,
                    DueDate(findings[y], NewestOf(ForFinding(y, rescorings))) # None,
                    DueDate(findings[x], NewestOf(ForFinding(x, rescorings)))
                      <= DueDate(findings[y], NewestOf(ForFinding(y, rescorings)))
             PROVE  View(x) <= View(y)
  BY DEF SprintsInOrder
<1>1. findings[x] \in Entries /\ findings[y] \in Entries
  BY DEF RescoringInv
<1> DEFINE a == DueDate(findings[x], NewestOf(ForFinding(x, rescorings)))
           b == DueDate(findings[y], NewestOf(ForFinding(y, rescorings)))
<1>2. a \in Nat /\ b \in Nat
  BY <1>1, NewestIsOne, DueDateType
<1>3. SprintFor(a) <= SprintFor(b)
  BY <1>2, SprintsMonotonic
<1>. QED  BY <1>3 DEF View

LEMMA RulesOrdered == RescoringInv => RulesKeepOrder
<1> SUFFICES ASSUME RescoringInv, NEW x \in Rows, NEW y \in Rows,
                    findings[x] # None, findings[y] # None,
                    NEW by \in -Len(Categories)..Len(Categories)
             PROVE  /\ Operated(findings[x].category, by) \in DOMAIN Categories
                    /\ findings[x].category <= findings[y].category =>
                         Operated(findings[x].category, by) <= Operated(findings[y].category, by)
  BY DEF RulesKeepOrder
<1>1. findings[x] \in Entries /\ findings[y] \in Entries
  BY DEF RescoringInv
<1>2. Len(Categories) \in Nat /\ Len(Categories) >= 1 /\ DOMAIN Categories = 1..Len(Categories)
  BY RescoringAssumption
<1>3. findings[x].category \in 1..Len(Categories) /\ findings[y].category \in 1..Len(Categories)
  BY <1>1 DEF Entries, Severities
<1>4. ASSUME NEW c \in 1..Len(Categories), NEW d \in 1..Len(Categories), c <= d
      PROVE  /\ Operated(c, by) \in 1..Len(Categories)
             /\ Operated(c, by) <= Operated(d, by)
  <2>1. by \in Int /\ c \in Int /\ d \in Int
    BY <1>2
  <2>2. CASE c + by > Len(Categories)
    BY <1>2, <1>4, <2>1, <2>2 DEF Operated
  <2>3. CASE c + by < 1
    BY <1>2, <1>4, <2>1, <2>3 DEF Operated
  <2>4. CASE 1 <= c + by /\ c + by <= Len(Categories)
    BY <1>2, <1>4, <2>1, <2>4 DEF Operated
  <2>. QED  BY <1>2, <2>1, <2>2, <2>3, <2>4
<1>. QED  BY <1>2, <1>3, <1>4

\* The rescorings that are left without one of them.
LEMMA WithoutType ==
  ASSUME rescorings \in Seq(Decisions), NEW i \in DOMAIN rescorings
  PROVE  Without(i) \in Seq(Decisions)
<1>1. i \in 1..Len(rescorings) /\ Len(rescorings) \in Nat
  OBVIOUS
<1>2. SubSeq(rescorings, 1, i - 1) \in Seq(Decisions)
  BY <1>1, SubSeqProperties
<1>3. SubSeq(rescorings, i + 1, Len(rescorings)) \in Seq(Decisions)
  BY <1>1, SubSeqProperties
<1>. QED  BY <1>2, <1>3, ConcatProperties DEF Without

\* Whatever findings scanners add or delete, and whatever users rescore: the rows
\* keep their types, on which what the readers agree on rests.
THEOREM RescoringInvariant == RescoringSpec => []RescoringInv
<1>1. RescoringInit => RescoringInv
  BY DEF RescoringInit, RescoringInv
<1>2. RescoringInv /\ [RescoringNext]_rescoringVars => RescoringInv'
  <2> SUFFICES ASSUME RescoringInv, [RescoringNext]_rescoringVars PROVE RescoringInv'
    OBVIOUS
  <2>1. ASSUME NEW x \in Rows, NEW scope \in Scopes(x), NEW date \in {None, Due[Len(Due)] + 1},
               NEW category \in Severities, Rescore(x, scope, category, date)
        PROVE  RescoringInv'
    <3> DEFINE new == [scope |-> scope, category |-> category, due |-> date]
    <3>1. date \in Nat \union {None}
      BY RescoringAssumption
    <3>2. new \in Decisions
      BY <3>1 DEF Decisions
    <3>3. /\ findings' = findings
          /\ \/ rescorings' = <<new>> \o rescorings
             \/ \E i \in DOMAIN rescorings : rescorings' = <<new>> \o Without(i)
      BY <2>1 DEF Rescore
    <3> HIDE DEF new
    <3>4. <<new>> \in Seq(Decisions) /\ rescorings \in Seq(Decisions)
      BY <3>2 DEF RescoringInv
    <3>5. rescorings' \in Seq(Decisions)
      BY <3>3, <3>4, WithoutType, ConcatProperties
    <3>. QED  BY <3>3, <3>5 DEF RescoringInv
  <2>2. ASSUME NEW i \in 1..Len(rescorings), Unscore(i) PROVE RescoringInv'
    BY <2>2, WithoutType DEF Unscore, RescoringInv
  <2>3. ASSUME NEW x \in Rows, FindingChanges(x) PROVE RescoringInv'
    <3>1. findings' \in [Rows -> Entries \union {None}]
      BY <2>3 DEF FindingChanges, RescoringInv, Entries, Severities
    <3>. QED  BY <2>3, <3>1 DEF FindingChanges, RescoringInv
  <2>4. CASE \/ \E g \in ArtefactGroups : FetchFindings(g)
             \/ ReadRescorings \/ ShowIssues \/ UNCHANGED rescoringVars
    BY <2>4 DEF FetchFindings, ReadRescorings, ShowIssues, rescoringVars, RescoringInv
  <2>. QED  BY <2>1, <2>2, <2>3, <2>4 DEF RescoringNext, Severities
<1>. QED  BY <1>1, <1>2, PTL DEF RescoringSpec

\* RescoringsAgree: for any artefacts, categorisations and sprints, and whatever is rescored, the
\* proposals, the summary and the issues apply the same rescorings to a finding, and what is due
\* later is shown for no earlier sprint.
THEOREM ReadersAgree == RescoringSpec => []RescoringsAgree
<1>1. RescoringInv => RescoringsAgree
  BY Agreement, SprintsOrdered, RulesOrdered DEF RescoringsAgree
<1>. QED  BY <1>1, RescoringInvariant, PTL

-----------------------------------------------------------------------------
(* The delivery-db cache *)

CacheEntries == [value : Calls \X Nat, size : Nat, reads : Nat, stale : BOOLEAN]
CacheTypeOK ==
  /\ FaultsTypeOK
  /\ source \in [Calls -> Nat]
  /\ entries \in [Ids -> {None} \union CacheEntries]
  /\ caller.pc \in {"idle", "calculate", "store", "answered"}
  /\ manager \in [pc : {"idle", "select", "prune", "prefill", "done"}, prune : SUBSET Ids,
                  fill : SUBSET Prefilled]

\* A request has a call, and then its result.
CallerInv ==
  /\ caller.pc # "idle" => caller.call \in Calls
  /\ caller.pc \in {"store", "answered"} =>
       caller.value \in Calls \X Nat /\ caller.value[1] = caller.call

\* An entry is the result of a call with its id.
EntriesInv == \A i \in Ids : entries[i] # None => Id(entries[i].value[1]) = i

\* What the cache manager does not have to fill any more is in the cache.
ManagerInv ==
  Never("store") =>
    /\ manager.pc \in {"select", "prune"} => manager.fill = Prefilled
    /\ manager.pc \in {"prefill", "done"} =>
         \A c \in Prefilled : c \in manager.fill \/ entries[Id(c)] # None
    /\ manager.pc = "done" => manager.fill = {}

DbCacheInv == CacheTypeOK /\ CallerInv /\ EntriesInv /\ ManagerInv

\* A call is known by its id.
LEMMA IdIsUnique ==
  ASSUME CallsAssumption, NEW c \in Calls, NEW d \in Calls, Id(c) = Id(d)
  PROVE  c = d
<1> DEFINE Pairs(e) == {<<n, e.kwargs[n]>> : n \in DOMAIN e.kwargs}
<1>1. c.args = d.args
  BY DEF CallsAssumption
<1>2. Pairs(c) = Pairs(d)
  BY DEF Id
<1>3. ASSUME NEW e, NEW f, Pairs(e) = Pairs(f), NEW n \in DOMAIN e.kwargs
      PROVE  n \in DOMAIN f.kwargs /\ e.kwargs[n] = f.kwargs[n]
  <2>1. <<n, e.kwargs[n]>> \in Pairs(f)
    BY <1>3
  <2>2. PICK m \in DOMAIN f.kwargs : <<n, e.kwargs[n]>> = <<m, f.kwargs[m]>>
    BY <2>1
  <2>3. n = m /\ e.kwargs[n] = f.kwargs[m]
    BY <2>2, Zenon
  <2> QED
    BY <2>2, <2>3
<1>4. DOMAIN c.kwargs = DOMAIN d.kwargs
  BY <1>2, <1>3
<1> HIDE DEF Pairs
<1>5. \A n \in DOMAIN c.kwargs : c.kwargs[n] = d.kwargs[n]
  BY <1>2, <1>3
<1>6. [n \in DOMAIN c.kwargs |-> c.kwargs[n]] = [n \in DOMAIN d.kwargs |-> d.kwargs[n]]
  BY <1>4, <1>5, Zenon
<1> QED
  BY <1>1, <1>6 DEF CallsAssumption

LEMMA CacheNever ==
  ASSUME DbCacheAssumption, FaultsTypeOK, UNCHANGED faults \/ \E kind : Spend(kind)
  PROVE  FaultsTypeOK' /\ (Never("store")' => Never("store"))
<1>1. "store" \in DOMAIN Limit
  BY DEF DbCacheAssumption
<1>2. CASE UNCHANGED faults
  BY <1>2 DEF faults, FaultsTypeOK, Never
<1>3. ASSUME NEW kind, Spend(kind)
      PROVE  FaultsTypeOK' /\ (Never("store")' => Never("store"))
  <2>1. left' \in Nat /\ (kind \notin DOMAIN Limit => spent' = spent)
    BY <1>3 DEF Spend, FaultsTypeOK
  <2>2. CASE kind \in DOMAIN Limit
    BY <1>1, <1>3, <2>1, <2>2, LimitAssumption DEF Spend, FaultsTypeOK, Never
  <2>3. CASE kind \notin DOMAIN Limit
    BY <2>1, <2>3 DEF FaultsTypeOK, Never
  <2> QED
    BY <2>2, <2>3
<1> QED
  BY <1>2, <1>3

\* A result that cannot be stored is counted.
LEMMA NotStored ==
  ASSUME DbCacheAssumption, FaultsTypeOK, Spend("store")
  PROVE  ~Never("store")'
  BY DEF DbCacheAssumption, Spend, FaultsTypeOK, Never

\* What may happen to the entries while nothing is pruned: each stays an entry of its call.
Grows ==
  /\ entries' \in [Ids -> {None} \union CacheEntries]
  /\ \A i \in Ids : /\ entries[i] # None => entries'[i] # None
                    /\ entries'[i] # None => Id(entries'[i].value[1]) = i

LEMMA ReadGrows ==
  ASSUME DbCacheAssumption, CacheTypeOK, EntriesInv, NEW i \in Ids, entries[i] # None,
         ReadOnce(i) \/ UNCHANGED entries
  PROVE  Grows
<1>1. CASE UNCHANGED entries
  BY <1>1 DEF Grows, CacheTypeOK, EntriesInv
<1>2. CASE ReadOnce(i)
  <2> DEFINE reads == IF entries[i].reads < MaxReads THEN entries[i].reads + 1
                      ELSE entries[i].reads
             entry == [entries[i] EXCEPT !.reads = reads]
  <2>1. entries[i] \in CacheEntries /\ MaxReads \in Nat
    BY DEF CacheTypeOK, DbCacheAssumption
  <2>2. reads \in Nat
    BY <2>1 DEF CacheEntries
  <2>3. entries' = [entries EXCEPT ![i] = entry]
    BY <1>2 DEF ReadOnce
  <2> HIDE DEF reads
  <2>4. entry \in CacheEntries /\ entry.value = entries[i].value
    BY <2>1, <2>2 DEF CacheEntries
  <2>5. entry # None
    BY <2>4 DEF DbCacheAssumption, CacheEntries
  <2> HIDE DEF entry
  <2> QED
    BY <2>3, <2>4, <2>5 DEF Grows, CacheTypeOK, EntriesInv
<1> QED
  BY <1>1, <1>2

LEMMA AddGrows ==
  ASSUME DbCacheAssumption, CacheTypeOK, EntriesInv, NEW c \in Calls, NEW value \in Calls \X Nat,
         value[1] = c, AddOrUpdate(c, value)
  PROVE  Grows /\ entries'[Id(c)] # None
<1> DEFINE i == Id(c)
           new == NewEntry(c, value)
           again == [new EXCEPT !.reads = entries[i].reads]
<1>1. i \in Ids /\ Octets[c] \in Nat
  BY DEF Ids, DbCacheAssumption
<1>2. new \in CacheEntries /\ new.value = value
  BY <1>1 DEF NewEntry, CacheEntries
<1>3. entries[i] # None => again \in CacheEntries /\ again.value = value
  <2> SUFFICES ASSUME entries[i] # None PROVE again \in CacheEntries /\ again.value = value
    OBVIOUS
  <2>1. entries[i].reads \in Nat
    BY <1>1 DEF CacheTypeOK, CacheEntries
  <2> QED
    BY <1>2, <2>1 DEF CacheEntries
<1>4. entries' = [entries EXCEPT ![i] = IF entries[i] = None THEN new ELSE again]
  BY DEF AddOrUpdate
<1> HIDE DEF new, again, i
<1>5. /\ entries' \in [Ids -> {None} \union CacheEntries]
      /\ entries'[i] \in CacheEntries
      /\ entries'[i].value = value
      /\ \A j \in Ids \ {i} : entries'[j] = entries[j]
  BY <1>1, <1>2, <1>3, <1>4 DEF CacheTypeOK
<1>6. entries'[i] # None
  BY <1>5 DEF DbCacheAssumption, CacheEntries
<1>7. Id(entries'[i].value[1]) = i
  BY <1>5 DEF i
<1>8. Grows
  BY <1>1, <1>5, <1>6, <1>7 DEF Grows, EntriesInv
<1> QED
  BY <1>6, <1>8 DEF i

\* Steps in which the entries grow and the cache manager rests.
LEMMA GrowingInv ==
  ASSUME DbCacheAssumption, DbCacheInv, Grows, UNCHANGED faults \/ \E kind : Spend(kind),
         UNCHANGED manager, source' \in [Calls -> Nat],
         caller'.pc \in {"idle", "calculate", "store", "answered"}, CallerInv'
  PROVE  DbCacheInv'
<1>1. FaultsTypeOK' /\ (Never("store")' => Never("store"))
  BY CacheNever DEF DbCacheInv, CacheTypeOK
<1>2. CacheTypeOK' /\ EntriesInv'
  BY <1>1 DEF Grows, DbCacheInv, CacheTypeOK, EntriesInv
<1>3. \A c \in Prefilled : Id(c) \in Ids
  BY DEF DbCacheAssumption, Ids
<1>4. ManagerInv'
  BY <1>1, <1>3 DEF DbCacheInv, ManagerInv, Grows
<1> QED
  BY <1>2, <1>4 DEF DbCacheInv

LEMMA CallerStepInv ==
  ASSUME DbCacheAssumption, CallsAssumption, DbCacheInv,
         \/ \E c \in Calls, shortcut \in BOOLEAN : Call(c, shortcut)
         \/ Calculate \/ StoreEntry
  PROVE  DbCacheInv'
<1>0. UNCHANGED <<source, manager>> /\ (UNCHANGED faults \/ \E kind : Spend(kind))
  BY DEF Call, Calculate, StoreEntry
<1>1. CacheTypeOK /\ CallerInv /\ EntriesInv
  BY DEF DbCacheInv
<1>2. UNCHANGED entries => Grows
  BY <1>1 DEF Grows, CacheTypeOK, EntriesInv
<1>3. ASSUME NEW c \in Calls, NEW shortcut \in BOOLEAN, Call(c, shortcut) PROVE DbCacheInv'
  <2>1. Id(c) \in Ids
    BY DEF Ids
  <2>2. CASE Usable(Id(c)) /\ ~shortcut
    <3>1. caller' = [pc |-> "answered", call |-> c, value |-> entries[Id(c)].value]
          /\ (ReadOnce(Id(c)) \/ UNCHANGED entries)
      BY <1>3, <2>2 DEF Call
    <3>2. entries[Id(c)] \in CacheEntries /\ entries[Id(c)] # None
      BY <1>1, <2>1, <2>2 DEF Usable, CacheTypeOK
    <3>3. Grows
      BY <1>1, <2>1, <3>1, <3>2, ReadGrows
    <3>4. /\ entries[Id(c)].value \in Calls \X Nat
          /\ Id(entries[Id(c)].value[1]) = Id(c)
      BY <1>1, <2>1, <3>2 DEF CacheEntries, EntriesInv
    <3>5. entries[Id(c)].value[1] \in Calls
      BY <3>4
    <3>6. entries[Id(c)].value[1] = c
      BY <3>4, <3>5, IdIsUnique
    <3>7. CallerInv' /\ caller'.pc = "answered"
      BY <3>1, <3>4, <3>6 DEF CallerInv
    <3> QED
      BY <1>0, <1>1, <3>3, <3>7, GrowingInv DEF CacheTypeOK
  <2>3. CASE ~(Usable(Id(c)) /\ ~shortcut)
    <3>1. caller' = [pc |-> "calculate", call |-> c, value |-> None] /\ UNCHANGED entries
      BY <1>3, <2>3 DEF Call
    <3>2. CallerInv' /\ caller'.pc = "calculate"
      BY <3>1 DEF CallerInv
    <3> QED
      BY <1>0, <1>1, <1>2, <3>1, <3>2, GrowingInv DEF CacheTypeOK
  <2> QED
    BY <2>2, <2>3
<1>4. CASE Calculate
  <2>1. /\ caller.pc = "calculate" /\ UNCHANGED entries
        /\ caller' = [pc |-> "store", call |-> caller.call,
                      value |-> <<caller.call, source[caller.call]>>]
    BY <1>4 DEF Calculate
  <2>2. caller.call \in Calls /\ source[caller.call] \in Nat
    BY <1>1, <2>1 DEF CallerInv, CacheTypeOK
  <2>3. CallerInv' /\ caller'.pc = "store"
    BY <2>1, <2>2 DEF CallerInv
  <2> QED
    BY <1>0, <1>1, <1>2, <2>1, <2>3, GrowingInv DEF CacheTypeOK
<1>5. CASE StoreEntry
  <2>1. /\ caller.pc = "store" /\ caller' = [caller EXCEPT !.pc = "answered"]
        /\ AddOrUpdate(caller.call, caller.value) \/ UNCHANGED entries
    BY <1>5 DEF StoreEntry
  <2>2. caller.call \in Calls /\ caller.value \in Calls \X Nat /\ caller.value[1] = caller.call
    BY <1>1, <2>1 DEF CallerInv
  <2>3. Grows
    BY <1>1, <1>2, <2>1, <2>2, AddGrows
  <2>4. caller'.call = caller.call /\ caller'.value = caller.value
    BY <2>1
  <2>5. caller'.pc \in {"answered", caller.pc}
    BY <2>1
  <2>6. CallerInv' /\ caller'.pc \in {"answered", "store"}
    BY <2>1, <2>2, <2>4, <2>5 DEF CallerInv
  <2> QED
    BY <1>0, <1>1, <2>3, <2>6, GrowingInv DEF CacheTypeOK
<1> QED
  BY <1>3, <1>4, <1>5

LEMMA CacheEnvironmentInv ==
  ASSUME DbCacheAssumption, DbCacheInv,
         (\E i \in Ids : MarkForDeletion(i)) \/ (\E c \in Calls : ChangeSource(c))
  PROVE  DbCacheInv'
<1>1. CacheTypeOK /\ CallerInv /\ EntriesInv
  BY DEF DbCacheInv
<1>2. UNCHANGED <<manager, caller>> /\ (\E kind : Spend(kind))
  BY DEF MarkForDeletion, ChangeSource
<1>3. CallerInv' /\ caller'.pc = caller.pc
  BY <1>1, <1>2 DEF CallerInv
<1>4. ASSUME NEW i \in Ids, MarkForDeletion(i) PROVE DbCacheInv'
  <2> DEFINE entry == [entries[i] EXCEPT !.stale = TRUE]
  <2>1. entries[i] # None /\ entries' = [entries EXCEPT ![i] = entry] /\ UNCHANGED source
    BY <1>4 DEF MarkForDeletion, Usable
  <2>2. entries[i] \in CacheEntries
    BY <1>1, <2>1 DEF CacheTypeOK
  <2>3. entry \in CacheEntries /\ entry.value = entries[i].value
    BY <2>2 DEF CacheEntries
  <2>4. entry # None
    BY <2>3 DEF DbCacheAssumption, CacheEntries
  <2> HIDE DEF entry
  <2>5. Grows
    BY <1>1, <2>1, <2>3, <2>4 DEF Grows, CacheTypeOK, EntriesInv
  <2> QED
    BY <1>1, <1>2, <1>3, <2>1, <2>5, GrowingInv DEF CacheTypeOK
<1>5. ASSUME NEW c \in Calls, ChangeSource(c) PROVE DbCacheInv'
  <2>1. source' \in [Calls -> Nat] /\ UNCHANGED entries
    BY <1>1, <1>5 DEF ChangeSource, CacheTypeOK
  <2>2. Grows
    BY <1>1, <2>1 DEF Grows, CacheTypeOK, EntriesInv
  <2> QED
    BY <1>1, <1>2, <1>3, <2>1, <2>2, GrowingInv DEF CacheTypeOK
<1> QED
  BY <1>4, <1>5

\* The cache manager prunes before it fills.
LEMMA ManagerStepInv ==
  ASSUME DbCacheAssumption, DbCacheInv, Managing \/ ManagerFails
  PROVE  DbCacheInv'
<1>0. CacheTypeOK /\ CallerInv /\ EntriesInv /\ ManagerInv
  BY DEF DbCacheInv
<1>1. UNCHANGED <<source, caller>> /\ (UNCHANGED faults \/ \E kind : Spend(kind))
  BY DEF Managing, StartManager, SelectEntries, PruneEntries, Prefill, EndManager, ManagerFails
<1>2. FaultsTypeOK' /\ (Never("store")' => Never("store"))
  BY <1>0, <1>1, CacheNever DEF CacheTypeOK
<1>3. CallerInv'
  BY <1>0, <1>1 DEF CallerInv
<1>4. \A c \in Prefilled : c \in Calls /\ Id(c) \in Ids
  BY DEF DbCacheAssumption, Ids
<1>5. ASSUME entries' \in [Ids -> {None} \union CacheEntries],
             \A i \in Ids : entries'[i] # None => Id(entries'[i].value[1]) = i,
             manager' \in [pc : {"idle", "select", "prune", "prefill", "done"},
                           prune : SUBSET Ids, fill : SUBSET Prefilled],
             ManagerInv'
      PROVE  DbCacheInv'
  BY <1>0, <1>1, <1>2, <1>3, <1>5 DEF DbCacheInv, CacheTypeOK, EntriesInv
<1>6. CASE StartManager \/ SelectEntries \/ ManagerFails
  <2>1. UNCHANGED entries
    BY <1>6 DEF StartManager, SelectEntries, ManagerFails
  <2>2. /\ manager'.pc \in {"idle", "select", "prune", "prefill"}
        /\ manager'.pc # "idle" =>
             manager'.fill = Prefilled \/ (manager'.fill = manager.fill /\ manager.pc = "select")
        /\ manager'.pc = "prune" => manager.pc = "select"
        /\ manager'.pc = "prefill" => manager'.fill = Prefilled
        /\ manager' \in [pc : {"idle", "select", "prune", "prefill", "done"},
                         prune : SUBSET Ids, fill : SUBSET Prefilled]
    <3>1. CASE StartManager
      <4>1. manager' = [pc |-> "prefill", prune |-> {}, fill |-> Prefilled]
            \/ manager' = [pc |-> "select", prune |-> {}, fill |-> Prefilled]
        BY <3>1 DEF StartManager, AfterCheck
      <4> QED
        BY <4>1
    <3>2. CASE SelectEntries
      <4>1. PICK some \in Pruned : manager' = [pc |-> "prune", prune |-> some,
                                               fill |-> manager.fill]
        BY <3>2 DEF SelectEntries
      <4>2. some \in SUBSET Ids /\ manager.pc = "select" /\ manager.fill \in SUBSET Prefilled
        BY <1>0, <3>2 DEF SelectEntries, Pruned, Present, CacheTypeOK
      <4> QED
        BY <4>1, <4>2
    <3>3. CASE ManagerFails
      BY <3>3 DEF ManagerFails, NoManager
    <3> QED
      BY <1>6, <3>1, <3>2, <3>3
  <2>3. ManagerInv'
    BY <1>0, <1>2, <2>2 DEF ManagerInv
  <2> QED
    BY <1>0, <1>5, <2>1, <2>2, <2>3 DEF CacheTypeOK, EntriesInv
<1>7. CASE PruneEntries
  <2>1. /\ manager.pc = "prune"
        /\ entries' = [i \in Ids |-> IF i \in manager.prune THEN None ELSE entries[i]]
        /\ manager' = [pc |-> "prefill", prune |-> {}, fill |-> manager.fill]
    BY <1>7 DEF PruneEntries, AfterPruning
  <2>2. manager.fill \in SUBSET Prefilled
    BY <1>0 DEF CacheTypeOK
  <2>3. manager' \in [pc : {"idle", "select", "prune", "prefill", "done"},
                      prune : SUBSET Ids, fill : SUBSET Prefilled]
    BY <2>1, <2>2
  <2>4. entries' \in [Ids -> {None} \union CacheEntries]
        /\ \A i \in Ids : entries'[i] # None => Id(entries'[i].value[1]) = i
    BY <1>0, <2>1 DEF CacheTypeOK, EntriesInv
  <2>5. ManagerInv'
    BY <1>0, <1>2, <2>1 DEF ManagerInv
  <2> QED
    BY <1>5, <2>3, <2>4, <2>5
<1>8. CASE Prefill
  <2>1. PICK c \in manager.fill :
          /\ IF Usable(Id(c)) THEN (ReadOnce(Id(c)) \/ UNCHANGED entries) /\ UNCHANGED faults
             ELSE \/ AddOrUpdate(c, <<c, source[c]>>) /\ UNCHANGED faults
                  \/ Spend("store") /\ UNCHANGED entries
          /\ manager' = [manager EXCEPT !.fill = manager.fill \ {c}]
    BY <1>8 DEF Prefill
  <2>2. manager.pc = "prefill" /\ manager.fill \in SUBSET Prefilled
    BY <1>0, <1>8 DEF Prefill, CacheTypeOK
  <2>3. c \in Calls /\ Id(c) \in Ids /\ <<c, source[c]>> \in Calls \X Nat /\ <<c, source[c]>>[1] = c
    BY <1>0, <1>4, <2>2 DEF CacheTypeOK
  <2>4. manager'.pc = "prefill" /\ manager'.fill = manager.fill \ {c}
        /\ manager' \in [pc : {"idle", "select", "prune", "prefill", "done"},
                         prune : SUBSET Ids, fill : SUBSET Prefilled]
    BY <1>0, <2>1, <2>2 DEF CacheTypeOK
  <2>5. Grows /\ (Never("store")' => entries'[Id(c)] # None)
    <3>1. CASE Usable(Id(c))
      <4>1. entries[Id(c)] # None
        BY <3>1 DEF Usable
      <4>2. Grows
        BY <1>0, <2>1, <2>3, <3>1, <4>1, ReadGrows
      <4> QED
        BY <2>3, <4>1, <4>2 DEF Grows
    <3>2. CASE ~Usable(Id(c)) /\ AddOrUpdate(c, <<c, source[c]>>)
      BY <1>0, <2>3, <3>2, AddGrows
    <3>3. CASE Spend("store") /\ UNCHANGED entries
      BY <1>0, <3>3, NotStored DEF Grows, CacheTypeOK, EntriesInv
    <3> QED
      BY <2>1, <3>1, <3>2, <3>3
  <2>6. ManagerInv'
    <3> SUFFICES ASSUME Never("store")' PROVE ManagerInv'
      BY DEF ManagerInv
    <3>1. \A d \in Prefilled : d \in manager.fill \/ entries[Id(d)] # None
      BY <1>0, <1>2, <2>2 DEF ManagerInv
    <3>2. \A d \in Prefilled : d \in manager'.fill \/ entries'[Id(d)] # None
      BY <1>4, <2>4, <2>5, <3>1 DEF Grows
    <3> QED
      BY <2>4, <3>2 DEF ManagerInv
  <2> QED
    BY <1>5, <2>4, <2>5, <2>6 DEF Grows
<1>9. CASE EndManager
  <2>1. /\ manager.pc = "prefill" /\ manager.fill = {} /\ UNCHANGED entries
        /\ manager' = [manager EXCEPT !.pc = "done"]
    BY <1>9 DEF EndManager
  <2>2. manager'.pc = "done" /\ manager'.fill = {}
        /\ manager' \in [pc : {"idle", "select", "prune", "prefill", "done"},
                         prune : SUBSET Ids, fill : SUBSET Prefilled]
    BY <1>0, <2>1 DEF CacheTypeOK
  <2>3. ManagerInv'
    BY <1>0, <1>2, <2>1, <2>2 DEF ManagerInv
  <2> QED
    BY <1>0, <1>5, <2>1, <2>2, <2>3 DEF CacheTypeOK, EntriesInv
<1> QED
  BY <1>6, <1>7, <1>8, <1>9 DEF Managing

\* An entry is the result of a call with its id, and a call is known by its id; what the cache
\* manager has filled in stays, because it has pruned before.
THEOREM DbCacheInvariant ==
  ASSUME DbCacheAssumption, CallsAssumption
  PROVE  DbCacheSpec => []DbCacheInv
<1>1. DbCacheInit => DbCacheInv
  <2> SUFFICES ASSUME DbCacheInit PROVE DbCacheInv
    OBVIOUS
  <2>1. FaultsTypeOK
    BY LimitAssumption DEF DbCacheInit, FaultsInit, FaultsTypeOK
  <2>2. caller.pc = "idle" /\ manager.pc = "idle" /\ \A i \in Ids : entries[i] = None
    BY DEF DbCacheInit, NoCall, NoManager
  <2>3. CacheTypeOK
    BY <2>1, <2>2 DEF DbCacheInit, CacheTypeOK, NoManager
  <2> QED
    BY <2>2, <2>3 DEF DbCacheInv, CallerInv, EntriesInv, ManagerInv
<1>2. DbCacheInv /\ [DbCacheNext]_dbCacheVars => DbCacheInv'
  <2> SUFFICES ASSUME DbCacheInv, [DbCacheNext]_dbCacheVars PROVE DbCacheInv'
    OBVIOUS
  <2>1. CASE UNCHANGED dbCacheVars
    <3>1. UNCHANGED <<source, entries, caller, manager, spent, left>>
      BY <2>1 DEF dbCacheVars, faults
    <3> QED
      BY <3>1 DEF DbCacheInv, CacheTypeOK, FaultsTypeOK, CallerInv, EntriesInv, ManagerInv, Never
  <2> QED
    BY <2>1, CallerStepInv, CacheEnvironmentInv, ManagerStepInv DEF DbCacheNext
<1> QED
  BY <1>1, <1>2, PTL DEF DbCacheSpec

\* "to prevent collisions": whatever is cached, marked, pruned and filled again, a client gets a
\* result of its own call, and the configured calls are in the cache after a run of the cache
\* manager.
THEOREM ResultsAreOwn ==
  ASSUME DbCacheAssumption, CallsAssumption
  PROVE  DbCacheSpec => []CacheIsSound
<1>1. DbCacheInv => CacheIsSound
  BY DEF DbCacheInv, CallerInv, ManagerInv, CacheIsSound, ResultsBelongToCalls, PrefilledIsCached
<1> QED
  BY <1>1, DbCacheInvariant, PTL
=============================================================================
