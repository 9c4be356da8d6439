----------------------------- MODULE SbomStore -----------------------------
(***************************************************************************)
(* SBOM documents: the SBOM generator (src/sbom_generator.py) uploads them *)
(* to the blob store of the delivery-service (src/blobstore/blob.py) and   *)
(* names their digest in the metadata; the cache manager                   *)
(* (src/cache_manager.py, cleanup_sboms) deletes those of artefacts that   *)
(* are no longer in use.                                                   *)
(***************************************************************************)
EXTENDS Faults, FiniteSets

CONSTANTS
  Sources,    \* artefacts
  Documents   \* Documents[a]: digests of the SBOMs that may be generated for a

\* Nothing else is the document of two artefacts (it names the artefact).
Unshared == \A a, b \in Sources : a # b => Documents[a] \intersect Documents[b] = {}

AllDocuments == UNION {Documents[a] : a \in Sources}

ASSUME SbomAssumption ==
  /\ None \notin AllDocuments \union (Sources \X AllDocuments)
  /\ None \notin [digest : AllDocuments, aged : BOOLEAN]
  /\ {"kill", "lostAnswer", "deleteFails", "queryFails", "abortCleanup"} \subseteq DOMAIN Limit

VARIABLES
  on_exist,   \* of the configuration: "skip" or "overwrite"
  bom,        \* artefacts in use
  document,   \* document[a]: digest of the SBOM a generation yields at present
  blobs,      \* digests in the blob store
  sboms,      \* sboms[a]: the scan info of the SBOM generator, None without
  gen,        \* gen[a]: locals of generate_sbom_for_artefact
  cleanup,    \* locals of cleanup_sboms
  meddled     \* history: "generated", if an SBOM was, while a clean-up was deleting that of the
              \* artefact; "again", if it was a document which the clean-up was still to delete

sbomVars == <<on_exist, bom, document, blobs, sboms, gen, cleanup, meddled, faults>>

Ready == [pc |-> "idle", old |-> None]
NoCleanup == [pc |-> "idle", keep |-> {}, todo |-> {}, digest |-> None, deleted |-> {}]

SbomInit ==
  /\ FaultsInit
  /\ on_exist \in {"skip", "overwrite"}
  /\ bom = Sources
  /\ document \in {f \in [Sources -> AllDocuments] : \A a \in Sources : f[a] \in Documents[a]}
  /\ blobs = {}
  /\ sboms = [a \in Sources |-> None]
  /\ gen = [a \in Sources |-> Ready]
  /\ cleanup = NoCleanup
  /\ meddled = {}

-----------------------------------------------------------------------------
(* The generator *)

\* The clean-up is deleting the SBOM of a, or is about to.
Cleaning(a) == \/ \E x \in cleanup.todo : x[1] = a
               \/ cleanup.digest # None /\ cleanup.digest[1] = a
               \/ a \in cleanup.deleted

\* find_existing_sbom_metadata: an error counts as "no existing SBOM".  Without the blob, or if
\* SBOMs are overwritten, a new one is generated.
BeginGenerate(a) ==
  /\ gen[a].pc = "idle"
  /\ a \in bom
  /\ \/ /\ sboms[a] = None
        /\ gen' = [gen EXCEPT ![a].pc = "upload"]
        /\ UNCHANGED faults
     \/ /\ sboms[a] # None
        /\ sboms[a].digest \in blobs => on_exist = "overwrite"
        /\ gen' = [gen EXCEPT ![a] = [pc |-> "upload", old |-> sboms[a].digest]]
        /\ UNCHANGED faults
     \/ /\ sboms[a] # None
        /\ Spend("queryFails")
        /\ gen' = [gen EXCEPT ![a].pc = "upload"]
  /\ meddled' = IF Cleaning(a) THEN meddled \union {"generated"} ELSE meddled
  /\ UNCHANGED <<on_exist, bom, document, blobs, sboms, cleanup>>

\* Blob.post: a digest that is there already is refused (422), which ends the pod; it comes up and
\* tries again.  An upload is not retried; its answer may be lost after the commit.
Upload(a) ==
  /\ gen[a].pc = "upload"
  /\ \/ document[a] \in blobs /\ gen' = [gen EXCEPT ![a] = Ready] /\ UNCHANGED <<blobs, faults>>
     \/ /\ document[a] \notin blobs
        /\ blobs' = blobs \union {document[a]}
        /\ \/ gen' = [gen EXCEPT ![a].pc = "update"] /\ UNCHANGED faults
           \/ gen' = [gen EXCEPT ![a] = Ready] /\ Spend("lostAnswer")
  /\ meddled' = IF <<a, document[a]>> \in cleanup.todo THEN meddled \union {"again"} ELSE meddled
  /\ UNCHANGED <<on_exist, bom, document, sboms, cleanup>>

\* Mutant: the old blob is forgotten.
ForgetsOld(a) == FALSE
\* A stable digest is kept; so is the old blob unless SBOMs are overwritten.
DeletesOld(a) == gen[a].old \notin {None, document[a]} /\ on_exist = "overwrite"

\* The row keeps its creation date; it waits for a clean-up that has deleted the row.
UpdateSbom(a) ==
  /\ gen[a].pc = "update"
  /\ a \notin cleanup.deleted
  /\ sboms' = [sboms EXCEPT ![a] = [digest |-> document[a],
                                    aged |-> sboms[a] # None /\ sboms[a].aged]]
  /\ gen' = IF DeletesOld(a) THEN [gen EXCEPT ![a].pc = "delete"] ELSE [gen EXCEPT ![a] = Ready]
  /\ UNCHANGED <<on_exist, bom, document, blobs, cleanup, meddled, faults>>

\* Three attempts, after which the blob stays ("orphaned in storage"); 404 is fine.
DeleteOld(a) ==
  /\ gen[a].pc = "delete"
  /\ \/ blobs' = blobs \ {gen[a].old} /\ UNCHANGED faults
     \/ Spend("deleteFails") /\ UNCHANGED blobs
  /\ gen' = [gen EXCEPT ![a] = Ready]
  /\ UNCHANGED <<on_exist, bom, document, sboms, cleanup, meddled>>

Kill(a) ==
  /\ gen[a].pc # "idle"
  /\ Spend("kill")
  /\ gen' = [gen EXCEPT ![a] = Ready]
  /\ UNCHANGED <<on_exist, bom, document, blobs, sboms, cleanup, meddled>>

-----------------------------------------------------------------------------
(* The clean-up *)

\* The artefacts in use are enumerated first, the rows are read afterwards.
BeginCleanup ==
  /\ cleanup.pc = "idle"
  /\ cleanup' = [NoCleanup EXCEPT !.pc = "read", !.keep = bom]
  /\ UNCHANGED <<on_exist, bom, document, blobs, sboms, gen, meddled, faults>>

\* Rows within the retention period are kept.
Unused == {a \in Sources \ cleanup.keep : sboms[a] # None /\ sboms[a].aged}
ReadSboms ==
  /\ cleanup.pc = "read"
  /\ cleanup' = [cleanup EXCEPT !.pc = "blob",
                                !.todo = {<<a, sboms[a].digest>> : a \in Unused}]
  /\ meddled' = IF \E a \in Unused : gen[a].pc # "idle"
                THEN meddled \union {"generated"} ELSE meddled
  /\ UNCHANGED <<on_exist, bom, document, blobs, sboms, gen, faults>>

\* The blob is deleted by the delivery-service at once, ...
CleanBlob ==
  /\ cleanup.pc = "blob"
  /\ \E x \in cleanup.todo :
       /\ blobs' = blobs \ {x[2]}
       /\ cleanup' = [cleanup EXCEPT !.pc = "row", !.todo = @ \ {x}, !.digest = x]
  /\ UNCHANGED <<on_exist, bom, document, sboms, gen, meddled, faults>>

\* ... the row, whatever it names by now, in the transaction of the clean-up.
CleanRow ==
  /\ cleanup.pc = "row"
  /\ cleanup' = [cleanup EXCEPT !.pc = "blob", !.digest = None,
                                !.deleted = @ \union {cleanup.digest[1]}]
  /\ UNCHANGED <<on_exist, bom, document, blobs, sboms, gen, meddled, faults>>

\* Mutant: the transaction is not committed.
NotCommitted == sboms
Remaining == [a \in Sources |-> IF a \in cleanup.deleted THEN None ELSE sboms[a]]

CommitCleanup ==
  /\ cleanup.pc = "blob" /\ cleanup.todo = {}
  /\ sboms' = Remaining
  /\ cleanup' = NoCleanup
  /\ UNCHANGED <<on_exist, bom, document, blobs, gen, meddled, faults>>

\* The versions of a component cannot be listed, the delivery-service fails (rollback), or the
\* pod is killed.
AbortCleanup ==
  /\ cleanup.pc # "idle"
  /\ Spend("abortCleanup")
  /\ cleanup' = NoCleanup
  /\ UNCHANGED <<on_exist, bom, document, blobs, sboms, gen, meddled>>

-----------------------------------------------------------------------------
(* The environment *)

\* The artefact, or the tool that generates its SBOM, changes.
Rebuild(a) ==
  /\ gen[a].pc = "idle"
  /\ Spend("rebuild")
  /\ document' \in {[document EXCEPT ![a] = d] : d \in Documents[a] \ {document[a]}}
  /\ UNCHANGED <<on_exist, bom, blobs, sboms, gen, cleanup, meddled>>

\* The artefact is no longer in use, or is again.
BomChanges(a) ==
  /\ Spend("bom")
  /\ bom' = IF a \in bom THEN bom \ {a} ELSE bom \union {a}
  /\ UNCHANGED <<on_exist, document, blobs, sboms, gen, cleanup, meddled>>

\* sbom_retention_period_seconds have passed.
Period(a) ==
  /\ sboms[a] # None /\ ~sboms[a].aged
  /\ sboms' = [sboms EXCEPT ![a].aged = TRUE]
  /\ UNCHANGED <<on_exist, bom, document, blobs, gen, cleanup, meddled, faults>>

GenerateStep(a) == BeginGenerate(a) \/ Upload(a) \/ UpdateSbom(a) \/ DeleteOld(a)
Cleanup == BeginCleanup \/ ReadSboms \/ CleanBlob \/ CleanRow \/ CommitCleanup

SbomNext ==
  \/ \E a \in Sources : GenerateStep(a) \/ Kill(a) \/ Rebuild(a) \/ BomChanges(a) \/ Period(a)
  \/ Cleanup
  \/ AbortCleanup

\* The cache manager runs again and again, time passes, and a generation goes on.
SbomFairness ==
  /\ WF_sbomVars(Cleanup)
  /\ \A a \in Sources : WF_sbomVars(GenerateStep(a)) /\ WF_sbomVars(Period(a))

SbomSpec == SbomInit /\ [][SbomNext]_sbomVars /\ SbomFairness

-----------------------------------------------------------------------------
(* Properties *)

\* An SBOM that the metadata name can be fetched, whoever deletes old ones, as long as no clean-up
\* breaks off (its rows come back, the blobs do not), none is under way for the artefact, and none
\* was when a document it was still to delete was generated again.
SbomsAreStored ==
  Unshared /\ Never("abortCleanup") /\ "again" \notin meddled =>
    \A a \in Sources : sboms[a] # None /\ ~Cleaning(a) => sboms[a].digest \in blobs

\* Every blob is named, once nothing is under way: none is orphaned unless a step failed after the
\* upload, the existing SBOM could not be queried, or an SBOM was generated during its clean-up.
BlobsAreNamed ==
  /\ \A kind \in {"kill", "lostAnswer", "deleteFails", "queryFails", "abortCleanup"} : Never(kind)
  /\ "generated" \notin meddled
  /\ cleanup.pc = "idle"
  /\ \A a \in Sources : gen[a].pc = "idle"
  => blobs \subseteq {sboms[a].digest : a \in {b \in Sources : sboms[b] # None}}

BlobsMatchSboms == SbomsAreStored /\ BlobsAreNamed

\* In the end, an artefact that is no longer in use has no SBOM.
UnusedHaveNoSbom == \A a \in Sources : <>[](a \notin bom) => <>[](sboms[a] = None)
=============================================================================
