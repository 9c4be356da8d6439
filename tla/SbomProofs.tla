------------------------------ MODULE SbomProofs ------------------------------
(***************************************************************************)
(* An SBOM that the metadata name can be fetched, although the generators  *)
(* and the clean-up of SbomStore delete blobs: a proof for all artefacts   *)
(* and documents.                                                          *)
(***************************************************************************)
EXTENDS SbomStore, TLAPS

Listed == {x \in Sources \X AllDocuments : x[2] \in Documents[x[1]]}

SbomTypeOK ==
  /\ FaultsTypeOK
  /\ bom \subseteq Sources
  /\ document \in [Sources -> AllDocuments]
  /\ \A a \in Sources : document[a] \in Documents[a]
  /\ sboms \in [Sources -> [digest : AllDocuments, aged : BOOLEAN] \union {None}]
  /\ \A a \in Sources : sboms[a] # None => sboms[a].digest \in Documents[a]
  /\ gen \in [Sources -> [pc : {"idle", "upload", "update", "delete"},
                          old : AllDocuments \union {None}]]
  /\ \A a \in Sources : gen[a].old # None => gen[a].old \in Documents[a]
  /\ cleanup \in [pc : {"idle", "read", "blob", "row"}, keep : SUBSET Sources,
                  todo : SUBSET Listed, digest : Listed \union {None}, deleted : SUBSET Sources]
  /\ meddled \subseteq {"generated", "again"}

\* The condition of SbomsAreStored.
Undisturbed == Unshared /\ Never("abortCleanup") /\ "again" \notin meddled

\* What a clean-up holds in each of its states.
Phases ==
  /\ cleanup.pc \in {"idle", "read"} =>
       cleanup.todo = {} /\ cleanup.digest = None /\ cleanup.deleted = {}
  /\ cleanup.pc = "blob" => cleanup.digest = None
  /\ cleanup.pc = "row" => cleanup.digest # None

\* A generator deletes a blob that the metadata do not name any more, ...
Replaced ==
  \A a \in Sources : gen[a].pc = "delete" =>
    gen[a].old # None /\ (sboms[a] # None => sboms[a].digest # gen[a].old)

\* ... and names one that nobody is about to delete.
Uploaded ==
  Undisturbed => \A a \in Sources : gen[a].pc = "update" =>
    /\ document[a] \in blobs
    /\ <<a, document[a]>> \notin cleanup.todo
    /\ sboms[a] # None /\ ~Cleaning(a) => sboms[a].digest # document[a]

SbomInv == Phases /\ Replaced /\ Uploaded /\ SbomsAreStored

\* What did not happen by the next state has not happened now.
LEMMA SbomUndisturbed ==
  ASSUME FaultsTypeOK, UNCHANGED faults \/ \E kind : Spend(kind),
         meddled \subseteq meddled'
  PROVE  FaultsTypeOK' /\ (Undisturbed' => Undisturbed)
<1>1. CASE UNCHANGED faults
  BY <1>1 DEF faults, FaultsTypeOK, Undisturbed, Never
<1>2. ASSUME NEW kind, Spend(kind)
      PROVE  FaultsTypeOK' /\ (Never("abortCleanup")' => Never("abortCleanup"))
  <2>1. left' \in Nat
    BY <1>2 DEF Spend, FaultsTypeOK
  <2>2. CASE kind \in DOMAIN Limit
    BY <1>2, <2>1, <2>2, LimitAssumption, SbomAssumption DEF Spend, FaultsTypeOK, Never
  <2>3. CASE kind \notin DOMAIN Limit
    <3>1. spent' = spent
      BY <1>2, <2>3 DEF Spend, FaultsTypeOK
    <3> QED
      BY <2>1, <3>1 DEF FaultsTypeOK, Never
  <2> QED
    BY <2>2, <2>3
<1> QED
  BY <1>1, <1>2 DEF Undisturbed

\* Initially there is neither a blob nor an SBOM.
LEMMA SbomInitial == SbomInit => SbomTypeOK /\ SbomInv
<1> SUFFICES ASSUME SbomInit PROVE SbomTypeOK /\ SbomInv
  OBVIOUS
<1>1. /\ blobs = {} /\ sboms = [a \in Sources |-> None] /\ gen = [a \in Sources |-> Ready]
      /\ cleanup = NoCleanup /\ meddled = {} /\ bom = Sources
      /\ document \in [Sources -> AllDocuments]
      /\ \A a \in Sources : document[a] \in Documents[a]
  BY DEF SbomInit, AllDocuments
<1>2. FaultsTypeOK
  BY LimitAssumption DEF SbomInit, FaultsInit, FaultsTypeOK
<1>3. NoCleanup \in [pc : {"idle", "read", "blob", "row"}, keep : SUBSET Sources,
        todo : SUBSET Listed, digest : Listed \union {None}, deleted : SUBSET Sources]
  BY DEF NoCleanup
<1>4. Ready \in [pc : {"idle", "upload", "update", "delete"}, old : AllDocuments \union {None}]
      /\ Ready.pc = "idle" /\ Ready.old = None
  BY DEF Ready
<1>5. SbomTypeOK
  BY <1>1, <1>2, <1>3, <1>4 DEF SbomTypeOK
<1>6. SbomInv
  BY <1>1, <1>4 DEF SbomInv, Phases, Replaced, Uploaded, SbomsAreStored, NoCleanup
<1> QED
  BY <1>5, <1>6

\* A generator goes on without touching blobs or metadata.
LEMMA SbomGenerator ==
  ASSUME SbomTypeOK, SbomInv, NEW a \in Sources,
         NEW pc \in {"idle", "upload"}, NEW old \in AllDocuments \union {None},
         old # None => old \in Documents[a],
         gen' = [gen EXCEPT ![a] = [pc |-> pc, old |-> old]],
         UNCHANGED <<bom, document, blobs, sboms, cleanup>>,
         UNCHANGED faults \/ \E kind : Spend(kind),
         meddled \subseteq meddled', meddled' \subseteq {"generated", "again"}
  PROVE  SbomTypeOK' /\ SbomInv'
<1>1. FaultsTypeOK' /\ (Undisturbed' => Undisturbed)
  BY SbomUndisturbed DEF SbomTypeOK
<1>2. /\ gen'[a].pc = pc /\ gen'[a].old = old
      /\ \A b \in Sources : b # a => gen'[b] = gen[b]
  BY DEF SbomTypeOK
<1>3. gen' \in [Sources -> [pc : {"idle", "upload", "update", "delete"},
                            old : AllDocuments \union {None}]]
  BY DEF SbomTypeOK
<1>4. SbomTypeOK'
  BY <1>1, <1>2, <1>3 DEF SbomTypeOK
<1>5. \A b \in Sources : Cleaning(b)' <=> Cleaning(b)
  BY DEF Cleaning
<1>6. Phases' /\ Replaced'
  BY <1>2 DEF SbomInv, Phases, Replaced
<1>7. Uploaded'
  BY <1>1, <1>2, <1>5 DEF SbomInv, Uploaded
<1>8. SbomsAreStored'
  BY <1>1, <1>5 DEF SbomInv, SbomsAreStored, Undisturbed
<1> QED
  BY <1>4, <1>6, <1>7, <1>8 DEF SbomInv

\* The blob was not there, hence it is not the one the metadata name at present.
LEMMA SbomUpload ==
  ASSUME SbomTypeOK, SbomInv, NEW a \in Sources, Upload(a)
  PROVE  SbomTypeOK' /\ SbomInv'
<1>1. /\ UNCHANGED <<bom, document, sboms, cleanup>>
      /\ UNCHANGED faults \/ \E kind : Spend(kind)
      /\ meddled \subseteq meddled' /\ meddled' \subseteq {"generated", "again"}
  BY DEF Upload, SbomTypeOK
<1>2. FaultsTypeOK' /\ (Undisturbed' => Undisturbed)
  BY <1>1, SbomUndisturbed DEF SbomTypeOK
<1>3. blobs' \in {blobs, blobs \union {document[a]}}
  BY DEF Upload
<1>4. \A b \in Sources : Cleaning(b)' <=> Cleaning(b)
  BY <1>1 DEF Cleaning
<1>5. SbomsAreStored'
  BY <1>1, <1>2, <1>3, <1>4 DEF SbomInv, SbomsAreStored, Undisturbed
<1>6. \A b \in Sources : b # a => gen'[b] = gen[b]
  BY DEF Upload, SbomTypeOK
<1>7. gen'[a] = Ready \/ (gen'[a].pc = "update" /\ gen'[a].old = gen[a].old
                          /\ document[a] \notin blobs /\ document[a] \in blobs')
  BY DEF Upload, SbomTypeOK
<1>8. Ready.pc = "idle" /\ Ready.old = None
      /\ Ready \in [pc : {"idle", "upload", "update", "delete"}, old : AllDocuments \union {None}]
  BY DEF Ready
<1>9. gen' \in [Sources -> [pc : {"idle", "upload", "update", "delete"},
                            old : AllDocuments \union {None}]]
  BY <1>8 DEF Upload, SbomTypeOK
<1>10. SbomTypeOK'
  BY <1>1, <1>2, <1>6, <1>7, <1>8, <1>9 DEF SbomTypeOK
<1>11. Phases' /\ Replaced'
  BY <1>1, <1>6, <1>7, <1>8 DEF SbomInv, Phases, Replaced
<1>12. Uploaded'
  <2> SUFFICES ASSUME Undisturbed', NEW b \in Sources, gen'[b].pc = "update"
               PROVE  /\ document[b] \in blobs' /\ <<b, document[b]>> \notin cleanup.todo
                      /\ sboms[b] # None /\ ~Cleaning(b) => sboms[b].digest # document[b]
    BY <1>1, <1>4 DEF Uploaded
  <2>1. CASE b # a
    BY <1>2, <1>3, <1>6, <2>1 DEF SbomInv, Uploaded
  <2>2. CASE b = a
    <3>1. document[a] \notin blobs /\ document[a] \in blobs'
      BY <1>7, <1>8, <2>2
    <3>2. <<a, document[a]>> \notin cleanup.todo
      BY <3>1 DEF Upload, Undisturbed
    <3>3. sboms[a] # None /\ ~Cleaning(a) => sboms[a].digest # document[a]
      BY <1>2, <3>1 DEF SbomInv, SbomsAreStored, Undisturbed
    <3> QED
      BY <2>2, <3>1, <3>2, <3>3
  <2> QED
    BY <2>1, <2>2
<1> QED
  BY <1>5, <1>10, <1>11, <1>12 DEF SbomInv

LEMMA SbomUpdate ==
  ASSUME SbomTypeOK, SbomInv, NEW a \in Sources, UpdateSbom(a)
  PROVE  SbomTypeOK' /\ SbomInv'
<1>1. /\ gen[a].pc = "update" /\ UNCHANGED <<bom, document, blobs, cleanup, meddled, faults>>
      /\ sboms' = [sboms EXCEPT ![a] = [digest |-> document[a],
                                        aged |-> sboms[a] # None /\ sboms[a].aged]]
  BY DEF UpdateSbom
<1>2. FaultsTypeOK' /\ (Undisturbed' => Undisturbed)
  BY <1>1, SbomUndisturbed DEF SbomTypeOK
<1>3. (sboms[a] # None /\ sboms[a].aged) \in BOOLEAN
  BY DEF SbomTypeOK
<1>4. /\ sboms' \in [Sources -> [digest : AllDocuments, aged : BOOLEAN] \union {None}]
      /\ sboms'[a].digest = document[a]
      /\ \A b \in Sources : b # a => sboms'[b] = sboms[b]
  BY <1>1, <1>3 DEF SbomTypeOK
<1>5. \A b \in Sources : Cleaning(b)' <=> Cleaning(b)
  BY <1>1 DEF Cleaning
<1>6. /\ \A b \in Sources : b # a => gen'[b] = gen[b]
      /\ \/ gen'[a].pc = "delete" /\ gen'[a].old = gen[a].old
            /\ gen[a].old # None /\ gen[a].old # document[a]
         \/ gen'[a].pc = "idle" /\ gen'[a].old = None
      /\ gen' \in [Sources -> [pc : {"idle", "upload", "update", "delete"},
                               old : AllDocuments \union {None}]]
  <2>1. CASE DeletesOld(a)
    <3>1. gen' = [gen EXCEPT ![a].pc = "delete"]
      BY <2>1 DEF UpdateSbom
    <3> QED
      BY <2>1, <3>1 DEF DeletesOld, SbomTypeOK
  <2>2. CASE ~DeletesOld(a)
    <3>1. gen' = [gen EXCEPT ![a] = Ready]
      BY <2>2 DEF UpdateSbom
    <3> QED
      BY <3>1 DEF Ready, SbomTypeOK
  <2> QED
    BY <2>1, <2>2
<1>7. SbomTypeOK'
  BY <1>1, <1>2, <1>4, <1>6 DEF SbomTypeOK
<1>8. Phases' /\ Replaced'
  BY <1>1, <1>4, <1>6 DEF SbomInv, Phases, Replaced
<1>9. Uploaded'
  BY <1>1, <1>2, <1>4, <1>5, <1>6 DEF SbomInv, Uploaded
<1>10. SbomsAreStored'
  <2> SUFFICES ASSUME Undisturbed', NEW b \in Sources, sboms'[b] # None, ~Cleaning(b)
               PROVE  sboms'[b].digest \in blobs
    BY <1>1, <1>5 DEF SbomsAreStored, Undisturbed
  <2>1. CASE b = a
    BY <1>1, <1>2, <1>4, <2>1 DEF SbomInv, Uploaded
  <2>2. CASE b # a
    BY <1>2, <1>4, <2>2 DEF SbomInv, SbomsAreStored, Undisturbed
  <2> QED
    BY <2>1, <2>2
<1> QED
  BY <1>7, <1>8, <1>9, <1>10 DEF SbomInv

\* The old blob is neither the one the metadata name nor one of another artefact.
LEMMA SbomDelete ==
  ASSUME SbomTypeOK, SbomInv, NEW a \in Sources, DeleteOld(a)
  PROVE  SbomTypeOK' /\ SbomInv'
<1>1. /\ gen[a].pc = "delete" /\ UNCHANGED <<bom, document, sboms, cleanup, meddled>>
      /\ gen' = [gen EXCEPT ![a] = Ready]
      /\ UNCHANGED faults \/ \E kind : Spend(kind)
      /\ blobs' \in {blobs, blobs \ {gen[a].old}}
  BY DEF DeleteOld
<1>2. FaultsTypeOK' /\ (Undisturbed' => Undisturbed)
  BY <1>1, SbomUndisturbed DEF SbomTypeOK
<1>3. /\ gen'[a].pc = "idle" /\ gen'[a].old = None
      /\ \A b \in Sources : b # a => gen'[b] = gen[b]
      /\ gen' \in [Sources -> [pc : {"idle", "upload", "update", "delete"},
                               old : AllDocuments \union {None}]]
  BY <1>1 DEF Ready, SbomTypeOK
<1>4. SbomTypeOK'
  BY <1>1, <1>2, <1>3 DEF SbomTypeOK
<1>5. gen[a].old \in Documents[a] /\ (sboms[a] # None => sboms[a].digest # gen[a].old)
  BY <1>1 DEF SbomInv, Replaced, SbomTypeOK
<1>6. \A b \in Sources : Cleaning(b)' <=> Cleaning(b)
  BY <1>1 DEF Cleaning
<1>7. ASSUME Unshared, NEW b \in Sources, b # a, NEW d \in Documents[b]
      PROVE  d # gen[a].old
  BY <1>5, <1>7 DEF Unshared
<1>8. Phases' /\ Replaced'
  BY <1>1, <1>3 DEF SbomInv, Phases, Replaced
<1>9. Uploaded'
  BY <1>1, <1>2, <1>3, <1>6, <1>7 DEF SbomInv, Uploaded, Undisturbed, SbomTypeOK
<1>10. SbomsAreStored'
  <2> SUFFICES ASSUME Undisturbed, NEW b \in Sources, sboms[b] # None, ~Cleaning(b)
               PROVE  sboms[b].digest \in blobs'
    BY <1>1, <1>2, <1>6 DEF SbomsAreStored, Undisturbed
  <2>1. sboms[b].digest \in blobs /\ sboms[b].digest \in Documents[b]
    BY DEF SbomInv, SbomsAreStored, Undisturbed, SbomTypeOK
  <2> QED
    BY <1>1, <1>5, <1>7, <2>1 DEF Undisturbed
<1> QED
  BY <1>4, <1>8, <1>9, <1>10 DEF SbomInv

\* The clean-up begins, or reads the rows: none of them names a blob that a generator has just
\* uploaded.
LEMMA SbomRead ==
  ASSUME SbomTypeOK, SbomInv, BeginCleanup \/ ReadSboms
  PROVE  SbomTypeOK' /\ SbomInv'
<1>1. /\ UNCHANGED <<bom, document, blobs, sboms, gen, faults>>
      /\ meddled \subseteq meddled' /\ meddled' \subseteq {"generated", "again"}
  BY DEF BeginCleanup, ReadSboms, SbomTypeOK
<1>2. FaultsTypeOK' /\ (Undisturbed' => Undisturbed)
  BY <1>1, SbomUndisturbed DEF SbomTypeOK
<1>3. \A b \in Sources : ~Cleaning(b)
  BY DEF BeginCleanup, ReadSboms, SbomInv, Phases, Cleaning
<1>4. /\ cleanup'.digest = None /\ cleanup'.pc \in {"read", "blob"}
      /\ cleanup'.pc = "read" => cleanup'.todo = {} /\ cleanup'.deleted = {}
      /\ \A x \in cleanup'.todo : \E a \in Sources : sboms[a] # None /\ x = <<a, sboms[a].digest>>
      /\ cleanup' \in [pc : {"idle", "read", "blob", "row"}, keep : SUBSET Sources,
           todo : SUBSET Listed, digest : Listed \union {None}, deleted : SUBSET Sources]
  <2>1. CASE BeginCleanup
    <3>1. cleanup' = [pc |-> "read", keep |-> bom, todo |-> {}, digest |-> None, deleted |-> {}]
      BY <2>1 DEF BeginCleanup, NoCleanup
    <3> QED
      BY <3>1 DEF SbomTypeOK
  <2>2. CASE ReadSboms
    <3>1. cleanup.pc = "read" /\ cleanup.digest = None
      BY <2>2 DEF ReadSboms, SbomInv, Phases
    <3>2. {<<a, sboms[a].digest>> : a \in Unused} \subseteq Listed
      <4> SUFFICES ASSUME NEW a \in Unused PROVE <<a, sboms[a].digest>> \in Listed
        OBVIOUS
      <4>1. a \in Sources /\ sboms[a] # None
        BY DEF Unused
      <4>2. sboms[a].digest \in Documents[a] /\ sboms[a].digest \in AllDocuments
        BY <4>1 DEF SbomTypeOK
      <4> QED
        BY <4>1, <4>2 DEF Listed
    <3>3. cleanup' = [cleanup EXCEPT !.pc = "blob",
                                     !.todo = {<<a, sboms[a].digest>> : a \in Unused}]
      BY <2>2 DEF ReadSboms
    <3>4. /\ cleanup'.pc = "blob" /\ cleanup'.digest = None
          /\ cleanup'.todo = {<<a, sboms[a].digest>> : a \in Unused}
      BY <3>1, <3>3 DEF SbomTypeOK
    <3>5. cleanup' \in [pc : {"blob"}, keep : SUBSET Sources,
            todo : SUBSET Listed, digest : Listed \union {None}, deleted : SUBSET Sources]
      BY <3>2, <3>3 DEF SbomTypeOK
    <3>6. \A a \in Unused : a \in Sources /\ sboms[a] # None
      BY DEF Unused
    <3> QED
      BY <3>4, <3>5, <3>6
  <2> QED
    BY <2>1, <2>2
<1>5. SbomTypeOK'
  BY <1>1, <1>2, <1>4 DEF SbomTypeOK
<1>6. Phases' /\ Replaced'
  BY <1>1, <1>4 DEF SbomInv, Phases, Replaced
<1>7. Uploaded'
  <2> SUFFICES ASSUME Undisturbed, NEW a \in Sources, gen[a].pc = "update"
               PROVE  /\ document[a] \in blobs /\ <<a, document[a]>> \notin cleanup'.todo
                      /\ sboms[a] # None => sboms[a].digest # document[a]
    BY <1>1, <1>2 DEF Uploaded
  <2>1. document[a] \in blobs /\ (sboms[a] # None => sboms[a].digest # document[a])
    BY <1>3 DEF SbomInv, Uploaded
  <2>2. <<a, document[a]>> \notin cleanup'.todo
    BY <1>4, <2>1
  <2> QED
    BY <2>1, <2>2
<1>8. SbomsAreStored'
  BY <1>1, <1>2, <1>3 DEF SbomInv, SbomsAreStored, Undisturbed
<1> QED
  BY <1>5, <1>6, <1>7, <1>8 DEF SbomInv

\* A blob that is deleted is of the artefact whose row will be.
LEMMA SbomCleanBlob ==
  ASSUME SbomTypeOK, SbomInv, CleanBlob
  PROVE  SbomTypeOK' /\ SbomInv'
<1>1. PICK x \in cleanup.todo :
        /\ blobs' = blobs \ {x[2]}
        /\ cleanup' = [cleanup EXCEPT !.pc = "row", !.todo = @ \ {x}, !.digest = x]
  BY DEF CleanBlob
<1>2. cleanup.pc = "blob" /\ UNCHANGED <<bom, document, sboms, gen, meddled, faults>>
  BY DEF CleanBlob
<1>3. FaultsTypeOK' /\ (Undisturbed' => Undisturbed)
  BY <1>2, SbomUndisturbed DEF SbomTypeOK
<1>4. x \in Listed /\ x[1] \in Sources /\ x[2] \in Documents[x[1]] /\ x # None /\ x = <<x[1], x[2]>>
  <2>1. x \in Listed
    BY <1>1 DEF SbomTypeOK
  <2>2. x \in Sources \X AllDocuments
    BY <2>1 DEF Listed
  <2> QED
    BY <2>1, <2>2, SbomAssumption DEF Listed
<1>5. /\ cleanup'.pc = "row" /\ cleanup'.todo = cleanup.todo \ {x} /\ cleanup'.digest = x
      /\ cleanup'.deleted = cleanup.deleted
      /\ cleanup' \in [pc : {"row"}, keep : SUBSET Sources, todo : SUBSET Listed,
                       digest : Listed \union {None}, deleted : SUBSET Sources]
  BY <1>1, <1>4 DEF SbomTypeOK
<1>6. SbomTypeOK'
  BY <1>2, <1>3, <1>5 DEF SbomTypeOK
<1>7. Phases' /\ Replaced'
  BY <1>2, <1>4, <1>5 DEF SbomInv, Phases, Replaced
<1>8. \A b \in Sources : (Cleaning(b) => Cleaning(b)') /\ (b = x[1] => Cleaning(b)')
  <2>1. cleanup.digest = None
    BY <1>2 DEF SbomInv, Phases
  <2> QED
    BY <1>4, <1>5, <2>1 DEF Cleaning
<1>9. ASSUME Unshared, NEW b \in Sources, b # x[1], NEW d \in Documents[b]
      PROVE  d # x[2]
  BY <1>4, <1>9 DEF Unshared
<1>10. Uploaded'
  <2> SUFFICES ASSUME Undisturbed, NEW a \in Sources, gen[a].pc = "update"
               PROVE  /\ document[a] \in blobs' /\ <<a, document[a]>> \notin cleanup'.todo
                      /\ sboms[a] # None /\ ~Cleaning(a)' => sboms[a].digest # document[a]
    BY <1>2, <1>3 DEF Uploaded
  <2>1. /\ document[a] \in blobs /\ <<a, document[a]>> \notin cleanup.todo
        /\ sboms[a] # None /\ ~Cleaning(a) => sboms[a].digest # document[a]
    BY DEF SbomInv, Uploaded
  <2>2. document[a] # x[2]
    <3>1. CASE a = x[1]
      BY <1>4, <2>1, <3>1
    <3>2. CASE a # x[1]
      BY <1>9, <3>2 DEF Undisturbed, SbomTypeOK
    <3> QED
      BY <3>1, <3>2
  <2> QED
    BY <1>1, <1>5, <1>8, <2>1, <2>2
<1>11. SbomsAreStored'
  <2> SUFFICES ASSUME Undisturbed, NEW b \in Sources, sboms[b] # None, ~Cleaning(b)'
               PROVE  sboms[b].digest \in blobs'
    BY <1>2, <1>3 DEF SbomsAreStored, Undisturbed
  <2>1. sboms[b].digest \in blobs /\ sboms[b].digest \in Documents[b] /\ b # x[1]
    BY <1>8 DEF SbomInv, SbomsAreStored, Undisturbed, SbomTypeOK
  <2> QED
    BY <1>1, <1>9, <2>1 DEF Undisturbed
<1> QED
  BY <1>6, <1>7, <1>10, <1>11 DEF SbomInv

LEMMA SbomCleanRow ==
  ASSUME SbomTypeOK, SbomInv, CleanRow
  PROVE  SbomTypeOK' /\ SbomInv'
<1>1. /\ cleanup.pc = "row" /\ UNCHANGED <<bom, document, blobs, sboms, gen, meddled, faults>>
      /\ cleanup' = [cleanup EXCEPT !.pc = "blob", !.digest = None,
                                    !.deleted = @ \union {cleanup.digest[1]}]
  BY DEF CleanRow
<1>2. FaultsTypeOK' /\ (Undisturbed' => Undisturbed)
  BY <1>1, SbomUndisturbed DEF SbomTypeOK
<1>3. cleanup.digest # None /\ cleanup.digest \in Listed /\ cleanup.digest[1] \in Sources
  BY <1>1 DEF SbomInv, Phases, SbomTypeOK, Listed
<1>4. /\ cleanup'.pc = "blob" /\ cleanup'.todo = cleanup.todo /\ cleanup'.digest = None
      /\ cleanup'.deleted = cleanup.deleted \union {cleanup.digest[1]}
      /\ cleanup' \in [pc : {"blob"}, keep : SUBSET Sources, todo : SUBSET Listed,
                       digest : Listed \union {None}, deleted : SUBSET Sources]
  BY <1>1, <1>3 DEF SbomTypeOK
<1>5. SbomTypeOK'
  BY <1>1, <1>2, <1>4 DEF SbomTypeOK
<1>6. Phases' /\ Replaced'
  BY <1>1, <1>4 DEF SbomInv, Phases, Replaced
<1>7. \A b \in Sources : Cleaning(b)' <=> Cleaning(b)
  BY <1>3, <1>4 DEF Cleaning
<1>8. Uploaded' /\ SbomsAreStored'
  BY <1>1, <1>2, <1>4, <1>7 DEF SbomInv, Uploaded, SbomsAreStored, Undisturbed
<1> QED
  BY <1>5, <1>6, <1>8 DEF SbomInv

\* When a clean-up commits, those that it was cleaning have no row left.
LEMMA SbomCommit ==
  ASSUME SbomTypeOK, SbomInv, CommitCleanup
  PROVE  SbomTypeOK' /\ SbomInv'
<1>1. /\ cleanup.pc = "blob" /\ cleanup.todo = {} /\ sboms' = Remaining /\ cleanup' = NoCleanup
      /\ UNCHANGED <<bom, document, blobs, gen, meddled, faults>>
  BY DEF CommitCleanup
<1>2. FaultsTypeOK' /\ (Undisturbed' => Undisturbed)
  BY <1>1, SbomUndisturbed DEF SbomTypeOK
<1>3. /\ cleanup'.pc = "idle" /\ cleanup'.todo = {} /\ cleanup'.digest = None
      /\ cleanup'.deleted = {}
      /\ cleanup' \in [pc : {"idle"}, keep : SUBSET Sources, todo : SUBSET Listed,
                       digest : Listed \union {None}, deleted : SUBSET Sources]
  BY <1>1 DEF NoCleanup
<1>4. \A b \in Sources : sboms'[b] # None =>
        sboms'[b] = sboms[b] /\ sboms[b] # None /\ ~Cleaning(b)
  BY <1>1 DEF Remaining, Cleaning, SbomInv, Phases
<1>5. sboms' \in [Sources -> [digest : AllDocuments, aged : BOOLEAN] \union {None}]
  BY <1>1 DEF Remaining, SbomTypeOK
<1>6. SbomTypeOK'
  BY <1>1, <1>2, <1>3, <1>4, <1>5 DEF SbomTypeOK
<1>7. Phases' /\ Replaced'
  BY <1>1, <1>3, <1>4 DEF SbomInv, Phases, Replaced
<1>8. Uploaded'
  BY <1>1, <1>2, <1>3, <1>4 DEF SbomInv, Uploaded
<1>9. SbomsAreStored'
  BY <1>1, <1>2, <1>4 DEF SbomInv, SbomsAreStored, Undisturbed
<1> QED
  BY <1>6, <1>7, <1>8, <1>9 DEF SbomInv

LEMMA SbomAbort ==
  ASSUME SbomTypeOK, SbomInv, AbortCleanup
  PROVE  SbomTypeOK' /\ SbomInv'
<1>1. /\ Spend("abortCleanup") /\ cleanup' = NoCleanup
      /\ UNCHANGED <<bom, document, blobs, sboms, gen, meddled>>
  BY DEF AbortCleanup
<1>2. FaultsTypeOK'
  BY <1>1, SbomUndisturbed DEF SbomTypeOK
<1>3. ~Never("abortCleanup")'
  BY <1>1, LimitAssumption, SbomAssumption DEF Spend, Never, SbomTypeOK, FaultsTypeOK
<1>4. /\ cleanup'.pc = "idle" /\ cleanup'.todo = {} /\ cleanup'.digest = None
      /\ cleanup'.deleted = {}
      /\ cleanup' \in [pc : {"idle"}, keep : SUBSET Sources, todo : SUBSET Listed,
                       digest : Listed \union {None}, deleted : SUBSET Sources]
  BY <1>1 DEF NoCleanup
<1>5. SbomTypeOK'
  BY <1>1, <1>2, <1>4 DEF SbomTypeOK
<1>6. Phases' /\ Replaced'
  BY <1>1, <1>4 DEF SbomInv, Phases, Replaced
<1>7. Uploaded' /\ SbomsAreStored'
  BY <1>3 DEF Uploaded, SbomsAreStored, Undisturbed
<1> QED
  BY <1>5, <1>6, <1>7 DEF SbomInv

\* The document of an artefact changes while no generator is at work on it.
LEMMA SbomEnvironment ==
  ASSUME SbomTypeOK, SbomInv, NEW a \in Sources,
         Rebuild(a) \/ BomChanges(a) \/ Period(a)
  PROVE  SbomTypeOK' /\ SbomInv'
<1>1. /\ UNCHANGED <<blobs, gen, cleanup, meddled>>
      /\ UNCHANGED faults \/ \E kind : Spend(kind)
  BY DEF Rebuild, BomChanges, Period
<1>2. FaultsTypeOK' /\ (Undisturbed' => Undisturbed)
  BY <1>1, SbomUndisturbed DEF SbomTypeOK
<1>3. \A b \in Sources : Cleaning(b)' <=> Cleaning(b)
  BY <1>1 DEF Cleaning
<1>4. /\ document' \in [Sources -> AllDocuments]
      /\ \A b \in Sources : document'[b] \in Documents[b]
      /\ \A b \in Sources : gen[b].pc = "update" => document'[b] = document[b]
  <2>1. CASE Rebuild(a)
    <3>1. PICK d \in Documents[a] : document' = [document EXCEPT ![a] = d]
      BY <2>1 DEF Rebuild
    <3>2. d \in AllDocuments /\ gen[a].pc = "idle"
      BY <2>1 DEF AllDocuments, Rebuild
    <3> QED
      BY <3>1, <3>2 DEF SbomTypeOK
  <2>2. CASE BomChanges(a) \/ Period(a)
    BY <2>2 DEF BomChanges, Period, SbomTypeOK
  <2> QED
    BY <2>1, <2>2
<1>5. /\ sboms' \in [Sources -> [digest : AllDocuments, aged : BOOLEAN] \union {None}]
      /\ \A b \in Sources : sboms'[b] # None =>
           sboms[b] # None /\ sboms'[b].digest = sboms[b].digest
  <2>1. CASE Rebuild(a) \/ BomChanges(a)
    BY <2>1 DEF Rebuild, BomChanges, SbomTypeOK
  <2>2. CASE Period(a)
    <3>1. sboms[a] # None /\ sboms' = [sboms EXCEPT ![a].aged = TRUE]
      BY <2>2 DEF Period
    <3>2. sboms[a] \in [digest : AllDocuments, aged : BOOLEAN]
      BY <3>1 DEF SbomTypeOK
    <3> QED
      BY <3>1, <3>2 DEF SbomTypeOK
  <2> QED
    BY <2>1, <2>2
<1>6. bom' \subseteq Sources
  BY DEF Rebuild, BomChanges, Period, SbomTypeOK
<1>7. SbomTypeOK'
  BY <1>1, <1>2, <1>4, <1>5, <1>6 DEF SbomTypeOK
<1>8. Phases' /\ Replaced'
  BY <1>1, <1>5 DEF SbomInv, Phases, Replaced
<1>9. Uploaded'
  BY <1>1, <1>2, <1>3, <1>4, <1>5 DEF SbomInv, Uploaded
<1>10. SbomsAreStored'
  BY <1>1, <1>2, <1>3, <1>5 DEF SbomInv, SbomsAreStored, Undisturbed
<1> QED
  BY <1>7, <1>8, <1>9, <1>10 DEF SbomInv

\* Another state of a generation leaves its old document alone.
LEMMA RecordExcept ==
  ASSUME NEW P, NEW O, NEW r \in [pc : P, old : O], NEW p
  PROVE  [r EXCEPT !.pc = p] = [pc |-> p, old |-> r.old]
  OBVIOUS

\* SbomInv, with the types, is inductive.
LEMMA SbomInductive ==
  ASSUME SbomTypeOK, SbomInv, [SbomNext]_sbomVars
  PROVE  SbomTypeOK' /\ SbomInv'
<1>1. ASSUME NEW a \in Sources, BeginGenerate(a) PROVE SbomTypeOK' /\ SbomInv'
  <2>1. /\ UNCHANGED <<bom, document, blobs, sboms, cleanup>>
        /\ UNCHANGED faults \/ \E kind : Spend(kind)
        /\ meddled \subseteq meddled' /\ meddled' \subseteq {"generated", "again"}
    BY <1>1 DEF BeginGenerate, SbomTypeOK
  <2>2. PICK old \in {gen[a].old, sboms[a].digest} :
          /\ gen' = [gen EXCEPT ![a] = [pc |-> "upload", old |-> old]]
          /\ old = gen[a].old \/ sboms[a] # None
    <3>1. /\ a \in DOMAIN gen
          /\ gen[a] \in [pc : {"idle", "upload", "update", "delete"},
                        old : AllDocuments \union {None}]
      BY DEF SbomTypeOK
    <3>2. CASE gen' = [gen EXCEPT ![a].pc = "upload"]
      <4>1. [gen[a] EXCEPT !.pc = "upload"] = [pc |-> "upload", old |-> gen[a].old]
        BY ONLY <3>1, RecordExcept
      <4>2. gen' = [gen EXCEPT ![a] = [gen[a] EXCEPT !.pc = "upload"]]
        BY ONLY <3>2
      <4>3. gen' = [gen EXCEPT ![a] = [pc |-> "upload", old |-> gen[a].old]]
        BY ONLY <4>1, <4>2
      <4> QED
        BY <4>3
    <3>3. CASE /\ sboms[a] # None
               /\ gen' = [gen EXCEPT ![a] = [pc |-> "upload", old |-> sboms[a].digest]]
      BY <3>3
    <3> QED
      BY <1>1, <3>2, <3>3 DEF BeginGenerate
  <2>3. old \in AllDocuments \union {None} /\ (old # None => old \in Documents[a])
    BY <2>2 DEF SbomTypeOK
  <2> QED
    BY <2>1, <2>2, <2>3, SbomGenerator
<1>2. ASSUME NEW a \in Sources, Kill(a) PROVE SbomTypeOK' /\ SbomInv'
  <2>1. /\ UNCHANGED <<bom, document, blobs, sboms, cleanup, meddled>> /\ Spend("kill")
        /\ gen' = [gen EXCEPT ![a] = [pc |-> "idle", old |-> None]]
    BY <1>2 DEF Kill, Ready
  <2> QED
    BY <2>1, SbomGenerator DEF SbomTypeOK
<1>3. ASSUME NEW a \in Sources, GenerateStep(a) PROVE SbomTypeOK' /\ SbomInv'
  BY <1>1, <1>3, SbomUpload, SbomUpdate, SbomDelete DEF GenerateStep
<1>4. CASE Cleanup \/ AbortCleanup
  BY <1>4, SbomRead, SbomCleanBlob, SbomCleanRow, SbomCommit, SbomAbort DEF Cleanup
<1>5. CASE UNCHANGED sbomVars
  <2>1. FaultsTypeOK' /\ (Undisturbed' => Undisturbed)
    BY <1>5, SbomUndisturbed DEF SbomTypeOK, sbomVars
  <2>2. \A b \in Sources : Cleaning(b)' <=> Cleaning(b)
    BY <1>5 DEF Cleaning, sbomVars
  <2>3. SbomTypeOK' /\ Phases' /\ Replaced'
    BY <1>5, <2>1 DEF sbomVars, SbomTypeOK, SbomInv, Phases, Replaced
  <2>4. Uploaded' /\ SbomsAreStored'
    BY <1>5, <2>1, <2>2 DEF sbomVars, SbomInv, Uploaded, SbomsAreStored, Undisturbed
  <2> QED
    BY <2>3, <2>4 DEF SbomInv
<1> QED
  BY <1>2, <1>3, <1>4, <1>5, SbomEnvironment DEF SbomNext

\* The types of the variables of SbomStore, and what relates generators, clean-up and metadata.
THEOREM SbomInvariant == SbomSpec => [](SbomTypeOK /\ SbomInv)
  BY SbomInitial, SbomInductive, PTL DEF SbomSpec

\* Whoever deletes old blobs, the one the metadata of an artefact name is there, unless a clean-up
\* deals with the artefact, broke off, or met a document that was generated again.
THEOREM NamedIsStored == SbomSpec => []SbomsAreStored
<1>1. SbomInv => SbomsAreStored
  BY DEF SbomInv
<1> QED
  BY <1>1, SbomInvariant, PTL

-----------------------------------------------------------------------------
(* No blob is orphaned *)

\* The condition of BlobsAreNamed: nothing failed, and no SBOM was generated during its clean-up.
Unmeddled ==
  /\ \A kind \in {"kill", "lostAnswer", "deleteFails", "queryFails", "abortCleanup"} : Never(kind)
  /\ "generated" \notin meddled

\* The clean-up has deleted the blob that the row of a names.
Cleaned(a) == a \in cleanup.deleted \/ (cleanup.digest # None /\ cleanup.digest[1] = a)

\* What generates the SBOM of a, or its row, answers for blob d.  Where SBOMs are not overwritten, a
\* generation begins only without a blob.
Owns(a, d) ==
  \/ gen[a].pc = "update" /\ document[a] = d
  \/ gen[a].pc = "delete" /\ gen[a].old = d
  \/ /\ sboms[a] # None /\ sboms[a].digest = d /\ ~Cleaned(a)
     /\ gen[a].pc = "idle" \/ on_exist = "overwrite"

\* Nothing is generated of what is cleaned, the clean-up knows the rows as they are, and so does a
\* generation that is to delete the old blob: every blob has its owner.
OwnersInv ==
  Unmeddled =>
    /\ \A a \in Sources : Cleaning(a) => gen[a].pc = "idle"
    /\ \A x \in cleanup.todo : sboms[x[1]] # None /\ sboms[x[1]].digest = x[2]
    /\ \A a \in Sources :
         /\ gen[a].pc \in {"upload", "update"} /\ sboms[a] # None /\ on_exist = "overwrite"
              => gen[a].old = sboms[a].digest
         /\ gen[a].pc = "delete" => on_exist = "overwrite"
    /\ \A d \in blobs : \E a \in Sources : Owns(a, d)

LEMMA SbomUnmeddled ==
  ASSUME FaultsTypeOK, UNCHANGED faults \/ \E kind : Spend(kind), meddled \subseteq meddled'
  PROVE  Unmeddled' => Unmeddled
<1> DEFINE kinds == {"kill", "lostAnswer", "deleteFails", "queryFails", "abortCleanup"}
<1>1. CASE UNCHANGED faults
  BY <1>1 DEF faults, Unmeddled, Never
<1>2. ASSUME NEW kind, Spend(kind), NEW k \in kinds, Never(k)'
      PROVE  Never(k)
  <2>1. CASE kind \in DOMAIN Limit
    BY <1>2, <2>1, SbomAssumption DEF Spend, FaultsTypeOK, Never
  <2>2. CASE kind \notin DOMAIN Limit
    BY <1>2, <2>2 DEF Spend, FaultsTypeOK, Never
  <2> QED
    BY <2>1, <2>2
<1> QED
  BY <1>1, <1>2 DEF Unmeddled

LEMMA SbomMeddled ==
  ASSUME FaultsTypeOK,
         NEW kind \in {"kill", "lostAnswer", "deleteFails", "queryFails", "abortCleanup"},
         Spend(kind)
  PROVE  ~Unmeddled'
<1>1. spent'[kind] = spent[kind] + 1 /\ spent[kind] \in Nat
  BY SbomAssumption DEF Spend, FaultsTypeOK
<1> QED
  BY <1>1 DEF Unmeddled, Never

LEMMA OwnersGenerate ==
  ASSUME SbomTypeOK, SbomInv, OwnersInv, NEW a \in Sources,
         BeginGenerate(a) \/ Upload(a) \/ Kill(a)
  PROVE  OwnersInv'
<1>1. /\ UNCHANGED <<on_exist, document, sboms, cleanup>>
      /\ UNCHANGED faults \/ \E kind : Spend(kind)
      /\ meddled \subseteq meddled'
      /\ \A b \in Sources : b # a => gen'[b] = gen[b]
  BY DEF BeginGenerate, Upload, Kill, SbomTypeOK
<1> SUFFICES ASSUME Unmeddled' PROVE OwnersInv'
  BY DEF OwnersInv
<1>2. Unmeddled
  BY <1>1, SbomUnmeddled DEF SbomTypeOK
<1>3. \A b \in Sources : (Cleaning(b)' <=> Cleaning(b)) /\ (Cleaned(b)' <=> Cleaned(b))
  BY <1>1 DEF Cleaning, Cleaned
<1>5. CASE BeginGenerate(a)
  <2>1. ~Cleaning(a) /\ UNCHANGED blobs /\ gen[a].pc = "idle"
    BY <1>5 DEF BeginGenerate, Unmeddled
  <2>2. ~Spend("queryFails")
    BY SbomMeddled DEF SbomTypeOK
  <2>3. /\ gen'[a].pc = "upload"
        /\ sboms[a] # None => /\ gen'[a].old = sboms[a].digest
                              /\ sboms[a].digest \in blobs => on_exist = "overwrite"
    BY <1>5, <2>2 DEF BeginGenerate, SbomTypeOK
  <2>4. \A d \in blobs : \A b \in Sources : Owns(b, d) => Owns(b, d)'
    BY <1>1, <1>3, <2>1, <2>3 DEF Owns
  <2> QED
    BY <1>1, <1>2, <1>3, <2>1, <2>3, <2>4 DEF OwnersInv
<1>6. CASE Upload(a)
  <2>1. ~Spend("lostAnswer")
    BY SbomMeddled DEF SbomTypeOK
  <2>2. CASE gen' = [gen EXCEPT ![a] = Ready] /\ UNCHANGED blobs
    <3>1. gen'[a].pc = "idle" /\ gen[a].pc = "upload"
      BY <1>6, <2>2 DEF Ready, SbomTypeOK, Upload
    <3>2. \A d \in blobs : \A b \in Sources : Owns(b, d) => Owns(b, d)'
      BY <1>1, <1>3, <3>1 DEF Owns
    <3> QED
      BY <1>1, <1>2, <1>3, <2>2, <3>1, <3>2 DEF OwnersInv
  <2>3. CASE gen' = [gen EXCEPT ![a].pc = "update"] /\ blobs' = blobs \union {document[a]}
    <3>1. gen'[a].pc = "update" /\ gen[a].pc = "upload" /\ gen'[a].old = gen[a].old
      BY <1>6, <2>3 DEF SbomTypeOK, Upload
    <3>2. \A d \in blobs : \A b \in Sources : Owns(b, d) => Owns(b, d)'
      BY <1>1, <1>3, <3>1 DEF Owns
    <3>3. Owns(a, document[a])'
      BY <1>1, <3>1 DEF Owns
    <3> QED
      BY <1>1, <1>2, <1>3, <2>3, <3>1, <3>2, <3>3 DEF OwnersInv
  <2> QED
    BY <1>6, <2>1, <2>2, <2>3 DEF Upload
<1>7. ~Kill(a)
  BY SbomMeddled DEF SbomTypeOK, Kill
<1> QED
  BY <1>5, <1>6, <1>7

LEMMA OwnersUpdate ==
  ASSUME SbomTypeOK, SbomInv, OwnersInv, NEW a \in Sources, UpdateSbom(a)
  PROVE  OwnersInv'
<1>1. /\ gen[a].pc = "update"
      /\ UNCHANGED <<on_exist, document, blobs, cleanup, meddled, faults>>
      /\ sboms' = [sboms EXCEPT ![a] = [digest |-> document[a],
                                        aged |-> sboms[a] # None /\ sboms[a].aged]]
      /\ \A b \in Sources : b # a => gen'[b] = gen[b]
  BY DEF UpdateSbom, SbomTypeOK
<1> SUFFICES ASSUME Unmeddled' PROVE OwnersInv'
  BY DEF OwnersInv
<1>2. Unmeddled
  BY <1>1, SbomUnmeddled DEF SbomTypeOK
<1>3. \A b \in Sources : (Cleaning(b)' <=> Cleaning(b)) /\ (Cleaned(b)' <=> Cleaned(b))
  BY <1>1 DEF Cleaning, Cleaned
<1>4. ~Cleaning(a) /\ ~Cleaned(a)
  BY <1>1, <1>2 DEF OwnersInv, Cleaning, Cleaned
<1>5. /\ sboms'[a].digest = document[a]
      /\ \A b \in Sources : b # a => sboms'[b] = sboms[b]
      /\ sboms'[a] # None
  <2>1. document[a] \in AllDocuments /\ (sboms[a] # None /\ sboms[a].aged) \in BOOLEAN
    BY DEF SbomTypeOK
  <2>2. sboms'[a] # None
    <3>1. sboms'[a] \in [digest : AllDocuments, aged : BOOLEAN]
      BY <1>1, <2>1 DEF SbomTypeOK
    <3> QED
      BY <3>1, SbomAssumption
  <2> QED
    BY <1>1, <2>2 DEF SbomTypeOK
<1>6. /\ gen'[a].pc \in {"idle", "delete"}
      /\ gen'[a].pc = "delete" => on_exist = "overwrite" /\ gen'[a].old = gen[a].old
      /\ on_exist = "overwrite" /\ gen[a].old \notin {None, document[a]} => gen'[a].pc = "delete"
  BY DEF UpdateSbom, DeletesOld, Ready, SbomTypeOK
<1>7. ASSUME NEW d \in blobs, NEW b \in Sources, Owns(b, d)
      PROVE  Owns(b, d)'
  <2>1. CASE b # a
    BY <1>1, <1>3, <1>5, <1>7, <2>1 DEF Owns
  <2>2. CASE b = a /\ document[a] = d
    BY <1>1, <1>3, <1>4, <1>5, <1>6, <2>2 DEF Owns
  <2>3. CASE b = a /\ document[a] # d
    <3>1. sboms[a] # None /\ sboms[a].digest = d /\ on_exist = "overwrite"
      BY <1>1, <1>7, <2>3 DEF Owns
    <3>2. gen[a].old = d
      BY <1>1, <1>2, <3>1 DEF OwnersInv
    <3>3. d # None
      BY <3>1, SbomAssumption DEF SbomTypeOK, AllDocuments
    <3> QED
      BY <1>6, <2>3, <3>1, <3>2, <3>3 DEF Owns
  <2> QED
    BY <2>1, <2>2, <2>3
<1>8. \A x \in cleanup.todo : x[1] # a /\ x[1] \in Sources
  BY <1>4 DEF Cleaning, SbomTypeOK, Listed
<1> QED
  BY <1>1, <1>2, <1>3, <1>4, <1>5, <1>6, <1>7, <1>8 DEF OwnersInv

LEMMA OwnersDelete ==
  ASSUME SbomTypeOK, SbomInv, OwnersInv, NEW a \in Sources, DeleteOld(a)
  PROVE  OwnersInv'
<1>1. /\ gen[a].pc = "delete" /\ UNCHANGED <<on_exist, document, sboms, cleanup, meddled>>
      /\ UNCHANGED faults \/ Spend("deleteFails")
      /\ \A b \in Sources : b # a => gen'[b] = gen[b]
      /\ gen'[a].pc = "idle"
  BY DEF DeleteOld, SbomTypeOK, Ready
<1> SUFFICES ASSUME Unmeddled' PROVE OwnersInv'
  BY DEF OwnersInv
<1>2. Unmeddled
  BY <1>1, SbomUnmeddled DEF SbomTypeOK
<1>3. \A b \in Sources : (Cleaning(b)' <=> Cleaning(b)) /\ (Cleaned(b)' <=> Cleaned(b))
  BY <1>1 DEF Cleaning, Cleaned
<1>4. blobs' = blobs \ {gen[a].old}
  BY SbomMeddled DEF SbomTypeOK, DeleteOld
<1>5. \A d \in blobs' : \A b \in Sources : Owns(b, d) => Owns(b, d)'
  BY <1>1, <1>3, <1>4 DEF Owns
<1> QED
  BY <1>1, <1>2, <1>3, <1>4, <1>5 DEF OwnersInv

LEMMA OwnersClean ==
  ASSUME SbomTypeOK, SbomInv, OwnersInv, Cleanup \/ AbortCleanup
  PROVE  OwnersInv'
<1>1. /\ UNCHANGED <<on_exist, document, gen>>
      /\ UNCHANGED faults \/ Spend("abortCleanup")
      /\ meddled \subseteq meddled'
  BY DEF Cleanup, BeginCleanup, ReadSboms, CleanBlob, CleanRow, CommitCleanup, AbortCleanup
<1> SUFFICES ASSUME Unmeddled' PROVE OwnersInv'
  BY DEF OwnersInv
<1>2. Unmeddled
  BY <1>1, SbomUnmeddled DEF SbomTypeOK
<1>3. CASE BeginCleanup \/ ReadSboms
  <2>1. UNCHANGED <<sboms, blobs>>
    BY <1>3 DEF BeginCleanup, ReadSboms
  <2>2. /\ cleanup.todo = {} /\ cleanup.digest = None /\ cleanup.deleted = {}
    BY <1>3 DEF BeginCleanup, ReadSboms, SbomInv, Phases
  <2>3. /\ cleanup'.digest = None /\ cleanup'.deleted = {}
        /\ \A x \in cleanup'.todo : \E b \in Sources :
             gen[b].pc = "idle" /\ sboms[b] # None /\ x = <<b, sboms[b].digest>>
    <3>1. CASE BeginCleanup
      BY <3>1 DEF BeginCleanup, NoCleanup
    <3>2. CASE ReadSboms
      <4>1. /\ cleanup'.digest = None /\ cleanup'.deleted = {}
            /\ cleanup'.todo = {<<b, sboms[b].digest>> : b \in Unused}
        BY <2>2, <3>2 DEF ReadSboms, SbomTypeOK
      <4>2. \A b \in Unused : b \in Sources /\ sboms[b] # None /\ gen[b].pc = "idle"
        BY <3>2 DEF ReadSboms, Unused, Unmeddled
      <4> QED
        BY <4>1, <4>2
    <3> QED
      BY <1>3, <3>1, <3>2
  <2>4. \A b \in Sources : ~Cleaned(b)' /\ (Cleaning(b)' => gen[b].pc = "idle")
    BY <2>3 DEF Cleaned, Cleaning
  <2>5. \A d \in blobs : \A b \in Sources : Owns(b, d) => Owns(b, d)'
    BY <1>1, <2>1, <2>4 DEF Owns
  <2> QED
    BY <1>1, <1>2, <2>1, <2>3, <2>4, <2>5 DEF OwnersInv
<1>4. CASE CleanBlob
  <2>1. PICK x \in cleanup.todo :
          /\ blobs' = blobs \ {x[2]}
          /\ cleanup' = [cleanup EXCEPT !.pc = "row", !.todo = @ \ {x}, !.digest = x]
    BY <1>4 DEF CleanBlob
  <2>2. UNCHANGED sboms /\ cleanup.digest = None
    BY <1>4 DEF CleanBlob, SbomInv, Phases
  <2>3. /\ cleanup'.todo = cleanup.todo \ {x} /\ cleanup'.digest = x
        /\ cleanup'.deleted = cleanup.deleted
        /\ sboms[x[1]] # None /\ sboms[x[1]].digest = x[2]
    BY <1>2, <2>1 DEF SbomTypeOK, OwnersInv
  <2>4. \A b \in Sources : (Cleaning(b)' => Cleaning(b)) /\ (Cleaned(b)' => Cleaned(b) \/ b = x[1])
    BY <2>1, <2>3 DEF Cleaning, Cleaned
  <2>5. \A b \in Sources : Cleaning(b) => gen[b].pc = "idle"
    BY <1>2 DEF OwnersInv
  <2>6. x[1] \in Sources /\ gen[x[1]].pc = "idle"
    BY <2>1, <2>5 DEF SbomTypeOK, Listed, Cleaning
  <2>7. \A d \in blobs' : \A b \in Sources : Owns(b, d) => Owns(b, d)'
    BY <1>1, <2>1, <2>2, <2>3, <2>4, <2>6 DEF Owns
  <2> QED
    BY <1>1, <1>2, <2>1, <2>2, <2>3, <2>4, <2>5, <2>7 DEF OwnersInv
<1>5. CASE CleanRow
  <2>1. UNCHANGED <<sboms, blobs>> /\ cleanup.digest # None
    BY <1>5 DEF CleanRow, SbomInv, Phases
  <2>2. /\ cleanup'.todo = cleanup.todo /\ cleanup'.digest = None
        /\ cleanup'.deleted = cleanup.deleted \union {cleanup.digest[1]}
    BY <1>5 DEF CleanRow, SbomTypeOK
  <2>3. \A b \in Sources : (Cleaning(b)' <=> Cleaning(b)) /\ (Cleaned(b)' <=> Cleaned(b))
    BY <2>1, <2>2 DEF Cleaning, Cleaned
  <2>4. \A d \in blobs : \A b \in Sources : Owns(b, d) => Owns(b, d)'
    BY <1>1, <2>1, <2>3 DEF Owns
  <2> QED
    BY <1>1, <1>2, <2>1, <2>2, <2>3, <2>4 DEF OwnersInv
<1>6. CASE CommitCleanup
  <2>1. /\ UNCHANGED blobs
        /\ \A b \in Sources : sboms'[b] = IF b \in cleanup.deleted THEN None ELSE sboms[b]
    BY <1>6 DEF CommitCleanup, Remaining
  <2>2. cleanup'.todo = {} /\ cleanup'.digest = None /\ cleanup'.deleted = {}
    BY <1>6 DEF CommitCleanup, NoCleanup
  <2>3. \A b \in Sources : ~Cleaning(b)' /\ ~Cleaned(b)'
    BY <2>2 DEF Cleaning, Cleaned
  <2>4. \A d \in blobs : \A b \in Sources : Owns(b, d) => Owns(b, d)'
    BY <1>1, <2>1, <2>3 DEF Owns, Cleaned
  <2> QED
    BY <1>1, <1>2, <2>1, <2>2, <2>3, <2>4 DEF OwnersInv
<1>7. ~AbortCleanup
  BY SbomMeddled DEF SbomTypeOK, AbortCleanup
<1> QED
  BY <1>3, <1>4, <1>5, <1>6, <1>7 DEF Cleanup

LEMMA OwnersEnvironment ==
  ASSUME SbomTypeOK, SbomInv, OwnersInv,
         \/ \E a \in Sources : Rebuild(a) \/ BomChanges(a) \/ Period(a)
         \/ UNCHANGED sbomVars
  PROVE  OwnersInv'
<1>1. /\ UNCHANGED <<on_exist, blobs, gen, cleanup, meddled>>
      /\ UNCHANGED faults \/ \E kind : Spend(kind)
  BY DEF Rebuild, BomChanges, Period, sbomVars
<1>2. /\ \A b \in Sources : gen[b].pc = "update" => document'[b] = document[b]
      /\ \A b \in Sources : (sboms'[b] # None <=> sboms[b] # None)
                            /\ (sboms[b] # None => sboms'[b].digest = sboms[b].digest)
  <2>1. ASSUME NEW a \in Sources, Rebuild(a)
        PROVE  /\ UNCHANGED sboms
               /\ \A b \in Sources : gen[b].pc = "update" => document'[b] = document[b]
    BY <2>1 DEF Rebuild, SbomTypeOK
  <2>2. ASSUME NEW a \in Sources, Period(a)
        PROVE  UNCHANGED document /\ \A b \in Sources :
                 /\ sboms'[b] # None <=> sboms[b] # None
                 /\ sboms[b] # None => sboms'[b].digest = sboms[b].digest
    <3>1. sboms[a] # None /\ sboms' = [sboms EXCEPT ![a].aged = TRUE] /\ UNCHANGED document
      BY <2>2 DEF Period
    <3>2. sboms[a] \in [digest : AllDocuments, aged : BOOLEAN]
      BY <3>1 DEF SbomTypeOK
    <3>3. sboms'[a] = [sboms[a] EXCEPT !.aged = TRUE]
      BY <3>1 DEF SbomTypeOK
    <3>4. sboms'[a].digest = sboms[a].digest /\ sboms'[a] # None
      BY <3>2, <3>3, SbomAssumption
    <3> QED
      BY <3>1, <3>4 DEF SbomTypeOK
  <2>3. CASE UNCHANGED <<document, sboms>>
    BY <2>3
  <2> QED
    BY <2>1, <2>2, <2>3 DEF BomChanges, sbomVars
<1> SUFFICES ASSUME Unmeddled' PROVE OwnersInv'
  BY DEF OwnersInv
<1>3. Unmeddled
  BY <1>1, SbomUnmeddled DEF SbomTypeOK
<1>4. \A b \in Sources : (Cleaning(b)' <=> Cleaning(b)) /\ (Cleaned(b)' <=> Cleaned(b))
  BY <1>1 DEF Cleaning, Cleaned
<1>5. \A d \in blobs : \A b \in Sources : Owns(b, d) => Owns(b, d)'
  BY <1>1, <1>2, <1>4 DEF Owns
<1>6. \A x \in cleanup.todo : x[1] \in Sources
  BY DEF SbomTypeOK, Listed
<1> QED
  BY <1>1, <1>2, <1>3, <1>4, <1>5, <1>6 DEF OwnersInv

\* Every blob has an owner.
THEOREM SbomOwners == SbomSpec => []OwnersInv
<1>1. SbomInit => OwnersInv
  BY DEF SbomInit, OwnersInv, Ready, NoCleanup, Cleaning
<1>2. SbomTypeOK /\ SbomInv /\ OwnersInv /\ [SbomNext]_sbomVars => OwnersInv'
  BY OwnersGenerate, OwnersUpdate, OwnersDelete, OwnersClean, OwnersEnvironment
  DEF SbomNext, GenerateStep
<1> QED
  BY <1>1, <1>2, SbomInvariant, PTL DEF SbomSpec

\* Moreover no blob is orphaned: for any artefacts, whichever of them share a document, and with
\* any number of generations and clean-ups, unless one of the exceptions occurred.
THEOREM BlobsAndSbomsMatch == SbomSpec => []BlobsMatchSboms
<1>1. OwnersInv => BlobsAreNamed
  <2> SUFFICES ASSUME OwnersInv, Unmeddled, \A a \in Sources : gen[a].pc = "idle", NEW d \in blobs
               PROVE  \E a \in Sources : sboms[a] # None /\ d = sboms[a].digest
    BY DEF BlobsAreNamed, Unmeddled
  <2> QED
    BY DEF OwnersInv, Owns
<1>2. SbomInv => SbomsAreStored
  BY DEF SbomInv
<1>3. SbomInv /\ OwnersInv => BlobsMatchSboms
  BY <1>1, <1>2 DEF BlobsMatchSboms
<1> QED
  BY <1>3, SbomInvariant, SbomOwners, PTL
===============================================================================
