------------------------------ MODULE BdbaScans ------------------------------
(***************************************************************************)
(* Scans of one artefact with BDBA (src/bdba_extension/__main__.py,        *)
(* src/bdba_utils, src/bdba/client.py): a product of BDBA is looked up,    *)
(* uploaded, replaced or scanned again, polled until it is ready, triaged, *)
(* and its vulnerabilities become findings of the delivery-db.  Component  *)
(* versions with the same artefact share its product and its findings, and *)
(* may be scanned at the same time.                                        *)
(***************************************************************************)
EXTENDS Faults, Sequences, FiniteSets

CONSTANTS
  Owners,      \* component versions with the artefact
  Scanners,    \* pods of the BDBA extension
  Cves,        \* vulnerabilities of its packages
  Score,       \* Score[e][v]: rating of v by engine e of BDBA; 0 if e does not report it
  ForceUpload  \* processing mode

Engines == DOMAIN Score

BdbaAssumption ==
  /\ Engines \subseteq Nat /\ 1 \in Engines
  /\ \A e \in Engines : Score[e] \in [Cves -> Nat]
  /\ ForceUpload \in BOOLEAN
  /\ None \notin Nat

VARIABLES
  engine,      \* version of the engine and the data of BDBA
  products,    \* products of the artefact, in the order of their ids
  scans,       \* scans[w]: locals of pod w
  awaiting,    \* component versions with a backlog item
  scored,      \* scored[v]: score of the finding v in the delivery-db, or None
  hints        \* vulnerabilities of packages whose version a user has overwritten

bdbaVars == <<engine, products, scans, awaiting, scored, hints, faults>>

\* emptied is a history: the product the result is that of was not empty at first, and is now.
Unscanned(pc, owner, target) ==
  [pc |-> pc, owner |-> owner, target |-> target, result |-> None, existing |-> None,
   next |-> None, emptied |-> FALSE]
NotScanning == Unscanned("idle", None, None)

\* What bdba.client.AnalysisResult tells: the engine of the latest scan, whether the binary is
\* still available, and the vulnerabilities hidden by version overrides and triages.
Uploaded(empty) ==
  [status |-> "busy", engine |-> engine, empty |-> empty, kept |-> TRUE, hidden |-> {},
   triaged |-> {}]

BdbaInit ==
  /\ FaultsInit
  /\ engine = 1
  /\ products = <<>>
  /\ scans = [w \in Scanners |-> NotScanning]
  /\ awaiting = Owners
  /\ scored = [v \in Cves |-> None]
  /\ hints = {}

Scanning(w, pc, target, result, existing, next, emptied) ==
  scans' = [scans EXCEPT ![w] =
             [pc |-> pc, owner |-> @.owner, target |-> target, result |-> result,
              existing |-> existing, next |-> next, emptied |-> emptied]]
\* The pod goes on with pc, or waits for its product first.
Goto(w, pc) ==
  LET s == scans[w] IN Scanning(w, pc, s.target, s.result, s.existing, s.next, s.emptied)
Await(w, target, next) == Scanning(w, "wait", target, scans[w].result, None, next, FALSE)
\* An exception that nobody catches ends the process; the backlog item stays.
Raise(w) == scans' = [scans EXCEPT ![w] = NotScanning]
\* The backlog item is deleted.
ScanDone(w) ==
  /\ awaiting' = awaiting \ {scans[w].owner}
  /\ scans' = [scans EXCEPT ![w] = NotScanning]

-----------------------------------------------------------------------------
(* Requests of the extension *)

\* component_artefact_metadata, _matching_analysis_result_id: the latest of all products of the
\* artefact, whatever the component version.
Matching == IF products = <<>> THEN None ELSE Len(products)

\* A backlog item is claimed; retrieve_existing_scan_results.
ClaimArtefact(w) ==
  /\ scans[w].pc = "idle"
  /\ \E o \in awaiting :
       /\ \A x \in Scanners : scans[x].owner # o
       /\ scans' = [scans EXCEPT ![w] = Unscanned("request", o, Matching)]
  /\ UNCHANGED <<engine, products, awaiting, scored, hints, faults>>

\* A new product, or the content of the target is replaced.  If BDBA answers with an error that
\* is retried, the stream is consumed already and the retry uploads nothing.
Upload(w) ==
  \E empty \in BOOLEAN :
    LET product == Uploaded(empty)
    IN /\ IF empty THEN Spend("retry") ELSE UNCHANGED faults
       /\ IF scans[w].target = None
          THEN /\ products' = Append(products, product)
               /\ Await(w, Len(products) + 1, "check")
          ELSE /\ products' = [products EXCEPT ![scans[w].target] = product]
               /\ Await(w, scans[w].target, "check")

IsStaleProduct(p) == p.status = "ready" /\ p.engine < engine

\* "result is stale" and the binary is still available.
ScannedAgain(p) == IsStaleProduct(p) /\ p.kept

\* The processing mode, no product yet, or a stale result whose binary is gone.
MustUpload(w) ==
  IF scans[w].target = None THEN TRUE
  ELSE ForceUpload \/ LET p == products[scans[w].target] IN IsStaleProduct(p) /\ ~p.kept

\* process_scan_request
RequestScan(w) ==
  /\ scans[w].pc = "request"
  /\ IF MustUpload(w) THEN Upload(w)
     ELSE /\ products' = [products EXCEPT ![scans[w].target].status =
                             IF ScannedAgain(products[scans[w].target]) THEN "busy" ELSE @]
          /\ Await(w, scans[w].target, "check")
          /\ UNCHANGED faults
  /\ UNCHANGED <<engine, awaiting, scored, hints>>

\* HTTPError of the upload: BdbaScanError is logged, and the item is done without a result.
RequestFails(w) ==
  /\ scans[w].pc = "request"
  /\ Spend("http")
  /\ ScanDone(w)
  /\ UNCHANGED <<engine, products, scored, hints>>

\* Mutant: a failed scan is used like one without packages.
ReadyOrFailed(p) == p.status # "busy"
IsReady(p) == p.status = "ready"

\* What BDBA reports for a product: nothing of an empty or failed one, nothing of a package
\* whose version does not have the vulnerability.
ReportedBy(p) ==
  {v \in Cves : /\ p.status = "ready" /\ ~p.empty
                /\ Score[p.engine][v] > 0 /\ v \notin p.hidden}

\* not (scan_result.binary_bytes and scan_result.scanned_bytes)
IsEmpty(p) == p.empty

\* wait_for_scan_result: a failed scan raises an error.  The file may be empty: that is looked
\* at after the first wait only.
WaitForResult(w) ==
  LET s == scans[w]
      p == products[s.target]
      reported == ReportedBy(p)
  IN /\ s.pc = "wait"
     /\ IsReady(p) \/ p.status = "failed"
     /\ IF ~IsReady(p) THEN Raise(w) /\ UNCHANGED awaiting
        ELSE IF s.next = "check" /\ IsEmpty(p) THEN ScanDone(w)
        ELSE /\ Scanning(w, IF s.next = "check" THEN "hints" ELSE s.next, s.target,
                         [v \in Cves |-> IF v \in reported THEN Score[p.engine][v] ELSE None],
                         None, None, s.next # "check" /\ p.empty)
             /\ UNCHANGED awaiting
     /\ UNCHANGED <<engine, products, scored, hints, faults>>

\* upload_version_hints: one override at a time; each is followed by a wait.
UploadHint(w) ==
  LET wanted == {v \in hints : scans[w].result[v] # None}
  IN /\ scans[w].pc = "hints"
     /\ IF wanted = {}
        THEN Goto(w, "triage") /\ UNCHANGED products
        ELSE \E v \in wanted :
               /\ products' = [products EXCEPT ![scans[w].target].hidden = @ \union {v},
                                               ![scans[w].target].status = "busy"]
               /\ Await(w, scans[w].target, "hints")
     /\ UNCHANGED <<engine, awaiting, scored, hints, faults>>

\* compute_auto_triage_cves: the lowest rating is categorised as irrelevant.
Irrelevant(w) ==
  {v \in Cves : scans[w].result[v] = 1 /\ v \notin products[scans[w].target].triaged}

\* bdba_utils.rescore.rescore: triages, and the result is retrieved again.
AddTriages(w) ==
  /\ scans[w].pc = "triage"
  /\ products' = [products EXCEPT ![scans[w].target].triaged = @ \union Irrelevant(w)]
  /\ IF Irrelevant(w) # {} THEN Await(w, scans[w].target, "read") ELSE Goto(w, "read")
  /\ UNCHANGED <<engine, awaiting, scored, hints, faults>>

-----------------------------------------------------------------------------
(* Findings: iter_artefact_metadata *)

ReadExistingFindings(w) ==
  /\ scans[w].pc = "read"
  /\ LET s == scans[w]
     IN Scanning(w, "delete", s.target, s.result, scored, s.next, s.emptied)
  /\ UNCHANGED <<engine, products, awaiting, scored, hints, faults>>

\* update_metadata serialises all entries before it sends them: the stale findings are deleted
\* at the end of the generator, before the new ones are stored.
DeleteStale(w) ==
  LET s == scans[w]
  IN /\ s.pc = "delete"
     /\ scored' = [v \in Cves |->
                    IF s.existing[v] # None /\ s.result[v] = None THEN None ELSE scored[v]]
     /\ Goto(w, "store")
     /\ UNCHANGED <<engine, products, awaiting, hints, faults>>

\* (With a changed score, a rescoring with the new processing time is stored as well.)
StoreFindings(w) ==
  LET s == scans[w]
  IN /\ s.pc = "store"
     /\ scored' = [v \in Cves |-> IF s.result[v] # None THEN s.result[v] ELSE scored[v]]
     /\ ScanDone(w)
     /\ UNCHANGED <<engine, products, hints, faults>>

\* The service does not answer, a request raises, or the pod is killed: the item stays.
ScannerFails(w) ==
  /\ scans[w].pc # "idle"
  /\ Spend("crash")
  /\ Raise(w)
  /\ UNCHANGED <<engine, products, awaiting, scored, hints>>

-----------------------------------------------------------------------------
(* BDBA and the environment *)

FinishProduct(i) ==
  /\ products[i].status = "busy"
  /\ products' = [products EXCEPT ![i].status = "ready", ![i].engine = engine]
  /\ UNCHANGED <<engine, scans, awaiting, scored, hints, faults>>

FailProduct(i) ==
  /\ products[i].status = "busy"
  /\ Spend("fail")
  /\ products' = [products EXCEPT ![i].status = "failed"]
  /\ UNCHANGED <<engine, scans, awaiting, scored, hints>>

\* An operator of BDBA starts a failed scan again, or deletes the binary after its retention.
MaintainProduct(i) ==
  /\ \/ /\ products[i].status = "failed"
        /\ products' = [products EXCEPT ![i].status = "busy"]
        /\ UNCHANGED faults
     \/ /\ products[i].kept
        /\ Spend("retention")
        /\ products' = [products EXCEPT ![i].kept = FALSE]
  /\ UNCHANGED <<engine, scans, awaiting, scored, hints>>

EngineUpdate ==
  /\ engine + 1 \in Engines
  /\ engine' = engine + 1
  /\ UNCHANGED <<products, scans, awaiting, scored, hints, faults>>

OverwriteVersion(v) ==
  /\ v \notin hints
  /\ Spend("hint")
  /\ hints' = hints \union {v}
  /\ UNCHANGED <<engine, products, scans, awaiting, scored>>

\* The artefact enumerator asks for another scan after the interval.
ScanIsDue(o) ==
  /\ o \notin awaiting
  /\ awaiting' = awaiting \union {o}
  /\ UNCHANGED <<engine, products, scans, scored, hints, faults>>

Work(w) ==
  \/ ClaimArtefact(w) \/ RequestScan(w) \/ WaitForResult(w) \/ UploadHint(w)
  \/ AddTriages(w) \/ ReadExistingFindings(w) \/ DeleteStale(w) \/ StoreFindings(w)

BdbaNext ==
  \/ \E w \in Scanners : Work(w) \/ RequestFails(w) \/ ScannerFails(w)
  \/ \E i \in DOMAIN products : FinishProduct(i) \/ FailProduct(i) \/ MaintainProduct(i)
  \/ EngineUpdate
  \/ \E v \in Cves : OverwriteVersion(v)
  \/ \E o \in Owners : ScanIsDue(o)

\* A pod goes on, BDBA finishes its scans, and artefacts are enumerated again and again.
BdbaFairness ==
  /\ \A w \in Scanners : WF_bdbaVars(Work(w))
  /\ \A i \in 1 .. Cardinality(Scanners) :
       WF_bdbaVars(i \in DOMAIN products /\ FinishProduct(i))
  /\ \A o \in Owners : WF_bdbaVars(ScanIsDue(o))

BdbaSpec == BdbaInit /\ [][BdbaNext]_bdbaVars /\ BdbaFairness

-----------------------------------------------------------------------------
(* Properties *)
\* "failed scans do not contain package infos, raise to prevent side effects": a finding is
\* deleted only if some engine that was in use does not report it, or its package's version was
\* overwritten; never because of a failed scan or of an empty file.  (An exception is a product
\* that another pod replaces by an empty upload while its result is post-processed, as the file is
\* looked at after the first wait only.)
FailuresKeepFindings ==
  [][\A v \in Cves :
       scored[v] # None /\ scored'[v] = None
       => \/ v \in hints
          \/ \E e \in Engines : e <= engine /\ Score[e][v] = 0
          \/ \E w \in Scanners : scans[w].pc = "delete" /\ scans[w].emptied]_bdbaVars

\* In the end the findings are those of the latest engine, although scans race and fail, if the
\* binary of the product in use is not empty and its scan does not fail for good.
FindingsFollowEngine ==
  (/\ <>[](\A i \in DOMAIN products : ~products[i].empty)
   /\ []<>(\A i \in DOMAIN products : products[i].status # "failed")
   /\ []<>(\A i \in DOMAIN products : products[i].status = "ready"))
  => <>[](\A v \in Cves : scored[v] = IF Score[engine][v] > 0 /\ v \notin hints
                                      THEN Score[engine][v] ELSE None)
=============================================================================
