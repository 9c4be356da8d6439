--------------------------- MODULE CodeqlFindings ---------------------------
(***************************************************************************)
(* CodeQL coverage of the sources of a component (src/codeql.py): for      *)
(* every language of the repository which CodeQL does not analyse there is *)
(* a finding; once there is no reason for it any more the finding gets an  *)
(* automatic rescoring, which stays.  Each request to GitHub may fail.     *)
(***************************************************************************)
EXTENDS Faults, FiniteSets

CONSTANTS
  Languages,
  ExcludedLanguages   \* languages of the extension's configuration (CodeqlConfig.languages)

VARIABLES
  repository,   \* languages of the repository, and those CodeQL analyses
  labelled,     \* the source has the label to skip scans
  notEnabled,   \* languages with a finding in the delivery-db
  accepted,     \* languages whose finding was rescored automatically
  wasCovered,   \* history: languages that needed no finding at some time
  scan          \* locals of scan()

codeqlVars == <<repository, labelled, notEnabled, accepted, wasCovered, scan, faults>>

IdleScan == [pc |-> "idle", existing |-> {}, languages |-> {}]

Covered(repo, l) == l \in ExcludedLanguages \/ l \notin repo.languages \/ l \in repo.active
Missing(repo) == {l \in Languages : ~Covered(repo, l)}

CodeqlInit ==
  /\ FaultsInit
  /\ repository \in {[languages |-> all, active |-> {}] : all \in SUBSET Languages}
  /\ labelled = FALSE
  /\ notEnabled = {}
  /\ accepted = {}
  /\ wasCovered = Languages \ Missing(repository)
  /\ scan = IdleScan

\* A backlog item of the source is claimed: the existing findings are read.
BeginCodeqlScan ==
  /\ scan.pc = "idle"
  /\ scan' = [IdleScan EXCEPT !.pc = "label", !.existing = notEnabled]
  /\ UNCHANGED <<repository, labelled, notEnabled, accepted, wasCovered, faults>>

\* With the label, nothing but the fact that there was a scan is stored.
CheckScanPolicy ==
  /\ scan.pc = "label"
  /\ scan' = IF labelled THEN IdleScan ELSE [scan EXCEPT !.pc = "languages"]
  /\ UNCHANGED <<repository, labelled, notEnabled, accepted, wasCovered, faults>>

\* Mutant: a request that fails is an empty answer.
EmptyAnswer == [scan EXCEPT !.pc = "analyses", !.languages = {}]
\* fetch_repo_info returns without api_success: findings are neither stored nor rescored.
NoAnswerAtAll == IdleScan

\* The languages of the repository, then its default branch.
RequestLanguages ==
  /\ scan.pc = "languages"
  /\ \/ /\ scan' = [scan EXCEPT !.pc = "analyses", !.languages = repository.languages]
        /\ UNCHANGED faults
     \/ Spend("github") /\ scan' = NoAnswerAtAll
  /\ UNCHANGED <<repository, labelled, notEnabled, accepted, wasCovered>>

\* Mutant: findings that persist are rescored as well.
EveryExisting(new) == scan.existing
\* Existing findings that were not found again.
Rescored(new) == scan.existing \ new

\* The analyses of the branch: a page that fails is like an empty last page.  All findings and
\* rescorings are delivered at once, unless the delivery-service cannot be reached.
RequestAnalyses ==
  /\ scan.pc = "analyses"
  /\ \E got \in SUBSET repository.active :
       LET new == (scan.languages \ ExcludedLanguages) \ got
       IN \/ /\ IF got = repository.active THEN UNCHANGED faults ELSE Spend("github")
             /\ notEnabled' = notEnabled \union new
             /\ accepted' = accepted \union Rescored(new)
          \/ /\ got = repository.active
             /\ Spend("service")
             /\ UNCHANGED <<notEnabled, accepted>>
  /\ scan' = IdleScan
  /\ UNCHANGED <<repository, labelled, wasCovered>>

\* Sources of the repository are added or removed, analyses are set up or removed.
ChangeRepository(repo) ==
  /\ Spend("repository")
  /\ repository' = repo
  /\ wasCovered' = wasCovered \union (Languages \ Missing(repo))
  /\ UNCHANGED <<labelled, notEnabled, accepted, scan>>

\* A new version of the component has the label.
LabelSource ==
  /\ Spend("label")
  /\ labelled' = ~labelled
  /\ UNCHANGED <<repository, notEnabled, accepted, wasCovered, scan>>

CodeqlStep == BeginCodeqlScan \/ CheckScanPolicy \/ RequestLanguages \/ RequestAnalyses

CodeqlNext ==
  \/ CodeqlStep
  \/ LabelSource
  \/ \E languages, active \in SUBSET Languages :
       /\ active \subseteq languages
       /\ ChangeRepository([languages |-> languages, active |-> active])

\* The source gets a backlog item again and again, and a scan goes on.
CodeqlFairness == WF_codeqlVars(CodeqlStep)

CodeqlSpec == CodeqlInit /\ [][CodeqlNext]_codeqlVars /\ CodeqlFairness

-----------------------------------------------------------------------------
(* Properties *)

\* The docstring of fetch_repo_info: "stale findings should be preserved rather than rescored" if
\* GitHub cannot be reached.  An accepted finding was, at some time, no longer justified.
AcceptedWasCovered == accepted \subseteq wasCovered

\* A language that stays not analysed is a finding that counts, unless there was a time when it
\* needed none: then the automatic rescoring stays in place.
MissingIsReported ==
  \A l \in Languages :
    <>[](l \in Missing(repository) /\ ~labelled) /\ [](l \notin wasCovered)
    => <>[](l \in notEnabled \ accepted)

\* Findings of a language that stays analysed, excluded or not used are accepted.
CoveredIsAccepted ==
  \A l \in Languages :
    <>[](l \notin Missing(repository) /\ ~labelled)
    => <>[](l \in notEnabled => l \in accepted)

\* The findings end up as the analyses of the repository.
FindingsFollowAnalyses == MissingIsReported /\ CoveredIsAccepted
=============================================================================
