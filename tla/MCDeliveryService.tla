------------------------- MODULE MCDeliveryService -------------------------
(***************************************************************************)
(* Instances of the parts of the delivery-service for TLC.  The parts do   *)
(* not interact here: `part` says which one a behaviour is about, and the  *)
(* variables of the others do not change.                                  *)
(***************************************************************************)
EXTENDS Sessions, ArtefactMetadata, Responsibles, Search

VARIABLE part

\* Sessions: one user with two browsers; everything happens once.
OneUser == [c \in Clients |-> "u1"]

\* Metadata: two versions of a component with one artefact each, the second scanned by BDBA.
OneArtefactEach == [v \in Versions |-> IF v = "v1" THEN "x1" ELSE "x2"]
ThreeScopes ==
  {[scanned |-> {"v1", "v2"}, viewed |-> {}], [scanned |-> {"v1"}, viewed |-> {"v1"}],
   [scanned |-> {"v2"}, viewed |-> {"v2"}]}

\* Responsibles: a label of the artefact, one of the component, a malformed one, none, and no such
\* artefact; rules that ask the service, and that name a user.
FourLabels ==
  LET labelled(artefact, component) == [artefact |-> artefact, component |-> component]
      good == [malformed |-> FALSE, users |-> {"u1"}]
      bad == [malformed |-> TRUE, users |-> {}]
  IN {labelled(good, None), labelled(bad, good), labelled(None, None), None}
TwoOverwrites == {[users |-> {}, mode |-> "overwrite"], [users |-> {"u2"}, mode |-> None]}
Static == [kind |-> "static", users |-> {"u1"}]
AskTheService == [kind |-> "component", users |-> {}]
Rule(matches, strategies, mode) == [matches |-> matches, strategies |-> strategies, mode |-> mode]
ThreeConfigurations ==
  {<<>>, <<Rule(TRUE, <<AskTheService>>, "extend")>>,
   <<Rule(FALSE, <<AskTheService>>, None), Rule(TRUE, <<Static, AskTheService>>, "overwrite")>>}

\* Search: batches and pages of two rows, at most two rounds.  Of row 2 there are two versions;
\* row 1 has no component version.
ARow(id, version, key, created, severity, hidden) ==
  [id |-> id, name |-> "c1", version |-> version, key |-> key, created |-> created,
   severity |-> severity, hidden |-> hidden]
SixRows ==
  {ARow(1, None, "k1", 2, "HIGH", FALSE), ARow(2, 2, "k2", 2, "eol", FALSE),
   ARow(2, 2, "k2", 3, "eol", TRUE), ARow(5, 2, "k2", 2, "eol", TRUE),
   ARow(3, 1, "k1", 1, "HIGH", TRUE), ARow(4, 1, "k1", 1, "HIGH", FALSE)}
Req(criteria, fields, desc) == [criteria |-> criteria, fields |-> fields, desc |-> desc]
Ocm(version, recursive, mode) ==
  [type |-> "ocm", name |-> "c1", version |-> version, recursive |-> recursive, mode |-> mode]
Meta(attr, value, mode) == [type |-> "metadata", attr |-> attr, value |-> value, mode |-> mode]
Created(low, high) ==
  [type |-> "metadata", attr |-> "created", low |-> low, high |-> high, mode |-> "include"]
FourRequests ==
  {Req({Created(1, 3)}, <<"created">>, TRUE),
   Req({Ocm(2, TRUE, "include"), Meta("version", 1, "exclude"),
        Meta("severity", "HIGH", "include")}, <<"created">>, FALSE),
   Req({Ocm(None, FALSE, "include"), Ocm(2, FALSE, "exclude")}, <<"created">>, FALSE),
   Req({Ocm(None, FALSE, "include")}, <<"version">>, FALSE)}
OneReference == {<<<<"c1", 2>>, <<"c1", 1>>>>}
OneKeyEach == [c \in {<<"c1", 1>>, <<"c1", 2>>} |-> IF c[2] = 1 THEN {"k1"} ELSE {"k2"}]
HighOrEol == [s \in {"HIGH", "eol"} |-> IF s = "HIGH" THEN 8 ELSE 16]

\* Everything else happens at most once.
Often == [change |-> 2, write |-> 3]
Once == {"overlap", "lostCookie", "requestFails", "managerFails", "membership", "grant", "overtake",
         "expire", "resend", "scanFails", "queryFails", "markFails",
         "push", "forget", "rescan", "configure", "assign", "fail", "search"}
OnceOrOften ==
  [kind \in Once \union DOMAIN Often |-> IF kind \in Once THEN 1 ELSE Often[kind]]

\* How many of the MaxFaults faults a behaviour of a part contains.
Bounded(n) == left' >= MaxFaults - n

\* Users change the assignees of the issue for the first sprint only.
AssignsFirst == issues'[2] # issues[2] => spent' = spent

Init ==
  /\ part \in {"sessions", "metadata", "responsibles", "search"}
  /\ part # "sessions" => member = {}
  /\ SessionsInit
  /\ part # "metadata" => scope = [scanned |-> {"v1"}, viewed |-> {"v1"}]
  /\ MetadataInit
  /\ contributors = {"u2"}
  /\ part # "responsibles" => label = None /\ rules = <<>>
  /\ ResponsiblesInit
  /\ part # "search" => table = {}
  /\ SearchInit

sessionsState == <<member, granted, users, issued, expired, gone, cookie, request, manager>>
metadataState == <<scope, content, rows, infos, scan, late, cached, query, crossed, raced>>
responsiblesState == <<label, contributors, computed, statistics, identities, response, rules,
                       overwrite, info, issues, extension, replicator, right>>
searchState == <<table, search, stayed>>

Next ==
  \/ /\ part = "sessions" /\ SessionsNext /\ Bounded(2)
     /\ UNCHANGED <<part, metadataState, responsiblesState, searchState>>
  \/ /\ part = "metadata" /\ MetadataNext /\ Bounded(2)
     /\ UNCHANGED <<part, sessionsState, responsiblesState, searchState>>
  \/ /\ part = "responsibles" /\ ResponsiblesNext /\ Bounded(2) /\ AssignsFirst
     /\ UNCHANGED <<part, sessionsState, metadataState, searchState>>
  \/ /\ part = "search" /\ SearchNext /\ Bounded(4)
     /\ UNCHANGED <<part, sessionsState, metadataState, responsiblesState>>

vars == <<part, sessionVars, metadataState, responsiblesState, searchState>>

Spec == Init /\ [][Next]_vars

-----------------------------------------------------------------------------
(* The properties of the parts, each under the fairness of its part *)

\* Sessions: the roles in use become those of the user.
RolesStayRight ==
  []ManualRolesPersist /\ ((part = "sessions" /\ SessionsFairness) => RolesFollowMembership)

\* ArtefactMetadata: a summary that is served after a scan of BDBA is that of its findings;
\* summaries follow the content in the end.
SummariesConverge ==
  (part = "metadata" /\ MetadataFairness) => ([]BdbaSummaryFollowsScans /\ SummaryConverges)

\* Responsibles: the assignees settle as the mode says.
AssigneesSettle ==
  AssigneesAreKept /\ ((part = "responsibles" /\ ResponsiblesFairness) => AssigneesFollow)
=============================================================================
