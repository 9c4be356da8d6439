-------------------------- MODULE MCInstallations --------------------------
(***************************************************************************)
(* The instance of OdgOperator that installs, the backlog of an extension  *)
(* that is installed, and what the extensions ask the delivery-service     *)
(* for: access and components.  `part` says what a behaviour is about.     *)
(***************************************************************************)
EXTENDS MCOdgOperator

VARIABLES
  part,
  revision, items, overdue, phase, wants, job, caller, controller, pending,    \* backlog
  replicas, disturbances,
  published, denied, memory, stored, listings, call, upgrades, pulls, noticed, \* components
  spentC, leftC,
  keys, loaded, verified, client, careful, spentA, leftA                       \* access

Few(requests, failures) ==
  [kind \in {"request", "podFailure", "overrun", "userPut", "userDelete", "scaleError",
             "controllerCrash"} |->
     CASE kind = "request" -> requests
       [] kind \in {"podFailure", "scaleError"} -> failures
       [] OTHER -> 0]

\* Backlog, two items and three pods: one replica, a pod or a scaling that fails.
D == INSTANCE Backlog WITH
  Names <- {"n1", "n2"}, Pods <- {"p1", "p2", "p3"}, Creators <- {"c1"}, Priorities <- {2},
  MaxReplicas <- 1, ItemsPerReplica <- 1, WatchExpires <- TRUE, Budget <- Few(2, 1),
  budget <- disturbances

OneFails == disturbances'["podFailure"] + disturbances'["scaleError"] >= 1

\* Up to two replicas; nothing fails.
K == INSTANCE Backlog WITH
  Names <- {"n1", "n2"}, Pods <- {"p1", "p2", "p3"}, Creators <- {"c1"}, Priorities <- {2},
  MaxReplicas <- 2, ItemsPerReplica <- 1, WatchExpires <- FALSE, Budget <- Few(2, 0),
  budget <- disturbances

\* Components: two repositories of <auto>, the first of which does not have the component, a third
\* one that is asked for, two pods, and a virtual repository of the last two, of which the third one
\* counts with its first version only.  The dashboard asks the latter for the newest version, with a
\* filter that both versions pass.
Repos == {"r1", "r2", "rx"}
TwoRepos == [v \in {"both"} |-> {"r2", "rx"}]
CoversDef == [r \in Repos |-> IF r = "r1" THEN {} ELSE {"c1"}]
PassesDef == [k \in (Repos \union {"both", None}) \X Repos |->
                IF k = <<"both", "rx">> THEN {1} ELSE {1, 2}]
BothUpgrades == {[source |-> "g", name |-> "c1", state |-> "open"],
                 [source |-> "g", name |-> "c2", state |-> "closed"]}
Lookup(version, repo, only) == [name |-> "c1", version |-> version, repo |-> repo, only |-> only]
FiveLookups == {Lookup(None, None, FALSE), Lookup(None, "both", FALSE), Lookup(1, None, FALSE),
                Lookup(1, "rx", FALSE), Lookup(1, "rx", TRUE)}
Poll == [name |-> "c1", repo |-> "both", filter |-> <<{1, 2}>>, max |-> 1]
OnePoll == {Poll}
ComponentsLimit == [call |-> 3, publish |-> 2, pulls |-> 2, deny |-> 1, upgrade |-> 1, forget |-> 1]
C == INSTANCE Components WITH
  Names <- {"c1"}, Releases <- {1, 2}, Repositories <- Repos, AutoRepos <- <<"r1", "r2">>,
  Virtual <- TwoRepos, Covers <- CoversDef, Passes <- PassesDef, Upgrades <- BothUpgrades,
  Services <- {"s1", "s2"}, Calls <- FiveLookups, Polls <- OnePoll,
  seen <- noticed, Limit <- ComponentsLimit, MaxFaults <- 3, spent <- spentC, left <- leftC

\* Requests for components or for upgrades, which have a cache of their own.
OneKindOfRequest == spentC'["call"] = 0 \/ spentC'["pulls"] = 0

\* Access: one extension, two pods, two keys; requests are repeated once.
AccessLimit == [net |-> 2, rotate |-> 3, restart |-> 1]
A == INSTANCE ServiceAccess WITH
  Apps <- {"a1"}, Pods <- {"p1", "p2"}, SigningKeys <- {"k1", "k2"}, FirstKey <- "k1",
  MaxRetries <- 1, secrets <- keys,
  Limit <- AccessLimit, MaxFaults <- 4, spent <- spentA, left <- leftA

ASSUME InstanceAssumption == C!ComponentsAssumption /\ A!AccessAssumption

backlogState == <<revision, items, overdue, phase, wants, job, caller, controller, pending,
                  replicas, disturbances>>
componentsState == <<published, denied, memory, stored, listings, call, upgrades, pulls, noticed,
                     spentC, leftC>>
accessState == <<keys, loaded, verified, client, careful, spentA, leftA>>

\* Operator: everything happens once, but at most two kinds of it in a behaviour.
TwoDisturbances == Cardinality({kind \in Kinds : budget'[kind] = 0}) <= 2

PartsInit ==
  /\ part \in {"operator", "drain", "idle", "components", "access"}
  /\ Init
  /\ IF part = "drain" THEN D!Init ELSE K!Init
  /\ upgrades = IF part = "components" THEN BothUpgrades ELSE {}
  /\ C!ComponentsInit
  /\ A!AccessInit

PartsNext ==
  \/ /\ part = "operator" /\ Next /\ TwoDisturbances
     /\ UNCHANGED <<part, backlogState, componentsState, accessState>>
  \/ /\ part = "drain" /\ D!Next /\ OneFails
     /\ UNCHANGED <<part, vars, componentsState, accessState>>
  \/ /\ part = "idle" /\ K!Next
     /\ UNCHANGED <<part, vars, componentsState, accessState>>
  \/ /\ part = "components" /\ C!ComponentsNext /\ OneKindOfRequest
     /\ UNCHANGED <<part, vars, backlogState, accessState>>
  \/ /\ part = "access" /\ A!AccessNext
     /\ UNCHANGED <<part, vars, backlogState, componentsState>>

PartsSpec ==
  PartsInit /\ [][PartsNext]_<<part, vars, backlogState, componentsState, accessState>>

\* The fairness of Backlog, of each of the two instances.
DrainFairness ==
  /\ WF_backlogState(part = "drain" /\ D!FindItem("c1"))
  /\ WF_backlogState(part = "drain" /\ D!PatchPriority("c1"))
  /\ \A p \in {"p1", "p2", "p3"} : WF_backlogState(part = "drain" /\ D!Step(p))
  /\ WF_backlogState(part = "drain" /\ \E p \in {"p1", "p2", "p3"} : D!StartPod(p))
  /\ WF_backlogState(part = "drain" /\ \E p \in {"p1", "p2", "p3"} :
                       Cardinality(D!Active) > replicas /\ D!StopPod(p))
  /\ WF_backlogState(part = "drain" /\ D!OnBacklogChange)
  /\ WF_backlogState(part = "drain" /\ D!RestartController)
  /\ WF_backlogState(part = "drain" /\ D!ResetWatch)
  /\ \A n \in {"n1", "n2"} : WF_backlogState(part = "drain" /\ D!AgeOrphan(n))
IdleFairness ==
  /\ WF_backlogState(part = "idle" /\ K!FindItem("c1"))
  /\ WF_backlogState(part = "idle" /\ K!PatchPriority("c1"))
  /\ \A p \in {"p1", "p2", "p3"} : WF_backlogState(part = "idle" /\ K!Step(p))
  /\ WF_backlogState(part = "idle" /\ \E p \in {"p1", "p2", "p3"} : K!StartPod(p))
  /\ WF_backlogState(part = "idle" /\ \E p \in {"p1", "p2", "p3"} :
                       Cardinality(K!Active) > replicas /\ K!StopPod(p))
  /\ WF_backlogState(part = "idle" /\ K!OnBacklogChange)
  /\ WF_backlogState(part = "idle" /\ K!RestartController)
  /\ WF_backlogState(part = "idle" /\ K!ResetWatch)
  /\ \A n \in {"n1", "n2"} : WF_backlogState(part = "idle" /\ K!AgeOrphan(n))

\* C!ComponentsFairness and A!AccessFairness.
ComponentsFairness ==
  /\ WF_componentsState(part = "components" /\ C!PollVersions(Poll))
  /\ WF_componentsState(part = "components" /\ C!ListingExpires(<<"c1", "both", <<{1, 2}>>>>))
AccessFairness ==
  /\ WF_accessState(part = "access" /\ A!ClientStep("a1"))
  /\ WF_accessState(part = "access" /\ A!Age("a1"))
  /\ \A p \in {"p1", "p2"} : WF_accessState(part = "access" /\ A!Reload(p))

\* Backlog: every item is processed in the end, although a pod or a scaling fails.
EveryItemLeaves == (part = "drain" /\ DrainFairness) => D!EveryItemLeaves

\* Backlog: an extension without items is scaled down to no pod.
IdleIsScaledDown == (part = "idle" /\ IdleFairness) => K!IdleIsScaledDown

\* Components: look-ups and lists of pull requests answer what was asked, whatever is cached, and
\* new versions are seen in the end.
LookupsAreSound ==
  (part = "components" /\ ComponentsFairness)
  => /\ [](part = "components" => C!LookupsAreSound)
     /\ <>[](part = "components" => C!VersionsSeen)

\* ServiceAccess: rotations go unnoticed, and clients recover.
AccessIsReliable ==
  (part = "access" /\ AccessFairness) => ([]A!RotationIsSeamless /\ A!ClientsRecover)
=============================================================================
