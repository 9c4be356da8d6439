----------------------------- MODULE Responsibles -----------------------------
(***************************************************************************)
(* Who is responsible for the findings of an artefact: the route of the    *)
(* delivery-service that answers from labels or contributor statistics     *)
(* (responsibles), the extension that determines responsibles by rules     *)
(* (responsibles_extension), and the issue replicator that assigns them.   *)
(***************************************************************************)
EXTENDS Faults, Sequences

CONSTANTS
  Assignable,     \* users that may be assigned to issues of the repository
  Contributors,   \* sets of users the heuristic may determine
  Labels,         \* [artefact, component]: the labels of a component descriptor, each None or
                  \* [malformed, users]; None if the component has no artefact of that name
  Overwrites,     \* responsibles of scan infos: None or [users, mode]
  Configurations, \* sequences of rules [matches, strategies, mode]
  DefaultMode,    \* default_assignee_mode
  Sprints,        \* number of sprints, with an issue each
  MaxPolls        \* requests for responsibles before a client gives up

ElementsOf(sequence) == {sequence[i] : i \in DOMAIN sequence}
Strategies ==
  UNION {UNION {ElementsOf(rule.strategies) : rule \in ElementsOf(c)} : c \in Configurations}

ASSUME ResponsiblesAssumption ==
  /\ \A c \in Configurations : \A rule \in ElementsOf(c) : rule.strategies \in Seq(Strategies)
  /\ DefaultMode \in {"extend", "overwrite", "skip"}
  /\ Sprints \in Nat /\ MaxPolls \in Nat \ {0}

VARIABLES
  label,        \* of the component and the artefact
  contributors, \* what the heuristic determines from the present statistics
  computed,     \* GitHub has computed the statistics
  statistics,   \* cache in the process: repo_contributor_statistics, or None
  identities,   \* cache in the process: user_identities, or None
  response,     \* cache in the delivery-db: response of the route, or None
  rules,        \* configuration of the extension
  overwrite,    \* responsibles of the scan info
  info,         \* the stored responsibles [users, mode, by], or None; by: its strategies (history)
  issues,       \* issues[s]: assignees of the issue for sprint s, or None
  extension,    \* locals of update_responsibles
  replicator,   \* locals of replicate_issue
  right         \* history: the answers that were right at some time

responsiblesVars == <<label, contributors, computed, statistics, identities, response, rules,
                      overwrite, info, issues, extension, replicator, right, faults>>
world == <<label, contributors, computed, right>>
caches == <<statistics, identities, response>>

Idle == [pc |-> "idle", todo |-> <<>>, users |-> {}, mode |-> None, by |-> <<>>, polls |-> 0]
IdleReplicator ==
  [pc |-> "idle", users |-> {}, mode |-> None, polls |-> 0, sprint |-> 1, known |-> <<>>]

\* find_responsibles_label: a label of the artefact comes before one of the component.
TheLabel == IF label.artefact # None THEN label.artefact ELSE label.component
IsLabelled == TheLabel # None /\ ~TheLabel.malformed
RightAnswer == IF label = None THEN {} ELSE IF IsLabelled THEN TheLabel.users ELSE contributors

ResponsiblesInit ==
  /\ FaultsInit
  /\ label \in Labels
  /\ contributors \in Contributors
  /\ computed = FALSE
  /\ statistics = None
  /\ identities = None
  /\ response = None
  /\ rules \in Configurations
  /\ overwrite = None
  /\ info = None
  /\ issues = [s \in 1..Sprints |-> None]
  /\ extension = Idle
  /\ replicator = IdleReplicator
  /\ right = {RightAnswer}

-----------------------------------------------------------------------------
(* The route: one handler at a time, as it calls GitHub synchronously *)

\* Mutant: pending statistics are no statistics.
PendingIsNobody == IF computed THEN contributors ELSE {}
\* What GitHub answers; None: it is still computing (status 202).
Fetched == IF computed THEN contributors ELSE None

\* repo_contributor_statistics: None is not cached.
Statistics == IF statistics # None THEN statistics ELSE Fetched

\* The cached response, the label, or the heuristic, unless its statistics are pending: None.
Answer ==
  IF label = None THEN {}
  ELSE IF response # None THEN response
  ELSE IF IsLabelled THEN TheLabel.users
  ELSE IF Statistics = None THEN None
  ELSE IF identities # None THEN identities ELSE Statistics

\* ComponentResponsibles.get: neither a pending (202) nor an absent answer (404) is cached.
Get ==
  /\ response' = IF label = None THEN None ELSE Answer
  /\ IF label = None \/ response # None \/ IsLabelled
       THEN UNCHANGED <<statistics, identities>>
       ELSE /\ statistics' = Statistics
            /\ identities' = IF Statistics = None THEN identities ELSE Answer

-----------------------------------------------------------------------------
(* The extension *)

Matching == {i \in DOMAIN rules : rules[i].matches}

\* The first matching rule is used; without one, nothing is stored.
StartExtension ==
  /\ extension.pc = "idle"
  /\ \E i \in Matching :
       /\ \A j \in Matching : i <= j
       /\ extension' = [Idle EXCEPT !.pc = "collect", !.mode = rules[i].mode,
                                    !.todo = rules[i].strategies, !.by = rules[i].strategies]
  /\ UNCHANGED <<world, caches, rules, overwrite, info, issues, replicator, faults>>

\* A client asks again while the answer is pending, until it gives up.
Polled(worker, idle) ==
  IF worker.polls + 1 = MaxPolls THEN idle ELSE [worker EXCEPT !.polls = @ + 1]

\* The users of all strategies are taken together.
Collect ==
  LET strategy == Head(extension.todo)
      With(users) == [extension EXCEPT !.todo = Tail(@), !.users = @ \union users, !.polls = 0]
  IN /\ extension.pc = "collect"
     /\ extension.todo # <<>>
     /\ \/ /\ strategy.kind = "static"
           /\ extension' = With(strategy.users)
           /\ UNCHANGED caches
        \/ /\ strategy.kind = "component"
           /\ Get
           /\ extension' = IF Answer = None THEN Polled(extension, Idle) ELSE With(Answer)
     /\ UNCHANGED <<world, rules, overwrite, info, issues, replicator, faults>>

StoreInfo ==
  /\ extension.pc = "collect"
  /\ extension.todo = <<>>
  /\ info' = [users |-> extension.users, mode |-> extension.mode, by |-> extension.by]
  /\ extension' = Idle
  /\ UNCHANGED <<world, caches, rules, overwrite, issues, replicator, faults>>

-----------------------------------------------------------------------------
(* The issue replicator: _responsibles, _github_assignees, update_issue *)

\* Mutant: an empty list of responsibles does not overwrite anything.
UnlessEmpty == IF overwrite # None /\ overwrite.users = {} THEN None ELSE overwrite
\* "explicitly check for `None` here as an empty list is allowed to overwrite responsibles"
Overwriting == overwrite

\* With users that may be assigned, to the issues.
ToIssues(users, mode) ==
  [replicator EXCEPT !.pc = "list", !.users = users \intersect Assignable,
                     !.mode = IF mode = None THEN DefaultMode ELSE mode]

\* The scan infos are queried with the findings.
StartReplication ==
  /\ replicator.pc = "idle"
  /\ replicator' = IF Overwriting # None THEN ToIssues(overwrite.users, overwrite.mode)
                   ELSE [replicator EXCEPT !.pc = "infos"]
  /\ UNCHANGED <<world, caches, rules, overwrite, info, issues, extension, faults>>

QueryInfos ==
  /\ replicator.pc = "infos"
  /\ replicator' = IF info # None THEN ToIssues(info.users, info.mode)
                   ELSE [replicator EXCEPT !.pc = "ask"]
  /\ UNCHANGED <<world, caches, rules, overwrite, info, issues, extension, faults>>

AskService ==
  /\ replicator.pc = "ask"
  /\ Get
  /\ replicator' = IF Answer = None THEN Polled(replicator, IdleReplicator)
                   ELSE ToIssues(Answer, None)
  /\ UNCHANGED <<world, rules, overwrite, info, issues, extension, faults>>

\* The issues are listed once for all sprints.
ListIssues ==
  /\ replicator.pc = "list"
  /\ replicator' = [replicator EXCEPT !.pc = "edit", !.known = issues]
  /\ UNCHANGED <<world, caches, rules, overwrite, info, issues, extension, faults>>

\* update_issue: to extend the assignees, it adds those the issue had when it was listed to the set
\* it was passed, which is the one the next issues are edited with.
Extended(users, known) ==
  IF replicator.mode = "extend" /\ known # None THEN users \union known ELSE users

\* create_issue or update_issue for the next sprint, in state "edit".
EditIssue ==
  LET s == replicator.sprint
      known == replicator.known[s]
      users == Extended(replicator.users, known)
  IN /\ replicator.pc = "edit"
     /\ issues' = IF replicator.mode = "skip" /\ known \notin {None, {}} THEN issues
                  ELSE [issues EXCEPT ![s] = users]
     /\ replicator' = IF s = Sprints THEN IdleReplicator
                      ELSE [replicator EXCEPT !.sprint = @ + 1, !.users = users]
     /\ UNCHANGED <<world, caches, rules, overwrite, info, extension, faults>>

-----------------------------------------------------------------------------
(* GitHub, caches, users and operators *)

ComputeStatistics ==
  /\ ~computed
  /\ computed' = TRUE
  /\ UNCHANGED <<label, contributors, right, caches, rules, overwrite, info, issues, extension,
                 replicator, faults>>

\* Commits are pushed: GitHub computes the statistics anew when it is asked for them.
Push ==
  /\ Spend("push")
  /\ contributors' \in Contributors \ {contributors}
  /\ computed' = FALSE
  /\ UNCHANGED label
  /\ right' = right \union {RightAnswer'}
  /\ UNCHANGED <<caches, rules, overwrite, info, issues, extension, replicator>>

\* A cache in the process forgets after a day, or with it; the cache manager prunes the other one.
Forget ==
  /\ Spend("forget")
  /\ \/ statistics' = None /\ UNCHANGED <<identities, response>>
     \/ identities' = None /\ UNCHANGED <<statistics, response>>
     \/ response' = None /\ UNCHANGED <<statistics, identities>>
  /\ UNCHANGED <<world, rules, overwrite, info, issues, extension, replicator>>

\* An extension scans the artefact and stores its scan info.
Rescan ==
  /\ Spend("rescan")
  /\ overwrite' \in Overwrites
  /\ UNCHANGED <<world, caches, rules, info, issues, extension, replicator>>

Reconfigure ==
  /\ Spend("configure")
  /\ rules' \in Configurations
  /\ UNCHANGED <<world, caches, overwrite, info, issues, extension, replicator>>

\* A user changes the assignees of an issue.
Assign(s) ==
  /\ Spend("assign")
  /\ issues[s] # None
  /\ \E users \in SUBSET Assignable : issues' = [issues EXCEPT ![s] = users]
  /\ UNCHANGED <<world, caches, rules, overwrite, info, extension, replicator>>

\* A worker is killed, or one of its requests fails for good.
FailWorker ==
  /\ Spend("fail")
  /\ \/ extension' = Idle /\ UNCHANGED replicator
     \/ replicator' = IdleReplicator /\ UNCHANGED extension
  /\ UNCHANGED <<world, caches, rules, overwrite, info, issues>>

-----------------------------------------------------------------------------

ExtensionStep == StartExtension \/ Collect \/ StoreInfo
ReplicatorStep == StartReplication \/ QueryInfos \/ AskService \/ ListIssues \/ EditIssue

ResponsiblesNext ==
  \/ ExtensionStep
  \/ ReplicatorStep
  \/ ComputeStatistics \/ Push \/ Forget
  \/ Rescan \/ Reconfigure
  \/ \E s \in 1..Sprints : Assign(s)
  \/ FailWorker

\* Both workers get items again and again, and GitHub computes in the end.
ResponsiblesFairness ==
  /\ WF_responsiblesVars(ExtensionStep)
  /\ WF_responsiblesVars(ReplicatorStep)
  /\ WF_responsiblesVars(ComputeStatistics)

ResponsiblesSpec ==
  ResponsiblesInit /\ [][ResponsiblesNext]_responsiblesVars /\ ResponsiblesFairness

-----------------------------------------------------------------------------
(* Properties *)

\* A rule that only asks the service.
OnlyAsks(strategies) == \A i \in DOMAIN strategies : strategies[i].kind = "component"

\* Users that were answered to these strategies, each of the answers right at some time.
AreRight(users, strategies) ==
  \E answers \in [DOMAIN strategies -> right] :
    users = UNION {answers[i] : i \in DOMAIN strategies}

\* Statistics that are pending are never taken for a repository without contributors: the response
\* that is cached for good, and the responsibles the extension stored because of such ones, were
\* right at some time.
AnswersAreReal ==
  /\ response # None => response \in right
  /\ info # None /\ OnlyAsks(info.by) => AreRight(info.users, info.by)

\* An update that is to extend or skip the assignees keeps those the issue had when it was listed.
AssigneesAreKept ==
  [][\A s \in 1..Sprints :
       replicator.pc = "edit" /\ replicator' # replicator /\ replicator.known[s] # None
         /\ replicator.mode \in {"extend", "skip"} =>
           issues[s] \intersect replicator.known[s] \subseteq issues'[s]]_responsiblesVars

Target ==
  IF overwrite # None THEN overwrite
  ELSE IF info # None THEN info
  ELSE [users |-> IF label = None THEN {} ELSE response, mode |-> None]

Follows(assignees) ==
  LET users == Target.users \intersect Assignable
      mode == IF Target.mode = None THEN DefaultMode ELSE Target.mode
  IN CASE mode = "extend" -> users \subseteq assignees
       [] mode = "overwrite" -> assignees = users
       [] mode = "skip" -> users # {} => assignees # {}

\* In the end the assignees of every issue are those of the scan info, of the extension, or of the
\* service, in this order, put into effect as their mode says.
AssigneesFollow ==
  <>[](/\ Target.users # None
       /\ \A s \in 1..Sprints : issues[s] # None /\ Follows(issues[s]))
=============================================================================
