----------------------------- MODULE Components -----------------------------
(***************************************************************************)
(* How the service finds component descriptors (src/lookups.py,            *)
(* src/components.py): OCM repositories are consulted in the order of      *)
(* their configuration, through a cache in the memory of each pod and one  *)
(* in the database that all pods share; lists of versions and of upgrade   *)
(* pull requests are cached in the database for a while.                   *)
(***************************************************************************)
EXTENDS Faults, FiniteSets, Sequences

CONSTANTS
  Names,         \* components
  Releases,      \* versions, in ascending order
  Repositories,  \* OCM repositories
  AutoRepos,     \* the sequence of those of the virtual repository <auto>
  Virtual,       \* Virtual[v]: members of the virtual repository with the name v
  Covers,        \* Covers[r]: components that pass the filter of repository r
  Passes,        \* Passes[<<v, r>>]: versions that pass the filter of r, as a member of v
  Upgrades,      \* [source, name, state]: pull requests that upgrade a component
  Services,      \* pods of the delivery service
  Calls,         \* requests: [name, version, repo, only]; no version is the greatest one
  Polls          \* requests for versions: [name, repo, filter, max]; 0 stands for all of them

\* What a request may name as its repository; without one it is about <auto>.
Named == Repositories \union DOMAIN Virtual \union {None}

\* A filter is the set of the versions that match it; None is passed if the request has none.
\* (The greatest version is asked for without this argument, which makes another cache key.)
NoFilter == <<>>
PassedFilters == {<<filter>> : filter \in {None} \union SUBSET Releases}

ComponentsAssumption ==
  /\ Releases \subseteq Nat /\ IsFiniteSet(Releases)
  /\ AutoRepos \in Seq(Repositories)
  /\ Virtual \in [DOMAIN Virtual -> SUBSET Repositories]
  /\ Covers \in [Repositories -> SUBSET Names]
  /\ Passes \in [Named \X Repositories -> SUBSET Releases]
  /\ Calls \subseteq [name : Names, version : Releases \union {None},
                      repo : Named, only : BOOLEAN]
  /\ Polls \subseteq [name : Names, repo : Named, filter : PassedFilters,
                      max : Nat]
  /\ None \notin Releases /\ None \notin Repositories \union DOMAIN Virtual
  /\ DOMAIN Virtual \intersect Repositories = {}
  /\ {"unknown", "denied"} \intersect Repositories = {}

VARIABLES
  published,   \* published[r]: pairs of a component and a version
  denied,      \* repositories and names that may not be read
  memory,      \* memory[s]: cached descriptors, [key, content]
  stored,      \* the same for the cache in the database
  listings,    \* listings[<<name, repo, filter>>]: cached component_versions, or None
  call,        \* call[s]: the request that pod s handles
  upgrades,    \* open and closed upgrade pull requests
  pulls,       \* pulls[<<source, state>>]: cached retrieve_upgrade_prs, or None
  seen         \* seen[p]: the latest answer to poll p

componentVars == <<published, denied, memory, stored, listings, call, upgrades, pulls, seen,
                   faults>>

PullSources == {u.source : u \in Upgrades}
PullStates == {u.state : u \in Upgrades}
Filters == {p.filter : p \in Polls} \union {NoFilter}
Listed == Names \X Named \X Filters
NoCall == [pc |-> "idle", for |-> None, version |-> None, value |-> None]

ComponentsInit ==
  /\ FaultsInit
  /\ published = [r \in Repositories \union DOMAIN Virtual |-> {}]
  /\ denied = {}
  /\ memory = [s \in Services |-> {}]
  /\ stored = {}
  /\ listings = [k \in Listed |-> None]
  /\ call = [s \in Services |-> NoCall]
  /\ upgrades \in SUBSET Upgrades
  /\ pulls = [k \in PullSources \X PullStates |-> None]
  /\ seen = [p \in Polls |-> {}]

Proceed(s, pc, for, version, value) ==
  call' = [call EXCEPT ![s] = [pc |-> pc, for |-> for, version |-> version, value |-> value]]
Return(s, value) == Proceed(s, "done", call[s].for, call[s].version, value)

-----------------------------------------------------------------------------
(* Repositories *)

\* resolve_ocm_repository_cfgs: the members of a virtual repository, or the one asked for.
Members(repo) ==
  IF repo = None THEN {AutoRepos[i] : i \in DOMAIN AutoRepos}
  ELSE IF repo \in DOMAIN Virtual THEN Virtual[repo] ELSE {repo}

\* component_matches
VersionRepos(name, repo) == {r \in Members(repo) : name \in Covers[r]}

\* extended_ocm_repository_lookup: the one asked for, under the name it was asked for also if it is
\* a virtual one, and then those of <auto>, by their positions.
RepoAt(c, i) == IF i = 0 THEN c.repo ELSE AutoRepos[i]
LookupPositions(c) ==
  {i \in 0 .. Len(AutoRepos) :
     IF i = 0 THEN c.repo # None
     ELSE (c.repo = None \/ ~c.only) /\ c.name \in Covers[AutoRepos[i]]}
LookupRepos(c) == {RepoAt(c, i) : i \in LookupPositions(c)}
First(positions) == CHOOSE i \in positions : \A j \in positions : i <= j

\* iter_matching_versions: the filter of the request replaces that of the repository.
VersionsMatching(repo, r, filter) ==
  IF filter \in {NoFilter, <<None>>} THEN Passes[<<repo, r>>] ELSE filter[1]

\* component_versions: repositories without access are skipped.  None stands for "not found",
\* which is not cached.
ComponentVersions(name, repo, filter) ==
  LET consulted == VersionRepos(name, repo)
      found == {v \in Releases : \E r \in consulted \ denied :
                  <<name, v>> \in published[r] /\ v \in VersionsMatching(repo, r, filter)}
  IN IF found = {} /\ consulted \intersect denied # {} THEN None ELSE found

Greatest(versions) == CHOOSE v \in versions : \A w \in versions : w <= v

\* find_cached_value
FreshListing(key) ==
  IF listings[key] = None \/ listings[key].stale THEN None ELSE listings[key].versions

\* dbcached_function: the cached versions, or those that are listed and cached now.
ListedVersions(name, repo, filter) ==
  IF FreshListing(<<name, repo, filter>>) # None THEN FreshListing(<<name, repo, filter>>)
  ELSE ComponentVersions(name, repo, filter)

CacheListing(name, repo, filter) ==
  LET key == <<name, repo, filter>>
      versions == ComponentVersions(name, repo, filter)
  IN listings' = IF FreshListing(key) # None \/ versions = None THEN listings
                 ELSE [listings EXCEPT ![key] = [versions |-> versions, stale |-> FALSE]]

-----------------------------------------------------------------------------
(* Component.get *)

BeginCall(s) ==
  /\ call[s].pc = "idle"
  /\ Spend("call")
  /\ \E c \in Calls :
       Proceed(s, IF c.version = None THEN "list" ELSE "lookup", c, c.version, None)
  /\ UNCHANGED <<published, denied, memory, stored, listings, upgrades, pulls, seen>>

\* greatest_version_if_none
GreatestVersionIfNone(s) ==
  LET c == call[s].for
      versions == ListedVersions(c.name, c.repo, NoFilter)
  IN /\ call[s].pc = "list"
     /\ IF versions \in {None, {}}
        THEN Return(s, "unknown")
        ELSE Proceed(s, "lookup", c, Greatest(versions), None)
     /\ CacheListing(c.name, c.repo, NoFilter)
     /\ UNCHANGED <<published, denied, memory, stored, upgrades, pulls, seen, faults>>

\* Mutant: the repository is no part of the key.
WithoutRepo(repo, c) == <<None, c.for.name, c.version>>
\* CachedComponentDescriptor
CacheKey(repo, c) == <<repo, c.for.name, c.version>>

\* The value of the first repository of the look-up that has one; the content is named by the
\* repository it was read from.
CachedIn(cache, c) ==
  LET Hit(i, e) == e.key = CacheKey(RepoAt(c.for, i), c)
      hits == {i \in LookupPositions(c.for) : \E e \in cache : Hit(i, e)}
  IN IF hits = {} THEN None ELSE (CHOOSE e \in cache : Hit(First(hits), e)).content

Entry(content, c) == [key |-> CacheKey(content, c), content |-> content]

\* in_memory_cache_component_descriptor_lookup, then db_cache_component_descriptor_lookup.
LookupDescriptor(s) ==
  LET c == call[s]
      local == CachedIn(memory[s], c)
      shared == CachedIn(stored, c)
  IN /\ c.pc = "lookup"
     /\ IF local # None THEN Return(s, local) /\ UNCHANGED memory
        ELSE IF shared # None
        THEN Return(s, shared) /\ memory' = [memory EXCEPT ![s] = @ \union {Entry(shared, c)}]
        ELSE Proceed(s, "fetch", c.for, c.version, None) /\ UNCHANGED memory
     /\ UNCHANGED <<published, denied, stored, listings, upgrades, pulls, seen, faults>>

\* oci_component_descriptor_lookup: the first repository that has it.  A repository that may
\* not be read makes the request fail.
FetchDescriptor(s) ==
  LET c == call[s]
      tried == {i \in LookupPositions(c.for) :
                  \/ RepoAt(c.for, i) \in denied
                  \/ <<c.for.name, c.version>> \in published[RepoAt(c.for, i)]}
      first == RepoAt(c.for, First(tried))
  IN /\ c.pc = "fetch"
     /\ IF tried = {} THEN Return(s, "unknown")
        ELSE IF first \in denied THEN Return(s, "denied")
        ELSE Proceed(s, "writeback", c.for, c.version, first)
     /\ UNCHANGED <<published, denied, memory, stored, listings, upgrades, pulls, seen, faults>>

\* The write-backs of the caches that had no value.
WriteBack(s) ==
  LET c == call[s]
      entry == Entry(c.value, c)
  IN /\ c.pc = "writeback"
     /\ memory' = [memory EXCEPT ![s] = @ \union {entry}]
     /\ stored' = stored \union {entry}
     /\ Return(s, c.value)
     /\ UNCHANGED <<published, denied, listings, upgrades, pulls, seen, faults>>

-----------------------------------------------------------------------------
(* UpgradePRs.get *)

\* iter_upgrade_pullrequests: those of one component, or all of the repository.
PullsOf(source, name, state) ==
  {u \in upgrades : u.source = source /\ u.state = state /\ (name = None \/ u.name = name)}

\* dbcached_function: the arguments; the component is a variable of the enclosing function.
PullsKey(source, state) == <<source, state>>

\* (listed: the component the cached list has been made for.)
UpgradePRs(s) ==
  /\ call[s].pc = "idle"
  /\ Spend("pulls")
  /\ \E source \in PullSources, state \in PullStates, name \in Names \union {None} :
       LET key == PullsKey(source, state)
           found == IF pulls[key] # None /\ ~pulls[key].stale THEN pulls[key].found
                    ELSE PullsOf(source, name, state)
           listed == IF pulls[key] # None /\ ~pulls[key].stale THEN pulls[key].name ELSE name
       IN /\ Proceed(s, "pulled",
                     [source |-> source, state |-> state, name |-> name, listed |-> listed],
                     None, found)
          /\ pulls' = [pulls EXCEPT ![key] = [found |-> found, stale |-> FALSE, name |-> listed]]
  /\ UNCHANGED <<published, denied, memory, stored, listings, upgrades, seen>>

Finished(s) ==
  /\ call[s].pc \in {"done", "pulled"}
  /\ call' = [call EXCEPT ![s] = NoCall]
  /\ UNCHANGED <<published, denied, memory, stored, listings, upgrades, pulls, seen, faults>>

-----------------------------------------------------------------------------
(* The environment *)

\* versions[-max:], which are all of them for 0.
Newest(max, versions) ==
  {v \in versions : max = 0 \/ Cardinality({w \in versions : w > v}) < max}

\* greatest_component_versions: the artefact enumerator, the cache manager and the dashboard ask
\* for the newest versions again and again.
PollVersions(p) ==
  LET versions == ListedVersions(p.name, p.repo, p.filter)
  IN /\ UNCHANGED <<published, denied, memory, stored, call, upgrades, pulls, faults>>
     /\ versions # None
     /\ seen' = [seen EXCEPT ![p] = Newest(p.max, versions)]
     /\ CacheListing(p.name, p.repo, p.filter)

Publish(r, name, v) ==
  /\ <<name, v>> \notin published[r]
  /\ Spend("publish")
  /\ published' = [published EXCEPT ![r] = @ \union {<<name, v>>}]
  /\ UNCHANGED <<denied, memory, stored, listings, call, upgrades, pulls, seen>>

\* Credentials expire, or are configured again; a registry refuses what is no name of a repository.
Deny(r) ==
  /\ Spend("deny")
  /\ denied' = IF r \in denied THEN denied \ {r} ELSE denied \union {r}
  /\ UNCHANGED <<published, memory, stored, listings, call, upgrades, pulls, seen>>

\* The time to live of a cached value is over (a minute, an hour).
ListingExpires(key) ==
  /\ listings[key] # None
  /\ ~listings[key].stale
  /\ listings' = [listings EXCEPT ![key].stale = TRUE]
  /\ UNCHANGED <<published, denied, memory, stored, call, upgrades, pulls, seen, faults>>

\* A pull request is closed, and its cached list expires.
Upgrade(u) ==
  /\ u \in upgrades
  /\ Spend("upgrade")
  /\ upgrades' = upgrades \ {u}
  /\ pulls' = [k \in DOMAIN pulls |->
                 IF pulls[k] = None THEN None
                 ELSE [found |-> pulls[k].found, stale |-> TRUE, name |-> pulls[k].name]]
  /\ UNCHANGED <<published, denied, memory, stored, listings, call, seen>>

\* A pod is restarted, or the cache manager deletes entries (prune_cache).
ForgetCaches(s) ==
  /\ Spend("forget")
  /\ \/ memory' = [memory EXCEPT ![s] = {}] /\ call' = [call EXCEPT ![s] = NoCall]
        /\ UNCHANGED stored
     \/ stored' = {} /\ UNCHANGED <<memory, call>>
  /\ UNCHANGED <<published, denied, listings, upgrades, pulls, seen>>

-----------------------------------------------------------------------------
ComponentsNext ==
  \/ \E s \in Services :
       \/ BeginCall(s) \/ GreatestVersionIfNone(s) \/ LookupDescriptor(s) \/ FetchDescriptor(s)
       \/ WriteBack(s) \/ UpgradePRs(s) \/ Finished(s) \/ ForgetCaches(s)
  \/ \E p \in Polls : PollVersions(p)
  \/ \E key \in Listed : ListingExpires(key)
  \/ \E r \in Repositories, name \in Names, v \in Releases : Publish(r, name, v)
  \/ \E r \in Repositories \union DOMAIN Virtual : Deny(r)
  \/ \E u \in Upgrades : Upgrade(u)

ComponentsFairness ==
  \A p \in Polls :
    /\ WF_componentVars(PollVersions(p))
    /\ WF_componentVars(ListingExpires(<<p.name, p.repo, p.filter>>))

ComponentsSpec ==
  ComponentsInit /\ [][ComponentsNext]_componentVars /\ ComponentsFairness

-----------------------------------------------------------------------------
(* Properties *)

\* A descriptor comes from a repository that the request allows, whatever other requests have
\* put into the caches, and it was published there.
DescriptorsComeFromLookup ==
  \A s \in Services :
    call[s].pc = "done" /\ call[s].value \in Repositories =>
      /\ call[s].value \in LookupRepos(call[s].for)
      /\ <<call[s].for.name, call[s].version>> \in published[call[s].value]

\* The greatest version that is listed can be resolved, if all repositories it may be listed from
\* are consulted: not those of a virtual repository that <auto> does not contain, as this is looked
\* up by its name.
GreatestResolves ==
  \A s \in Services :
    LET c == call[s].for
    IN /\ call[s].pc = "done" /\ c.version = None /\ call[s].version # None
       /\ VersionRepos(c.name, c.repo) \subseteq LookupRepos(c)
       => call[s].value # "unknown"

\* A cached list of upgrade pull requests answers the question that is asked, if it was made for
\* the component that is asked for.
UpgradesMatch ==
  \A s \in Services :
    call[s].pc = "pulled" /\ call[s].for.listed = call[s].for.name =>
      \A u \in call[s].value :
        /\ <<u.source, u.state>> = <<call[s].for.source, call[s].for.state>>
        /\ call[s].for.name \in {None, u.name}

LookupsAreSound == DescriptorsComeFromLookup /\ GreatestResolves /\ UpgradesMatch

\* The latest answer to every poll is up to date, if it may read one of the repositories.
VersionsSeen ==
  \A p \in Polls :
    LET versions == ComponentVersions(p.name, p.repo, p.filter)
    IN versions # None => seen[p] = Newest(p.max, versions)

\* Although lists of versions are cached: polls get the newest matching versions in the end, and no
\* others.
VersionsAreSeen == <>[]VersionsSeen
=============================================================================
