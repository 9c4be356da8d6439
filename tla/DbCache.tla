------------------------------- MODULE DbCache -------------------------------
(***************************************************************************)
(* Results of functions and routes cached in the delivery-db               *)
(* (src/deliverydb/cache_async.py, src/deliverydb_cache), and the cache    *)
(* manager (src/cache_manager.py), a cron job that prunes the cache and    *)
(* then fills it again for the configured calls.                           *)
(***************************************************************************)
EXTENDS Faults, Sequences, FiniteSets

CONSTANTS
  Calls,            \* [args, kwargs]: positional arguments and keyword arguments
  Prefilled,        \* calls of the configured components (prefill_function_caches)
  Octets,           \* Octets[c]: the size of the result
  MaxCacheSize,     \* max_cache_size_bytes
  MinPruning,       \* min_pruning_bytes
  MaxReads          \* bound for read_count

DbCacheAssumption ==
  /\ Prefilled \subseteq Calls
  /\ Octets \in [Calls -> Nat \ {0}]
  /\ MinPruning \in 0 .. MaxCacheSize
  /\ MaxReads \in Nat
  /\ None \notin [value : Calls \X Nat, size : Nat, reads : Nat, stale : BOOLEAN]
  /\ "store" \in DOMAIN Limit

Times(seq, x) == Cardinality({i \in DOMAIN seq : seq[i] = x})

\* normalise_and_serialise_object: dictionaries are sorted by key, sequences by value.
Id(c) == <<{<<x, Times(c.args, x)>> : x \in {c.args[i] : i \in DOMAIN c.args}},
           {<<n, c.kwargs[n]>> : n \in DOMAIN c.kwargs}>>

Ids == {Id(c) : c \in Calls}

\* A call is a record of a sequence and a function.  The order of positional arguments is not part
\* of its id; the calls there are (component_versions, component_datatype_summaries, the routes'
\* queries and bodies) name their arguments, and differ in more than that order.
CallsAssumption ==
  /\ \A c \in Calls :
       c = [args |-> c.args, kwargs |-> [n \in DOMAIN c.kwargs |-> c.kwargs[n]]]
  /\ \A c, d \in Calls : Id(c)[1] = Id(d)[1] => c.args = d.args

VARIABLES
  source,    \* source[c]: what the call results in (a counter), <<c, n>> is the result
  entries,   \* entries[id]: None or [value, size, reads, stale]
  caller,    \* one request: the call, its result, and where it is
  manager    \* locals of the cache manager

dbCacheVars == <<source, entries, caller, manager, faults>>

NoCall == [pc |-> "idle", call |-> None, value |-> None]
NoManager == [pc |-> "idle", prune |-> {}, fill |-> {}]

DbCacheInit ==
  /\ FaultsInit
  /\ source = [c \in Calls |-> 0]
  /\ entries = [i \in Ids |-> None]
  /\ caller = NoCall
  /\ manager = NoManager

Present == {i \in Ids : entries[i] # None}

\* find_cached_value: an entry is not used after delete_after.
Usable(i) == entries[i] # None /\ ~entries[i].stale

\* The read is counted if that can be stored.
ReadOnce(i) ==
  entries' = [entries EXCEPT ![i].reads = IF @ < MaxReads THEN @ + 1 ELSE @]

\* dbcached_function, dbcached_route: the cached value, unless the client asks for a shortcut.
Call(c, shortcut) ==
  /\ caller.pc \in {"idle", "answered"}
  /\ Spend("call")
  /\ IF Usable(Id(c)) /\ ~shortcut
     THEN /\ caller' = [pc |-> "answered", call |-> c, value |-> entries[Id(c)].value]
          /\ ReadOnce(Id(c)) \/ UNCHANGED entries
     ELSE /\ caller' = [pc |-> "calculate", call |-> c, value |-> None]
          /\ UNCHANGED entries
  /\ UNCHANGED <<source, manager>>

Calculate ==
  /\ caller.pc = "calculate"
  /\ caller' = [pc |-> "store", call |-> caller.call,
                value |-> <<caller.call, source[caller.call]>>]
  /\ UNCHANGED <<source, entries, manager, faults>>

NewEntry(c, value) == [value |-> value, size |-> Octets[c], reads |-> 0, stale |-> FALSE]

\* add_or_update_cache_entry: an entry that exists keeps its read_count.
AddOrUpdate(c, value) ==
  entries' = [entries EXCEPT ![Id(c)] =
                IF @ = None THEN NewEntry(c, value)
                ELSE [NewEntry(c, value) EXCEPT !.reads = entries[Id(c)].reads]]

\* An entry that cannot be stored is logged; the result is returned all the same.
StoreEntry ==
  /\ caller.pc = "store"
  /\ \/ AddOrUpdate(caller.call, caller.value) /\ UNCHANGED faults
     \/ Spend("store") /\ UNCHANGED entries
  /\ caller' = [caller EXCEPT !.pc = "answered"]
  /\ UNCHANGED <<source, manager>>

\* DeliveryDBCache.delete, mark_for_deletion_task; or the time to live is over.
MarkForDeletion(i) ==
  /\ Usable(i)
  /\ Spend("mark")
  /\ entries' = [entries EXCEPT ![i].stale = TRUE]
  /\ UNCHANGED <<source, caller, manager>>

ChangeSource(c) ==
  /\ Spend("change")
  /\ source' = [source EXCEPT ![c] = @ + 1]
  /\ UNCHANGED <<entries, caller, manager>>

-----------------------------------------------------------------------------
(* The cache manager *)

SizeOf(ids) ==
  LET size[some \in SUBSET ids] ==
        IF some = {} THEN 0
        ELSE LET i == CHOOSE i \in some : TRUE IN entries[i].size + size[some \ {i}]
  IN size[ids]

\* CachePruningWeights.default(): stale entries first, then those which are read least.
Weight(i) == IF entries[i].stale THEN 0 ELSE 1 + entries[i].reads

\* prune_cache: only this much is kept.
Prunable(size) == size - MinPruning

\* The sets the loop over the ordered entries may delete.
Pruned ==
  {some \in SUBSET Present :
     /\ \A i \in some, j \in Present \ some : Weight(i) <= Weight(j)
     /\ SizeOf(some) >= Prunable(SizeOf(Present))
     /\ some = {} \/ \E last \in some :
          /\ \A i \in some : Weight(i) <= Weight(last)
          /\ SizeOf(some \ {last}) < Prunable(SizeOf(Present))}

\* db_size, is_pruning_required
AfterCheck ==
  IF SizeOf(Present) < MaxCacheSize THEN [pc |-> "prefill", prune |-> {}, fill |-> Prefilled]
  ELSE [pc |-> "select", prune |-> {}, fill |-> Prefilled]

StartManager ==
  /\ manager.pc \in {"idle", "done"}
  /\ manager' = AfterCheck
  /\ UNCHANGED <<source, entries, caller, faults>>

SelectEntries ==
  /\ manager.pc = "select"
  /\ \E some \in Pruned : manager' = [pc |-> "prune", prune |-> some, fill |-> manager.fill]
  /\ UNCHANGED <<source, entries, caller, faults>>

\* Mutant: a run either prunes or fills the cache.
PruningEnds == [pc |-> "done", prune |-> {}, fill |-> manager.fill]
AfterPruning == [pc |-> "prefill", prune |-> {}, fill |-> manager.fill]

\* What was read or calculated again since the selection is deleted as well.
PruneEntries ==
  /\ manager.pc = "prune"
  /\ entries' = [i \in Ids |-> IF i \in manager.prune THEN None ELSE entries[i]]
  /\ manager' = AfterPruning
  /\ UNCHANGED <<source, caller, faults>>

Prefill ==
  /\ manager.pc = "prefill"
  /\ manager.fill # {}
  /\ \E c \in manager.fill :
       /\ IF Usable(Id(c)) THEN (ReadOnce(Id(c)) \/ UNCHANGED entries) /\ UNCHANGED faults
          ELSE \/ AddOrUpdate(c, <<c, source[c]>>) /\ UNCHANGED faults
               \/ Spend("store") /\ UNCHANGED entries
       /\ manager' = [manager EXCEPT !.fill = @ \ {c}]
  /\ UNCHANGED <<source, caller>>

EndManager ==
  /\ manager.pc = "prefill"
  /\ manager.fill = {}
  /\ manager' = [manager EXCEPT !.pc = "done"]
  /\ UNCHANGED <<source, entries, caller, faults>>

\* The transaction is rolled back, or a look-up of the prefill fails.
ManagerFails ==
  /\ manager.pc \in {"select", "prune", "prefill"}
  /\ Spend("manager")
  /\ manager' = NoManager
  /\ UNCHANGED <<source, entries, caller>>

Managing == StartManager \/ SelectEntries \/ PruneEntries \/ Prefill \/ EndManager

DbCacheNext ==
  \/ \E c \in Calls, shortcut \in BOOLEAN : Call(c, shortcut)
  \/ Calculate
  \/ StoreEntry
  \/ \E i \in Ids : MarkForDeletion(i)
  \/ \E c \in Calls : ChangeSource(c)
  \/ Managing
  \/ ManagerFails

\* The cron job runs again and again.
DbCacheFairness == WF_dbCacheVars(Managing)

DbCacheSpec == DbCacheInit /\ [][DbCacheNext]_dbCacheVars /\ DbCacheFairness

-----------------------------------------------------------------------------
(* Properties *)

\* "to prevent collisions" (normalise_and_serialise_object): the result a client gets is one of its
\* own call.
ResultsBelongToCalls == caller.pc = "answered" => caller.value[1] = caller.call

\* The configured calls are in the cache after a run of the cache manager, whatever it had to prune.
PrefilledIsCached ==
  manager.pc = "done" /\ Never("store") => \A c \in Prefilled : entries[Id(c)] # None

CacheIsSound == ResultsBelongToCalls /\ PrefilledIsCached

\* However large the cache gets, a run of the cache manager brings it below its maximum.
CacheShrinks == []<>(SizeOf(Present) < MaxCacheSize)
=============================================================================
