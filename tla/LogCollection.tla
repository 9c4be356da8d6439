--------------------------- MODULE LogCollection ---------------------------
(***************************************************************************)
(* How the pods of a service move their log records, of one level, from a  *)
(* local file to the LogCollection custom resource they share              *)
(* (src/k8s/logging.py).  Each pod runs a daemon thread that does so in a  *)
(* loop; its main thread does it once more at exit (atexit, odg/util.py).  *)
(* The file and the custom resource are two stores; only the second one    *)
(* detects conflicts.                                                      *)
(***************************************************************************)
EXTENDS Integers, Sequences, FiniteSets

CONSTANTS
  Pods,              \* pods of the service
  MaxRecords,        \* bound: records a pod logs
  MaxStored,         \* records that fit max_storage_size_bytes
  MaxRetries,        \* max_retries
  LogsWhileMoving,   \* may a pod log while its file is being emptied or rewritten?
  Exits,             \* may the main thread of a pod end?
  Budget,            \* bound on the failures of each kind
  None

Kinds == {"apiError", "kill", "delete"}

ASSUME ParametersAssumption ==
  /\ MaxRecords \in Nat
  /\ MaxStored \in Nat \ {0}
  /\ MaxRetries \in Nat
  /\ LogsWhileMoving \in BOOLEAN
  /\ Exits \in BOOLEAN
  /\ Budget \in [Kinds -> Nat]

Record == Pods \X (1 .. MaxRecords)   \* the pod that logged it, and its number
Logs == Seq(Record)
Collection == [rv : Nat, logs : Logs]
ASSUME NoneAssumption == None \notin Collection

Threads == Pods \X {"loop", "exit"}

\* A thread: where it is in log_to_crd_for_level, the records it holds, the collection
\* and the content of the file it has read, and retry_count.
Thread ==
  [pc : {"off", "idle", "read", "truncate", "get", "create", "replace",
         "writeBack", "rewrite"},
   logs : Logs,
   read : Collection \union {None},
   content : Logs,
   retries : 0 .. MaxRetries]

VARIABLES
  logged,      \* logged[p]: how many records pod p has logged
  file,        \* file[p]: records in its local file
  garbled,     \* garbled[p]: that file is no list of JSON documents any more
  ending,      \* ending[p]: its main thread has ended, the exit handlers run
  thread,      \* thread[t]
  collection,  \* the stored LogCollection, or None
  revision,    \* the API server's revision
  budget

files == <<file, garbled>>
server == <<collection, revision>>
vars == <<logged, files, ending, thread, server, budget>>

TypeOK ==
  /\ logged \in [Pods -> 0 .. MaxRecords]
  /\ file \in [Pods -> Logs]
  /\ garbled \in [Pods -> BOOLEAN]
  /\ ending \in [Pods -> BOOLEAN]
  /\ thread \in [Threads -> Thread]
  /\ collection \in Collection \union {None}
  /\ revision \in Nat
  /\ budget \in [Kinds -> Nat]

Rest(t) ==
  [pc |-> IF t[2] = "loop" THEN "idle" ELSE "off",
   logs |-> << >>, read |-> None, content |-> << >>, retries |-> 0]

Init ==
  /\ logged = [p \in Pods |-> 0]
  /\ file = [p \in Pods |-> << >>]
  /\ garbled = [p \in Pods |-> FALSE]
  /\ ending = [p \in Pods |-> FALSE]
  /\ thread = [t \in Threads |-> Rest(t)]
  /\ collection = None
  /\ revision = 0
  /\ budget = Budget

Spend(kind) ==
  /\ budget[kind] > 0
  /\ budget' = [budget EXCEPT ![kind] = @ - 1]

\* trim_logs_to_fit_max_storage_size drops the oldest records.
Trim(s) == IF Len(s) > MaxStored THEN SubSeq(s, Len(s) - MaxStored + 1, Len(s)) ELSE s

At(t, pc) == thread[t].pc = pc
Become(t, u) == thread' = [thread EXCEPT ![t] = u]
Go(t, pc) == Become(t, [thread[t] EXCEPT !.pc = pc])

\* log_to_crd_for_level returns or raises: what the thread held is dropped.
Return(t) == Become(t, Rest(t))

Moving(p) == \E t \in Threads : t[1] = p /\ thread[t].pc \in {"truncate", "rewrite"}

\* The pod logs a record; the file handler appends it to the file.
Log(p) ==
  /\ ~ending[p]
  /\ logged[p] < MaxRecords
  /\ LogsWhileMoving \/ ~Moving(p)
  /\ logged' = [logged EXCEPT ![p] = @ + 1]
  /\ file' = [file EXCEPT ![p] = Append(@, <<p, logged[p] + 1>>)]
  /\ UNCHANGED <<garbled, ending, thread, server, budget>>

\* The sleep of the loop is over.
StartRound(t) ==
  /\ At(t, "idle")
  /\ Go(t, "read")
  /\ UNCHANGED <<logged, files, ending, server, budget>>

\* read_logs_and_remove reads the file (what an earlier attempt kept comes first);
\* a file that is not JSON counts as empty, and stays as it is ...
ReadFile(t) ==
  /\ At(t, "read")
  /\ \/ /\ ~garbled[t[1]]
        /\ Become(t, [thread[t] EXCEPT !.logs = Trim(@ \o file[t[1]]), !.pc = "truncate"])
     \/ /\ garbled[t[1]]
        /\ Become(t, [thread[t] EXCEPT !.logs = Trim(@), !.pc = "get"])
  /\ UNCHANGED <<logged, files, ending, server, budget>>

\* ... any other is truncated, whatever it contains by now.
Truncate(t) ==
  /\ At(t, "truncate")
  /\ file' = [file EXCEPT ![t[1]] = << >>]
  /\ garbled' = [garbled EXCEPT ![t[1]] = FALSE]
  /\ Go(t, "get")
  /\ UNCHANGED <<logged, ending, server, budget>>

\* The collection is read: one that is missing is created, and one that exists is
\* left alone if there is nothing to add.
Get(t) ==
  /\ At(t, "get")
  /\ \/ collection = None /\ Go(t, "create")
     \/ collection # None /\ thread[t].logs = << >> /\ Return(t)
     \/ /\ collection # None
        /\ thread[t].logs # << >>
        /\ Become(t, [thread[t] EXCEPT !.read = collection, !.pc = "replace"])
  /\ UNCHANGED <<logged, files, ending, server, budget>>

\* handle_conflict: try again with the records to keep, or write them to the file.
Conflict(t, keep) ==
  \/ /\ thread[t].retries < MaxRetries
     /\ Become(t, [thread[t] EXCEPT !.logs = keep, !.read = None, !.retries = @ + 1,
                                    !.pc = "read"])
  \/ /\ thread[t].retries = MaxRetries
     /\ Become(t, [thread[t] EXCEPT !.logs = keep, !.read = None, !.pc = "writeBack"])

Store(s) ==
  /\ revision' = revision + 1
  /\ collection' = [rv |-> revision + 1, logs |-> s]

\* create_log_collection; 409 if another thread was faster.
Create(t) ==
  /\ At(t, "create")
  /\ \/ collection = None /\ Store(thread[t].logs) /\ Return(t)
     \/ collection # None /\ Conflict(t, thread[t].logs) /\ UNCHANGED server
  /\ UNCHANGED <<logged, files, ending, budget>>

\* Mutant: without optimistic locking (a patch), a replace never conflicts.
IsCurrentByName(t) == collection # None
\* The replace succeeds only on the version that was read.
IsCurrent(t) == collection # None /\ collection.rv = thread[t].read.rv

\* Mutant: only the new records are trimmed, not the sum.
ExtendedUntrimmed(t) == thread[t].read.logs \o thread[t].logs
Extended(t) == Trim(thread[t].read.logs \o thread[t].logs)

\* The replace; 409 keeps, for the next attempt, all that was to be written: the
\* records that had been read from the collection included.  404 is raised.
Replace(t) ==
  /\ At(t, "replace")
  /\ \/ IsCurrent(t) /\ Store(Extended(t)) /\ Return(t)
     \/ /\ ~IsCurrent(t)
        /\ collection # None
        /\ Conflict(t, Extended(t))
        /\ UNCHANGED server
     \/ collection = None /\ Return(t) /\ UNCHANGED server
  /\ UNCHANGED <<logged, files, ending, budget>>

\* write_logs_to_file reads the file ...
WriteBack(t) ==
  /\ At(t, "writeBack")
  /\ Become(t, [thread[t] EXCEPT !.content = file[t[1]], !.pc = "rewrite"])
  /\ UNCHANGED <<logged, files, ending, server, budget>>

Rewritten(t) == thread[t].logs \o thread[t].content

\* Mutant: no separator between the records and the content.
UnreadableUnseparated(t) == thread[t].logs = << >> \/ thread[t].content # << >>
\* The separator is written also if there is no record in front of it.
Unreadable(t) == thread[t].logs = << >>

\* ... and writes the records in front of what it has read, over what is there by now:
\* a part of a longer file may show behind it.
Rewrite(t) ==
  LET p == t[1] IN
  /\ At(t, "rewrite")
  /\ file' = [file EXCEPT ![p] = Rewritten(t)]
  /\ \E g \in BOOLEAN :
       /\ g # garbled[p] => g /\ Len(file[p]) > Len(thread[t].content)
       /\ garbled' = [garbled EXCEPT ![p] = g \/ Unreadable(t)]
  /\ Return(t)
  /\ UNCHANGED <<logged, ending, server, budget>>

\* Any call to the API fails: the exception reaches continuously_log_to_crd, which
\* starts a new round later, or ends the exit handler.
ApiError(t) ==
  /\ thread[t].pc \in {"get", "create", "replace"}
  /\ Spend("apiError")
  /\ Return(t)
  /\ UNCHANGED <<logged, files, ending, server>>

\* The main thread ends, and the exit handler runs log_to_crd besides the loop ...
End(p) ==
  /\ Exits
  /\ ~ending[p]
  /\ ending' = [ending EXCEPT ![p] = TRUE]
  /\ Go(<<p, "exit">>, "read")
  /\ UNCHANGED <<logged, files, server, budget>>

\* The process is gone, and its container's file system with it.
Stopped(p) ==
  /\ thread' = [t \in Threads |->
                  IF t[1] = p THEN [Rest(t) EXCEPT !.pc = "off"] ELSE thread[t]]
  /\ file' = [file EXCEPT ![p] = << >>]
  /\ garbled' = [garbled EXCEPT ![p] = FALSE]
  /\ ending' = [ending EXCEPT ![p] = TRUE]

\* ... until it returns and the process exits, which stops the daemon thread.
Exit(p) ==
  /\ ending[p]
  /\ At(<<p, "exit">>, "off")
  /\ ~At(<<p, "loop">>, "off")
  /\ Stopped(p)
  /\ UNCHANGED <<logged, server, budget>>

\* The pod is killed.
Kill(p) ==
  /\ ~At(<<p, "loop">>, "off")
  /\ Spend("kill")
  /\ Stopped(p)
  /\ UNCHANGED <<logged, server>>

\* Someone deletes the custom resource.
DeleteCollection ==
  /\ collection # None
  /\ Spend("delete")
  /\ collection' = None
  /\ revision' = revision + 1
  /\ UNCHANGED <<logged, files, ending, thread>>

Step(t) ==
  \/ ReadFile(t) \/ Truncate(t) \/ Get(t) \/ Create(t) \/ Replace(t)
  \/ WriteBack(t) \/ Rewrite(t)

Next ==
  \/ \E p \in Pods : Log(p) \/ End(p) \/ Exit(p) \/ Kill(p)
  \/ \E t \in Threads : StartRound(t) \/ Step(t) \/ ApiError(t)
  \/ DeleteCollection

Spec == Init /\ [][Next]_vars

\* The threads run, and the loop sleeps only for a while.
FairSpec == Spec /\ \A t \in Threads : WF_vars(StartRound(t)) /\ WF_vars(Step(t))

-----------------------------------------------------------------------------
(* Properties *)

RecordsOf(s) == {s[i] : i \in 1 .. Len(s)}
Stored == IF collection = None THEN {} ELSE RecordsOf(collection.logs)
Logged == {r \in Record : r[2] <= logged[r[1]]}
Full == collection # None /\ Len(collection.logs) = MaxStored

\* The collection never exceeds what the API server accepts: whichever way records
\* were kept, retried or written back, a write is trimmed (k8s/logging.py:55-61).
StoredFits == collection # None => Len(collection.logs) <= MaxStored

\* As many records as fit are in one place: the next trimming may drop the oldest.
Overflow ==
  \/ Full
  \/ \E p \in Pods : Len(file[p]) >= MaxStored
  \/ \E t \in Threads : Len(thread[t].logs) >= MaxStored

\* A record that was logged is in a file, in the hands of a thread or stored, as long
\* as the limit is not reached: no conflict, retry or writing back loses one, provided
\* that a pod does not log while its file is emptied, has one thread that moves
\* records, and nothing fails (handle_conflict, write_logs_to_file).
NoRecordLost ==
  \A r \in Logged :
    \/ r \in Stored \/ r \in RecordsOf(file[r[1]])
    \/ \E t \in Threads : r \in RecordsOf(thread[t].logs)
    \/ Overflow

\* Under the same conditions, when the pods have logged all they do, every record is
\* stored in the end, however many conflicts and retries that takes (handle_conflict,
\* continuously_log_to_crd).
EveryRecordStored == []<>(Logged \subseteq Stored \/ Full)

\* No record is stored twice.  handle_conflict (k8s/logging.py:80) speaks of records
\* it "failed to write"; among them are the ones the collection already contained.
StoredOnce == collection # None => Cardinality(Stored) = Len(collection.logs)

\* The log that the readers of the collection see.
ReadableLog == INSTANCE BoundedLog WITH
  Limit <- MaxStored,
  exists <- collection # None,
  content <- IF collection = None THEN << >> ELSE collection.logs

\* The pods together implement one bounded log: whatever two threads read and whichever
\* replace comes late, a write only continues what is stored at that moment, and drops
\* only the oldest records, at the limit (k8s/logging.py:55-61 and 211-215).
ImplementsBoundedLog == ReadableLog!Spec
=============================================================================
