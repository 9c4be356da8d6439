------------------------ MODULE LogCollectionProofs ------------------------
(***************************************************************************)
(* Proofs about LogCollection: its types and the limit on what is stored;  *)
(* that it implements a bounded log; and that no record is lost while      *)
(* nothing fails.                                                          *)
(***************************************************************************)
EXTENDS LogCollection, SequenceTheorems, TLAPS

-----------------------------------------------------------------------------
(* Trimming *)

\* A trimmed sequence of records is one that fits.
LEMMA TrimFits ==
  ASSUME NEW s \in Logs
  PROVE  /\ Trim(s) \in Logs
         /\ Len(Trim(s)) <= MaxStored
         /\ Len(s) <= MaxStored => Trim(s) = s
         /\ Len(s) > MaxStored =>
              /\ Len(Trim(s)) = MaxStored
              /\ \A i \in 1 .. MaxStored : Trim(s)[i] = s[Len(s) - MaxStored + i]
<1>1. Len(s) \in Nat /\ MaxStored \in Nat \ {0}
  BY ParametersAssumption, LenProperties DEF Logs
<1>2. CASE Len(s) <= MaxStored
  BY <1>1, <1>2 DEF Trim
<1>3. CASE Len(s) > MaxStored
  <2>1. Trim(s) = SubSeq(s, Len(s) - MaxStored + 1, Len(s))
    BY <1>1, <1>3 DEF Trim
  <2>2. \A i \in (Len(s) - MaxStored + 1) .. Len(s) : s[i] \in Record
    BY <1>1, <1>3, ElementOfSeq DEF Logs
  <2>3. /\ Trim(s) \in Seq(Record)
        /\ Len(Trim(s)) = MaxStored
        /\ \A i \in 1 .. MaxStored : Trim(s)[i] = s[(Len(s) - MaxStored + 1) + i - 1]
    BY <1>1, <1>3, <2>1, <2>2, SubSeqProperties DEF Logs
  <2> QED BY <1>1, <1>3, <2>3 DEF Logs
<1> QED BY <1>1, <1>2, <1>3

\* A concatenation has the members of both sequences.
LEMMA MembersOfConcat ==
  ASSUME NEW s \in Logs, NEW u \in Logs
  PROVE  /\ s \o u \in Logs
         /\ Len(s \o u) = Len(s) + Len(u)
         /\ Len(s) <= Len(s \o u) /\ Len(u) <= Len(s \o u)
         /\ RecordsOf(s \o u) = RecordsOf(s) \union RecordsOf(u)
<1> DEFINE su == s \o u
<1>1. su \in Logs /\ Len(su) = Len(s) + Len(u)
  BY ConcatProperties DEF Logs
<1>2. /\ \A i \in 1 .. Len(s) : su[i] = s[i]
      /\ \A i \in 1 .. Len(u) : su[Len(s) + i] = u[i]
      /\ \A i \in (Len(s) + 1) .. (Len(s) + Len(u)) : su[i] = u[i - Len(s)]
  BY ConcatProperties, LenProperties DEF Logs
<1>3. Len(s) \in Nat /\ Len(u) \in Nat
  BY LenProperties DEF Logs
<1> HIDE DEF su
<1>4. RecordsOf(s) \subseteq RecordsOf(su) /\ RecordsOf(u) \subseteq RecordsOf(su)
  <2>1. ASSUME NEW i \in 1 .. Len(s)
        PROVE  s[i] \in RecordsOf(su)
    BY <1>1, <1>2, <1>3 DEF RecordsOf
  <2>2. ASSUME NEW i \in 1 .. Len(u)
        PROVE  u[i] \in RecordsOf(su)
    <3>1. Len(s) + i \in 1 .. Len(su) /\ su[Len(s) + i] = u[i]
      BY <1>1, <1>2, <1>3
    <3> QED BY <3>1 DEF RecordsOf
  <2> QED BY <2>1, <2>2 DEF RecordsOf
<1>5. ASSUME NEW i \in 1 .. Len(su)
      PROVE  su[i] \in RecordsOf(s) \union RecordsOf(u)
  <2>1. CASE i <= Len(s)
    BY <1>1, <1>2, <1>3, <2>1 DEF RecordsOf
  <2>2. CASE i > Len(s)
    BY <1>1, <1>2, <1>3, <2>2 DEF RecordsOf
  <2> QED BY <1>1, <1>3, <2>1, <2>2
<1>6. Len(s) <= Len(su) /\ Len(u) <= Len(su)
  BY <1>1, <1>3
<1> QED BY <1>1, <1>4, <1>5, <1>6 DEF RecordsOf, su

\* What is appended and trimmed is full or keeps every member.
LEMMA TrimKeeps ==
  ASSUME NEW s \in Logs, NEW u \in Logs
  PROVE  /\ Trim(s \o u) \in Logs
         /\ Len(Trim(s \o u)) <= MaxStored
         /\ \/ Len(Trim(s \o u)) = MaxStored
            \/ /\ RecordsOf(Trim(s \o u)) = RecordsOf(s) \union RecordsOf(u)
               /\ Len(s) <= Len(Trim(s \o u)) /\ Len(u) <= Len(Trim(s \o u))
<1>1. /\ s \o u \in Logs
      /\ Len(s \o u) \in Nat /\ MaxStored \in Nat
  BY MembersOfConcat, LenProperties, ParametersAssumption DEF Logs
<1>2. CASE Len(s \o u) <= MaxStored
  <2>1. Trim(s \o u) = s \o u
    BY <1>1, <1>2, TrimFits
  <2> QED BY <1>1, <1>2, <2>1, MembersOfConcat
<1>3. CASE Len(s \o u) > MaxStored
  BY <1>1, <1>3, TrimFits
<1> QED BY <1>1, <1>2, <1>3

-----------------------------------------------------------------------------
(* Types *)

LEMMA RestTyped == \A t \in Threads : Rest(t) \in Thread
  BY ParametersAssumption DEF Rest, Thread, Logs

LEMMA ExtendedTyped ==
  ASSUME NEW t \in Threads, thread[t] \in Thread, thread[t].read \in Collection
  PROVE  Extended(t) \in Logs /\ Len(Extended(t)) <= MaxStored
  BY TrimKeeps DEF Extended, Thread, Collection

\* Threads change one at a time: it is enough to type the one that moves.
LEMMA OneThread ==
  ASSUME TypeOK, NEW t \in Threads, NEW u \in Thread, Become(t, u)
  PROVE  thread' \in [Threads -> Thread]
  BY DEF TypeOK, Become

LEMMA ConflictTyped ==
  ASSUME TypeOK, NEW t \in Threads, NEW keep \in Logs, Conflict(t, keep)
  PROVE  thread' \in [Threads -> Thread]
<1>0. thread[t] \in Thread /\ MaxRetries \in Nat
  BY ParametersAssumption DEF TypeOK
<1>1. CASE thread[t].retries < MaxRetries
  <2> DEFINE u == [thread[t] EXCEPT !.logs = keep, !.read = None, !.retries = @ + 1,
                                    !.pc = "read"]
  <2>1. u \in Thread
    <3>1. thread[t].retries + 1 \in 0 .. MaxRetries
      BY <1>0, <1>1 DEF Thread
    <3> QED BY <1>0, <3>1 DEF Thread
  <2>2. Become(t, u)
    BY <1>0, <1>1 DEF Conflict
  <2> QED BY <2>1, <2>2, OneThread
<1>2. CASE thread[t].retries = MaxRetries
  <2> DEFINE u == [thread[t] EXCEPT !.logs = keep, !.read = None, !.pc = "writeBack"]
  <2>1. u \in Thread
    BY <1>0 DEF Thread
  <2>2. Become(t, u)
    BY <1>0, <1>2 DEF Conflict
  <2> QED BY <2>1, <2>2, OneThread
<1> QED BY <1>1, <1>2 DEF Conflict

LEMMA StoreTyped ==
  ASSUME TypeOK, NEW s \in Logs, Store(s)
  PROVE  collection' \in Collection \union {None} /\ revision' \in Nat
  BY DEF TypeOK, Store, Collection

\* A thread that replaces the collection has read one before.
ReadFirst == \A t \in Threads : At(t, "replace") => thread[t].read # None

LEMMA TypeStep == TypeOK /\ ReadFirst /\ [Next]_vars => TypeOK'
<1> SUFFICES ASSUME TypeOK, ReadFirst, [Next]_vars
             PROVE  TypeOK'
  OBVIOUS
<1>0. \A t \in Threads : t[1] \in Pods /\ thread[t] \in Thread
  BY DEF Threads, TypeOK
<1>1. CASE UNCHANGED vars
  BY <1>1 DEF TypeOK, vars, files, server
<1>2. ASSUME NEW p \in Pods, Log(p)
      PROVE  TypeOK'
  <2>1. logged[p] + 1 \in 1 .. MaxRecords
    BY <1>2, ParametersAssumption DEF Log, TypeOK
  <2>2. Append(file[p], <<p, logged[p] + 1>>) \in Logs
    BY <2>1, AppendProperties DEF Logs, Record, TypeOK
  <2>3. logged' \in [Pods -> 0 .. MaxRecords] /\ file' \in [Pods -> Logs]
    BY <1>2, <2>1, <2>2 DEF Log, TypeOK
  <2> QED BY <1>2, <2>3 DEF Log, TypeOK, server
<1>3. ASSUME NEW p \in Pods, End(p)
      PROVE  TypeOK'
  <2>1. <<p, "exit">> \in Threads
    BY DEF Threads
  <2>2. thread' \in [Threads -> Thread]
    BY <1>0, <1>3, <2>1 DEF End, Go, Become, TypeOK, Thread
  <2> QED BY <1>3, <2>2 DEF End, TypeOK, files, server
<1>4. ASSUME NEW p \in Pods, Stopped(p), UNCHANGED <<logged, server>>,
             budget' \in [Kinds -> Nat]
      PROVE  TypeOK'
  <2>1. \A t \in Threads : [Rest(t) EXCEPT !.pc = "off"] \in Thread
    BY RestTyped DEF Thread
  <2>2. thread' \in [Threads -> Thread]
    BY <1>4, <2>1 DEF Stopped, TypeOK
  <2>3. << >> \in Logs
    BY DEF Logs
  <2> QED BY <1>4, <2>2, <2>3 DEF Stopped, TypeOK, server
<1>5. ASSUME NEW p \in Pods, Exit(p)
      PROVE  TypeOK'
  BY <1>4, <1>5 DEF Exit, TypeOK
<1>6. ASSUME NEW p \in Pods, Kill(p)
      PROVE  TypeOK'
  <2>1. budget' \in [Kinds -> Nat]
    BY <1>6 DEF Kill, Spend, TypeOK, Kinds
  <2> QED BY <1>4, <1>6, <2>1 DEF Kill
<1>7. ASSUME NEW t \in Threads, StartRound(t)
      PROVE  TypeOK'
  BY <1>0, <1>7 DEF StartRound, Go, Become, TypeOK, Thread, files, server
<1>8. ASSUME NEW t \in Threads, ReadFile(t)
      PROVE  TypeOK'
  <2>1. /\ thread[t].logs \in Logs
        /\ thread[t].logs \o file[t[1]] \in Logs
    BY <1>0, MembersOfConcat DEF TypeOK, Thread
  <2> DEFINE full == [thread[t] EXCEPT !.logs = Trim(@ \o file[t[1]]), !.pc = "truncate"]
             same == [thread[t] EXCEPT !.logs = Trim(@), !.pc = "get"]
  <2>2. Trim(thread[t].logs \o file[t[1]]) \in Logs /\ Trim(thread[t].logs) \in Logs
    BY <2>1, TrimFits
  <2>4. full \in Thread /\ same \in Thread
    BY <1>0, <2>2 DEF Thread
  <2>3. thread' \in [Threads -> Thread]
    BY <1>8, <2>4, OneThread DEF ReadFile
  <2> QED BY <1>8, <2>3 DEF ReadFile, TypeOK, files, server
<1>9. ASSUME NEW t \in Threads, Truncate(t)
      PROVE  TypeOK'
  <2>1. thread' \in [Threads -> Thread]
    BY <1>0, <1>9 DEF Truncate, Go, Become, TypeOK, Thread
  <2>2. << >> \in Logs
    BY DEF Logs
  <2> QED BY <1>0, <1>9, <2>1, <2>2 DEF Truncate, TypeOK, server
<1>10. ASSUME NEW t \in Threads, Get(t)
       PROVE  TypeOK'
  <2> DEFINE asked == [thread[t] EXCEPT !.pc = "create"]
             got == [thread[t] EXCEPT !.read = collection, !.pc = "replace"]
  <2>0. asked \in Thread /\ got \in Thread /\ Rest(t) \in Thread
    BY <1>0, RestTyped DEF TypeOK, Thread
  <2>1. thread' \in [Threads -> Thread]
    BY <1>10, <2>0, OneThread DEF Get, Go, Return
  <2> QED BY <1>10, <2>1 DEF Get, TypeOK, files, server
<1>11. ASSUME NEW t \in Threads, Create(t)
       PROVE  TypeOK'
  <2>1. thread[t].logs \in Logs
    BY <1>0 DEF Thread
  <2>2. thread' \in [Threads -> Thread]
    BY <1>11, <2>1, RestTyped, OneThread, ConflictTyped DEF Create, Return
  <2>3. collection' \in Collection \union {None} /\ revision' \in Nat
    BY <1>11, <2>1, StoreTyped DEF Create, TypeOK, server
  <2> QED BY <1>11, <2>2, <2>3 DEF Create, TypeOK, files
<1>12. ASSUME NEW t \in Threads, Replace(t)
       PROVE  TypeOK'
  <2>0. thread[t].read \in Collection
    BY <1>0, <1>12 DEF Replace, ReadFirst, Thread
  <2>1. Extended(t) \in Logs
    BY <1>0, <2>0, ExtendedTyped
  <2>2. thread' \in [Threads -> Thread]
    BY <1>12, <2>1, RestTyped, OneThread, ConflictTyped DEF Replace, Return
  <2>3. collection' \in Collection \union {None} /\ revision' \in Nat
    BY <1>12, <2>1, StoreTyped DEF Replace, TypeOK, server
  <2> QED BY <1>12, <2>2, <2>3 DEF Replace, TypeOK, files
<1>13. ASSUME NEW t \in Threads, WriteBack(t)
       PROVE  TypeOK'
  <2> DEFINE u == [thread[t] EXCEPT !.content = file[t[1]], !.pc = "rewrite"]
  <2>0. u \in Thread
    BY <1>0 DEF TypeOK, Thread
  <2>1. thread' \in [Threads -> Thread]
    BY <1>13, <2>0, OneThread DEF WriteBack
  <2> QED BY <1>13, <2>1 DEF WriteBack, TypeOK, files, server
<1>14. ASSUME NEW t \in Threads, Rewrite(t)
       PROVE  TypeOK'
  <2>1. Rewritten(t) \in Logs
    BY <1>0, MembersOfConcat DEF Rewritten, Thread
  <2>2. file' \in [Pods -> Logs] /\ thread' \in [Threads -> Thread]
    BY <1>14, <2>1, RestTyped, OneThread DEF Rewrite, Return, TypeOK
  <2>3. garbled' \in [Pods -> BOOLEAN]
    BY <1>14 DEF Rewrite, TypeOK, Unreadable
  <2> QED BY <1>14, <2>2, <2>3 DEF Rewrite, TypeOK, server
<1>15. ASSUME NEW t \in Threads, ApiError(t)
       PROVE  TypeOK'
  <2>1. thread' \in [Threads -> Thread] /\ budget' \in [Kinds -> Nat]
    BY <1>15, RestTyped, OneThread DEF ApiError, Return, Spend, TypeOK, Kinds
  <2> QED BY <1>15, <2>1 DEF ApiError, TypeOK, files, server
<1>16. ASSUME DeleteCollection
       PROVE  TypeOK'
  BY <1>16 DEF DeleteCollection, Spend, TypeOK, Kinds, files
<1> QED
  BY <1>1, <1>2, <1>3, <1>5, <1>6, <1>7, <1>8, <1>9, <1>10, <1>11, <1>12, <1>13,
     <1>14, <1>15, <1>16 DEF Next, Step

-----------------------------------------------------------------------------
(* The inductive invariant *)

\* What a thread holds fits; what it has read is what is stored, or has a version
\* that is gone.
ThreadInv(u) ==
  /\ Len(u.logs) <= MaxStored
  /\ u.pc = "replace" => u.read # None
  /\ u.read # None =>
       /\ u.read.rv <= revision
       /\ collection # None /\ collection.rv = u.read.rv => u.read = collection

Holds ==
  /\ \A t \in Threads : ThreadInv(thread[t])
  /\ collection # None => collection.rv <= revision
  /\ StoredFits

IInv == TypeOK /\ Holds

LEMMA RestInv == \A t \in Threads : ThreadInv(Rest(t))
  BY ParametersAssumption DEF ThreadInv, Rest

\* A step of one thread that leaves the server alone, and reads no collection but the
\* stored one, preserves the invariant.
LEMMA ThreadStep ==
  ASSUME IInv, NEW t \in Threads, NEW u, Become(t, u), UNCHANGED server, ThreadInv(u)
  PROVE  Holds'
<1>1. \A s \in Threads : thread'[s] = u \/ thread'[s] = thread[s]
  BY DEF Become, IInv, TypeOK
<1> QED BY <1>1 DEF IInv, Holds, ThreadInv, StoredFits, server

\* A write gives the collection a version that no thread has read.
LEMMA StoreStep ==
  ASSUME IInv, NEW t \in Threads, NEW s \in Logs, Store(s), Return(t),
         Len(s) <= MaxStored
  PROVE  Holds'
<1>1. revision' = revision + 1 /\ collection' = [rv |-> revision + 1, logs |-> s]
  BY DEF Store
<1>2. \A r \in Threads : thread'[r] = Rest(r) \/ thread'[r] = thread[r]
  BY DEF Return, Become, IInv, TypeOK
<1>3. ASSUME NEW r \in Threads
      PROVE  ThreadInv(thread[r])'
  <2>1. CASE thread'[r] = Rest(r)
    BY <2>1, ParametersAssumption DEF ThreadInv, Rest
  <2>2. CASE thread'[r] = thread[r]
    <3>1. thread[r].read = None \/ thread[r].read \in Collection
      BY DEF IInv, TypeOK, Thread
    <3>2. ThreadInv(thread[r]) /\ revision \in Nat
      BY DEF IInv, Holds, TypeOK
    <3> QED BY <1>1, <2>2, <3>1, <3>2 DEF ThreadInv, Collection
  <2> QED BY <1>2, <2>1, <2>2
<1>4. collection'.rv <= revision' /\ StoredFits'
  BY <1>1 DEF StoredFits, IInv, TypeOK
<1> QED BY <1>3, <1>4 DEF Holds

LEMMA ConflictStep ==
  ASSUME IInv, NEW t \in Threads, NEW keep \in Logs, Conflict(t, keep), UNCHANGED server,
         Len(keep) <= MaxStored
  PROVE  Holds'
<1> DEFINE again == [thread[t] EXCEPT !.logs = keep, !.read = None, !.retries = @ + 1,
                                      !.pc = "read"]
           back == [thread[t] EXCEPT !.logs = keep, !.read = None, !.pc = "writeBack"]
<1>1. thread[t] \in Thread
  BY DEF IInv, TypeOK
<1>2. ThreadInv(again) /\ ThreadInv(back)
  BY <1>1 DEF ThreadInv, Thread
<1> QED BY <1>2, ThreadStep DEF Conflict

LEMMA HoldsStep == IInv /\ [Next]_vars => Holds'
<1> SUFFICES ASSUME IInv, [Next]_vars
             PROVE  Holds'
  OBVIOUS
<1>0. \A t \in Threads :
        t[1] \in Pods /\ thread[t] \in Thread /\ ThreadInv(thread[t])
  BY DEF Threads, IInv, Holds, TypeOK
<1>1. ASSUME UNCHANGED <<thread, server>>
      PROVE  Holds'
  BY <1>1 DEF IInv, Holds, ThreadInv, StoredFits, server
<1>2. ASSUME NEW p \in Pods, End(p)
      PROVE  Holds'
  <2>1. <<p, "exit">> \in Threads
    BY DEF Threads
  <2>2. ThreadInv([thread[<<p, "exit">>] EXCEPT !.pc = "read"])
    BY <1>0, <2>1 DEF ThreadInv, Thread
  <2> QED BY <1>2, <2>1, <2>2, ThreadStep DEF End, Go
<1>3. ASSUME NEW p \in Pods, Stopped(p), UNCHANGED server
      PROVE  Holds'
  <2>1. \A t \in Threads : ThreadInv([Rest(t) EXCEPT !.pc = "off"])
    BY ParametersAssumption DEF ThreadInv, Rest
  <2>2. \A t \in Threads : ThreadInv(thread'[t])
    BY <1>0, <1>3, <2>1 DEF Stopped
  <2> QED BY <1>3, <2>2 DEF IInv, Holds, ThreadInv, StoredFits, server
<1>4. ASSUME NEW t \in Threads, NEW pc \in {"read", "get", "create"}, Go(t, pc),
             UNCHANGED server
      PROVE  Holds'
  <2>1. ThreadInv([thread[t] EXCEPT !.pc = pc])
    BY <1>0 DEF ThreadInv, Thread
  <2> QED BY <1>4, <2>1, ThreadStep DEF Go
<1>5. ASSUME NEW t \in Threads, Return(t), UNCHANGED server
      PROVE  Holds'
  BY <1>5, RestInv, ThreadStep DEF Return
<1>6. ASSUME NEW t \in Threads, ReadFile(t)
      PROVE  Holds'
  <2> DEFINE full == [thread[t] EXCEPT !.logs = Trim(@ \o file[t[1]]), !.pc = "truncate"]
             kept == [thread[t] EXCEPT !.logs = Trim(@), !.pc = "get"]
  <2>1. /\ thread[t].logs \in Logs
        /\ thread[t].logs \o file[t[1]] \in Logs
    BY <1>0, MembersOfConcat DEF IInv, TypeOK, Thread
  <2>2. /\ Len(Trim(thread[t].logs \o file[t[1]])) <= MaxStored
        /\ Len(Trim(thread[t].logs)) <= MaxStored
    BY <2>1, TrimFits
  <2>3. ThreadInv(full) /\ ThreadInv(kept)
    BY <1>0, <2>2 DEF ThreadInv, Thread
  <2> QED BY <1>6, <2>3, ThreadStep DEF ReadFile
<1>7. ASSUME NEW t \in Threads, Get(t)
      PROVE  Holds'
  <2> DEFINE got == [thread[t] EXCEPT !.read = collection, !.pc = "replace"]
  <2>1. CASE collection # None /\ Become(t, got)
    <3>1. ThreadInv(got)
      BY <1>0, <2>1 DEF ThreadInv, Thread, IInv, Holds
    <3> QED BY <1>7, <3>1, <2>1, ThreadStep DEF Get
  <2> QED BY <1>4, <1>5, <1>7, <2>1 DEF Get
<1>8. ASSUME NEW t \in Threads, Create(t)
      PROVE  Holds'
  <2>1. thread[t].logs \in Logs /\ Len(thread[t].logs) <= MaxStored
    BY <1>0 DEF Thread, ThreadInv
  <2> QED BY <1>8, <2>1, StoreStep, ConflictStep DEF Create
<1>9. ASSUME NEW t \in Threads, Replace(t)
      PROVE  Holds'
  <2>1. thread[t].read \in Collection
    BY <1>0, <1>9 DEF Replace, At, ThreadInv, Thread
  <2>2. Extended(t) \in Logs /\ Len(Extended(t)) <= MaxStored
    BY <1>0, <2>1, ExtendedTyped
  <2> QED BY <1>5, <1>9, <2>2, StoreStep, ConflictStep DEF Replace
<1>10. ASSUME NEW t \in Threads, WriteBack(t)
       PROVE  Holds'
  <2>1. ThreadInv([thread[t] EXCEPT !.content = file[t[1]], !.pc = "rewrite"])
    BY <1>0 DEF ThreadInv, Thread
  <2> QED BY <1>10, <2>1, ThreadStep DEF WriteBack
<1>11. ASSUME DeleteCollection
       PROVE  Holds'
  BY <1>11 DEF DeleteCollection, IInv, Holds, ThreadInv, StoredFits, TypeOK, Thread,
               Collection
<1> QED
  BY <1>1, <1>2, <1>3, <1>4, <1>5, <1>6, <1>7, <1>8, <1>9, <1>10, <1>11
  DEF Next, Step, vars, Log, Exit, Kill, StartRound, Truncate, Rewrite, ApiError

\* The variables keep their types, and the collection fits, whatever pods, their two
\* threads and the API server do (k8s/logging.py).
THEOREM Invariant == Spec => []IInv
<1>1. Init => IInv
  <2> SUFFICES ASSUME Init
               PROVE  IInv
    OBVIOUS
  <2>1. << >> \in Logs
    BY DEF Logs
  <2>2. TypeOK
    BY <2>1, RestTyped, ParametersAssumption DEF Init, TypeOK
  <2> QED BY <2>2, RestInv DEF Init, IInv, Holds, StoredFits
<1>2. IInv /\ [Next]_vars => IInv'
  <2>1. IInv => TypeOK /\ ReadFirst
    BY DEF IInv, Holds, ThreadInv, ReadFirst, At
  <2> QED BY <2>1, TypeStep, HoldsStep DEF IInv
<1> QED BY <1>1, <1>2, PTL DEF Spec

THEOREM TypeCorrect == Spec => []TypeOK
  BY Invariant, PTL DEF IInv

\* Every write is trimmed, also one that carries along what an attempt before it kept.
THEOREM CollectionFits == Spec => []StoredFits
<1>1. IInv => StoredFits
  BY DEF IInv, Holds
<1> QED BY <1>1, Invariant, PTL

-----------------------------------------------------------------------------
(* The refinement: one bounded log *)

\* Trimming what is appended keeps what there was, but for the oldest records.
LEMMA TrimContinues ==
  ASSUME NEW old \in Logs, NEW new \in Logs
  PROVE  \E n \in 0 .. Len(old) :
           /\ ReadableLog!Continues(Trim(old \o new), old, n)
           /\ n > 0 => Len(Trim(old \o new)) = MaxStored
<1> DEFINE full == old \o new
           excess == Len(full) - MaxStored
<1>1. /\ full \in Logs
      /\ Len(full) = Len(old) + Len(new)
      /\ \A i \in 1 .. Len(old) : full[i] = old[i]
  BY ConcatProperties, LenProperties DEF Logs
<1>2. Len(old) \in Nat /\ Len(new) \in Nat /\ MaxStored \in Nat
  BY LenProperties, ParametersAssumption DEF Logs
<1> HIDE DEF full
<1>3. CASE excess <= 0
  <2>1. Trim(full) = full
    BY <1>1, <1>2, <1>3, TrimFits
  <2>2. ReadableLog!Continues(full, old, 0)
    BY <1>1, <1>2 DEF ReadableLog!Continues
  <2> QED BY <1>2, <2>1, <2>2 DEF full
<1>4. CASE excess > 0
  <2>0. Len(full) > MaxStored
    BY <1>1, <1>2, <1>4
  <2>1. /\ Len(Trim(full)) = MaxStored
        /\ \A i \in 1 .. MaxStored : Trim(full)[i] = full[excess + i]
    BY <1>1, <2>0, TrimFits
  <2>2. CASE excess <= Len(old)
    <3>1. ReadableLog!Continues(Trim(full), old, excess)
      BY <1>1, <1>2, <1>4, <2>1, <2>2 DEF ReadableLog!Continues
    <3> QED BY <1>1, <1>2, <1>4, <2>1, <2>2, <3>1 DEF full
  <2>3. CASE excess > Len(old)
    <3>1. ReadableLog!Continues(Trim(full), old, Len(old))
      BY <1>2, <2>1 DEF ReadableLog!Continues
    <3> QED BY <1>2, <2>1, <3>1 DEF full
  <2> QED BY <1>1, <1>2, <2>2, <2>3
<1> QED BY <1>1, <1>2, <1>3, <1>4

\* The refinement mapping of ReadableLog.
Exists == collection # None
Content == IF collection = None THEN << >> ELSE collection.logs
Mapping == <<Exists, Content>>

\* Only the two writes and a deletion concern the readers.
LEMMA ServerSteps ==
  ASSUME [Next]_vars
  PROVE  \/ UNCHANGED server
         \/ \E t \in Threads :
              \/ Create(t) /\ collection = None /\ Store(thread[t].logs)
              \/ Replace(t) /\ IsCurrent(t) /\ Store(Extended(t))
         \/ DeleteCollection
  BY DEF Next, vars, server, Log, End, Exit, Kill, StartRound, Step, ReadFile, Truncate,
         Get, Create, Replace, WriteBack, Rewrite, ApiError

LEMMA Simulation ==
  ASSUME IInv, [Next]_vars
  PROVE  ReadableLog!Next \/ UNCHANGED Mapping
<1>1. CASE UNCHANGED server
  BY <1>1 DEF server, Mapping, Exists, Content
<1>2. ASSUME NEW t \in Threads, Create(t), collection = None, Store(thread[t].logs)
      PROVE  ReadableLog!Write
  <2>1. thread[t].logs \in Seq(Record) /\ Len(thread[t].logs) <= MaxStored
    BY DEF IInv, TypeOK, Thread, Holds, ThreadInv, Logs
  <2>2. Exists' /\ Content' = thread[t].logs /\ Content = << >>
    BY <1>2, NoneAssumption, StoreTyped, <2>1 DEF Store, Exists, Content, IInv, Logs,
       Collection, TypeOK
  <2>3. ReadableLog!Continues(Content', Content, 0)
    BY <2>1, <2>2, LenProperties DEF ReadableLog!Continues
  <2> QED BY <2>1, <2>2, <2>3 DEF ReadableLog!Write, Exists, Content
<1>3. ASSUME NEW t \in Threads, Replace(t), IsCurrent(t), Store(Extended(t))
      PROVE  ReadableLog!Write
  <2>1. thread[t] \in Thread /\ ThreadInv(thread[t])
    BY DEF IInv, Holds, TypeOK
  <2>2. thread[t].read \in Collection /\ thread[t].read = collection
    BY <1>3, <2>1 DEF Replace, At, IsCurrent, ThreadInv, Thread
  <2>3. Extended(t) \in Logs /\ Len(Extended(t)) <= MaxStored
    BY <2>1, <2>2, ExtendedTyped
  <2>4. /\ Exists' /\ Content' = Extended(t)
        /\ Content = collection.logs /\ collection.logs \in Logs
    BY <1>3, <2>2, <2>3, NoneAssumption
    DEF Store, Exists, Content, IsCurrent, Collection, IInv, TypeOK
  <2>5. PICK n \in 0 .. Len(Content) :
          /\ ReadableLog!Continues(Content', Content, n)
          /\ n > 0 => Len(Content') = MaxStored
    BY <2>1, <2>2, <2>4, TrimContinues DEF Extended, Thread
  <2> QED BY <2>3, <2>4, <2>5 DEF ReadableLog!Write, Exists, Content, Logs
<1>4. CASE DeleteCollection
  BY <1>4 DEF DeleteCollection, ReadableLog!Next, ReadableLog!Drop
<1> QED BY <1>1, <1>2, <1>3, <1>4, ServerSteps DEF ReadableLog!Next

\* Threads that read, keep, trim and replace at their own pace behave, for the readers of
\* the collection, as one log that appends atomically and drops only the oldest records.
THEOREM Refinement == Spec => ImplementsBoundedLog
<1>1. Init => ReadableLog!Init
  BY DEF Init, ReadableLog!Init
<1>2. IInv /\ [Next]_vars => [ReadableLog!Next]_(ReadableLog!blVars)
  BY Simulation DEF Mapping, Exists, Content, ReadableLog!blVars
<1> QED BY <1>1, <1>2, Invariant, PTL DEF Spec, ImplementsBoundedLog, ReadableLog!Spec

-----------------------------------------------------------------------------
(* No record is lost *)

\* One thread moves the records of a pod, its files rest meanwhile, and nothing fails.
Quiet ==
  /\ ~LogsWhileMoving
  /\ ~Exits
  /\ \A k \in Kinds : Budget[k] = 0

Loop(p) == <<p, "loop">>

\* It stays quiet.
Undisturbed ==
  /\ \A k \in Kinds : budget[k] = 0
  /\ \A p \in Pods : ~ending[p] /\ At(<<p, "exit">>, "off")

\* A thread that is about to empty its file has taken all of it.
Taken(t) ==
  \/ Len(thread[t].logs) >= MaxStored
  \/ /\ RecordsOf(file[t[1]]) \subseteq RecordsOf(thread[t].logs)
     /\ Len(file[t[1]]) <= Len(thread[t].logs)

MoveInv(t) ==
  /\ At(t, "truncate") => Taken(t)
  /\ At(t, "rewrite") => thread[t].content = file[t[1]]
  /\ thread[t].read # None => collection # None

\* What a pod holds of other pods it has read, and that is stored.
Own(p) ==
  \/ Overflow
  \/ /\ \A r \in RecordsOf(file[p]) \union RecordsOf(thread[Loop(p)].logs) :
          r[1] = p \/ r \in Stored
     /\ thread[Loop(p)].read # None => RecordsOf(thread[Loop(p)].read.logs) \subseteq Stored

Kept ==
  /\ Undisturbed
  /\ \A t \in Threads : MoveInv(t)
  /\ \A p \in Pods : Own(p)
  /\ NoRecordLost

\* The records that a step of pod p may move, and whether too many are in one place.
Around(p) == Stored \union RecordsOf(file[p]) \union RecordsOf(thread[Loop(p)].logs)
Pile(p) ==
  Full \/ Len(file[p]) >= MaxStored \/ Len(thread[Loop(p)].logs) >= MaxStored

\* Only the loops move records while it is quiet.
LEMMA QuietSteps ==
  ASSUME Quiet, TypeOK, Undisturbed, [Next]_vars
  PROVE  \/ UNCHANGED vars
         \/ \E p \in Pods : Log(p) /\ ~Moving(p)
         \/ \E p \in Pods : StartRound(Loop(p)) \/ Step(Loop(p))
<1>1. \A k \in Kinds : ~Spend(k)
  BY DEF Undisturbed, Spend
<1>2. ~DeleteCollection /\ \A p \in Pods : ~End(p) /\ ~Exit(p) /\ ~Kill(p)
  BY <1>1 DEF DeleteCollection, End, Exit, Kill, Kinds, Quiet, Undisturbed
<1>3. \A t \in Threads : ~ApiError(t)
  BY <1>1 DEF ApiError, Kinds
<1>4. ASSUME NEW t \in Threads, StartRound(t) \/ Step(t)
      PROVE  \E p \in Pods : t = Loop(p)
  <2>1. PICK p \in Pods : t = Loop(p) \/ t = <<p, "exit">>
    BY DEF Threads, Loop
  <2>2. ~At(t, "off")
    BY <1>4 DEF StartRound, Step, ReadFile, Truncate, Get, Create, Replace, WriteBack,
                Rewrite, At
  <2> QED BY <2>1, <2>2 DEF Undisturbed
<1>5. \A p \in Pods : Log(p) => ~Moving(p)
  BY DEF Log, Quiet
<1> QED BY <1>2, <1>3, <1>4, <1>5 DEF Next

\* A step of one loop that moves the records around it, and loses none of them.
Moves(p, u) ==
  /\ Become(Loop(p), u)
  /\ u.read \in {None, thread[Loop(p)].read, collection}
  /\ \A q \in Pods \ {p} : file'[q] = file[q]
  /\ collection # None => collection' # None
  /\ UNCHANGED <<logged, ending, budget>>
  /\ Pile(p) => Pile(p)'
  /\ \/ Overflow \/ Pile(p)'
     \/ Around(p)' = Around(p) /\ Stored \subseteq Stored'
  /\ MoveInv(Loop(p))'

LEMMA MovesThread ==
  ASSUME TypeOK, NEW p \in Pods, NEW u \in Thread, Moves(p, u)
  PROVE  /\ Loop(p) \in Threads
         /\ thread'[Loop(p)] = u
         /\ \A t \in Threads \ {Loop(p)} : thread'[t] = thread[t]
         /\ Pile(p)' => Overflow'
         /\ Overflow => Overflow'
<1>1. /\ Loop(p) \in Threads
      /\ thread'[Loop(p)] = u
      /\ \A t \in Threads \ {Loop(p)} : thread'[t] = thread[t]
  BY DEF Loop, Threads, Moves, Become, TypeOK
<1>2. Pile(p)' => Overflow'
  BY <1>1 DEF Pile, Overflow
<1>3. Overflow => Overflow'
  BY <1>1, <1>2 DEF Pile, Overflow, Moves
<1> QED BY <1>1, <1>2, <1>3

LEMMA MovesOwn ==
  ASSUME TypeOK, Kept, NEW p \in Pods, NEW u \in Thread, Moves(p, u), NEW q \in Pods
  PROVE  Own(q)'
<1> SUFFICES ASSUME ~Overflow'
             PROVE  Own(q)'
  BY DEF Own
<1>1. ~Overflow /\ ~Pile(p)'
  BY MovesThread
<1>2. Own(q) /\ Own(p) /\ Around(p)' = Around(p) /\ Stored \subseteq Stored'
  BY <1>1 DEF Kept, Moves
<1>3. CASE q = p
  <2>1. \A r \in Around(p) : r[1] = p \/ r \in Stored'
    BY <1>1, <1>2 DEF Own, Around
  <2>2. \A r \in RecordsOf(file'[p]) \union RecordsOf(thread'[Loop(p)].logs) :
           r[1] = p \/ r \in Stored'
    BY <1>2, <2>1 DEF Around
  <2>3. u.read # None => RecordsOf(u.read.logs) \subseteq Stored'
    <3>1. CASE u.read = thread[Loop(p)].read
      BY <1>1, <1>2, <3>1 DEF Own
    <3>2. CASE u.read = collection
      BY <1>2, <3>2 DEF Stored
    <3> QED BY <3>1, <3>2 DEF Moves
  <2> QED BY <1>3, <2>2, <2>3, MovesThread DEF Own
<1>4. CASE q # p
  <2>1. Loop(q) \in Threads \ {Loop(p)}
    BY <1>4 DEF Loop, Threads
  <2>2. thread'[Loop(q)] = thread[Loop(q)] /\ file'[q] = file[q]
    BY <1>4, <2>1, MovesThread DEF Moves
  <2> QED BY <1>1, <1>2, <2>2 DEF Own
<1> QED BY <1>3, <1>4

LEMMA LoopStep ==
  ASSUME TypeOK, Kept, NEW p \in Pods, NEW u \in Thread, Moves(p, u)
  PROVE  Kept'
<1>1. \A q \in Pods : <<q, "exit">> \in Threads /\ <<q, "exit">> # Loop(p)
  BY DEF Loop, Threads
<1>2. Undisturbed'
  BY <1>1, MovesThread DEF Kept, Undisturbed, At, Moves
<1>3. ASSUME NEW t \in Threads
      PROVE  MoveInv(t)'
  <2>1. PICK q \in Pods : t = Loop(q) \/ t = <<q, "exit">>
    BY DEF Threads, Loop
  <2>2. MoveInv(t) /\ t[1] = q
    BY <2>1 DEF Kept, Loop
  <2>3. CASE t = Loop(p)
    BY <2>3 DEF Moves
  <2>4. CASE t = <<q, "exit">>
    BY <1>1, <1>2, <2>2, <2>4, MovesThread DEF MoveInv, At, Undisturbed, Moves
  <2>5. CASE t = Loop(q) /\ q # p
    <3>1. thread'[t] = thread[t]
      BY <2>5, MovesThread DEF Loop
    <3> QED BY <2>2, <2>5, <3>1 DEF MoveInv, At, Taken, Moves
  <2> QED BY <2>1, <2>3, <2>4, <2>5
<1>4. \A q \in Pods : Own(q)'
  BY MovesOwn
<1>5. ASSUME NEW r \in Logged, ~Overflow'
      PROVE  \/ r \in Stored' \/ r \in RecordsOf(file'[r[1]])
             \/ \E t \in Threads : r \in RecordsOf(thread'[t].logs)
  <2>1. ~Overflow /\ ~Pile(p)' /\ Around(p)' = Around(p) /\ Stored \subseteq Stored'
    BY <1>5, MovesThread DEF Moves
  <2>2. r[1] \in Pods
    BY DEF Logged, Record
  <2>3. CASE r \in Around(p)
    <3>1. r \in Stored' \/ r \in RecordsOf(file'[p]) \/ r \in RecordsOf(thread'[Loop(p)].logs)
      BY <2>1, <2>3 DEF Around
    <3>2. r \in RecordsOf(file'[p]) => r[1] = p \/ r \in Stored'
      BY <1>4, <1>5 DEF Own
    <3> QED BY <3>1, <3>2, MovesThread
  <2>4. CASE r \notin Around(p)
    <3>1. r \in RecordsOf(file[r[1]]) \/ \E t \in Threads : r \in RecordsOf(thread[t].logs)
      BY <2>1, <2>4 DEF Kept, NoRecordLost, Around
    <3>2. r \in RecordsOf(file[r[1]]) => r[1] # p
      BY <2>4 DEF Around
    <3>3. \A t \in Threads : r \in RecordsOf(thread[t].logs) => t # Loop(p)
      BY <2>4 DEF Around
    <3> QED BY <2>2, <3>1, <3>2, <3>3, MovesThread DEF Moves
  <2> QED BY <2>3, <2>4
<1>6. NoRecordLost'
  BY <1>5 DEF NoRecordLost, Logged, Moves
<1> QED BY <1>2, <1>3, <1>4, <1>6 DEF Kept

LEMMA AfterStep ==
  ASSUME TypeOK, NEW p \in Pods, NEW u, Become(Loop(p), u)
  PROVE  /\ thread'[Loop(p)] = u
         /\ Around(p)' = Stored' \union RecordsOf(file'[p]) \union RecordsOf(u.logs)
         /\ Pile(p)' <=> Full' \/ Len(file'[p]) >= MaxStored \/ Len(u.logs) >= MaxStored
<1>1. thread'[Loop(p)] = u
  BY DEF Loop, Threads, Become, TypeOK
<1> QED BY <1>1 DEF Around, Pile

\* A step that reads or decides, and may put together records that are around.
LEMMA LocalStep ==
  ASSUME TypeOK, Kept, NEW p \in Pods, NEW u \in Thread, Become(Loop(p), u),
         UNCHANGED <<logged, files, ending, server, budget>>,
         u.read \in {None, thread[Loop(p)].read, collection},
         u.pc = "truncate" =>
           \/ Len(u.logs) = MaxStored
           \/ /\ RecordsOf(file[p]) \subseteq RecordsOf(u.logs)
              /\ Len(file[p]) <= Len(u.logs),
         u.pc = "rewrite" => u.content = file[p],
         Len(u.logs) = MaxStored \/ Len(thread[Loop(p)].logs) <= Len(u.logs),
         \/ Overflow \/ Len(u.logs) = MaxStored
         \/ /\ RecordsOf(thread[Loop(p)].logs) \subseteq RecordsOf(u.logs)
            /\ RecordsOf(u.logs) \subseteq Around(p)
  PROVE  Kept'
<1> DEFINE t == Loop(p)
<1>1. /\ t \in Threads /\ t[1] = p
      /\ thread[t] \in Thread /\ file[p] \in Logs
  BY DEF Loop, Threads, TypeOK
<1>2. /\ Len(u.logs) \in Nat /\ Len(thread[t].logs) \in Nat /\ Len(file[p]) \in Nat
      /\ MaxStored \in Nat
  BY <1>1, LenProperties, ParametersAssumption DEF Thread, Logs
<1>3. Stored' = Stored /\ (Full' <=> Full) /\ file' = file /\ collection' = collection
  BY DEF server, files, Stored, Full
<1>4. Pile(p) => Pile(p)'
  BY <1>2, <1>3, AfterStep DEF Pile
<1>5. Overflow \/ Pile(p)' \/ Around(p)' = Around(p)
  <2>1. CASE Len(u.logs) = MaxStored
    BY <1>2, <2>1, AfterStep
  <2>2. CASE /\ RecordsOf(thread[Loop(p)].logs) \subseteq RecordsOf(u.logs)
             /\ RecordsOf(u.logs) \subseteq Around(p)
    BY <1>3, <2>2, AfterStep DEF Around
  <2>3. CASE Overflow
    BY <2>3
  <2> QED BY <2>1, <2>2, <2>3
<1>6. thread'[t] = u
  BY AfterStep
<1>7. MoveInv(t)'
  <2>1. u.read # None => collection' # None
    BY <1>1, <1>3 DEF Kept, MoveInv
  <2> QED BY <1>1, <1>2, <1>3, <1>6, <2>1 DEF MoveInv, At, Taken
<1>8. Moves(p, u)
  BY <1>3, <1>4, <1>5, <1>7 DEF Moves
<1> QED BY <1>8, LoopStep

\* A step that ends a round: what the thread held is stored or in the file.
LEMMA ReturnStep ==
  ASSUME TypeOK, Kept, NEW p \in Pods, Return(Loop(p)),
         UNCHANGED <<logged, ending, budget>>,
         \A q \in Pods \ {p} : file'[q] = file[q],
         collection # None => collection' # None,
         Pile(p) => Full' \/ Len(file'[p]) >= MaxStored,
         \/ Full' \/ Len(file'[p]) >= MaxStored
         \/ /\ Around(p) = Stored' \union RecordsOf(file'[p])
            /\ Stored \subseteq Stored'
  PROVE  Kept'
<1> DEFINE u == Rest(Loop(p))
<1>1. Loop(p) \in Threads /\ u \in Thread /\ Become(Loop(p), u)
  BY RestTyped DEF Loop, Threads, Return
<1>2. /\ u.read = None /\ u.pc = "idle"
      /\ RecordsOf(u.logs) = {}
  BY DEF Rest, RecordsOf, Loop
<1>3. /\ thread'[Loop(p)] = u
      /\ Around(p)' = Stored' \union RecordsOf(file'[p])
      /\ Full' \/ Len(file'[p]) >= MaxStored => Pile(p)'
  BY <1>1, <1>2, AfterStep
<1>4. MoveInv(Loop(p))'
  BY <1>2, <1>3 DEF MoveInv, At
<1>5. Moves(p, u)
  BY <1>1, <1>2, <1>3, <1>4 DEF Moves
<1> QED BY <1>1, <1>5, LoopStep

LEMMA ConflictKeeps ==
  ASSUME IInv, Kept, NEW p \in Pods, NEW keep \in Logs, Conflict(Loop(p), keep),
         UNCHANGED <<logged, files, ending, server, budget>>,
         Len(keep) = MaxStored \/ Len(thread[Loop(p)].logs) <= Len(keep),
         \/ Overflow \/ Len(keep) = MaxStored
         \/ /\ RecordsOf(thread[Loop(p)].logs) \subseteq RecordsOf(keep)
            /\ RecordsOf(keep) \subseteq Around(p)
  PROVE  Kept'
<1> DEFINE t == Loop(p)
           again == [thread[t] EXCEPT !.logs = keep, !.read = None, !.retries = @ + 1,
                                      !.pc = "read"]
           back == [thread[t] EXCEPT !.logs = keep, !.read = None, !.pc = "writeBack"]
<1>1. thread[t] \in Thread /\ MaxRetries \in Nat
  BY ParametersAssumption DEF Loop, Threads, IInv, TypeOK
<1>2. CASE thread[t].retries < MaxRetries /\ Become(t, again)
  <2>1. thread[t].retries + 1 \in 0 .. MaxRetries
    BY <1>1, <1>2 DEF Thread
  <2>2. again \in Thread /\ again.logs = keep /\ again.read = None /\ again.pc = "read"
    BY <1>1, <2>1 DEF Thread
  <2> HIDE DEF again
  <2> QED BY <1>2, <2>2, LocalStep DEF IInv
<1>3. CASE Become(t, back)
  <2>1. back \in Thread /\ back.logs = keep /\ back.read = None /\ back.pc = "writeBack"
    BY <1>1 DEF Thread
  <2> HIDE DEF back
  <2> QED BY <1>3, <2>1, LocalStep DEF IInv
<1> QED BY <1>2, <1>3 DEF Conflict

LEMMA KeptStep ==
  ASSUME Quiet, IInv, Kept, [Next]_vars
  PROVE  Kept'
<1>0. \A p \in Pods :
        /\ Loop(p) \in Threads /\ Loop(p)[1] = p
        /\ thread[Loop(p)] \in Thread
        /\ ThreadInv(thread[Loop(p)]) /\ MoveInv(Loop(p))
        /\ file[p] \in Logs /\ Len(file[p]) \in Nat
        /\ thread[Loop(p)].logs \in Logs
        /\ Len(thread[Loop(p)].logs) \in Nat
        /\ Len(thread[Loop(p)].logs) <= MaxStored
        /\ MaxStored \in Nat \ {0}
        /\ RecordsOf(file[p]) \union RecordsOf(thread[Loop(p)].logs) \subseteq Around(p)
  BY LenProperties, ParametersAssumption
  DEF Loop, Threads, IInv, Holds, ThreadInv, TypeOK, Kept, Logs, Thread, Around
<1>1. CASE UNCHANGED vars
  BY <1>1 DEF vars, files, server, Kept, Undisturbed, MoveInv, Taken, Own, NoRecordLost,
              Overflow, Full, Stored, Logged, At
<1>2. ASSUME NEW p \in Pods, Log(p), ~Moving(p)
      PROVE  Kept'
  <2> DEFINE new == <<p, logged[p] + 1>>
  <2>1. /\ logged[p] \in Nat /\ logged[p] + 1 \in 1 .. MaxRecords
        /\ new \in Record /\ <<new>> \in Logs
    BY <1>2, ParametersAssumption DEF Log, IInv, TypeOK, Record, Logs
  <2>2. /\ Len(file[p]) <= Len(file'[p]) /\ Len(file'[p]) \in Nat
        /\ RecordsOf(file'[p]) = RecordsOf(file[p]) \union {new}
        /\ \A q \in Pods \ {p} : file'[q] = file[q]
    <3>1. file'[p] = file[p] \o <<new>>
      <4>1. file[p] \in Seq(Record) /\ file'[p] = Append(file[p], new)
        BY <1>2 DEF Log, IInv, TypeOK, Logs
      <4> QED BY <2>1, <4>1, AppendIsConcat
    <3>2. RecordsOf(<<new>>) = {new}
      BY DEF RecordsOf
    <3>3. \A q \in Pods \ {p} : file'[q] = file[q]
      BY <1>2 DEF Log, IInv, TypeOK
    <3>4. file[p] \in Logs
      BY <1>0
    <3> QED BY <2>1, <3>1, <3>2, <3>3, <3>4, MembersOfConcat, LenProperties DEF Logs
  <2>3. /\ logged'[p] = logged[p] + 1
        /\ \A q \in Pods \ {p} : logged'[q] = logged[q]
        /\ thread' = thread /\ server' = server /\ budget' = budget /\ ending' = ending
        /\ Stored' = Stored /\ (Full' <=> Full) /\ collection' = collection
    BY <1>2 DEF Log, IInv, TypeOK, server, Stored, Full
  <2> HIDE DEF new
  <2>4. Overflow => Overflow'
    BY <1>0, <2>2, <2>3 DEF Overflow
  <2>5. Undisturbed'
    BY <2>3 DEF Kept, Undisturbed, At
  <2>6. ASSUME NEW t \in Threads
        PROVE  MoveInv(t)'
    <3>1. MoveInv(t) /\ t[1] \in Pods
      BY DEF Kept, Threads
    <3>2. CASE t[1] = p
      BY <1>2, <2>3, <3>1, <3>2 DEF MoveInv, Moving, At
    <3>3. CASE t[1] # p
      BY <2>2, <2>3, <3>1, <3>3 DEF MoveInv, Taken, At
    <3> QED BY <3>2, <3>3
  <2>7. ASSUME NEW q \in Pods
        PROVE  Own(q)'
    <3>1. Own(q) /\ new[1] = p
      BY DEF Kept, new
    <3> QED BY <2>2, <2>3, <2>4, <3>1 DEF Own
  <2>8. NoRecordLost'
    <3> SUFFICES ASSUME NEW r \in Logged', ~Overflow'
                 PROVE  \/ r \in Stored' \/ r \in RecordsOf(file'[r[1]])
                        \/ \E t \in Threads : r \in RecordsOf(thread'[t].logs)
      BY DEF NoRecordLost
    <3>1. r \in Record /\ r[1] \in Pods /\ r[2] \in Nat /\ r = <<r[1], r[2]>>
      BY ParametersAssumption DEF Logged, Record
    <3>2. r \in Logged \/ r = new
      BY <2>1, <2>3, <3>1 DEF Logged, new
    <3>3. CASE r = new
      BY <2>2, <3>3 DEF new
    <3>4. CASE r \in Logged
      BY <2>2, <2>3, <2>4, <3>1, <3>4 DEF Kept, NoRecordLost
    <3> QED BY <3>2, <3>3, <3>4
  <2> QED BY <2>5, <2>6, <2>7, <2>8 DEF Kept
<1>3. ASSUME NEW p \in Pods, StartRound(Loop(p))
      PROVE  Kept'
  <2> DEFINE u == [thread[Loop(p)] EXCEPT !.pc = "read"]
  <2>1. /\ u \in Thread /\ u.pc = "read" /\ u.read = thread[Loop(p)].read
        /\ u.logs = thread[Loop(p)].logs
    BY <1>0 DEF Thread
  <2>2. Become(Loop(p), u)
    BY <1>3 DEF StartRound, Go
  <2> HIDE DEF u
  <2> QED BY <1>0, <1>3, <2>1, <2>2, LocalStep DEF StartRound, IInv
<1>4. ASSUME NEW p \in Pods, ReadFile(Loop(p))
      PROVE  Kept'
  <2> DEFINE t == Loop(p)
             full == [thread[t] EXCEPT !.logs = Trim(@ \o file[t[1]]), !.pc = "truncate"]
             same == [thread[t] EXCEPT !.logs = Trim(@), !.pc = "get"]
  <2>0. /\ thread[t] \in Thread /\ thread[t].logs \in Logs /\ file[p] \in Logs
        /\ Len(file[p]) \in Nat /\ Len(thread[t].logs) \in Nat /\ MaxStored \in Nat
        /\ RecordsOf(file[p]) \union RecordsOf(thread[t].logs) \subseteq Around(p)
    BY <1>0
  <2>1. CASE Become(t, full)
    <3>1. /\ Trim(thread[t].logs \o file[p]) \in Logs
          /\ \/ Len(Trim(thread[t].logs \o file[p])) = MaxStored
             \/ /\ RecordsOf(Trim(thread[t].logs \o file[p])) =
                     RecordsOf(thread[t].logs) \union RecordsOf(file[p])
                /\ Len(thread[t].logs) <= Len(Trim(thread[t].logs \o file[p]))
                /\ Len(file[p]) <= Len(Trim(thread[t].logs \o file[p]))
      BY <1>0, TrimKeeps
    <3>2. /\ full \in Thread /\ full.read = thread[t].read /\ full.pc = "truncate"
          /\ full.logs = Trim(thread[t].logs \o file[p])
      BY <1>0, <3>1 DEF Thread
    <3> HIDE DEF full
    <3>3. \/ Len(full.logs) = MaxStored
          \/ /\ RecordsOf(full.logs) = RecordsOf(thread[t].logs) \union RecordsOf(file[p])
             /\ Len(file[p]) <= Len(full.logs) /\ Len(thread[t].logs) <= Len(full.logs)
      BY <2>0, <3>1, <3>2
    <3> QED BY <1>4, <2>0, <2>1, <3>2, <3>3, LocalStep DEF ReadFile, IInv
  <2>2. CASE Become(t, same)
    <3>1. Trim(thread[t].logs) = thread[t].logs
      BY <1>0, TrimFits
    <3>2. /\ same \in Thread /\ same.read = thread[t].read /\ same.pc = "get"
          /\ same.logs = thread[t].logs
      BY <2>0, <3>1 DEF Thread
    <3> HIDE DEF same
    <3>3. /\ RecordsOf(thread[t].logs) \subseteq RecordsOf(same.logs)
          /\ RecordsOf(same.logs) \subseteq Around(p)
          /\ Len(thread[t].logs) <= Len(same.logs)
      BY <2>0, <3>2
    <3> QED BY <1>4, <2>2, <3>2, <3>3, LocalStep DEF ReadFile, IInv
  <2> QED BY <1>4, <2>1, <2>2 DEF ReadFile
<1>5. ASSUME NEW p \in Pods, Truncate(Loop(p))
      PROVE  Kept'
  <2> DEFINE t == Loop(p)
             u == [thread[t] EXCEPT !.pc = "get"]
  <2>1. /\ u \in Thread /\ u.pc = "get" /\ u.read = thread[t].read
        /\ u.logs = thread[t].logs
    BY <1>0 DEF Thread
  <2>2. Become(t, u)
    BY <1>5 DEF Truncate, Go
  <2> HIDE DEF u
  <2>3. Taken(t)
    BY <1>0, <1>5 DEF Truncate, MoveInv
  <2>4. /\ RecordsOf(file'[p]) = {} /\ Len(file'[p]) = 0
        /\ \A q \in Pods \ {p} : file'[q] = file[q]
        /\ Stored' = Stored /\ (Full' <=> Full) /\ collection' = collection
    BY <1>0, <1>5 DEF Truncate, IInv, TypeOK, RecordsOf, server, Stored, Full
  <2>5. Pile(p) => Pile(p)'
    BY <1>0, <2>1, <2>2, <2>3, <2>4, AfterStep DEF IInv, Pile, Taken
  <2>6. Pile(p)' \/ Around(p)' = Around(p)
    BY <1>0, <2>1, <2>2, <2>3, <2>4, AfterStep DEF IInv, Around, Taken
  <2>7. MoveInv(t)'
    BY <1>0, <2>1, <2>2, <2>4, AfterStep DEF IInv, MoveInv, At
  <2>8. Moves(p, u)
    BY <1>5, <2>1, <2>2, <2>4, <2>5, <2>6, <2>7 DEF Moves, Truncate
  <2> QED BY <2>1, <2>8, LoopStep DEF IInv
<1>6. ASSUME NEW p \in Pods, Get(Loop(p))
      PROVE  Kept'
  <2> DEFINE t == Loop(p)
             asked == [thread[t] EXCEPT !.pc = "create"]
             got == [thread[t] EXCEPT !.read = collection, !.pc = "replace"]
  <2>0. thread[t] \in Thread /\ collection \in Collection \union {None}
    BY <1>0 DEF IInv, TypeOK
  <2>1. CASE Become(t, asked)
    <3>1. /\ asked \in Thread /\ asked.pc = "create" /\ asked.read = thread[t].read
          /\ asked.logs = thread[t].logs
      BY <1>0 DEF Thread
    <3> HIDE DEF asked
    <3> QED BY <1>0, <1>6, <2>1, <3>1, LocalStep DEF Get, IInv
  <2>2. CASE Become(t, got)
    <3>1. /\ got \in Thread /\ got.pc = "replace" /\ got.read = collection
          /\ got.logs = thread[t].logs
      BY <2>0 DEF Thread
    <3> HIDE DEF got
    <3> QED BY <1>0, <1>6, <2>2, <3>1, LocalStep DEF Get, IInv
  <2>3. CASE thread[t].logs = << >> /\ Return(t)
    <3>1. RecordsOf(thread[t].logs) = {} /\ Len(thread[t].logs) = 0
      BY <2>3 DEF RecordsOf
    <3>2. Stored' = Stored /\ (Full' <=> Full) /\ file' = file /\ collection' = collection
      BY <1>6 DEF Get, server, files, Stored, Full
    <3> QED BY <1>0, <1>6, <2>3, <3>1, <3>2, ReturnStep DEF Get, IInv, Around, Pile
  <2> QED BY <1>6, <2>1, <2>2, <2>3 DEF Get, Go
<1>7. ASSUME NEW p \in Pods, NEW s \in Logs, Store(s), Return(Loop(p)),
             UNCHANGED <<logged, files, ending, budget>>,
             \/ Len(s) = MaxStored
             \/ /\ RecordsOf(s) = Stored \union RecordsOf(thread[Loop(p)].logs)
                /\ Len(thread[Loop(p)].logs) <= Len(s)
                /\ collection # None => Len(collection.logs) <= Len(s),
             Len(s) <= MaxStored
      PROVE  Kept'
  <2>1. /\ collection' # None /\ Stored' = RecordsOf(s)
        /\ Full' <=> Len(s) = MaxStored
        /\ file' = file
    BY <1>7, StoreTyped, NoneAssumption DEF IInv, Store, Stored, Full, files, Collection
  <2>2. Len(s) \in Nat
    BY LenProperties DEF Logs
  <2> QED BY <1>0, <1>7, <2>1, <2>2, ReturnStep DEF IInv, Around, Pile, Full
<1>8. ASSUME NEW p \in Pods, Create(Loop(p))
      PROVE  Kept'
  <2>1. CASE collection = None
    BY <1>0, <1>7, <1>8, <2>1 DEF Create, Stored
  <2>2. CASE collection # None
    BY <1>0, <1>8, <2>2, ConflictKeeps DEF Create
  <2> QED BY <2>1, <2>2
<1>9. ASSUME NEW p \in Pods, Replace(Loop(p))
      PROVE  Kept'
  <2> DEFINE t == Loop(p)
             s == Extended(t)
  <2>0. /\ thread[t] \in Thread /\ thread[t].logs \in Logs /\ file[p] \in Logs
        /\ Len(file[p]) \in Nat /\ Len(thread[t].logs) \in Nat /\ MaxStored \in Nat
        /\ RecordsOf(file[p]) \union RecordsOf(thread[t].logs) \subseteq Around(p)
    BY <1>0
  <2>1. /\ thread[t].read \in Collection /\ collection # None
        /\ collection \in Collection
    BY <1>0, <1>9 DEF Replace, At, MoveInv, ThreadInv, Thread, IInv, TypeOK
  <2>2. /\ s \in Logs /\ Len(s) <= MaxStored
        /\ \/ Len(s) = MaxStored
           \/ /\ RecordsOf(s) =
                   RecordsOf(thread[t].read.logs) \union RecordsOf(thread[t].logs)
              /\ Len(thread[t].read.logs) <= Len(s) /\ Len(thread[t].logs) <= Len(s)
        /\ Len(thread[t].read.logs) \in Nat
    BY <1>0, <2>1, TrimKeeps, LenProperties DEF Extended, Collection, Logs
  <2> HIDE DEF s
  <2>3. CASE IsCurrent(t) /\ Store(s) /\ Return(t)
    <3>1. thread[t].read = collection
      BY <1>0, <2>1, <2>3, NoneAssumption DEF IsCurrent, ThreadInv
    <3>2. \/ Len(s) = MaxStored
          \/ /\ RecordsOf(s) = Stored \union RecordsOf(thread[t].logs)
             /\ Len(thread[t].logs) <= Len(s)
             /\ Len(collection.logs) <= Len(s)
      BY <2>0, <2>1, <2>2, <3>1 DEF Stored
    <3> QED BY <1>7, <1>9, <2>2, <2>3, <3>2 DEF Replace
  <2>4. CASE Conflict(t, s) /\ UNCHANGED server
    <3>1. CASE Len(s) = MaxStored
      BY <1>9, <2>2, <2>4, <3>1, ConflictKeeps DEF Replace
    <3>2. CASE Len(s) # MaxStored
      <4>1. Overflow \/ RecordsOf(thread[t].read.logs) \subseteq Stored
        BY <2>0, <2>1, NoneAssumption DEF Kept, Own
      <4>2. /\ Len(thread[t].logs) <= Len(s)
            /\ RecordsOf(thread[t].logs) \subseteq RecordsOf(s)
            /\ Overflow \/ RecordsOf(s) \subseteq Around(p)
        BY <2>0, <2>2, <3>2, <4>1 DEF Around
      <4> QED BY <1>9, <2>2, <2>4, <4>2, ConflictKeeps DEF Replace
    <3> QED BY <3>1, <3>2
  <2> QED BY <1>9, <2>1, <2>3, <2>4 DEF Replace, s
<1>10. ASSUME NEW p \in Pods, WriteBack(Loop(p))
       PROVE  Kept'
  <2> DEFINE t == Loop(p)
             u == [thread[t] EXCEPT !.content = file[t[1]], !.pc = "rewrite"]
  <2>0. thread[t] \in Thread /\ file[p] \in Logs /\ t[1] = p
    BY <1>0
  <2>1. /\ u \in Thread /\ u.pc = "rewrite" /\ u.read = thread[t].read
        /\ u.logs = thread[t].logs /\ u.content = file[p]
    BY <2>0 DEF Thread
  <2>2. Become(t, u)
    BY <1>10 DEF WriteBack
  <2> HIDE DEF u
  <2> QED BY <1>0, <1>10, <2>1, <2>2, LocalStep DEF WriteBack, IInv
<1>11. ASSUME NEW p \in Pods, Rewrite(Loop(p))
       PROVE  Kept'
  <2> DEFINE t == Loop(p)
  <2>0. /\ thread[t] \in Thread /\ thread[t].logs \in Logs /\ file[p] \in Logs
        /\ Len(file[p]) \in Nat /\ Len(thread[t].logs) \in Nat /\ MaxStored \in Nat
        /\ RecordsOf(file[p]) \union RecordsOf(thread[t].logs) \subseteq Around(p)
    BY <1>0
  <2>1. thread[t].content = file[p]
    BY <1>0, <1>11 DEF Rewrite, MoveInv
  <2>2. /\ file'[p] = thread[t].logs \o file[p]
        /\ \A q \in Pods \ {p} : file'[q] = file[q]
    BY <1>0, <1>11, <2>1 DEF Rewrite, Rewritten, IInv, TypeOK
  <2>3. /\ RecordsOf(file'[p]) = RecordsOf(thread[t].logs) \union RecordsOf(file[p])
        /\ Len(thread[t].logs) <= Len(file'[p]) /\ Len(file[p]) <= Len(file'[p])
        /\ Len(file'[p]) \in Nat
    BY <2>0, <2>2, MembersOfConcat, LenProperties DEF Logs
  <2>4. Stored' = Stored /\ (Full' <=> Full) /\ collection' = collection
    BY <1>11 DEF Rewrite, server, Stored, Full
  <2>5. Pile(p) => Full' \/ Len(file'[p]) >= MaxStored
    BY <2>0, <2>3, <2>4 DEF Pile
  <2> QED BY <1>11, <2>2, <2>3, <2>4, <2>5, ReturnStep DEF Rewrite, IInv, Around
<1> QED
  BY <1>1, <1>2, <1>3, <1>4, <1>5, <1>6, <1>8, <1>9, <1>10, <1>11, QuietSteps
  DEF Step, Kept, IInv

\* For any number of pods and records, any limit and any number of retries: whatever
\* conflicts they run into, the pods keep every record as long as the limit is not reached.
THEOREM NothingLost ==
  ASSUME Quiet
  PROVE  Spec => []NoRecordLost
<1>1. Init => Kept
  <2> SUFFICES ASSUME Init
               PROVE  Kept
    OBVIOUS
  <2>1. Undisturbed
    BY DEF Init, Undisturbed, Quiet, At, Rest, Threads
  <2>2. \A t \in Threads : MoveInv(t)
    BY DEF Init, MoveInv, At, Rest
  <2>3. \A p \in Pods : Own(p)
    BY DEF Init, Own, Rest, Loop, Threads, RecordsOf
  <2>4. NoRecordLost
    BY ParametersAssumption DEF Init, NoRecordLost, Logged, Record
  <2> QED BY <2>1, <2>2, <2>3, <2>4 DEF Kept
<1>2. IInv /\ Kept /\ [Next]_vars => Kept'
  BY KeptStep
<1>3. Kept => NoRecordLost
  BY DEF Kept
<1> QED BY <1>1, <1>2, <1>3, Invariant, PTL DEF Spec

=============================================================================
