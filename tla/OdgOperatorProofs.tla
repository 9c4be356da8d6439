------------------------- MODULE OdgOperatorProofs -------------------------
(***************************************************************************)
(* What OdgOperator guarantees for all names, extensions, specs and        *)
(* budgets of failures.                                                    *)
(***************************************************************************)
EXTENDS OdgOperator, TLAPS

-----------------------------------------------------------------------------
(* Types *)

\* A write of an ODG, and its event, keep the types of both.
LEMMA StoreType ==
  ASSUME TypeOK, NEW n \in Odgs, NEW object \in Odg, Store(n, object)
  PROVE  odgs' \in [Odgs -> Odg \union {None}] /\ log' \in Seq(Event)
<1>1. [name |-> n, odg |-> object] \in Event
  BY DEF Event
<1>2. log' \in Seq(Event)
  BY <1>1 DEF Store, TypeOK
<1>3. odgs' \in [Odgs -> Odg \union {None}]
  BY DEF Store, TypeOK
<1>. QED  BY <1>2, <1>3

\* A patch of the state keeps the type of an ODG.
LEMMA StateType ==
  ASSUME TypeOK, NEW n \in Odgs, odgs[n] # None, NEW state \in States
  PROVE  NewState(n, state) \in Odg
<1>1. odgs[n] \in Odg
  BY DEF TypeOK
<1>. QED  BY <1>1 DEF NewState, Odg

\* A process that waits is one of Op.
LEMMA IdleType ==
  ASSUME NEW resumable \in BOOLEAN, NEW position \in Nat, NEW pending \in SUBSET Event
  PROVE  /\ Idle(resumable, position, pending) \in Op
         /\ Idle(resumable, position, pending).pc = "watch"
         /\ Down \in Op
         /\ Down.pc = "down"
  BY DEF Idle, Down, Op, PCs

LEMMA RelistType ==
  ASSUME TypeOK, Relist
  PROVE  op' \in Op /\ op'.pc = "watch" /\ log' \in Seq(Event)
<1>1. {[name |-> n, odg |-> odgs[n]] : n \in Existing} \in SUBSET Event
  BY DEF Existing, Event, TypeOK
<1>2. log' = <<>> /\ <<>> \in Seq(Event)
  BY DEF Relist
<1>. QED  BY <1>1, <1>2, IdleType DEF Relist

\* Where the next event is taken from.
LEMMA WatchingType ==
  ASSUME TypeOK
  PROVE  Watching \in Op /\ Watching.pc = "watch"
  BY IdleType DEF Watching, TypeOK, Op

\* Where an exception leads.
LEMMA FailedType ==
  ASSUME TypeOK
  PROVE  /\ Failed \in Op
         /\ Failed.pc \notin {"down", "watch"} => op.event # None /\ Failed.event = op.event
<1>1. CASE op.pc \in Installing
  BY <1>1 DEF Failed, TypeOK, Op, PCs, Installing
<1>2. CASE op.pc \notin Installing
  BY <1>2, IdleType DEF Failed
<1>. QED  BY <1>1, <1>2

\* The event that is handled, and the object it is about.
LEMMA EventType ==
  ASSUME TypeOK, op.pc \notin {"down", "watch"}
  PROVE  /\ op.event \in Event
         /\ op.event.name \in Odgs
         /\ op.event.odg \in Odg
         /\ op.event.odg.spec \in Specs
         /\ op.event.odg.gen \in Nat
  BY DEF TypeOK, Op, Event, Odg

LEMMA InitType == Init => TypeOK
<1> SUFFICES ASSUME Init PROVE TypeOK
  OBVIOUS
<1>1. op \in Op /\ op.pc = "watch"
  BY IdleType DEF Init
<1>2. log \in Seq(Event)
  BY DEF Init
<1>. QED  BY <1>1, <1>2, OdgAssumption DEF Init, TypeOK

LEMMA UserType == TypeOK /\ UserNext => TypeOK'
<1> SUFFICES ASSUME TypeOK, NEW n \in Odgs,
                    \/ \E s \in Specs : Create(n, s) \/ ChangeSpec(n, s)
                    \/ Annotate(n)
                    \/ Delete(n)
             PROVE  TypeOK'
  BY DEF UserNext
<1> USE NoneAssumption
<1>0. odgs[n] # None => odgs[n] \in Odg
  BY DEF TypeOK
<1>1. ASSUME NEW s \in Specs, Create(n, s) PROVE TypeOK'
  <2>1. [gen |-> 1, spec |-> s, annotated |-> FALSE, deleting |-> FALSE, state |-> "none"]
          \in Odg
    BY DEF Odg, States
  <2>2. odgs' \in [Odgs -> Odg \union {None}] /\ log' \in Seq(Event)
    BY <1>1, <2>1, StoreType DEF Create
  <2>. QED  BY <1>1, <2>2 DEF Create, TypeOK
<1>2. ASSUME NEW s \in Specs, ChangeSpec(n, s) PROVE TypeOK'
  <2>1. [odgs[n] EXCEPT !.gen = @ + 1, !.spec = s] \in Odg
    <3>1. odgs[n] \in Odg
      BY <1>0, <1>2 DEF ChangeSpec
    <3>2. odgs[n].gen + 1 \in Nat
      BY <3>1 DEF Odg
    <3>. QED  BY <3>1, <3>2 DEF Odg
  <2>2. odgs' \in [Odgs -> Odg \union {None}] /\ log' \in Seq(Event)
    BY <1>2, <2>1, StoreType DEF ChangeSpec
  <2>. QED  BY <1>2, <2>2 DEF ChangeSpec, TypeOK
<1>3. CASE Annotate(n)
  <2>1. [odgs[n] EXCEPT !.annotated = TRUE] \in Odg
    BY <1>0, <1>3 DEF Annotate, Odg
  <2>2. budget' \in [Kinds -> Nat]
    BY <1>3 DEF Annotate, Spend, TypeOK, Kinds
  <2>3. odgs' \in [Odgs -> Odg \union {None}] /\ log' \in Seq(Event)
    BY <1>3, <2>1, StoreType DEF Annotate
  <2>. QED  BY <1>3, <2>2, <2>3 DEF Annotate, TypeOK
<1>4. CASE Delete(n)
  <2>1. [odgs[n] EXCEPT !.gen = @ + 1, !.deleting = TRUE] \in Odg
    <3>1. odgs[n] \in Odg
      BY <1>0, <1>4 DEF Delete
    <3>2. odgs[n].gen + 1 \in Nat
      BY <3>1 DEF Odg
    <3>. QED  BY <3>1, <3>2 DEF Odg
  <2>2. odgs' \in [Odgs -> Odg \union {None}] /\ log' \in Seq(Event)
    BY <1>4, <2>1, StoreType DEF Delete
  <2>. QED  BY <1>4, <2>2 DEF Delete, TypeOK
<1>. QED  BY <1>1, <1>2, <1>3, <1>4

LEMMA DisturbType == TypeOK /\ (Disturb \/ Restart) => TypeOK'
<1> SUFFICES ASSUME TypeOK, Disturb \/ Restart PROVE TypeOK'
  OBVIOUS
<1>1. CASE Restart
  <2>1. op' \in Op /\ op'.pc = "watch" /\ log' \in Seq(Event)
    BY <1>1, RelistType DEF Restart
  <2>2. seen' \in [Odgs -> Nat]
    BY <1>1 DEF Restart
  <2>. QED  BY <1>1, <2>1, <2>2 DEF Restart, TypeOK
<1>2. ASSUME Disturb PROVE budget' \in [Kinds -> Nat]
  <2>1. PICK kind \in Kinds : Spend(kind)
    BY <1>2 DEF Disturb, Timeout, ApiError, WatchEnds, Kill, Kinds
  <2>. QED  BY <2>1 DEF Spend, TypeOK
<1>3. CASE Timeout
  <2>1. CASE op.resumable
    <3>1. op' \in Op /\ op'.pc = "watch"
      <4>1. op \in Op /\ op.pc = "watch" /\ op' = [op EXCEPT !.position = 0]
        BY <1>3, <2>1 DEF Timeout, ResumeAt, TypeOK
      <4>. QED  BY <4>1 DEF Op
    <3>. QED  BY <1>2, <1>3, <2>1, <3>1 DEF Timeout, Disturb, TypeOK
  <2>2. CASE ~op.resumable
    <3>1. op' \in Op /\ op'.pc = "watch" /\ log' \in Seq(Event)
      BY <1>3, <2>2, RelistType DEF Timeout
    <3>. QED  BY <1>2, <1>3, <3>1 DEF Timeout, Disturb, TypeOK
  <2>. QED  BY <2>1, <2>2
<1>4. CASE ApiError
  <2>1. op' \in Op /\ (op'.pc \notin {"down", "watch"} => op'.event # None)
    BY <1>4, FailedType DEF ApiError
  <2>. QED  BY <1>2, <1>4, <2>1 DEF ApiError, Disturb, TypeOK
<1>5. CASE WatchEnds
  <2>1. op' \in Op /\ op'.pc = "watch" /\ log' \in Seq(Event)
    BY <1>5, RelistType DEF WatchEnds
  <2>. QED  BY <1>2, <1>5, <2>1 DEF WatchEnds, Disturb, TypeOK
<1>6. CASE Kill
  <2>1. op' \in Op /\ op'.pc = "down"
    BY <1>6, IdleType DEF Kill
  <2>. QED  BY <1>2, <1>6, <2>1 DEF Kill, Disturb, TypeOK
<1>. QED  BY <1>1, <1>3, <1>4, <1>5, <1>6 DEF Disturb

\* What is done about one event.
LEMMA HandleType ==
  ASSUME TypeOK, op.pc = "watch", NEW event \in Event
  PROVE  /\ Handle(event) \in Op
         /\ Handle(event).pc \in {"watch", "annotated", "begin"}
         /\ Handle(event).pc # "watch" => Handle(event).event = event
<1>1. op \in Op /\ op.pc \in PCs
  BY DEF TypeOK, Op
<1>2. [op EXCEPT !.event = event] \in Op
  BY <1>1 DEF Op
<1>3. ASSUME NEW pc \in {"annotated", "begin"}
      PROVE  /\ [[op EXCEPT !.event = event] EXCEPT !.pc = pc] \in Op
             /\ [[op EXCEPT !.event = event] EXCEPT !.pc = pc].pc = pc
             /\ [[op EXCEPT !.event = event] EXCEPT !.pc = pc].event = event
  BY <1>1, <1>2 DEF Op, PCs
<1>. QED  BY <1>1, <1>3 DEF Handle

\* An event that is delivered is an Event, and so is what is left of the list.
LEMMA DeliverType ==
  ASSUME TypeOK, Deliver
  PROVE  TypeOK' /\ op'.pc \in {"watch", "annotated", "begin"}
<1> USE NoneAssumption
<1> DEFINE Placed == /\ op' \in Op
                     /\ op'.pc \in {"watch", "annotated", "begin"}
                     /\ op'.pc # "watch" => op'.event # None
<1>1. op.pc = "watch" /\ op \in Op
  BY DEF Deliver, TypeOK
<1>2. ASSUME NEW event \in op.pending, op' = [Handle(event) EXCEPT !.pending = @ \ {event}]
      PROVE  Placed
  <2>1. event \in Event
    BY <1>1 DEF Op
  <2>2. PICK next \in Op : next = Handle(event)
    BY <1>1, <2>1, HandleType
  <2>3. next.pc \in {"watch", "annotated", "begin"} /\ (next.pc # "watch" => next.event = event)
    BY <1>1, <2>1, <2>2, HandleType
  <2>4. op' = [next EXCEPT !.pending = @ \ {event}]
    BY <1>2, <2>2
  <2>. QED  BY <2>1, <2>3, <2>4 DEF Op
<1>3. ASSUME op.position < Len(log),
             op' = [Handle(log[op.position + 1]) EXCEPT !.position = @ + 1]
      PROVE  Placed
  <2>1. log[op.position + 1] \in Event
    BY <1>1, <1>3 DEF TypeOK, Op
  <2>2. PICK event \in Event : event = log[op.position + 1]
    BY <2>1
  <2>3. PICK next \in Op : next = Handle(event)
    BY <1>1, HandleType
  <2>4. next.pc \in {"watch", "annotated", "begin"} /\ (next.pc # "watch" => next.event = event)
    BY <1>1, <2>3, HandleType
  <2>5. op' = [next EXCEPT !.position = @ + 1]
    BY <1>3, <2>2, <2>3
  <2>. QED  BY <2>4, <2>5 DEF Op
<1>4. Placed
  BY <1>2, <1>3 DEF Deliver
<1>. QED  BY <1>4 DEF Deliver, TypeOK

\* The steps that write an ODG: the annotation, the states and the finaliser.
LEMMA StateStepType == TypeOK /\ (RemoveAnnotation \/ Begin \/ RemoveFinaliser \/ Report)
                         => TypeOK'
<1> SUFFICES ASSUME TypeOK, RemoveAnnotation \/ Begin \/ RemoveFinaliser \/ Report
             PROVE  TypeOK'
  OBVIOUS
<1> USE NoneAssumption
<1> DEFINE n == op.event.name
<1>1. op.pc \notin {"down", "watch"}
  BY DEF RemoveAnnotation, Begin, RemoveFinaliser, Report
<1>2. /\ op \in Op
      /\ op.event \in Event
      /\ op.event # None
      /\ n \in Odgs
      /\ op.event.odg.gen \in Nat
      /\ op.event.odg.spec \in Specs
      /\ op.event.odg.deleting \in BOOLEAN
  BY <1>1, EventType DEF TypeOK, Odg
<1> HIDE DEF n
<1> DEFINE Kept == odgs' \in [Odgs -> Odg \union {None}] /\ log' \in Seq(Event)
           Placed == op' \in Op /\ (op'.pc \notin {"down", "watch"} => op'.event # None)
<1>3. ASSUME odgs[n] = None PROVE Kept /\ Placed
  <2>1. op' = Down /\ UNCHANGED <<odgs, log>>
    BY <1>3 DEF RemoveAnnotation, Begin, RemoveFinaliser, Report, n
  <2>. QED  BY <2>1, IdleType DEF TypeOK
<1>4. ASSUME odgs[n] # None, RemoveAnnotation PROVE Kept /\ Placed
  <2>1. odgs[n] \in Odg
    BY <1>2, <1>4 DEF TypeOK
  <2>2. [odgs[n] EXCEPT !.annotated = FALSE] \in Odg
    BY <2>1 DEF Odg
  <2>3. Kept
    BY <1>2, <1>4, <2>2, StoreType DEF RemoveAnnotation, n
  <2>4. op' = [op EXCEPT !.pc = "begin"]
    BY <1>4 DEF RemoveAnnotation, n
  <2>5. Placed
    BY <1>2, <2>4 DEF Op, PCs
  <2>. QED  BY <2>3, <2>5
<1>5. ASSUME odgs[n] # None, Begin PROVE Kept /\ Placed
  <2>1. PICK state \in States : odgs' = [odgs EXCEPT ![n] = NewState(n, state)]
    BY <1>5 DEF Begin, n, States
  <2>2. NewState(n, state) \in Odg
    BY <1>2, <1>5, StateType
  <2>3. odgs' \in [Odgs -> Odg \union {None}] /\ odgs'[n] \in Odg
    BY <1>2, <2>1, <2>2 DEF TypeOK
  <2>4. [name |-> n, odg |-> odgs'[n]] \in Event
    BY <1>2, <2>3 DEF Event
  <2>5. SubSeq(log, op.position + 1, Len(log)) \in Seq(Event)
    BY <1>2 DEF TypeOK, Op
  <2>6. log' = Append(SubSeq(log, op.position + 1, Len(log)), [name |-> n, odg |-> odgs'[n]])
    BY <1>5 DEF Begin, n
  <2>7. log' \in Seq(Event)
    BY <2>4, <2>5, <2>6
  <2>8. PICK pc \in PCs, todo \in SUBSET Extensions :
          op' = [op EXCEPT !.resumable = TRUE, !.position = 0, !.pc = pc, !.todo = todo]
    BY <1>2, <1>5, OdgAssumption DEF Begin, n, PCs, Cleaning, Installing
  <2>9. Placed
    BY <1>2, <2>8 DEF Op
  <2>. QED  BY <2>3, <2>7, <2>9
<1>6. ASSUME odgs[n] # None, RemoveFinaliser PROVE Kept /\ Placed
  <2>1. odgs[n] \in Odg
    BY <1>2, <1>6 DEF TypeOK
  <2>2. [name |-> n, odg |-> odgs[n]] \in Event
    BY <1>2, <2>1 DEF Event
  <2>3. /\ odgs' = [odgs EXCEPT ![n] = None]
        /\ log' = Append(log, [name |-> n, odg |-> odgs[n]])
        /\ op' = Watching
    BY <1>6 DEF RemoveFinaliser, n
  <2>4. log' \in Seq(Event)
    BY <2>2, <2>3 DEF TypeOK
  <2>5. odgs' \in [Odgs -> Odg \union {None}]
    BY <2>3 DEF TypeOK
  <2>. QED  BY <2>3, <2>4, <2>5, WatchingType
<1>7. ASSUME odgs[n] # None, Report PROVE Kept /\ Placed
  <2>1. PICK state \in States : Store(n, NewState(n, state))
    BY <1>7 DEF Report, n, States
  <2>2. NewState(n, state) \in Odg
    BY <1>2, <1>7, StateType
  <2>3. Kept
    BY <1>2, <2>1, <2>2, StoreType
  <2>4. op' = Watching
    BY <1>7 DEF Report, n
  <2>. QED  BY <2>3, <2>4, WatchingType
<1>8. Kept /\ Placed
  BY <1>3, <1>4, <1>5, <1>6, <1>7
<1>9. UNCHANGED <<created, managed, secrets, budget>>
  BY DEF RemoveAnnotation, Begin, RemoveFinaliser, Report
<1>10. seen' \in [Odgs -> Nat]
  BY <1>2 DEF RemoveAnnotation, Begin, RemoveFinaliser, Report, TypeOK
<1>. QED  BY <1>8, <1>9, <1>10 DEF TypeOK

\* A write of one secret.
LEMMA SecretType ==
  ASSUME TypeOK, NEW n \in Odgs, NEW e \in Extensions, NEW i \in Indices,
         NEW value \in Specs \union {None},
         secrets' = [secrets EXCEPT ![n][e][i] = value]
  PROVE  secrets' \in [Odgs -> [Extensions -> [Indices -> Specs \union {None}]]]
<1> DEFINE Row == [Indices -> Specs \union {None}]
           Rows == [Extensions -> Row]
<1>0. secrets \in [Odgs -> Rows]
  BY DEF TypeOK
<1>1. [secrets[n][e] EXCEPT ![i] = value] \in Row
  BY <1>0
<1> HIDE DEF Row
<1>2. [secrets[n] EXCEPT ![e] = [secrets[n][e] EXCEPT ![i] = value]] \in Rows
  <2>1. PICK row \in Row : row = [secrets[n][e] EXCEPT ![i] = value]
    BY <1>1
  <2>2. secrets[n] \in [Extensions -> Row]
    BY <1>0
  <2>. QED  BY <2>1, <2>2
<1> HIDE DEF Rows
<1>3. secrets' \in [Odgs -> Rows]
  <2>1. PICK rows \in Rows :
          rows = [secrets[n] EXCEPT ![e] = [secrets[n][e] EXCEPT ![i] = value]]
    BY <1>2
  <2>2. secrets' = [secrets EXCEPT ![n] = rows]
    BY <2>1
  <2>. QED  BY <1>0, <2>1, <2>2
<1>. QED  BY <1>3 DEF Rows, Row

\* The steps of an installation and of the deletion of managed resources.
LEMMA WorkType ==
  ASSUME TypeOK,
         \/ \E e \in op.todo : WriteManaged(e) \/ Take(e)
         \/ \E i \in op.left : WriteSecret(i) \/ DeleteSecret(i)
         \/ Written \/ AllWritten \/ ListManaged \/ DeleteManaged \/ DeletedAll
  PROVE  TypeOK'
<1> USE NoneAssumption
<1> DEFINE n == op.event.name
           s == op.event.odg.spec
           Placed == op' \in Op /\ (op'.pc \notin {"down", "watch"} => op'.event # None)
           Refs == (SUBSET Indices) \union {None}
<1>1. op.pc \notin {"down", "watch"}
  BY DEF WriteManaged, Take, WriteSecret, DeleteSecret, Written, AllWritten, ListManaged,
         DeleteManaged, DeletedAll
<1>2. /\ op \in Op
      /\ op.event # None
      /\ n \in Odgs
      /\ s \in Specs
      /\ op.ext # None => op.ext \in Extensions
      /\ op.todo \subseteq Extensions
      /\ op.left \subseteq Indices
  BY <1>1, EventType DEF TypeOK, Op
<1>3. /\ managed \in [Odgs -> [Extensions -> Refs]]
      /\ secrets \in [Odgs -> [Extensions -> [Indices -> Specs \union {None}]]]
  BY DEF TypeOK
<1> HIDE DEF n, s
<1>4. ASSUME NEW e \in op.todo, WriteManaged(e)
      PROVE  managed' \in [Odgs -> [Extensions -> Refs]] /\ Placed
  <2>1. e \in Extensions /\ Chunks[s][e] \in SUBSET Indices
    BY <1>2, OdgAssumption
  <2>2. CASE e \in Broken[s]
    <3>1. op' = [op EXCEPT !.todo = @ \ {e}] /\ UNCHANGED managed
      BY <1>4, <2>2 DEF WriteManaged, s
    <3>. QED  BY <1>2, <1>3, <3>1 DEF Op
  <2>3. CASE e \notin Broken[s]
    <3>1. managed' = [managed EXCEPT ![n][e] = Chunks[s][e]]
      BY <1>4, <2>3 DEF WriteManaged, s, n
    <3>2. op' = [op EXCEPT !.ext = e, !.left = Chunks[s][e]]
      BY <1>4, <2>3 DEF WriteManaged, s
    <3>. QED  BY <1>2, <1>3, <2>1, <3>1, <3>2 DEF Op
  <2>. QED  BY <2>2, <2>3
<1>5. ASSUME NEW e \in op.todo, Take(e) PROVE Placed
  <2>1. managed[n][e] # None
    BY <1>5 DEF Take, n
  <2>2. managed[n][e] \in SUBSET Indices
    BY <1>2, <1>3, <2>1
  <2>3. op' = [op EXCEPT !.ext = e, !.left = managed[n][e]]
    BY <1>5 DEF Take, n
  <2>4. e \in Extensions
    BY <1>2
  <2>. QED  BY <1>2, <2>2, <2>3, <2>4 DEF Op
<1>6. ASSUME NEW i \in op.left, WriteSecret(i)
      PROVE  secrets' \in [Odgs -> [Extensions -> [Indices -> Specs \union {None}]]] /\ Placed
  <2>1. op.ext \in Extensions /\ i \in Indices
    BY <1>2, <1>6 DEF WriteSecret
  <2>2. secrets' = [secrets EXCEPT ![n][op.ext][i] = s]
    BY <1>6 DEF WriteSecret, n, s
  <2>3. op' = [op EXCEPT !.left = @ \ {i}]
    BY <1>6 DEF WriteSecret
  <2>4. Placed
    BY <1>2, <2>3 DEF Op
  <2>. QED  BY <1>2, <2>1, <2>2, <2>4, SecretType
<1>7. ASSUME NEW i \in op.left, DeleteSecret(i)
      PROVE  secrets' \in [Odgs -> [Extensions -> [Indices -> Specs \union {None}]]] /\ Placed
  <2>1. op.ext \in Extensions /\ i \in Indices
    BY <1>2, <1>7 DEF DeleteSecret
  <2>2. CASE secrets[n][op.ext][i] = None
    BY <1>1, <1>2, <1>3, <1>7, <2>2, FailedType DEF DeleteSecret, n
  <2>3. CASE secrets[n][op.ext][i] # None
    <3>1. secrets' = [secrets EXCEPT ![n][op.ext][i] = None]
      BY <1>7, <2>3 DEF DeleteSecret, n
    <3>2. op' = [op EXCEPT !.left = @ \ {i}]
      BY <1>7, <2>3 DEF DeleteSecret, n
    <3>3. Placed
      BY <1>2, <3>2 DEF Op
    <3>. QED  BY <1>2, <2>1, <3>1, <3>3, SecretType
  <2>. QED  BY <2>2, <2>3
<1>8. ASSUME DeleteManaged PROVE managed' \in [Odgs -> [Extensions -> Refs]] /\ Placed
  <2>1. managed' = [managed EXCEPT ![n][op.ext] = None]
    BY <1>8 DEF DeleteManaged, n
  <2>2. op' = [op EXCEPT !.ext = None, !.todo = @ \ {op.ext}]
    BY <1>8 DEF DeleteManaged
  <2>. QED  BY <1>2, <1>3, <2>1, <2>2 DEF Op
<1>9. ASSUME Written \/ AllWritten \/ ListManaged \/ DeletedAll PROVE Placed
  <2>1. ManagedOf(n) \subseteq Extensions /\ Undesired(n, s) \subseteq Extensions
    BY DEF ManagedOf, Undesired
  <2>2. PICK pc \in PCs, todo \in SUBSET Extensions, ext \in {op.ext, None} :
          op' = [op EXCEPT !.pc = pc, !.todo = todo, !.ext = ext]
    <3>1. CASE Written
      <4>1. op' = [op EXCEPT !.pc = op.pc, !.todo = @ \ {op.ext}, !.ext = None]
        BY <1>2, <3>1 DEF Written, Op
      <4>. QED  BY <1>2, <4>1 DEF Op
    <3>2. CASE AllWritten
      <4>1. op' = [op EXCEPT !.pc = "listUndesired", !.todo = op.todo, !.ext = op.ext]
        BY <1>2, <3>2 DEF AllWritten, Op
      <4>. QED  BY <1>2, <4>1 DEF PCs, Installing
    <3>3. CASE ListManaged
      <4>1. PICK pc \in {"clean", "prune"}, todo \in SUBSET Extensions :
              op' = [op EXCEPT !.pc = pc, !.ext = None, !.todo = todo]
        BY <2>1, <3>3 DEF ListManaged, n, s
      <4>2. op' = [op EXCEPT !.pc = pc, !.todo = todo, !.ext = None]
        BY <1>2, <4>1 DEF Op
      <4>. QED  BY <4>2 DEF PCs, Installing, Cleaning
    <3>4. CASE DeletedAll
      <4>1. PICK pc \in {"finalise", "report"} : op' = [op EXCEPT !.pc = pc]
        BY <3>4 DEF DeletedAll
      <4>2. op' = [op EXCEPT !.pc = pc, !.todo = op.todo, !.ext = op.ext]
        BY <1>2, <4>1 DEF Op
      <4>. QED  BY <1>2, <4>2 DEF PCs, Cleaning
    <3>. QED  BY <1>9, <3>1, <3>2, <3>3, <3>4
  <2>. QED  BY <1>2, <2>2 DEF Op
<1>10. UNCHANGED <<odgs, created, log, seen, budget>>
  BY DEF WriteManaged, Take, WriteSecret, DeleteSecret, Written, AllWritten, ListManaged,
         DeleteManaged, DeletedAll
<1>11. CASE UNCHANGED managed /\ UNCHANGED secrets /\ Placed
  BY <1>10, <1>11 DEF TypeOK
<1>12. /\ managed' \in [Odgs -> [Extensions -> Refs]]
       /\ secrets' \in [Odgs -> [Extensions -> [Indices -> Specs \union {None}]]]
       /\ Placed
  <2>1. ASSUME NEW e \in op.todo, WriteManaged(e) \/ Take(e) PROVE <1>12!:
    BY <1>3, <1>4, <1>5, <2>1 DEF WriteManaged, Take
  <2>2. ASSUME NEW i \in op.left, WriteSecret(i) \/ DeleteSecret(i) PROVE <1>12!:
    BY <1>3, <1>6, <1>7, <2>2 DEF WriteSecret, DeleteSecret
  <2>3. CASE DeleteManaged
    BY <1>3, <1>8, <2>3 DEF DeleteManaged
  <2>4. CASE Written \/ AllWritten \/ ListManaged \/ DeletedAll
    BY <1>3, <1>9, <2>4 DEF Written, AllWritten, ListManaged, DeletedAll
  <2>. QED  BY <2>1, <2>2, <2>3, <2>4
<1>. QED  BY <1>10, <1>12 DEF TypeOK

LEMMA NextType == TypeOK /\ [Next]_vars => TypeOK'
<1>1. TypeOK /\ UNCHANGED vars => TypeOK'
  BY DEF vars, TypeOK
<1>. QED  BY <1>1, UserType, DisturbType, DeliverType, StateStepType, WorkType
          DEF Next, Reconcile

\* Every variable keeps its type.
THEOREM TypeCorrect == Spec => []TypeOK
  BY InitType, NextType, PTL DEF Spec

-----------------------------------------------------------------------------
(* The clean-up *)

\* What the clean-up has still to delete: all that is left of the ODG is in its list,
\* and the finaliser goes when the list is empty.
CleanupInv ==
  /\ op.pc \in {"clean", "prune"} /\ op.ext # None => op.ext \in op.todo
  /\ op.pc = "clean" => ManagedOf(op.event.name) \subseteq op.todo
  /\ op.pc = "finalise" => ManagedOf(op.event.name) = {}

\* An installation, and a clean-up, have an ODG that exists: it keeps its finaliser.
BusyInv ==
  op.pc \in Cleaning \union Installing \union {"report", "failed"}
    => odgs[op.event.name] # None

Inv == CleanupInv /\ BusyInv /\ GoneIsUninstalled

\* A user's step writes one ODG, and nothing else.
LEMMA UserStores ==
  ASSUME TypeOK, UserNext
  PROVE  /\ \E n \in Odgs, object \in Odg : Store(n, object)
         /\ UNCHANGED <<managed, secrets, op, seen>>
<1> USE NoneAssumption
<1>1. PICK n \in Odgs : \/ \E s \in Specs : Create(n, s) \/ ChangeSpec(n, s)
                       \/ Annotate(n)
                       \/ Delete(n)
  BY DEF UserNext
<1>2. odgs[n] # None => odgs[n] \in Odg /\ odgs[n].gen + 1 \in Nat
  BY DEF TypeOK, Odg
<1>3. ASSUME NEW s \in Specs, Create(n, s) PROVE \E object \in Odg : Store(n, object)
  <2>1. [gen |-> 1, spec |-> s, annotated |-> FALSE, deleting |-> FALSE, state |-> "none"]
          \in Odg
    BY DEF Odg, States
  <2>. QED  BY <1>3, <2>1 DEF Create
<1>4. ASSUME NEW s \in Specs, ChangeSpec(n, s) PROVE \E object \in Odg : Store(n, object)
  <2>1. [odgs[n] EXCEPT !.gen = @ + 1, !.spec = s] \in Odg
    BY <1>2, <1>4 DEF ChangeSpec, Odg
  <2>. QED  BY <1>4, <2>1 DEF ChangeSpec
<1>5. CASE Annotate(n)
  <2>1. [odgs[n] EXCEPT !.annotated = TRUE] \in Odg
    BY <1>2, <1>5 DEF Annotate, Odg
  <2>. QED  BY <1>5, <2>1 DEF Annotate
<1>6. CASE Delete(n)
  <2>1. [odgs[n] EXCEPT !.gen = @ + 1, !.deleting = TRUE] \in Odg
    BY <1>2, <1>6 DEF Delete, Odg
  <2>. QED  BY <1>6, <2>1 DEF Delete
<1>7. UNCHANGED <<managed, secrets, op, seen>>
  BY DEF UserNext, Create, ChangeSpec, Annotate, Delete
<1>. QED  BY <1>1, <1>3, <1>4, <1>5, <1>6, <1>7

LEMMA UserInv == TypeOK /\ Inv /\ UserNext => Inv'
<1> SUFFICES ASSUME TypeOK, Inv, UserNext PROVE Inv'
  OBVIOUS
<1>1. PICK m \in Odgs, object \in Odg : Store(m, object)
  BY UserStores
<1>2. \A n \in Odgs : odgs'[n] = None => odgs[n] = None
  BY <1>1, NoneAssumption DEF Store, TypeOK
<1>3. UNCHANGED <<managed, op>>
  BY UserStores
<1>4. CleanupInv' /\ GoneIsUninstalled'
  BY <1>2, <1>3 DEF Inv, CleanupInv, GoneIsUninstalled, ManagedOf
<1>5. ASSUME op.pc \in Cleaning \union Installing \union {"report", "failed"}
      PROVE  odgs'[op.event.name] # None
  <2>1. op.event.name \in Odgs
    BY <1>5, EventType DEF Cleaning, Installing
  <2>. QED  BY <1>2, <1>5, <2>1 DEF Inv, BusyInv
<1>. QED  BY <1>3, <1>4, <1>5 DEF Inv, BusyInv

\* A process that is down, or waits, has nothing to clean up.
LEMMA IdleInv ==
  ASSUME Inv, op'.pc \in {"down", "watch", "begin", "annotated"}, UNCHANGED <<odgs, managed>>
  PROVE  Inv'
  BY DEF Inv, CleanupInv, BusyInv, GoneIsUninstalled, ManagedOf, Cleaning, Installing

LEMMA DisturbInv == TypeOK /\ Inv /\ (Disturb \/ Restart) => Inv'
<1> SUFFICES ASSUME TypeOK, Inv, Disturb \/ Restart PROVE Inv'
  OBVIOUS
<1>1. UNCHANGED <<odgs, managed>>
  BY DEF Disturb, Timeout, ApiError, WatchEnds, Kill, Restart
<1>2. CASE ApiError /\ op.pc \in Installing
  <2>1. op' = [op EXCEPT !.pc = "failed"] /\ op \in Op
    BY <1>2 DEF ApiError, Failed, TypeOK
  <2>. QED  BY <1>1, <1>2, <2>1
            DEF Inv, CleanupInv, BusyInv, GoneIsUninstalled, ManagedOf, Cleaning, Op
<1>3. CASE ~(ApiError /\ op.pc \in Installing)
  <2>1. op'.pc \in {"down", "watch"}
    <3>1. Down.pc = "down"
      BY DEF Down, Idle
    <3>2. Relist => op'.pc = "watch"
      BY RelistType
    <3>3. op \in Op
      BY DEF TypeOK
    <3>4. Timeout => op'.pc \in {"down", "watch"}
      BY <3>2, <3>3 DEF Timeout, Op
    <3>. QED  BY <1>3, <3>1, <3>2, <3>4 DEF Disturb, ApiError, Failed, WatchEnds, Kill, Restart
  <2>. QED  BY <1>1, <2>1, IdleInv
<1>. QED  BY <1>2, <1>3

\* The steps that write an ODG keep the finaliser until the clean-up is through.
LEMMA StateStepInv ==
  ASSUME TypeOK, Inv, Deliver \/ RemoveAnnotation \/ Begin \/ RemoveFinaliser \/ Report
  PROVE  Inv'
<1> USE NoneAssumption
<1> DEFINE n == op.event.name
<1>1. UNCHANGED managed /\ op \in Op /\ Down.pc = "down" /\ Watching.pc = "watch"
  BY DEF Deliver, RemoveAnnotation, Begin, RemoveFinaliser, Report, TypeOK, Down, Watching, Idle
<1>2. CASE Deliver
  BY <1>2, DeliverType, IdleInv DEF Deliver
<1>3. CASE RemoveAnnotation \/ Begin \/ RemoveFinaliser \/ Report
  <2>1. op.pc \notin {"down", "watch"} /\ n \in Odgs
    BY <1>3, EventType DEF RemoveAnnotation, Begin, RemoveFinaliser, Report
  <2>2. CASE odgs[n] = None
    <3>1. op' = Down /\ UNCHANGED odgs
      BY <1>3, <2>2 DEF RemoveAnnotation, Begin, RemoveFinaliser, Report
    <3>. QED  BY <1>1, <3>1, IdleInv
  <2>3. CASE odgs[n] # None /\ RemoveFinaliser
    <3>1. odgs' = [odgs EXCEPT ![n] = None] /\ op'.pc = "watch" /\ ManagedOf(n) = {}
      BY <1>1, <2>3 DEF RemoveFinaliser, Inv, CleanupInv
    <3>. QED  BY <1>1, <2>1, <3>1 DEF Inv, CleanupInv, BusyInv, GoneIsUninstalled, ManagedOf,
                                      Cleaning, Installing, TypeOK
  <2>4. CASE odgs[n] # None /\ ~RemoveFinaliser
    <3>1. odgs[n] \in Odg
      BY <2>1, <2>4 DEF TypeOK
    <3>2. PICK object : object # None /\ odgs' = [odgs EXCEPT ![n] = object]
      <4>1. NewState(n, "Installing") \in Odg /\ NewState(n, "Deleting") \in Odg
            /\ NewState(n, "Installed") \in Odg /\ NewState(n, "Unknown Error") \in Odg
        BY <2>1, <2>4, StateType DEF States
      <4>2. [odgs[n] EXCEPT !.annotated = FALSE] \in Odg
        BY <3>1 DEF Odg
      <4>. QED  BY <1>3, <2>4, <4>1, <4>2 DEF RemoveAnnotation, Begin, Report, Store
    <3>3. \A m \in Odgs : odgs'[m] = None => odgs[m] = None
      BY <2>1, <2>4, <3>2 DEF TypeOK
    <3>4. /\ op'.pc \in {"begin", "write", "listAll", "watch"}
          /\ op'.pc \in {"write", "listAll"} => op'.event = op.event
      BY <1>1, <1>3, <2>4 DEF RemoveAnnotation, Begin, Report, Op
    <3>5. odgs'[n] # None
      BY <2>1, <3>2 DEF TypeOK
    <3>. QED  BY <1>1, <3>3, <3>4, <3>5
              DEF Inv, CleanupInv, BusyInv, GoneIsUninstalled, ManagedOf, Cleaning, Installing
  <2>. QED  BY <2>2, <2>3, <2>4
<1>. QED  BY <1>2, <1>3

LEMMA WorkInv ==
  ASSUME TypeOK, Inv,
         \/ \E e \in op.todo : WriteManaged(e) \/ Take(e)
         \/ \E i \in op.left : WriteSecret(i) \/ DeleteSecret(i)
         \/ Written \/ AllWritten \/ ListManaged \/ DeleteManaged \/ DeletedAll
  PROVE  Inv'
<1> USE NoneAssumption
<1> DEFINE n == op.event.name
<1>1. op.pc \in Cleaning \union Installing
  BY DEF WriteManaged, Take, WriteSecret, DeleteSecret, Written, AllWritten, ListManaged,
         DeleteManaged, DeletedAll, Cleaning, Installing
<1>2. op \in Op /\ n \in Odgs /\ odgs[n] # None
  BY <1>1, EventType DEF TypeOK, Inv, BusyInv, Cleaning, Installing
<1>3. /\ UNCHANGED odgs
      /\ \A m \in Odgs \ {n} : managed'[m] = managed[m]
  BY <1>2 DEF WriteManaged, Take, WriteSecret, DeleteSecret, Written, AllWritten, ListManaged,
         DeleteManaged, DeletedAll, TypeOK
<1>4. GoneIsUninstalled'
  BY <1>2, <1>3 DEF Inv, GoneIsUninstalled, ManagedOf
<1>5. op'.pc = "down" \/ op'.event = op.event
  BY <1>2, ZenonT(40)
  DEF WriteManaged, Take, WriteSecret, DeleteSecret, Written, AllWritten, ListManaged,
      DeleteManaged, DeletedAll, Failed, Down, Idle, Op
<1>6. BusyInv'
  BY <1>2, <1>3, <1>5 DEF BusyInv, Cleaning, Installing
<1>7. CleanupInv'
  <2>1. CASE \/ \E e \in op.todo : WriteManaged(e)
             \/ \E i \in op.left : WriteSecret(i)
             \/ Written \/ AllWritten
    <3>1. op'.pc \in {"write", "listUndesired"}
      BY <1>2, <2>1 DEF WriteManaged, WriteSecret, Written, AllWritten, Op
    <3>. QED  BY <3>1 DEF CleanupInv
  <2>2. ASSUME NEW e \in op.todo, Take(e) PROVE CleanupInv'
    <3>1. op' = [op EXCEPT !.ext = e, !.left = managed[n][e]] /\ UNCHANGED managed
      BY <2>2 DEF Take
    <3>. QED  BY <1>2, <2>2, <3>1 DEF Inv, CleanupInv, ManagedOf, Take, Op
  <2>3. ASSUME NEW i \in op.left, DeleteSecret(i) PROVE CleanupInv'
    <3>1. CASE op' = Failed
      <4>1. op'.pc \in {"failed", "down"}
        BY <1>2, <3>1 DEF Failed, Down, Idle, Op
      <4>. QED  BY <4>1 DEF CleanupInv
    <3>2. CASE op' = [op EXCEPT !.left = @ \ {i}]
      BY <1>2, <2>3, <3>2 DEF DeleteSecret, Inv, CleanupInv, ManagedOf, Op
    <3>. QED  BY <2>3, <3>1, <3>2 DEF DeleteSecret
  <2>4. CASE ListManaged
    <3>1. op'.ext = None /\ (op'.pc = "clean" => op'.todo = ManagedOf(n)) /\ op'.pc # "finalise"
      BY <1>2, <2>4 DEF ListManaged, Op
    <3>2. UNCHANGED managed
      BY <2>4 DEF ListManaged
    <3>. QED  BY <1>2, <1>5, <3>1, <3>2 DEF CleanupInv, ManagedOf
  <2>5. CASE DeleteManaged
    <3>1. /\ managed' = [managed EXCEPT ![n][op.ext] = None]
          /\ op' = [op EXCEPT !.ext = None, !.todo = @ \ {op.ext}]
      BY <2>5 DEF DeleteManaged
    <3>2. ManagedOf(n)' = ManagedOf(n) \ {op.ext}
      BY <1>2, <1>5, <2>5, <3>1 DEF ManagedOf, TypeOK, Op
    <3>. QED  BY <1>2, <2>5, <3>1, <3>2 DEF DeleteManaged, Inv, CleanupInv, Op
  <2>6. CASE DeletedAll
    BY <1>2, <2>6 DEF DeletedAll, AllDeleted, Inv, CleanupInv, ManagedOf, Op
  <2>. QED  BY <2>1, <2>2, <2>3, <2>4, <2>5, <2>6
<1>. QED  BY <1>4, <1>6, <1>7 DEF Inv

\* All that is left of an ODG is on the list of what the clean-up has yet to delete, the operator
\* works on ODGs that exist, and one that is gone is uninstalled: also when the operator is killed
\* between two secrets or API calls.
THEOREM Invariant == Spec => []Inv
<1>1. Init => Inv
  <2> SUFFICES ASSUME Init PROVE Inv
    OBVIOUS
  <2>1. op.pc = "watch"
    BY DEF Init, Idle
  <2>. QED  BY <2>1 DEF Init, Inv, CleanupInv, BusyInv, GoneIsUninstalled, ManagedOf, Cleaning,
                        Installing
<1>2. TypeOK /\ Inv /\ [Next]_vars => Inv'
  <2>1. Inv /\ UNCHANGED vars => Inv'
    BY DEF vars, Inv, CleanupInv, BusyInv, GoneIsUninstalled, ManagedOf
  <2>. QED  BY <2>1, UserInv, DisturbInv, StateStepInv, WorkInv DEF Next, Reconcile
<1>. QED  BY <1>1, <1>2, TypeCorrect, PTL DEF Spec

\* An ODG that is gone has no managed resource left: the operator removes its
\* finaliser (reconcile) only after delete_managed_resource returned for each of them.
THEOREM FinaliserLast == Spec => []GoneIsUninstalled
<1>1. Inv => GoneIsUninstalled
  BY DEF Inv
<1>. QED  BY <1>1, Invariant, PTL

-----------------------------------------------------------------------------
(* What is installed *)

\* The events the operator has still to handle, and the one that it handles.
KnownEvents == {log[i] : i \in DOMAIN log} \union op.pending \union ({op.event} \ {None})

\* A generation counts from 1, and the operator has not seen one that is to come.
ObjectsInv ==
  \A n \in Odgs :
    /\ odgs[n] # None => n \in created /\ odgs[n].gen > 0 /\ seen[n] <= odgs[n].gen
    /\ n \notin created => seen[n] = 0

\* An event is of the past, and one of the present generation has the present spec.
EventsInv ==
  \A event \in KnownEvents :
    /\ event.name \in created
    /\ odgs[event.name] # None =>
         /\ event.odg.gen <= odgs[event.name].gen
         /\ event.odg.gen = odgs[event.name].gen => event.odg.spec = odgs[event.name].spec

\* Between Begin and Report, the generation of the event is the one seen last, and the ODG is not
\* reported as installed.
Working == Cleaning \union Installing \union {"report", "failed"}
WorkingInv ==
  /\ op.pc \in {"down", "watch", "annotated", "begin"} => op.ext = None
  /\ op.pc \in Working =>
       seen[op.event.name] = op.event.odg.gen /\ odgs[op.event.name].state # "Installed"

\* Extension e of spec s is deployed.
IsDeployed(n, s, e) ==
  managed[n][e] = Chunks[s][e] /\ \A i \in Chunks[s][e] : secrets[n][e][i] = s
Installable(s) == Requested[s] \ Broken[s]

\* How far the installation has come: what is not in the list any more is deployed, and the secrets
\* of the present extension that are not left are written; then what is not requested goes.
ProgressInv ==
  LET n == op.event.name
      s == op.event.odg.spec IN
  /\ op.pc = "write" =>
       /\ op.todo \subseteq Requested[s]
       /\ \A e \in Installable(s) \ op.todo : IsDeployed(n, s, e)
       /\ op.ext # None =>
            /\ op.ext \in op.todo
            /\ managed[n][op.ext] = Chunks[s][op.ext]
            /\ \A i \in Chunks[s][op.ext] \ op.left : secrets[n][op.ext][i] = s
  /\ op.pc \in {"listUndesired", "prune", "report"} =>
       \A e \in Installable(s) : IsDeployed(n, s, e)
  /\ op.pc = "prune" => op.todo \intersect Requested[s] = {} /\ Undesired(n, s) \subseteq op.todo
  /\ op.pc = "report" => Undesired(n, s) = {}

InstallInv == ObjectsInv /\ EventsInv /\ WorkingInv /\ ProgressInv /\ InstalledMatches

\* What a step does to the ODG n.
Changes(n) ==
  \/ odgs'[n] = odgs[n]
  \/ odgs'[n] = None
  \/ odgs[n] = None /\ n \notin created /\ odgs'[n].gen = 1 /\ odgs'[n].state = "none"
  \/ /\ odgs[n] # None /\ odgs'[n] # None
     /\ odgs'[n].gen = odgs[n].gen /\ odgs'[n].spec = odgs[n].spec
  \/ /\ odgs[n] # None /\ odgs'[n] # None
     /\ odgs'[n].gen = odgs[n].gen + 1 /\ odgs'[n].state = odgs[n].state

LEMMA KnownType == TypeOK => KnownEvents \subseteq Event
<1> SUFFICES ASSUME TypeOK, NEW i \in DOMAIN log
             PROVE  log[i] \in Event
  BY DEF KnownEvents, TypeOK, Op
<1>. QED  BY DEF TypeOK

LEMMA NextKnownType == (TypeOK => KnownEvents \subseteq Event)'
  BY KnownType, PTL

\* Events of the past stay so, and new ones are of the present, or of an ODG that is gone.
LEMMA EventsKept ==
  ASSUME TypeOK, ObjectsInv, EventsInv, \A n \in Odgs : Changes(n),
         created \subseteq created',
         \A event \in KnownEvents' :
           event \notin KnownEvents =>
             /\ event.name \in created'
             /\ odgs'[event.name] # None => event.odg = odgs'[event.name],
         TypeOK'
  PROVE  EventsInv'
<1> SUFFICES ASSUME NEW event \in KnownEvents'
             PROVE  /\ event.name \in created'
                    /\ odgs'[event.name] # None =>
                         /\ event.odg.gen <= odgs'[event.name].gen
                         /\ event.odg.gen = odgs'[event.name].gen
                              => event.odg.spec = odgs'[event.name].spec
  BY DEF EventsInv
<1>1. event \in Event
  BY NextKnownType
<1> DEFINE n == event.name
<1>2. n \in Odgs /\ event.odg \in Odg /\ event.odg.gen \in Nat
  BY <1>1 DEF Event, Odg
<1>3. odgs[n] # None => odgs[n] \in Odg /\ odgs[n].gen \in Nat
  BY <1>2 DEF TypeOK, Odg
<1>4. CASE event \notin KnownEvents
  BY <1>2, <1>4
<1>5. CASE event \in KnownEvents
  <2>1. /\ n \in created
        /\ odgs[n] # None =>
             /\ event.odg.gen <= odgs[n].gen
             /\ event.odg.gen = odgs[n].gen => event.odg.spec = odgs[n].spec
    BY <1>5 DEF EventsInv
  <2>2. Changes(n)
    BY <1>2
  <2>. QED  BY <1>2, <1>3, <2>1, <2>2 DEF Changes
<1>. QED  BY <1>4, <1>5

\* The same for what is seen.
LEMMA ObjectsKept ==
  ASSUME TypeOK, ObjectsInv, \A n \in Odgs : Changes(n), created \subseteq created',
         \A n \in Odgs : odgs'[n] # None => n \in created',
         \A n \in Odgs : \/ seen'[n] = seen[n]
                         \/ seen'[n] = 0
                         \/ n \in created /\ (odgs[n] # None => seen'[n] <= odgs[n].gen),
         TypeOK'
  PROVE  ObjectsInv'
<1> SUFFICES ASSUME NEW n \in Odgs
             PROVE  /\ odgs'[n] # None =>
                         n \in created' /\ odgs'[n].gen > 0 /\ seen'[n] <= odgs'[n].gen
                    /\ n \notin created' => seen'[n] = 0
  BY DEF ObjectsInv
<1>1. odgs[n] # None => odgs[n].gen \in Nat
  BY DEF TypeOK, Odg
<1>2. seen[n] \in Nat /\ seen'[n] \in Nat /\ Changes(n)
  BY DEF TypeOK
<1>3. /\ odgs[n] # None => n \in created /\ odgs[n].gen > 0 /\ seen[n] <= odgs[n].gen
      /\ n \notin created => seen[n] = 0
  BY DEF ObjectsInv
<1>. QED  BY <1>1, <1>2, <1>3 DEF Changes

\* An ODG that was installed, and is not touched, stays so.
LEMMA MatchesKept ==
  ASSUME InstalledMatches,
         \A n \in Odgs : IsInstalled(n)' =>
           /\ IsInstalled(n)
           /\ managed'[n] = managed[n] /\ secrets'[n] = secrets[n]
           /\ seen'[n] = odgs'[n].gen => seen[n] = odgs[n].gen /\ odgs'[n].spec = odgs[n].spec
  PROVE  InstalledMatches'
<1> SUFFICES ASSUME NEW n \in Odgs, IsInstalled(n)'
             PROVE  \E s \in Specs :
                      Deployed(n, s)' /\ (seen'[n] = odgs'[n].gen => s = odgs'[n].spec)
  BY DEF InstalledMatches
<1>1. PICK s \in Specs : Deployed(n, s) /\ (seen[n] = odgs[n].gen => s = odgs[n].spec)
  BY DEF InstalledMatches
<1>2. Deployed(n, s)'
  BY <1>1 DEF Deployed
<1>. QED  BY <1>1, <1>2

\* A write of an ODG is the only new event.
LEMMA StoreKnown ==
  ASSUME TypeOK, NEW n \in Odgs, NEW object \in Odg, Store(n, object),
         op'.pending \subseteq op.pending, op'.event \in {op.event, None}
  PROVE  \A event \in KnownEvents' :
           event \notin KnownEvents => event.name = n /\ event.odg = odgs'[n]
<1>1. log' = Append(log, [name |-> n, odg |-> object]) /\ log \in Seq(Event)
  BY DEF Store, TypeOK
<1>2. [name |-> n, odg |-> object] \in Event
  BY DEF Event
<1>3. odgs'[n] = object
  BY DEF Store, TypeOK
<1>4. ASSUME NEW i \in DOMAIN log'
      PROVE  \/ i \in DOMAIN log /\ log'[i] = log[i]
             \/ log'[i] = [name |-> n, odg |-> object]
  BY <1>1, <1>2, <1>4
<1>. QED  BY <1>3, <1>4 DEF KnownEvents

\* A user's step, in the terms of Changes.
LEMMA UserChanges ==
  ASSUME TypeOK, ObjectsInv, UserNext
  PROVE  \E m \in Odgs, object \in Odg :
           /\ Store(m, object)
           /\ Changes(m)
           /\ created' = created \union {m}
           /\ object.state = IF odgs[m] = None THEN "none" ELSE odgs[m].state
           /\ odgs[m] # None => object.gen \in {odgs[m].gen, odgs[m].gen + 1}
           /\ odgs[m] # None /\ object.gen = odgs[m].gen => object.spec = odgs[m].spec
<1> USE NoneAssumption
<1>1. PICK m \in Odgs : \/ \E s \in Specs : Create(m, s) \/ ChangeSpec(m, s)
                       \/ Annotate(m)
                       \/ Delete(m)
  BY DEF UserNext
<1>2. odgs[m] # None => odgs[m] \in Odg /\ odgs[m].gen \in Nat /\ m \in created
  BY DEF TypeOK, Odg, ObjectsInv
<1> DEFINE Goal(object) ==
      /\ Store(m, object)
      /\ Changes(m)
      /\ created' = created \union {m}
      /\ object.state = IF odgs[m] = None THEN "none" ELSE odgs[m].state
      /\ odgs[m] # None => object.gen \in {odgs[m].gen, odgs[m].gen + 1}
      /\ odgs[m] # None /\ object.gen = odgs[m].gen => object.spec = odgs[m].spec
<1>3. ASSUME NEW s \in Specs, Create(m, s) PROVE \E object \in Odg : Goal(object)
  <2> DEFINE object == [gen |-> 1, spec |-> s, annotated |-> FALSE, deleting |-> FALSE,
                        state |-> "none"]
  <2>1. object \in Odg
    BY DEF Odg, States
  <2>2. odgs[m] = None /\ odgs' = [odgs EXCEPT ![m] = object]
    BY <1>2, <1>3 DEF Create, Store
  <2>3. Changes(m)
    BY <1>3, <2>1, <2>2 DEF Changes, Create, TypeOK
  <2>4. Goal(object)
    BY <1>3, <2>2, <2>3 DEF Create
  <2>. QED  BY <2>1, <2>4
<1>4. ASSUME odgs[m] # None,
             NEW object \in Odg, Store(m, object), UNCHANGED created,
             object.state = odgs[m].state,
             object.gen \in {odgs[m].gen, odgs[m].gen + 1},
             object.gen = odgs[m].gen => object.spec = odgs[m].spec
      PROVE  Goal(object)
  <2>1. odgs'[m] = object
    BY <1>4 DEF Store, TypeOK
  <2>2. Changes(m)
    BY <1>2, <1>4, <2>1 DEF Changes
  <2>3. created' = created \union {m}
    BY <1>2, <1>4
  <2>4. object.state = IF odgs[m] = None THEN "none" ELSE odgs[m].state
    BY <1>4
  <2>. QED  BY <1>4, <2>2, <2>3, <2>4
<1>5. ASSUME NEW s \in Specs, ChangeSpec(m, s) PROVE \E object \in Odg : Goal(object)
  <2> DEFINE object == [odgs[m] EXCEPT !.gen = @ + 1, !.spec = s]
  <2>1. /\ object \in Odg /\ object.state = odgs[m].state
        /\ object.gen = odgs[m].gen + 1 /\ object.gen # odgs[m].gen
    <3>1. odgs[m] \in Odg /\ odgs[m].gen \in Nat /\ odgs[m].gen + 1 \in Nat
      BY <1>2, <1>5 DEF ChangeSpec
    <3>2. object \in Odg
      BY <3>1 DEF Odg
    <3>3. object.state = odgs[m].state /\ object.gen = odgs[m].gen + 1
      BY <3>1 DEF Odg
    <3>. QED  BY <3>1, <3>2, <3>3
  <2>2. Store(m, object) /\ UNCHANGED created /\ odgs[m] # None
    BY <1>5 DEF ChangeSpec
  <2> HIDE DEF object
  <2>3. Goal(object)
    BY <1>4, <2>1, <2>2
  <2>. QED  BY <2>1, <2>3
<1>6. CASE Annotate(m)
  <2> DEFINE object == [odgs[m] EXCEPT !.annotated = TRUE]
  <2>1. /\ object \in Odg /\ object.state = odgs[m].state
        /\ object.gen = odgs[m].gen /\ object.spec = odgs[m].spec
    BY <1>2, <1>6 DEF Annotate, Odg
  <2>2. Store(m, object) /\ UNCHANGED created /\ odgs[m] # None
    BY <1>6 DEF Annotate
  <2> HIDE DEF object
  <2>3. Goal(object)
    BY <1>4, <2>1, <2>2
  <2>. QED  BY <2>1, <2>3
<1>7. CASE Delete(m)
  <2> DEFINE object == [odgs[m] EXCEPT !.gen = @ + 1, !.deleting = TRUE]
  <2>1. /\ object \in Odg /\ object.state = odgs[m].state
        /\ object.gen = odgs[m].gen + 1 /\ object.gen # odgs[m].gen
    <3>1. odgs[m] \in Odg /\ odgs[m].gen \in Nat /\ odgs[m].gen + 1 \in Nat
      BY <1>2, <1>7 DEF Delete
    <3>2. object \in Odg
      BY <3>1 DEF Odg
    <3>3. object.state = odgs[m].state /\ object.gen = odgs[m].gen + 1
      BY <3>1 DEF Odg
    <3>. QED  BY <3>1, <3>2, <3>3
  <2>2. Store(m, object) /\ UNCHANGED created /\ odgs[m] # None
    BY <1>7 DEF Delete
  <2> HIDE DEF object
  <2>3. Goal(object)
    BY <1>4, <2>1, <2>2
  <2>. QED  BY <2>1, <2>3
<1>. QED  BY <1>1, <1>3, <1>5, <1>6, <1>7

LEMMA UserInstall == TypeOK /\ TypeOK' /\ Inv /\ InstallInv /\ UserNext => InstallInv'
<1> SUFFICES ASSUME TypeOK, TypeOK', Inv, InstallInv, UserNext PROVE InstallInv'
  OBVIOUS
<1> USE NoneAssumption
<1>0. ObjectsInv /\ EventsInv /\ WorkingInv /\ ProgressInv /\ InstalledMatches
  BY DEF InstallInv
<1>1. PICK m \in Odgs, object \in Odg :
           /\ Store(m, object)
           /\ Changes(m)
           /\ created' = created \union {m}
           /\ object.state = IF odgs[m] = None THEN "none" ELSE odgs[m].state
           /\ odgs[m] # None => object.gen \in {odgs[m].gen, odgs[m].gen + 1}
           /\ odgs[m] # None /\ object.gen = odgs[m].gen => object.spec = odgs[m].spec
  BY <1>0, UserChanges
<1>2. UNCHANGED <<managed, secrets, op, seen>>
  BY UserStores
<1>3. odgs' = [odgs EXCEPT ![m] = object] /\ odgs'[m] = object /\ object # None
  BY <1>1 DEF Store, TypeOK
<1>4. \A n \in Odgs \ {m} : odgs'[n] = odgs[n]
  BY <1>3 DEF TypeOK
<1>5. \A n \in Odgs : Changes(n)
  BY <1>1, <1>4 DEF Changes
<1>6. EventsInv'
  <2>1. \A event \in KnownEvents' :
           event \notin KnownEvents => event.name = m /\ event.odg = odgs'[m]
    BY <1>1, <1>2, StoreKnown DEF TypeOK, Op
  <2>. QED  BY <1>0, <1>1, <1>5, <2>1, EventsKept
<1>7. ObjectsInv'
  <2>1. \A n \in Odgs : odgs'[n] # None => n \in created'
    BY <1>0, <1>1, <1>4 DEF ObjectsInv
  <2>. QED  BY <1>0, <1>1, <1>2, <1>5, <2>1, ObjectsKept
<1>8. WorkingInv'
  <2>1. ASSUME op.pc \in Working PROVE odgs'[op.event.name].state # "Installed"
    <3>1. op.event.name \in Odgs /\ odgs[op.event.name] # None
      BY <2>1, EventType DEF Working, Cleaning, Installing, Inv, BusyInv
    <3>. QED  BY <1>0, <1>1, <1>3, <1>4, <2>1, <3>1 DEF WorkingInv
  <2>. QED  BY <1>0, <1>2, <2>1 DEF WorkingInv
<1>9. ProgressInv'
  BY <1>0, <1>2 DEF ProgressInv, IsDeployed, Undesired, ManagedOf
<1>10. InstalledMatches'
  <2>1. ASSUME NEW n \in Odgs, IsInstalled(n)'
        PROVE  /\ IsInstalled(n)
               /\ seen'[n] = odgs'[n].gen =>
                    seen[n] = odgs[n].gen /\ odgs'[n].spec = odgs[n].spec
    <3>1. CASE n # m
      BY <1>2, <1>4, <2>1, <3>1 DEF IsInstalled
    <3>2. CASE n = m
      <4>1. odgs[m] # None /\ odgs[m].state = "Installed"
        BY <1>1, <1>3, <2>1, <3>2 DEF IsInstalled
      <4>2. seen[m] <= odgs[m].gen /\ odgs[m].gen \in Nat /\ seen[m] \in Nat
        BY <1>0, <4>1 DEF ObjectsInv, TypeOK, Odg
      <4>. QED  BY <1>1, <1>2, <1>3, <3>2, <4>1, <4>2 DEF IsInstalled
    <3>. QED  BY <3>1, <3>2
  <2>. QED  BY <1>0, <1>2, <2>1, MatchesKept
<1>. QED  BY <1>6, <1>7, <1>8, <1>9, <1>10 DEF InstallInv

\* An operator that is down, waits, or is about to handle an event, has changed nothing.
LEMMA IdleInstall ==
  ASSUME TypeOK, TypeOK', InstallInv, UNCHANGED <<odgs, created, managed, secrets>>,
         op'.pc \in {"down", "watch", "annotated", "begin"}, op'.ext = None,
         \A n \in Odgs : seen'[n] \in {seen[n], 0} \/ (n \in created /\ odgs[n] = None),
         \A event \in KnownEvents' :
           event \notin KnownEvents =>
             /\ event.name \in created
             /\ odgs[event.name] # None => event.odg = odgs[event.name]
  PROVE  InstallInv'
<1>0. ObjectsInv /\ EventsInv /\ InstalledMatches
  BY DEF InstallInv
<1>1. \A n \in Odgs : Changes(n)
  BY DEF Changes
<1>2. EventsInv'
  BY <1>0, <1>1, EventsKept
<1>3. ObjectsInv'
  <2>1. \A n \in Odgs : odgs'[n] # None => n \in created'
    BY <1>0 DEF ObjectsInv
  <2>. QED  BY <1>0, <1>1, <2>1, ObjectsKept
<1>4. WorkingInv' /\ ProgressInv'
  BY DEF WorkingInv, ProgressInv, Working, Cleaning, Installing
<1>5. InstalledMatches'
  <2>1. ASSUME NEW n \in Odgs, IsInstalled(n)'
        PROVE  IsInstalled(n) /\ (seen'[n] = odgs'[n].gen => seen[n] = odgs[n].gen)
    <3>1. IsInstalled(n) /\ odgs[n] # None
      BY <2>1 DEF IsInstalled
    <3>2. odgs[n].gen > 0 /\ odgs[n].gen \in Nat
      BY <1>0, <3>1 DEF ObjectsInv, TypeOK, Odg
    <3>. QED  BY <3>1, <3>2
  <2>. QED  BY <1>0, <2>1, MatchesKept
<1>. QED  BY <1>2, <1>3, <1>4, <1>5 DEF InstallInv

LEMMA RelistInstall ==
  ASSUME TypeOK, TypeOK', InstallInv, Relist, UNCHANGED <<odgs, created, managed, secrets>>,
         \A n \in Odgs : seen'[n] \in {seen[n], 0}
  PROVE  InstallInv'
<1>1. /\ op'.pc = "watch" /\ op'.ext = None /\ op'.event = None
      /\ op'.pending = {[name |-> n, odg |-> odgs[n]] : n \in Existing}
      /\ log' = <<>>
  BY DEF Relist, Idle
<1>2. KnownEvents' = op'.pending
  BY <1>1 DEF KnownEvents
<1>3. ASSUME NEW event \in KnownEvents'
      PROVE  event.name \in created /\ event.odg = odgs[event.name]
  <2>1. PICK n \in Existing : event = [name |-> n, odg |-> odgs[n]]
    BY <1>1, <1>2
  <2>. QED  BY <2>1 DEF InstallInv, ObjectsInv, Existing
<1>. QED  BY <1>1, <1>3, IdleInstall

LEMMA DownInstall ==
  ASSUME TypeOK, TypeOK', InstallInv, op' = Down,
         UNCHANGED <<odgs, created, log, managed, secrets>>,
         \A n \in Odgs : seen'[n] \in {seen[n], 0} \/ (n \in created /\ odgs[n] = None)
  PROVE  InstallInv'
<1>1. op'.pc = "down" /\ op'.ext = None /\ op'.event = None /\ op'.pending = {}
  BY DEF Down, Idle
<1>2. KnownEvents' \subseteq KnownEvents
  BY <1>1 DEF KnownEvents
<1>. QED  BY <1>1, <1>2, IdleInstall

LEMMA DisturbInstall == TypeOK /\ TypeOK' /\ InstallInv /\ (Disturb \/ Restart) => InstallInv'
<1> SUFFICES ASSUME TypeOK, TypeOK', InstallInv, Disturb \/ Restart PROVE InstallInv'
  OBVIOUS
<1>1. UNCHANGED <<odgs, created, managed, secrets>>
  BY DEF Disturb, Timeout, ApiError, WatchEnds, Kill, Restart
<1>2. CASE Restart
  BY <1>1, <1>2, RelistInstall DEF Restart
<1>3. CASE Timeout
  <2>1. CASE op.resumable
    <3>1. op \in Op /\ op.pc = "watch" /\ op' = [op EXCEPT !.position = 0]
      BY <1>3, <2>1 DEF Timeout, ResumeAt, TypeOK
    <3>2. op'.pc = "watch" /\ op'.ext = op.ext /\ op'.event = op.event /\ op'.pending = op.pending
      BY <3>1 DEF Op
    <3>3. op.ext = None
      BY <3>1 DEF InstallInv, WorkingInv
    <3>4. KnownEvents' = KnownEvents
      BY <1>3, <2>1, <3>2 DEF Timeout, KnownEvents
    <3>. QED  BY <1>1, <1>3, <3>2, <3>3, <3>4, IdleInstall DEF Timeout
  <2>2. CASE ~op.resumable
    BY <1>1, <1>3, <2>2, RelistInstall DEF Timeout
  <2>. QED  BY <2>1, <2>2
<1>4. CASE Kill \/ (ApiError /\ op.pc \notin Installing)
  BY <1>1, <1>4, DownInstall DEF Kill, ApiError, Failed
<1>5. CASE ApiError /\ op.pc \in Installing
  <2>1. op \in Op /\ op' = [op EXCEPT !.pc = "failed"]
    BY <1>5 DEF ApiError, Failed, TypeOK
  <2>2. /\ op'.pc = "failed" /\ op'.event = op.event /\ op'.pending = op.pending
        /\ UNCHANGED <<log, seen>>
    BY <1>5, <2>1 DEF ApiError, Op
  <2>. QED  BY <1>1, <1>5, <2>2 DEF InstallInv, ObjectsInv, EventsInv, KnownEvents, WorkingInv,
              Working, ProgressInv, InstalledMatches, IsInstalled, Deployed
<1>6. CASE WatchEnds
  BY <1>1, <1>6, RelistInstall DEF WatchEnds
<1>. QED  BY <1>2, <1>3, <1>4, <1>5, <1>6 DEF Disturb

LEMMA DeliverInstall == TypeOK /\ TypeOK' /\ InstallInv /\ Deliver => InstallInv'
<1> SUFFICES ASSUME TypeOK, TypeOK', InstallInv, Deliver PROVE InstallInv'
  OBVIOUS
<1>1. op.pc = "watch" /\ op \in Op /\ op.ext = None
  BY DEF Deliver, TypeOK, InstallInv, WorkingInv
<1>2. ASSUME NEW event \in Event, event \in KnownEvents
      PROVE  /\ Handle(event).ext = None
             /\ Handle(event).event \in {event, op.event}
             /\ Handle(event).pending = op.pending
             /\ Handle(event) \in Op
  <2>1. Handle(event) \in Op
    BY <1>1, HandleType
  <2>. QED  BY <1>1, <2>1 DEF Handle, Op
<1>3. PICK event \in KnownEvents :
        \/ op' = [Handle(event) EXCEPT !.pending = @ \ {event}]
        \/ op' = [Handle(event) EXCEPT !.position = @ + 1]
  <2>1. CASE \E event \in op.pending : op' = [Handle(event) EXCEPT !.pending = @ \ {event}]
    BY <2>1 DEF KnownEvents
  <2>2. CASE op.position < Len(log)
             /\ op' = [Handle(log[op.position + 1]) EXCEPT !.position = @ + 1]
    <3>1. op.position + 1 \in DOMAIN log
      BY <1>1, <2>2 DEF Op, TypeOK
    <3>. QED  BY <2>2, <3>1 DEF KnownEvents
  <2>. QED  BY <2>1, <2>2 DEF Deliver
<1>4. event \in Event
  BY KnownType
<1>5. PICK next \in Op : next = Handle(event)
  BY <1>2, <1>4
<1>6. op'.ext = None /\ op'.event \in {event, op.event} /\ op'.pending \subseteq op.pending
  BY <1>2, <1>3, <1>4, <1>5 DEF Op
<1>7. KnownEvents' \subseteq KnownEvents
  BY <1>6 DEF Deliver, KnownEvents
<1>8. op'.pc \in {"watch", "annotated", "begin"}
  BY DeliverType
<1>. QED  BY <1>6, <1>7, <1>8, IdleInstall DEF Deliver

\* A write of the ODG n that is no new generation of it.
LEMMA StateInstall ==
  ASSUME TypeOK, TypeOK', InstallInv, NEW n \in Odgs, NEW object \in Odg \union {None},
         odgs[n] # None, odgs' = [odgs EXCEPT ![n] = object],
         object # None => object.gen = odgs[n].gen /\ object.spec = odgs[n].spec,
         UNCHANGED <<created, managed, secrets>>,
         \A m \in Odgs \ {n} : seen'[m] = seen[m],
         seen'[n] = seen[n] \/ seen'[n] <= odgs[n].gen,
         \A event \in KnownEvents' :
           event \notin KnownEvents =>
             event.name = n /\ (odgs'[n] # None => event.odg = odgs'[n]),
         IsInstalled(n)' =>
           \E s \in Specs : Deployed(n, s)' /\ (seen'[n] = odgs'[n].gen => s = odgs'[n].spec)
  PROVE  ObjectsInv' /\ EventsInv' /\ InstalledMatches'
<1>0. ObjectsInv /\ EventsInv /\ InstalledMatches
  BY DEF InstallInv
<1>1. odgs'[n] = object /\ \A m \in Odgs \ {n} : odgs'[m] = odgs[m]
  BY DEF TypeOK
<1>2. n \in created
  BY <1>0 DEF ObjectsInv
<1>3. \A m \in Odgs : Changes(m)
  BY <1>1 DEF Changes
<1>4. EventsInv'
  BY <1>0, <1>2, <1>3, EventsKept
<1>5. ObjectsInv'
  <2>1. \A m \in Odgs : odgs'[m] # None => m \in created'
    BY <1>0, <1>1, <1>2 DEF ObjectsInv
  <2>. QED  BY <1>0, <1>2, <1>3, <2>1, ObjectsKept
<1>6. InstalledMatches'
  <2> SUFFICES ASSUME NEW m \in Odgs, IsInstalled(m)', m # n
               PROVE  \E s \in Specs :
                        Deployed(m, s)' /\ (seen'[m] = odgs'[m].gen => s = odgs'[m].spec)
    BY DEF InstalledMatches
  <2>1. odgs'[m] = odgs[m] /\ seen'[m] = seen[m] /\ IsInstalled(m)
    BY <1>1 DEF IsInstalled
  <2>2. PICK s \in Specs : Deployed(m, s) /\ (seen[m] = odgs[m].gen => s = odgs[m].spec)
    BY <1>0, <2>1 DEF InstalledMatches
  <2>3. Deployed(m, s)'
    BY <2>2 DEF Deployed
  <2>. QED  BY <2>1, <2>2, <2>3
<1>. QED  BY <1>4, <1>5, <1>6

LEMMA StateStepInstall ==
  TypeOK /\ TypeOK' /\ Inv /\ InstallInv /\ (RemoveAnnotation \/ Begin \/ RemoveFinaliser \/ Report)
    => InstallInv'
<1> SUFFICES ASSUME TypeOK, TypeOK', Inv, InstallInv,
                    RemoveAnnotation \/ Begin \/ RemoveFinaliser \/ Report
             PROVE  InstallInv'
  OBVIOUS
<1> USE NoneAssumption
<1>0. ObjectsInv /\ EventsInv /\ WorkingInv /\ ProgressInv /\ InstalledMatches
  BY DEF InstallInv
<1>a. op \in Op /\ op.event \in Event /\ op.event # None
  <2>1. op.pc \notin {"down", "watch"}
    BY DEF RemoveAnnotation, Begin, RemoveFinaliser, Report
  <2>. QED  BY <2>1, EventType DEF TypeOK
<1>b. PICK n \in Odgs, event \in Odg : n = op.event.name /\ event = op.event.odg
  BY <1>a DEF Event
<1>1. op \in Op /\ n \in Odgs /\ event.spec \in Specs /\ event.gen \in Nat
  BY <1>a DEF Odg
<1>2. op.event \in KnownEvents
  BY <1>a DEF KnownEvents
<1>3. n \in created /\ (odgs[n] # None => event.gen <= odgs[n].gen)
                   /\ (odgs[n] # None /\ event.gen = odgs[n].gen => event.spec = odgs[n].spec)
  BY <1>0, <1>b, <1>2 DEF EventsInv
<1>4. UNCHANGED <<created, managed, secrets>>
  BY DEF RemoveAnnotation, Begin, RemoveFinaliser, Report
<1>5. /\ \A m \in Odgs \ {n} : seen'[m] = seen[m]
      /\ seen'[n] = seen[n] \/ (Begin /\ seen'[n] = event.gen)
  BY <1>b, <1>1 DEF RemoveAnnotation, Begin, RemoveFinaliser, Report, TypeOK
<1>6. CASE odgs[n] = None
  <2>1. op' = Down /\ UNCHANGED <<odgs, log>>
    BY <1>b, <1>6 DEF RemoveAnnotation, Begin, RemoveFinaliser, Report
  <2>. QED  BY <1>3, <1>4, <1>5, <1>6, <2>1, DownInstall
<1>7. ASSUME odgs[n] # None, RemoveAnnotation PROVE InstallInv'
  <2> DEFINE object == [odgs[n] EXCEPT !.annotated = FALSE]
  <2>1. object \in Odg /\ object.gen = odgs[n].gen /\ object.spec = odgs[n].spec
        /\ object.state = odgs[n].state
    <3>1. odgs[n] \in Odg
      BY <1>1, <1>7 DEF TypeOK
    <3>. QED  BY <3>1 DEF Odg
  <2>2. Store(n, object) /\ op' = [op EXCEPT !.pc = "begin"]
    BY <1>b, <1>7 DEF RemoveAnnotation
  <2> HIDE DEF object
  <2>3. /\ op'.pc = "begin" /\ op'.pending = op.pending /\ op'.event = op.event /\ op'.ext = op.ext
        /\ op.pc = "annotated"
    BY <1>1, <1>7, <2>2 DEF Op, RemoveAnnotation
  <2>4. \A e \in KnownEvents' : e \notin KnownEvents => e.name = n /\ e.odg = odgs'[n]
    BY <1>1, <2>1, <2>2, <2>3, StoreKnown
  <2>5. odgs' = [odgs EXCEPT ![n] = object] /\ odgs'[n] = object
    BY <1>1, <2>2 DEF Store, TypeOK
  <2>6. UNCHANGED seen
    BY <1>7 DEF RemoveAnnotation
  <2>7. IsInstalled(n)' =>
          \E s \in Specs : Deployed(n, s)' /\ (seen'[n] = odgs'[n].gen => s = odgs'[n].spec)
    <3> SUFFICES ASSUME IsInstalled(n)'
                 PROVE  \E s \in Specs :
                          Deployed(n, s)' /\ (seen'[n] = odgs'[n].gen => s = odgs'[n].spec)
      OBVIOUS
    <3>1. IsInstalled(n)
      BY <1>7, <2>1, <2>5 DEF IsInstalled
    <3>2. PICK s \in Specs : Deployed(n, s) /\ (seen[n] = odgs[n].gen => s = odgs[n].spec)
      BY <1>0, <1>1, <3>1 DEF InstalledMatches
    <3>3. Deployed(n, s)'
      BY <1>4, <3>2 DEF Deployed
    <3>. QED  BY <2>1, <2>5, <2>6, <3>2, <3>3
  <2>8. ObjectsInv' /\ EventsInv' /\ InstalledMatches'
    BY <1>1, <1>4, <1>7, <2>1, <2>4, <2>5, <2>6, <2>7, StateInstall
  <2>9. WorkingInv' /\ ProgressInv'
    BY <1>0, <2>3 DEF WorkingInv, ProgressInv, Working, Cleaning, Installing
  <2>. QED  BY <2>8, <2>9 DEF InstallInv
<1>8. ASSUME odgs[n] # None, Begin PROVE InstallInv'
  <2>1. PICK state \in {"Deleting", "Installing"} : odgs' = [odgs EXCEPT ![n] = NewState(n, state)]
    BY <1>b, <1>8 DEF Begin
  <2> DEFINE object == NewState(n, state)
  <2>2. object \in Odg /\ object.gen = odgs[n].gen /\ object.spec = odgs[n].spec
        /\ object.state = state
    <3>1. odgs[n] \in Odg
      BY <1>1, <1>8 DEF TypeOK
    <3>. QED  BY <3>1 DEF Odg, NewState, States
  <2> HIDE DEF object
  <2>3. odgs' = [odgs EXCEPT ![n] = object] /\ odgs'[n] = object
    BY <1>1, <2>1 DEF object, TypeOK
  <2>4. /\ op'.pc \in {"listAll", "write"} /\ op'.pending = op.pending /\ op'.event = op.event
        /\ op'.ext = op.ext /\ op.pc = "begin"
        /\ op'.pc = "write" => op'.todo = Requested[event.spec]
    BY <1>b, <1>1, <1>8 DEF Op, Begin
  <2>5. log' = Append(SubSeq(log, op.position + 1, Len(log)), [name |-> n, odg |-> object])
    BY <1>b, <1>8, <2>3 DEF Begin
  <2>6. \A e \in KnownEvents' : e \notin KnownEvents => e.name = n /\ e.odg = odgs'[n]
    <3>1. SubSeq(log, op.position + 1, Len(log)) \in Seq(Event) /\ log \in Seq(Event)
          /\ op.position \in Nat
      BY <1>1 DEF TypeOK, Op
    <3>2. [name |-> n, odg |-> object] \in Event
      BY <1>1, <2>2 DEF Event
    <3>3. ASSUME NEW i \in DOMAIN log'
          PROVE  (\E j \in DOMAIN log : log'[i] = log[j]) \/ log'[i] = [name |-> n, odg |-> object]
      BY <2>5, <3>1, <3>2, <3>3
    <3>. QED  BY <2>3, <2>4, <3>3 DEF KnownEvents
  <2>7. seen'[n] = event.gen
    BY <1>b, <1>1, <1>8 DEF Begin, TypeOK
  <2>8. ~IsInstalled(n)'
    BY <2>2, <2>3 DEF IsInstalled
  <2>9. ObjectsInv' /\ EventsInv' /\ InstalledMatches'
    BY <1>1, <1>3, <1>4, <1>5, <1>8, <2>2, <2>3, <2>6, <2>7, <2>8, StateInstall
  <2>10. WorkingInv'
    BY <1>b, <1>0, <2>2, <2>3, <2>4, <2>7 DEF WorkingInv, Working, Cleaning, Installing
  <2>11. ProgressInv'
    BY <1>b, <1>0, <2>4 DEF ProgressInv, WorkingInv, Installable
  <2>. QED  BY <2>9, <2>10, <2>11 DEF InstallInv
<1>9. ASSUME odgs[n] # None, RemoveFinaliser PROVE InstallInv'
  <2>1. /\ odgs' = [odgs EXCEPT ![n] = None]
        /\ log' = Append(log, [name |-> n, odg |-> odgs[n]])
        /\ op' = Watching
        /\ UNCHANGED seen
    BY <1>b, <1>9 DEF RemoveFinaliser
  <2>2. op'.pc = "watch" /\ op'.pending = op.pending /\ op'.event = None /\ op'.ext = None
    BY <2>1 DEF Watching, Idle
  <2>3. odgs'[n] = None
    BY <1>1, <2>1 DEF TypeOK
  <2>4. \A e \in KnownEvents' : e \notin KnownEvents => e.name = n
    <3>1. [name |-> n, odg |-> odgs[n]] \in Event /\ log \in Seq(Event)
      BY <1>1, <1>9 DEF TypeOK, Event
    <3>2. ASSUME NEW i \in DOMAIN log'
          PROVE  \/ i \in DOMAIN log /\ log'[i] = log[i]
                \/ log'[i] = [name |-> n, odg |-> odgs[n]]
      BY <2>1, <3>1, <3>2
    <3>. QED  BY <2>2, <3>2 DEF KnownEvents
  <2>5. ObjectsInv' /\ EventsInv' /\ InstalledMatches'
    <3>1. ~IsInstalled(n)'
      BY <2>3 DEF IsInstalled
    <3>. QED  BY <1>1, <1>4, <1>9, <2>1, <2>3, <2>4, <3>1, StateInstall
  <2>6. WorkingInv' /\ ProgressInv'
    BY <2>2 DEF WorkingInv, ProgressInv, Working, Cleaning, Installing
  <2>. QED  BY <2>5, <2>6 DEF InstallInv
<1>10. ASSUME odgs[n] # None, Report PROVE InstallInv'
  <2>1. PICK state \in States : Store(n, NewState(n, state))
                               /\ (state = "Installed" => op.pc = "report")
    BY <1>b, <1>10 DEF Report, States
  <2> DEFINE object == NewState(n, state)
  <2>2. object \in Odg /\ object.gen = odgs[n].gen /\ object.spec = odgs[n].spec
        /\ object.state = state
    <3>1. odgs[n] \in Odg
      BY <1>1, <1>10 DEF TypeOK
    <3>. QED  BY <3>1 DEF Odg, NewState
  <2>3. Store(n, object)
    BY <2>1
  <2> HIDE DEF object
  <2>4. odgs' = [odgs EXCEPT ![n] = object] /\ odgs'[n] = object
    BY <1>1, <2>3 DEF Store, TypeOK
  <2>5. op' = Watching /\ UNCHANGED seen
    BY <1>b, <1>10 DEF Report
  <2>6. op'.pc = "watch" /\ op'.pending = op.pending /\ op'.event = None /\ op'.ext = None
    BY <2>5 DEF Watching, Idle
  <2>7. \A e \in KnownEvents' : e \notin KnownEvents => e.name = n /\ e.odg = odgs'[n]
    BY <1>1, <2>2, <2>3, <2>6, StoreKnown
  <2>8. IsInstalled(n)' =>
          \E s \in Specs : Deployed(n, s)' /\ (seen'[n] = odgs'[n].gen => s = odgs'[n].spec)
    <3> SUFFICES ASSUME op.pc = "report"
                 PROVE  /\ Deployed(n, event.spec)'
                        /\ seen'[n] = odgs'[n].gen => event.spec = odgs'[n].spec
      BY <1>1, <2>1, <2>2, <2>4 DEF IsInstalled
    <3>1. seen[n] = event.gen
      BY <1>b, <1>0 DEF WorkingInv, Working
    <3>2. /\ Undesired(n, event.spec) = {}
          /\ \A e \in Installable(event.spec) : IsDeployed(n, event.spec, e)
      BY <1>b, <1>0 DEF ProgressInv
    <3>3. Deployed(n, event.spec)
      BY <1>1, <3>2, OdgAssumption DEF Deployed, Undesired, ManagedOf, Installable, IsDeployed
    <3>4. Deployed(n, event.spec)'
      BY <1>4, <3>3 DEF Deployed
    <3>. QED  BY <1>3, <1>10, <2>2, <2>4, <2>5, <3>1, <3>4
  <2>9. ObjectsInv' /\ EventsInv' /\ InstalledMatches'
    BY <1>1, <1>4, <1>10, <2>2, <2>4, <2>5, <2>7, <2>8, StateInstall
  <2>10. WorkingInv' /\ ProgressInv'
    BY <2>6 DEF WorkingInv, ProgressInv, Working, Cleaning, Installing
  <2>. QED  BY <2>9, <2>10 DEF InstallInv
<1>. QED  BY <1>6, <1>7, <1>8, <1>9, <1>10

\* A step of the work on the ODG n leaves the other ones alone, and what is known.
LEMMA WorkKept ==
  ASSUME TypeOK, TypeOK', InstallInv, op.pc \in Working, NEW n \in Odgs, n = op.event.name,
         op'.event = op.event, op'.pending = op.pending,
         UNCHANGED <<odgs, created, log, seen>>,
         \A m \in Odgs \ {n} : managed'[m] = managed[m] /\ secrets'[m] = secrets[m]
  PROVE  /\ ObjectsInv' /\ EventsInv' /\ InstalledMatches'
         /\ WorkingInv' \/ op'.pc \in {"down", "watch", "annotated", "begin"}
<1>1. ObjectsInv' /\ EventsInv'
  BY DEF InstallInv, ObjectsInv, EventsInv, KnownEvents
<1>2. ~IsInstalled(n)
  BY DEF InstallInv, WorkingInv, IsInstalled
<1>3. InstalledMatches'
  <2>1. ASSUME NEW m \in Odgs, IsInstalled(m)' PROVE IsInstalled(m) /\ m # n
    BY <1>2, <2>1 DEF IsInstalled
  <2>. QED  BY <2>1, MatchesKept DEF InstallInv
<1>4. op'.pc \in {"down", "watch", "annotated", "begin"} \/ WorkingInv'
  BY DEF InstallInv, WorkingInv
<1>. QED  BY <1>1, <1>3, <1>4

\* A step that deploys nothing, after the list was worked off.
LEMMA ProgressStays ==
  ASSUME ProgressInv, UNCHANGED <<managed, secrets>>, op'.event = op.event,
         \/ op'.pc = "clean"
         \/ op.pc = "prune" /\ op'.pc = "prune" /\ op'.todo = op.todo
         \/ /\ op.pc = "listUndesired" /\ op'.pc = "prune"
            /\ op'.todo = Undesired(op.event.name, op.event.odg.spec)
  PROVE  ProgressInv'
<1> DEFINE n == op.event.name
           s == op.event.odg.spec
<1>1. CASE op'.pc = "clean"
  BY <1>1 DEF ProgressInv
<1>2. CASE op'.pc = "prune"
  <2>1. \A e \in Installable(s) : IsDeployed(n, s, e)
    BY <1>2 DEF ProgressInv
  <2>2. op.pc = "prune" =>
          op.todo \intersect Requested[s] = {} /\ Undesired(n, s) \subseteq op.todo
    BY DEF ProgressInv
  <2>3. op'.todo \intersect Requested[s] = {} /\ Undesired(n, s) \subseteq op'.todo
    BY <1>2, <2>2 DEF Undesired
  <2>4. n' = n /\ s' = s
    OBVIOUS
  <2> HIDE DEF n, s
  <2>5. Undesired(n, s)' = Undesired(n, s)
    BY <2>4 DEF Undesired, ManagedOf
  <2>6. (\A e \in Installable(s) : IsDeployed(n, s, e))'
    BY <2>1, <2>4 DEF IsDeployed
  <2>7. (op.todo \intersect Requested[s] = {} /\ Undesired(n, s) \subseteq op.todo)'
    BY <2>3, <2>4, <2>5
  <2>. QED  BY <1>2, <2>6, <2>7 DEF ProgressInv, n, s
<1>. QED  BY <1>1, <1>2

LEMMA WorkInstall ==
  ASSUME TypeOK, TypeOK', Inv, InstallInv,
         \/ \E e \in op.todo : WriteManaged(e) \/ Take(e)
         \/ \E i \in op.left : WriteSecret(i) \/ DeleteSecret(i)
         \/ Written \/ AllWritten \/ ListManaged \/ DeleteManaged \/ DeletedAll
  PROVE  InstallInv'
<1> USE NoneAssumption
<1>a. op \in Op /\ op.event \in Event /\ op.event # None /\ op.pc \in Cleaning \union Installing
  <2>1. op.pc \in Cleaning \union Installing
    BY DEF WriteManaged, Take, WriteSecret, DeleteSecret, Written, AllWritten, ListManaged,
           DeleteManaged, DeletedAll, Cleaning, Installing
  <2>. QED  BY <2>1, EventType DEF TypeOK, Cleaning, Installing
<1>b. PICK n \in Odgs, s \in Specs : n = op.event.name /\ s = op.event.odg.spec
  BY <1>a DEF Event, Odg
<1>0. ProgressInv /\ CleanupInv
  BY DEF InstallInv, Inv
<1>1. UNCHANGED <<odgs, created, log, seen>>
  BY DEF WriteManaged, Take, WriteSecret, DeleteSecret, Written, AllWritten, ListManaged,
         DeleteManaged, DeletedAll
<1>2. \A m \in Odgs \ {n} : managed'[m] = managed[m] /\ secrets'[m] = secrets[m]
  BY <1>b DEF WriteManaged, Take, WriteSecret, DeleteSecret, Written, AllWritten, ListManaged,
              DeleteManaged, DeletedAll, TypeOK
<1>3. ASSUME op'.pc \in Working, op'.event = op.event, op'.pending = op.pending, ProgressInv'
      PROVE  InstallInv'
  <2>1. op.pc \in Working /\ op'.pc \notin {"down", "watch", "annotated", "begin"}
    BY <1>a, <1>3 DEF Working, Cleaning, Installing
  <2>. QED  BY <1>b, <1>1, <1>2, <1>3, <2>1, WorkKept DEF InstallInv
<1>4. /\ Chunks[s] \in [Extensions -> SUBSET Indices]
      /\ Requested[s] \subseteq Extensions
      /\ managed[n] \in [Extensions -> (SUBSET Indices) \union {None}]
      /\ secrets[n] \in [Extensions -> [Indices -> Specs \union {None}]]
      /\ op.todo \subseteq Extensions
      /\ op.left \subseteq Indices
      /\ op.ext # None => op.ext \in Extensions
  BY <1>a, OdgAssumption DEF TypeOK, Op
<1>5. ASSUME NEW e \in op.todo, WriteManaged(e) PROVE InstallInv'
  <2>1. op.pc = "write" /\ op.ext = None /\ UNCHANGED secrets
    BY <1>5 DEF WriteManaged
  <2>2. /\ op.todo \subseteq Requested[s]
        /\ \A f \in Installable(s) \ op.todo : IsDeployed(n, s, f)
    BY <1>0, <1>b, <2>1 DEF ProgressInv
  <2>3. CASE e \in Broken[s]
    <3>1. op' = [op EXCEPT !.todo = @ \ {e}] /\ UNCHANGED managed
      BY <1>b, <1>5, <2>3 DEF WriteManaged
    <3>2. /\ op'.pc = "write" /\ op'.ext = None /\ op'.todo = op.todo \ {e}
          /\ op'.event = op.event /\ op'.pending = op.pending
      BY <1>a, <2>1, <3>1 DEF Op
    <3>3. ProgressInv'
      BY <1>b, <2>1, <2>2, <2>3, <3>1, <3>2 DEF ProgressInv, IsDeployed, Installable
    <3>. QED  BY <1>3, <3>2, <3>3 DEF Working, Installing
  <2>4. CASE e \notin Broken[s]
    <3>1. /\ op' = [op EXCEPT !.ext = e, !.left = Chunks[s][e]]
          /\ managed' = [managed EXCEPT ![n][e] = Chunks[s][e]]
      BY <1>b, <1>5, <2>4 DEF WriteManaged
    <3>2. /\ op'.pc = "write" /\ op'.ext = e /\ op'.left = Chunks[s][e] /\ op'.todo = op.todo
          /\ op'.event = op.event /\ op'.pending = op.pending
      BY <1>a, <2>1, <3>1 DEF Op
    <3>3. /\ managed'[n][e] = Chunks[s][e]
          /\ \A f \in Extensions \ {e} : managed'[n][f] = managed[n][f]
      BY <1>4, <3>1 DEF TypeOK
    <3>4. \A f \in Installable(s) \ op.todo : IsDeployed(n, s, f)'
      BY <1>4, <2>1, <2>2, <3>3 DEF IsDeployed, Installable
    <3>5. ProgressInv'
      BY <1>b, <2>2, <3>2, <3>3, <3>4 DEF ProgressInv
    <3>. QED  BY <1>3, <3>2, <3>5 DEF Working, Installing
  <2>. QED  BY <2>3, <2>4
<1>6. ASSUME NEW e \in op.todo, Take(e) PROVE InstallInv'
  <2>1. /\ op' = [op EXCEPT !.ext = e, !.left = managed[n][e]]
        /\ op.pc \in {"clean", "prune"}
        /\ UNCHANGED <<managed, secrets>>
    BY <1>b, <1>6 DEF Take
  <2>2. /\ op'.pc = op.pc /\ op'.todo = op.todo
        /\ op'.event = op.event /\ op'.pending = op.pending
    BY <1>a, <2>1 DEF Op
  <2>3. ProgressInv'
    BY <1>0, <2>1, <2>2, ProgressStays
  <2>. QED  BY <1>3, <2>1, <2>2, <2>3 DEF Working, Cleaning, Installing
<1>7. ASSUME NEW i \in op.left, WriteSecret(i) PROVE InstallInv'
  <2>1. /\ op' = [op EXCEPT !.left = @ \ {i}]
        /\ secrets' = [secrets EXCEPT ![n][op.ext][i] = s]
        /\ op.pc = "write" /\ op.ext # None
        /\ UNCHANGED managed
    BY <1>b, <1>7 DEF WriteSecret
  <2>2. /\ op'.pc = "write" /\ op'.ext = op.ext /\ op'.left = op.left \ {i} /\ op'.todo = op.todo
        /\ op'.event = op.event /\ op'.pending = op.pending
    BY <1>a, <2>1 DEF Op
  <2>3. /\ \A f \in Extensions \ {op.ext} : secrets'[n][f] = secrets[n][f]
        /\ secrets'[n][op.ext][i] = s
        /\ \A j \in Indices \ {i} : secrets'[n][op.ext][j] = secrets[n][op.ext][j]
    BY <1>4, <2>1 DEF TypeOK
  <2>4. /\ op.todo \subseteq Requested[s]
        /\ \A f \in Installable(s) \ op.todo : IsDeployed(n, s, f)
        /\ op.ext \in op.todo
        /\ managed[n][op.ext] = Chunks[s][op.ext]
        /\ \A j \in Chunks[s][op.ext] \ op.left : secrets[n][op.ext][j] = s
    BY <1>0, <1>b, <2>1 DEF ProgressInv
  <2>5. \A f \in Installable(s) \ op.todo : IsDeployed(n, s, f)'
    BY <1>4, <2>1, <2>3, <2>4 DEF IsDeployed, Installable
  <2>6. \A j \in Chunks[s][op.ext] \ op'.left : secrets'[n][op.ext][j] = s
    BY <1>4, <2>2, <2>3, <2>4
  <2>7. ProgressInv'
    BY <1>b, <2>1, <2>2, <2>4, <2>5, <2>6 DEF ProgressInv
  <2>. QED  BY <1>3, <2>2, <2>7 DEF Working, Installing
<1>8. ASSUME NEW i \in op.left, DeleteSecret(i) PROVE InstallInv'
  <2>1. op.pc \in {"clean", "prune"} /\ op.ext # None /\ UNCHANGED managed
    BY <1>8 DEF DeleteSecret
  <2>2. CASE secrets[n][op.ext][i] = None
    <3>1. op' = Failed /\ UNCHANGED secrets
      BY <1>b, <1>8, <2>2 DEF DeleteSecret
    <3>2. CASE op.pc = "clean"
      <4>1. op' = Down
        BY <3>1, <3>2 DEF Failed, Installing
      <4>. QED  BY <1>1, <2>1, <3>1, <4>1, DownInstall
    <3>3. CASE op.pc = "prune"
      <4>1. op' = [op EXCEPT !.pc = "failed"]
        BY <3>1, <3>3 DEF Failed, Installing
      <4>2. op'.pc = "failed" /\ op'.event = op.event /\ op'.pending = op.pending
        BY <1>a, <4>1 DEF Op
      <4>. QED  BY <1>3, <4>2 DEF ProgressInv, Working
    <3>. QED  BY <2>1, <3>2, <3>3
  <2>3. CASE secrets[n][op.ext][i] # None
    <3>1. /\ op' = [op EXCEPT !.left = @ \ {i}]
          /\ secrets' = [secrets EXCEPT ![n][op.ext][i] = None]
      BY <1>b, <1>8, <2>3 DEF DeleteSecret
    <3>2. /\ op'.pc = op.pc /\ op'.todo = op.todo
          /\ op'.event = op.event /\ op'.pending = op.pending
      BY <1>a, <3>1 DEF Op
    <3>3. \A f \in Extensions \ {op.ext} : secrets'[n][f] = secrets[n][f]
      BY <1>4, <3>1 DEF TypeOK
    <3>4. ASSUME op.pc = "prune"
          PROVE  /\ \A e \in Installable(s) : IsDeployed(n, s, e)'
                 /\ op.todo \intersect Requested[s] = {}
                 /\ Undesired(n, s) \subseteq op.todo
      <4>1. op.ext \in op.todo
        BY <1>0, <2>1, <3>4 DEF CleanupInv
      <4>2. /\ \A e \in Installable(s) : IsDeployed(n, s, e)
            /\ op.todo \intersect Requested[s] = {} /\ Undesired(n, s) \subseteq op.todo
        BY <1>0, <1>b, <3>4 DEF ProgressInv
      <4>3. \A e \in Installable(s) : e \in Extensions \ {op.ext}
        BY <1>4, <4>1, <4>2 DEF Installable
      <4>. QED  BY <2>1, <3>3, <4>2, <4>3 DEF IsDeployed
    <3>5. Undesired(n, s)' = Undesired(n, s)
      BY <2>1 DEF Undesired, ManagedOf
    <3>6. ProgressInv'
      BY <1>b, <2>1, <3>2, <3>4, <3>5 DEF ProgressInv
    <3>. QED  BY <1>3, <2>1, <3>2, <3>6 DEF Working, Cleaning, Installing
  <2>. QED  BY <2>2, <2>3
<1>9. CASE Written
  <2>1. /\ op' = [op EXCEPT !.ext = None, !.todo = @ \ {op.ext}]
        /\ op.pc = "write" /\ op.ext # None /\ op.left = {}
        /\ UNCHANGED <<managed, secrets>>
    BY <1>9 DEF Written
  <2>2. /\ op'.pc = "write" /\ op'.ext = None /\ op'.todo = op.todo \ {op.ext}
        /\ op'.event = op.event /\ op'.pending = op.pending
    BY <1>a, <2>1 DEF Op
  <2>3. ProgressInv'
    BY <1>0, <2>1, <2>2 DEF ProgressInv, IsDeployed
  <2>. QED  BY <1>3, <2>2, <2>3 DEF Working, Installing
<1>10. CASE AllWritten
  <2>1. /\ op' = [op EXCEPT !.pc = "listUndesired"]
        /\ op.pc = "write" /\ op.todo = {}
        /\ UNCHANGED <<managed, secrets>>
    BY <1>10 DEF AllWritten
  <2>2. op'.pc = "listUndesired" /\ op'.event = op.event /\ op'.pending = op.pending
    BY <1>a, <2>1 DEF Op
  <2>3. ProgressInv'
    BY <1>0, <2>1, <2>2 DEF ProgressInv, IsDeployed
  <2>. QED  BY <1>3, <2>2, <2>3 DEF Working, Installing
<1>11. CASE ListManaged
  <2>1. UNCHANGED <<managed, secrets>>
    BY <1>11 DEF ListManaged
  <2>2. /\ op'.event = op.event /\ op'.pending = op.pending
        /\ \/ op'.pc = "clean"
           \/ op.pc = "listUndesired" /\ op'.pc = "prune" /\ op'.todo = Undesired(n, s)
    BY <1>a, <1>b, <1>11 DEF ListManaged, Op
  <2>3. ProgressInv'
    BY <1>0, <1>b, <2>1, <2>2, ProgressStays
  <2>. QED  BY <1>3, <2>2, <2>3 DEF Working, Cleaning, Installing
<1>12. CASE DeleteManaged
  <2>1. /\ op' = [op EXCEPT !.ext = None, !.todo = @ \ {op.ext}]
        /\ managed' = [managed EXCEPT ![n][op.ext] = None]
        /\ op.pc \in {"clean", "prune"} /\ op.ext # None
        /\ UNCHANGED secrets
    BY <1>b, <1>12 DEF DeleteManaged
  <2>2. /\ op'.pc = op.pc /\ op'.todo = op.todo \ {op.ext}
        /\ op'.event = op.event /\ op'.pending = op.pending
    BY <1>a, <2>1 DEF Op
  <2>3. /\ \A f \in Extensions \ {op.ext} : managed'[n][f] = managed[n][f]
        /\ managed'[n][op.ext] = None
    BY <1>4, <2>1 DEF TypeOK
  <2>4. ASSUME op.pc = "prune"
        PROVE  /\ \A e \in Installable(s) : IsDeployed(n, s, e)'
               /\ op.todo \intersect Requested[s] = {}
               /\ Undesired(n, s) \subseteq op.todo
    <3>1. op.ext \in op.todo
      BY <1>0, <2>1, <2>4 DEF CleanupInv
    <3>2. /\ \A e \in Installable(s) : IsDeployed(n, s, e)
          /\ op.todo \intersect Requested[s] = {} /\ Undesired(n, s) \subseteq op.todo
      BY <1>0, <1>b, <2>4 DEF ProgressInv
    <3>3. \A e \in Installable(s) : e \in Extensions \ {op.ext}
      BY <1>4, <3>1, <3>2 DEF Installable
    <3>. QED  BY <2>1, <2>3, <3>2, <3>3 DEF IsDeployed
  <2>5. Undesired(n, s)' \subseteq Undesired(n, s) \ {op.ext}
    BY <1>4, <2>1, <2>3 DEF Undesired, ManagedOf
  <2>6. ProgressInv'
    BY <1>b, <2>1, <2>2, <2>4, <2>5 DEF ProgressInv
  <2>. QED  BY <1>3, <2>1, <2>2, <2>6 DEF Working, Cleaning, Installing
<1>13. CASE DeletedAll
  <2>1. /\ op' = [op EXCEPT !.pc = IF @ = "clean" THEN "finalise" ELSE "report"]
        /\ op.pc \in {"clean", "prune"} /\ op.todo = {}
        /\ UNCHANGED <<managed, secrets>>
    BY <1>13 DEF DeletedAll, AllDeleted
  <2>2. /\ op'.pc = IF op.pc = "clean" THEN "finalise" ELSE "report"
        /\ op'.event = op.event /\ op'.pending = op.pending
    BY <1>a, <2>1 DEF Op
  <2>3. ProgressInv'
    BY <1>0, <2>1, <2>2 DEF ProgressInv, IsDeployed, Undesired, ManagedOf
  <2>. QED  BY <1>3, <2>1, <2>2, <2>3 DEF Working, Cleaning
<1>. QED  BY <1>5, <1>6, <1>7, <1>8, <1>9, <1>10, <1>11, <1>12, <1>13

\* Whatever failed, was killed, replayed or listed again in between: an ODG in state Installed
\* is deployed completely, with nothing left over, and with its present spec once its generation
\* was seen.
THEOREM InstallationMatches == Spec => []InstalledMatches
<1>1. Init => InstallInv
  <2> SUFFICES ASSUME Init PROVE InstallInv
    OBVIOUS
  <2>1. /\ op.pc = "watch" /\ op.ext = None /\ op.event = None /\ op.pending = {} /\ log = <<>>
    BY DEF Init, Idle
  <2>2. KnownEvents = {}
    BY <2>1 DEF KnownEvents
  <2>. QED  BY <2>1, <2>2 DEF Init, InstallInv, ObjectsInv, EventsInv, WorkingInv, ProgressInv,
              Working, Cleaning, Installing, InstalledMatches, IsInstalled
<1>2. TypeOK /\ TypeOK' /\ Inv /\ InstallInv /\ [Next]_vars => InstallInv'
  <2>1. InstallInv /\ UNCHANGED vars => InstallInv'
    BY DEF vars, InstallInv, ObjectsInv, EventsInv, KnownEvents, WorkingInv, ProgressInv,
           IsDeployed, Undesired, ManagedOf, InstalledMatches, IsInstalled, Deployed
  <2>. QED  BY <2>1, UserInstall, DisturbInstall, DeliverInstall, StateStepInstall, WorkInstall
            DEF Next, Reconcile
<1>3. InstallInv => InstalledMatches
  BY DEF InstallInv
<1>. QED  BY <1>1, <1>2, <1>3, TypeCorrect, Invariant, PTL DEF Spec

=============================================================================
