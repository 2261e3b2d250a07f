------------------------ MODULE URLDataManagerProofs ------------------------
(***************************************************************************)
(* The data sources of chrome:// pages live exactly as long as somebody     *)
(* refers to them, for any number of sources and requests: SourcesInv.      *)
(*                                                                         *)
(* A step of either thread moves references between the registry, the two   *)
(* queues, the callbacks and the jobs; the argument is that only            *)
(* AddDataSource makes one for a source that had none, and that whoever     *)
(* drops the last one puts the source where it will be deleted.  The second *)
(* argument, TypeComesFirst, is about the order of a request's tasks.       *)
(***************************************************************************)
EXTENDS URLDataManager, ListLemmas

USE ManagerAssumption

(* The part of SourcesInv that is about references, and from which the rest *)
(* of that part follows.                                                    *)
IndInv ==
  /\ TypeOK
  /\ DeletionScheduled
  /\ LiveIffReferenced
  /\ ListIsUnreferenced
  /\ ShutdownInOrder

(* NoReferenceToDeleted and NoneLeaked say no more than that.              *)
LEMMA IndInvImpliesSourcesInv == IndInv /\ TypeComesFirst => SourcesInv
<1> SUFFICES ASSUME IndInv, TypeComesFirst PROVE SourcesInv
  OBVIOUS
<1>1. NoReferenceToDeleted
  BY DEF IndInv, LiveIffReferenced, NoReferenceToDeleted
<1>2. NoneLeaked
  <2> SUFFICES ASSUME phase = "done", NEW s \in Sources
               PROVE  source[s] \in {"new", "deleted"}
    BY DEF NoneLeaked
  <2>1. /\ registered = NoSource /\ io = <<>> /\ ui = <<>> /\ callbacks = {}
        /\ toDelete = {} /\ \A r \in Requests : ~Alive(r)
        /\ \A r \in Requests : jobSource[r] # NoSource => Alive(r)
    BY DEF IndInv, ShutdownInOrder
  <2>2. registered # s /\ \A r \in Requests : jobSource[r] # s
    BY <2>1 DEF NoSource
  <2>3. ~HeldBy(ui, s) /\ ~HeldBy(io, s)
    BY <2>1 DEF HeldBy
  <2>4. ~Referenced(s)
    BY <2>1, <2>2, <2>3 DEF Referenced
  <2>5. source[s] # "live" /\ source[s] # "unreferenced"
    BY <2>1, <2>4 DEF IndInv, LiveIffReferenced, ListIsUnreferenced
  <2> QED
    BY <2>5 DEF IndInv, TypeOK
<1> QED
  BY <1>1, <1>2 DEF IndInv, SourcesInv

-----------------------------------------------------------------------------
(* The references that tasks hold.                                         *)
Holds(task, s) == task # DeleteTask /\ task.source = s

(* A task that is posted holds its reference from then on ...              *)
LEMMA HeldByAppend ==
  ASSUME NEW S, NEW q \in Seq(S), NEW e \in S, NEW s
  PROVE  HeldBy(Append(q, e), s) <=> HeldBy(q, s) \/ Holds(e, s)
<1> DEFINE p == Append(q, e)
<1>0. Len(q) \in Nat /\ DOMAIN q = 1..Len(q)
  BY LenProperties
<1>1. /\ p \in Seq(S) /\ Len(p) = Len(q) + 1 /\ p[Len(q) + 1] = e
      /\ \A i \in 1..Len(q) : p[i] = q[i]
  BY AppendProperties
<1> HIDE DEF p
<1>2. DOMAIN p = 1..(Len(q) + 1)
  BY <1>1, LenProperties
<1>3. \A i \in DOMAIN p : i \in DOMAIN q \/ i = Len(q) + 1
  BY <1>0, <1>2
<1>4. DOMAIN q \subseteq DOMAIN p /\ Len(q) + 1 \in DOMAIN p
  BY <1>0, <1>2
<1>5. HeldBy(p, s) <=> HeldBy(q, s) \/ Holds(e, s)
  BY <1>0, <1>1, <1>3, <1>4 DEF HeldBy, Holds
<1> QED
  BY <1>5 DEF p

(* ... and the one that runs drops it.                                     *)
LEMMA HeldByTail ==
  ASSUME NEW S, NEW q \in Seq(S), q # <<>>, NEW s
  PROVE  HeldBy(q, s) <=> HeldBy(Tail(q), s) \/ Holds(Head(q), s)
<1> DEFINE p == Tail(q)
<1>0. Len(q) \in Nat \ {0} /\ DOMAIN q = 1..Len(q)
  BY LenProperties, EmptySeq
<1>1. /\ p \in Seq(S) /\ Len(p) = Len(q) - 1 /\ Head(q) = q[1]
      /\ \A i \in 1..Len(p) : p[i] = q[i + 1]
  BY HeadTailProperties
<1> HIDE DEF p
<1>2. DOMAIN p = 1..(Len(q) - 1)
  BY <1>1, LenProperties
<1>3. \A i \in DOMAIN p : i + 1 \in DOMAIN q /\ p[i] = q[i + 1]
  BY <1>0, <1>1, <1>2
<1>4. \A i \in DOMAIN q : i # 1 => i - 1 \in DOMAIN p /\ p[i - 1] = q[i]
  BY <1>0, <1>1, <1>2
<1>5. 1 \in DOMAIN q
  BY <1>0
<1>6. HeldBy(p, s) => HeldBy(q, s)
  BY <1>3 DEF HeldBy
<1>7. Holds(Head(q), s) => HeldBy(q, s)
  BY <1>1, <1>5 DEF HeldBy, Holds
<1>8. ASSUME HeldBy(q, s) PROVE HeldBy(p, s) \/ Holds(Head(q), s)
  <2>1. PICK i \in DOMAIN q : Holds(q[i], s)
    BY <1>8 DEF HeldBy, Holds
  <2>2. CASE i = 1
    BY <1>1, <2>1, <2>2
  <2>3. CASE i # 1
    BY <1>4, <2>1, <2>3 DEF HeldBy, Holds
  <2> QED
    BY <2>2, <2>3
<1> QED
  BY <1>6, <1>7, <1>8 DEF p

(* The task that deletes is in the queue.                                  *)
InQueue(q) == \E i \in DOMAIN q : q[i] = DeleteTask

(* Neither a post nor the run of another task takes it out.                *)
LEMMA InQueueKept ==
  ASSUME NEW S, NEW q \in Seq(S)
  PROVE  /\ \A e \in S : InQueue(q) => InQueue(Append(q, e))
         /\ DeleteTask \in S => InQueue(Append(q, DeleteTask))
         /\ q # <<>> /\ Head(q) # DeleteTask => (InQueue(q) => InQueue(Tail(q)))
<1>0. Len(q) \in Nat /\ DOMAIN q = 1..Len(q)
  BY LenProperties
<1>1. ASSUME NEW e \in S
      PROVE  /\ InQueue(q) => InQueue(Append(q, e))
             /\ e = DeleteTask => InQueue(Append(q, e))
  <2> DEFINE p == Append(q, e)
  <2>1. /\ p \in Seq(S) /\ Len(p) = Len(q) + 1 /\ p[Len(q) + 1] = e
        /\ \A i \in 1..Len(q) : p[i] = q[i]
    BY AppendProperties
  <2> HIDE DEF p
  <2>2. DOMAIN p = 1..(Len(q) + 1)
    BY <2>1, LenProperties
  <2>3. DOMAIN q \subseteq DOMAIN p /\ Len(q) + 1 \in DOMAIN p
    BY <1>0, <2>2
  <2> QED
    BY <1>0, <2>1, <2>3 DEF InQueue, p
<1>2. ASSUME q # <<>>, Head(q) # DeleteTask, InQueue(q) PROVE InQueue(Tail(q))
  <2> DEFINE p == Tail(q)
  <2>1. /\ p \in Seq(S) /\ Len(p) = Len(q) - 1 /\ Head(q) = q[1]
        /\ \A i \in 1..Len(p) : p[i] = q[i + 1]
    BY <1>2, HeadTailProperties
  <2> HIDE DEF p
  <2>2. DOMAIN p = 1..(Len(q) - 1)
    BY <2>1, LenProperties
  <2>3. PICK i \in DOMAIN q : q[i] = DeleteTask
    BY <1>2 DEF InQueue
  <2>4. i # 1
    BY <1>2, <2>1, <2>3
  <2>5. i - 1 \in DOMAIN p /\ p[i - 1] = q[i]
    BY <1>0, <2>1, <2>2, <2>4
  <2> QED
    BY <2>3, <2>5 DEF InQueue, p
<1> QED
  BY <1>1, <1>2

-----------------------------------------------------------------------------
(* The references of a source, one disjunct for each place they can be in. *)
Called(s) == \E r \in Requests : <<s, r>> \in callbacks
HasJob(s) == \E r \in Requests : jobSource[r] = s

(* Referenced, before and after a step.                                    *)
LEMMA ReferenceParts ==
  ASSUME NEW s
  PROVE  /\ Referenced(s) <=> \/ registered = s \/ HeldBy(ui, s) \/ HeldBy(io, s)
                              \/ Called(s) \/ HasJob(s)
         /\ Referenced(s)' <=> \/ registered' = s \/ HeldBy(ui', s) \/ HeldBy(io', s)
                               \/ Called(s)' \/ HasJob(s)'
  BY DEF Referenced, Called, HasJob, HeldBy

(* A step that makes no reference to a source without one, and one that     *)
(* takes none away either.                                                  *)
NoNewReference == \A s \in Sources : Referenced(s)' => Referenced(s)
SameReferences == \A s \in Sources : Referenced(s)' <=> Referenced(s)

Lives == [Sources -> {"new", "live", "unreferenced", "deleted"}]

(* What the UI thread lets go of is deleted at once ...                    *)
LEMMA ReleasedOnUI ==
  ASSUME IndInv, NoNewReference, ReleaseOnUI
  PROVE  /\ source' \in Lives /\ toDelete' = toDelete /\ schedule_delete' = schedule_delete
         /\ LiveIffReferenced' /\ ListIsUnreferenced'
<1>0. source \in Lives /\ LiveIffReferenced /\ ListIsUnreferenced
  BY DEF IndInv, TypeOK, Lives
<1>1. /\ toDelete' = toDelete /\ schedule_delete' = schedule_delete
      /\ source' = [s \in Sources |-> IF source[s] = "live" /\ ~Referenced(s)'
                                      THEN "deleted" ELSE source[s]]
  BY DEF ReleaseOnUI, Orphans
<1>2. source' \in Lives
  BY <1>0, <1>1 DEF Lives
<1>3. \A s \in Sources : source'[s] = "live" <=> Referenced(s)'
  BY <1>0, <1>1 DEF LiveIffReferenced, NoNewReference
<1>4. \A s \in Sources : source'[s] = "unreferenced" <=> source[s] = "unreferenced"
  BY <1>1
<1> QED
  BY <1>0, <1>1, <1>2, <1>3, <1>4 DEF LiveIffReferenced, ListIsUnreferenced

(* ... and what the IO thread does, put on the list, with a task to delete  *)
(* it if there is none.                                                     *)
LEMMA ReleasedOnIO ==
  ASSUME IndInv, IOReady, NoNewReference, ReleaseOnIO, ui' = ui, phase' # "done"
  PROVE  /\ source' \in Lives /\ toDelete' \in SUBSET Sources
         /\ schedule_delete' \in BOOLEAN
         /\ LiveIffReferenced' /\ ListIsUnreferenced' /\ DeletionScheduled'
<1> DEFINE O == {s \in Sources : source[s] = "live" /\ ~Referenced(s)'}
<1>0. /\ source \in Lives /\ LiveIffReferenced /\ ListIsUnreferenced /\ DeletionScheduled
      /\ toDelete \in SUBSET Sources /\ ~schedule_delete /\ phase # "done"
  BY DEF IndInv, TypeOK, Lives, IOReady
<1>1. /\ source' = [s \in Sources |-> IF s \in O THEN "unreferenced" ELSE source[s]]
      /\ toDelete' = toDelete \cup O
      /\ schedule_delete' = (O # {} /\ toDelete = {})
  BY DEF ReleaseOnIO, Orphans, FirstToDelete
<1>2. \A s \in Sources : source'[s] = "live" <=> Referenced(s)'
  BY <1>0, <1>1 DEF LiveIffReferenced, NoNewReference
<1>3. source' \in Lives
  BY <1>0, <1>1 DEF Lives
<1>4. ListIsUnreferenced'
  BY <1>0, <1>1 DEF ListIsUnreferenced
<1>5. DeletionScheduled'
  <2>1. toDelete # {} => \E i \in DOMAIN ui : ui[i] = DeleteTask
    BY <1>0 DEF DeletionScheduled
  <2> HIDE DEF O
  <2>2. toDelete' # {} => schedule_delete' \/ toDelete # {}
    BY <1>1
  <2> QED
    BY <2>1, <2>2 DEF DeletionScheduled
<1>6. toDelete' \in SUBSET Sources /\ schedule_delete' \in BOOLEAN
  BY <1>0, <1>1
<1> QED
  BY <1>2, <1>3, <1>4, <1>5, <1>6 DEF LiveIffReferenced

(* A step that moves references leaves the sources as they are.            *)
LEMMA NothingReleased ==
  ASSUME IndInv, SameReferences, source' = source, toDelete' = toDelete
  PROVE  LiveIffReferenced' /\ ListIsUnreferenced'
  BY DEF IndInv, SameReferences, LiveIffReferenced, ListIsUnreferenced

(* The head of a queue, and what it holds.                                 *)
LEMMA UIHead ==
  ASSUME IndInv, ui # <<>>
  PROVE  /\ Head(ui) \in UITask /\ Tail(ui) \in Seq(UITask)
         /\ Head(ui).op = "deleteDataSources" => Head(ui) = DeleteTask
         /\ Head(ui).op \in {"getMimeType", "startRequest"} =>
              /\ Head(ui) \in [op : {"getMimeType", "startRequest"}, source : Sources,
                               request : Requests]
              /\ Head(ui) # DeleteTask
<1>1. ui \in Seq(UITask)
  BY DEF IndInv, TypeOK
<1>2. Head(ui) \in UITask /\ Tail(ui) \in Seq(UITask)
  BY <1>1, HeadTailProperties
<1>3. DeleteTask.op = "deleteDataSources"
  BY DEF DeleteTask
<1> QED
  BY <1>2, <1>3 DEF UITask

(* The same on the IO thread.                                              *)
LEMMA IOHead ==
  ASSUME IndInv, io # <<>>
  PROVE  /\ Head(io) \in IOTask /\ Tail(io) \in Seq(IOTask)
         /\ Head(io).source \in Sources /\ Head(io) # DeleteTask
         /\ Head(io).op \in {"mimeType", "response"} => Head(io).request \in Requests
         /\ \A s : HeldBy(io, s) <=> HeldBy(Tail(io), s) \/ s = Head(io).source
<1>1. io \in Seq(IOTask)
  BY DEF IndInv, TypeOK
<1>2. Head(io) \in IOTask /\ Tail(io) \in Seq(IOTask)
  BY <1>1, HeadTailProperties
<1>3. DeleteTask.op = "deleteDataSources"
  BY DEF DeleteTask
<1>4. /\ Head(io).source \in Sources /\ Head(io) # DeleteTask
      /\ Head(io).op \in {"mimeType", "response"} => Head(io).request \in Requests
  BY <1>2, <1>3 DEF IOTask
<1>5. \A s : HeldBy(io, s) <=> HeldBy(Tail(io), s) \/ s = Head(io).source
  BY <1>1, <1>4, HeldByTail DEF Holds
<1> QED
  BY <1>2, <1>4, <1>5

-----------------------------------------------------------------------------
(* The steps of the UI thread.                                             *)

(* URLDataManagerIOS::AddDataSource makes the first reference.             *)
LEMMA AddDataSourceKeepsInv ==
  ASSUME IndInv, NEW s \in Sources, AddDataSource(s)
  PROVE  IndInv'
<1> DEFINE e == [op |-> "addDataSource", source |-> s]
<1>0. TypeOK /\ phase = "running"
  BY DEF IndInv, AddDataSource
<1>1. /\ source[s] = "new" /\ source' = [source EXCEPT ![s] = "live"]
      /\ io' = Append(io, e)
      /\ registered' = registered /\ backend' = backend /\ toDelete' = toDelete
      /\ schedule_delete' = schedule_delete /\ ui' = ui /\ callbacks' = callbacks
      /\ request' = request /\ jobSource' = jobSource /\ phase' = phase
  BY DEF AddDataSource
<1>2. e \in IOTask /\ e # DeleteTask /\ e.source = s
  <2>1. e.op # DeleteTask.op
    BY DEF DeleteTask
  <2> QED
    BY <2>1 DEF IOTask
<1> HIDE DEF e
<1>3. io \in Seq(IOTask) /\ Append(io, e) \in Seq(IOTask)
  BY <1>0, <1>2, AppendProperties DEF TypeOK
<1>4. \A t : HeldBy(Append(io, e), t) <=> HeldBy(io, t) \/ t = s
  BY <1>2, <1>3, HeldByAppend DEF Holds
<1>5. \A t \in Sources : Referenced(t)' <=> Referenced(t) \/ t = s
  BY <1>1, <1>4, ReferenceParts DEF Called, HasJob
<1>6. TypeOK'
  BY <1>0, <1>1, <1>3 DEF TypeOK
<1>7. LiveIffReferenced'
  BY <1>0, <1>1, <1>5 DEF IndInv, LiveIffReferenced, TypeOK
<1>8. ListIsUnreferenced'
  BY <1>0, <1>1 DEF IndInv, ListIsUnreferenced, TypeOK
<1>9. DeletionScheduled' /\ ShutdownInOrder'
  BY <1>0, <1>1 DEF IndInv, DeletionScheduled, ShutdownInOrder, Alive
<1> QED
  BY <1>6, <1>7, <1>8, <1>9 DEF IndInv

(* DeleteDataSources deletes what is on the list.                          *)
LEMMA RunDeleteKeepsInv ==
  ASSUME IndInv, RunDeleteDataSources
  PROVE  IndInv'
<1>0. /\ TypeOK /\ phase = "running" /\ ui # <<>> /\ Head(ui).op = "deleteDataSources"
      /\ ui' = Tail(ui)
  BY DEF IndInv, RunDeleteDataSources, UIRuns
<1>1. /\ source' = [s \in Sources |-> IF s \in toDelete THEN "deleted" ELSE source[s]]
      /\ toDelete' = {} /\ io' = io
      /\ registered' = registered /\ backend' = backend
      /\ schedule_delete' = schedule_delete /\ callbacks' = callbacks
      /\ request' = request /\ jobSource' = jobSource /\ phase' = phase
  BY DEF RunDeleteDataSources, DeleteAll
<1>2. Head(ui) = DeleteTask /\ ui' \in Seq(UITask)
  BY <1>0, UIHead
<1>3. \A s : HeldBy(ui', s) <=> HeldBy(ui, s)
  BY <1>0, <1>2, HeldByTail DEF Holds, TypeOK
<1>4. SameReferences
  BY <1>1, <1>3, ReferenceParts DEF SameReferences, Called, HasJob
<1>5. TypeOK'
  BY <1>0, <1>1, <1>2 DEF TypeOK
<1>6. LiveIffReferenced' /\ ListIsUnreferenced'
  BY <1>0, <1>1, <1>4
  DEF IndInv, LiveIffReferenced, ListIsUnreferenced, SameReferences
<1>7. DeletionScheduled' /\ ShutdownInOrder'
  BY <1>0, <1>1 DEF IndInv, DeletionScheduled, ShutdownInOrder, Alive
<1> QED
  BY <1>5, <1>6, <1>7 DEF IndInv

(* The task asks the source for a MIME type and sends it on.               *)
LEMMA GetMimeTypeKeepsInv ==
  ASSUME IndInv, GetMimeTypeOnUI
  PROVE  IndInv'
<1> DEFINE e == [Head(ui) EXCEPT !.op = "mimeType"]
<1>0. /\ TypeOK /\ phase = "running" /\ ui # <<>> /\ Head(ui).op = "getMimeType"
      /\ ui' = Tail(ui)
  BY DEF IndInv, GetMimeTypeOnUI, UIRuns
<1>1. /\ source' = source /\ toDelete' = toDelete /\ io' = Append(io, e)
      /\ registered' = registered /\ backend' = backend
      /\ schedule_delete' = schedule_delete /\ callbacks' = callbacks
      /\ request' = request /\ jobSource' = jobSource /\ phase' = phase
  BY DEF GetMimeTypeOnUI
<1>2. /\ Head(ui) # DeleteTask /\ Tail(ui) \in Seq(UITask)
      /\ Head(ui) \in [op : {"getMimeType", "startRequest"}, source : Sources,
                       request : Requests]
  BY <1>0, UIHead
<1>3. e \in IOTask /\ e # DeleteTask /\ e.source = Head(ui).source
  <2>1. /\ e \in [op : {"mimeType", "response"}, source : Sources, request : Requests]
        /\ e.op = "mimeType" /\ e.source = Head(ui).source
    BY <1>2
  <2>2. e.op # DeleteTask.op
    BY <2>1 DEF DeleteTask
  <2> QED
    BY <2>1, <2>2 DEF IOTask
<1> HIDE DEF e
<1>4. io \in Seq(IOTask) /\ Append(io, e) \in Seq(IOTask)
  BY <1>0, <1>3, AppendProperties DEF TypeOK
<1>5. \A s : HeldBy(Append(io, e), s) <=> HeldBy(io, s) \/ s = Head(ui).source
  BY <1>3, <1>4, HeldByAppend DEF Holds
<1>6. \A s : HeldBy(ui, s) <=> HeldBy(Tail(ui), s) \/ s = Head(ui).source
  BY <1>0, <1>2, HeldByTail DEF Holds, TypeOK
<1>7. SameReferences
  BY <1>0, <1>1, <1>5, <1>6, ReferenceParts DEF SameReferences, Called, HasJob
<1>8. TypeOK'
  BY <1>0, <1>1, <1>2, <1>4 DEF TypeOK
<1>9. DeletionScheduled'
  BY <1>0, <1>1, <1>2, InQueueKept DEF IndInv, DeletionScheduled, InQueue, TypeOK
<1>10. ShutdownInOrder'
  BY <1>0, <1>1 DEF IndInv, ShutdownInOrder, Alive
<1> QED
  BY <1>1, <1>7, <1>8, <1>9, <1>10, NothingReleased DEF IndInv

(* The task asks the source for the data; the callback holds it.           *)
LEMMA CallStartRequestKeepsInv ==
  ASSUME IndInv, CallStartRequest
  PROVE  IndInv'
<1> DEFINE s0 == Head(ui).source
           r0 == Head(ui).request
<1>0. /\ TypeOK /\ phase = "running" /\ ui # <<>> /\ Head(ui).op = "startRequest"
      /\ ui' = Tail(ui)
  BY DEF IndInv, CallStartRequest, UIRuns
<1>1. /\ source' = source /\ toDelete' = toDelete /\ io' = io
      /\ callbacks' = callbacks \cup {<<s0, r0>>}
      /\ registered' = registered /\ backend' = backend
      /\ schedule_delete' = schedule_delete
      /\ request' = request /\ jobSource' = jobSource /\ phase' = phase
  BY DEF CallStartRequest
<1>2. /\ Head(ui) # DeleteTask /\ Tail(ui) \in Seq(UITask)
      /\ s0 \in Sources /\ r0 \in Requests
  BY <1>0, UIHead
<1>3. \A s : HeldBy(ui, s) <=> HeldBy(Tail(ui), s) \/ s = s0
  BY <1>0, <1>2, HeldByTail DEF Holds, TypeOK
<1> HIDE DEF s0, r0
<1>4. \A s : Called(s)' <=> Called(s) \/ s = s0
  BY <1>1, <1>2 DEF Called
<1>5. SameReferences
  BY <1>0, <1>1, <1>3, <1>4, ReferenceParts DEF SameReferences, HasJob
<1>6. TypeOK'
  BY <1>0, <1>1, <1>2 DEF TypeOK
<1>7. DeletionScheduled'
  BY <1>0, <1>1, <1>2, InQueueKept DEF IndInv, DeletionScheduled, InQueue, TypeOK
<1>8. ShutdownInOrder'
  BY <1>0, <1>1 DEF IndInv, ShutdownInOrder, Alive
<1> QED
  BY <1>1, <1>5, <1>6, <1>7, <1>8, NothingReleased DEF IndInv

(* A source answers, or its answer is dropped.                             *)
LEMMA SendResponseKeepsInv ==
  ASSUME IndInv, NEW s \in Sources, NEW r \in Requests, SendResponse(s, r)
  PROVE  IndInv'
<1> DEFINE e == Task("response", s, r)
<1>0. TypeOK /\ phase = "running" /\ <<s, r>> \in callbacks /\ ReleaseOnUI
  BY DEF IndInv, SendResponse
<1>1. /\ callbacks' = callbacks \ {<<s, r>>}
      /\ io' = io \/ io' = Append(io, e)
      /\ registered' = registered /\ backend' = backend /\ ui' = ui
      /\ request' = request /\ jobSource' = jobSource /\ phase' = phase
  BY DEF SendResponse
<1>2. e \in IOTask /\ e # DeleteTask /\ e.source = s
  <2>1. e.op # DeleteTask.op
    BY DEF DeleteTask, Task
  <2> QED
    BY <2>1 DEF IOTask, Task
<1> HIDE DEF e
<1>3. io \in Seq(IOTask) /\ Append(io, e) \in Seq(IOTask)
  BY <1>0, <1>2, AppendProperties DEF TypeOK
<1>4. \A t : HeldBy(io', t) => HeldBy(io, t) \/ t = s
  BY <1>1, <1>2, <1>3, HeldByAppend DEF Holds
<1>5. Called(s) /\ \A t : Called(t)' => Called(t)
  BY <1>0, <1>1 DEF Called
<1>6. NoNewReference
  BY <1>1, <1>4, <1>5, ReferenceParts DEF NoNewReference, HasJob
<1>7. /\ source' \in Lives /\ toDelete' = toDelete /\ schedule_delete' = schedule_delete
      /\ LiveIffReferenced' /\ ListIsUnreferenced'
  BY <1>0, <1>6, ReleasedOnUI
<1>8. TypeOK'
  BY <1>0, <1>1, <1>3, <1>7 DEF TypeOK, Lives
<1>9. DeletionScheduled' /\ ShutdownInOrder'
  BY <1>0, <1>1, <1>7 DEF IndInv, DeletionScheduled, ShutdownInOrder, Alive
<1> QED
  BY <1>7, <1>8, <1>9 DEF IndInv

(* The UI loop stops, and what was to answer goes.                         *)
LEMMA StopUIKeepsInv ==
  ASSUME IndInv, StopUI
  PROVE  IndInv'
<1>0. TypeOK /\ phase = "running" /\ ReleaseOnUI
  BY DEF IndInv, StopUI
<1>1. /\ callbacks' = {} /\ phase' = "uiStopped"
      /\ registered' = registered /\ backend' = backend /\ ui' = ui /\ io' = io
      /\ request' = request /\ jobSource' = jobSource
  BY DEF StopUI
<1>2. NoNewReference
  BY <1>1, ReferenceParts DEF NoNewReference, HasJob, Called
<1>3. /\ source' \in Lives /\ toDelete' = toDelete /\ schedule_delete' = schedule_delete
      /\ LiveIffReferenced' /\ ListIsUnreferenced'
  BY <1>0, <1>2, ReleasedOnUI
<1>4. TypeOK'
  BY <1>0, <1>1, <1>3 DEF TypeOK, Lives
<1>5. DeletionScheduled' /\ ShutdownInOrder'
  BY <1>0, <1>1, <1>3 DEF IndInv, DeletionScheduled, ShutdownInOrder, Alive
<1> QED
  BY <1>3, <1>4, <1>5 DEF IndInv

-----------------------------------------------------------------------------
(* The steps of the IO thread.                                             *)

(* The rest of DeleteDataSource: the task that deletes the list.           *)
LEMMA ScheduleDeleteKeepsInv ==
  ASSUME IndInv, ScheduleDelete
  PROVE  IndInv'
<1>0. TypeOK /\ schedule_delete
  BY DEF IndInv, ScheduleDelete
<1>1. /\ schedule_delete' = FALSE /\ ui' = Append(ui, DeleteTask)
      /\ source' = source /\ toDelete' = toDelete /\ io' = io
      /\ registered' = registered /\ backend' = backend /\ callbacks' = callbacks
      /\ request' = request /\ jobSource' = jobSource /\ phase' = phase
  BY DEF ScheduleDelete
<1>2. DeleteTask \in UITask
  BY DEF UITask
<1>3. ui \in Seq(UITask) /\ Append(ui, DeleteTask) \in Seq(UITask)
  BY <1>0, <1>2, AppendProperties DEF TypeOK
<1>4. \A s : HeldBy(ui', s) <=> HeldBy(ui, s)
  BY <1>1, <1>2, <1>3, HeldByAppend DEF Holds
<1>5. SameReferences
  BY <1>1, <1>4, ReferenceParts DEF SameReferences, Called, HasJob
<1>6. TypeOK'
  BY <1>0, <1>1, <1>3 DEF TypeOK
<1>7. DeletionScheduled'
  <2>1. Len(ui) + 1 \in DOMAIN ui' /\ ui'[Len(ui) + 1] = DeleteTask
    BY <1>1, <1>2, <1>3, AppendProperties
  <2> QED
    BY <2>1 DEF DeletionScheduled
<1>8. phase \notin {"ioStopped", "done"}
  BY <1>0 DEF IndInv, ShutdownInOrder
<1>9. ShutdownInOrder'
  BY <1>1, <1>8 DEF IndInv, ShutdownInOrder, Alive
<1> QED
  BY <1>1, <1>5, <1>6, <1>7, <1>9, NothingReleased DEF IndInv

(* A request puts two tasks that hold its source on the UI thread's queue, *)
(* in one step of the IO thread.                                            *)
LEMMA StartRequestKeepsInv ==
  ASSUME IndInv, NEW r \in Requests, StartRequest(r)
  PROVE  IndInv'
<1> DEFINE a == Task("getMimeType", registered, r)
           b == Task("startRequest", registered, r)
<1>0. TypeOK /\ phase \in {"running", "uiStopped"} /\ request[r] = "new"
  BY DEF IndInv, StartRequest, IOReady
<1>1. /\ source' = source /\ toDelete' = toDelete /\ io' = io
      /\ schedule_delete' = schedule_delete
      /\ registered' = registered /\ backend' = backend /\ callbacks' = callbacks
      /\ jobSource' = jobSource /\ phase' = phase
  BY DEF StartRequest
<1>2. \/ ui' = ui /\ request' = [request EXCEPT ![r] = "failed"]
      \/ /\ registered \in Sources /\ ui' = ui \o <<a, b>>
         /\ request' = [request EXCEPT ![r] = "pending"]
  BY <1>0 DEF StartRequest, TasksOf, TypeOK, NoSource
<1>3. /\ request' \in [Requests -> {"new", "pending", "typed", "answered", "failed", "gone"}]
      /\ \A q \in Requests : q # r => request'[q] = request[q]
  BY <1>0, <1>2 DEF TypeOK
<1>4. ShutdownInOrder'
  <2>1. jobSource[r] = NoSource
    BY <1>0 DEF IndInv, ShutdownInOrder, Alive
  <2> QED
    BY <1>0, <1>1, <1>3, <2>1 DEF IndInv, ShutdownInOrder, Alive
<1>5. /\ ui' \in Seq(UITask)
      /\ \A s \in Sources : HeldBy(ui', s) => HeldBy(ui, s) \/ s = registered
      /\ \A s \in Sources : HeldBy(ui, s) => HeldBy(ui', s)
      /\ InQueue(ui) => InQueue(ui')
  <2>1. CASE ui' = ui
    BY <1>0, <2>1 DEF TypeOK
  <2>2. CASE registered \in Sources /\ ui' = ui \o <<a, b>>
    <3>1. /\ a \in UITask /\ a.source = registered
          /\ b \in UITask /\ b.source = registered
      BY <2>2 DEF UITask, Task
    <3>2. /\ ui \in Seq(UITask)
      BY <1>0 DEF TypeOK
    <3> HIDE DEF a, b
    <3>3. /\ <<a, b>> \in Seq(UITask) /\ Len(<<a, b>>) = 2
          /\ <<a, b>>[1] = a /\ <<a, b>>[2] = b
      BY <3>1
    <3>4. /\ ui' \in Seq(UITask) /\ Len(ui') = Len(ui) + 2
          /\ \A i \in 1 .. Len(ui) : ui'[i] = ui[i]
          /\ ui'[Len(ui) + 1] = a /\ ui'[Len(ui) + 2] = b
      BY <2>2, <3>2, <3>3, ConcatProperties
    <3>5. /\ DOMAIN ui = 1 .. Len(ui) /\ DOMAIN ui' = 1 .. Len(ui) + 2 /\ Len(ui) \in Nat
      BY <3>2, <3>4
    <3>6. \A i \in DOMAIN ui' : i \in DOMAIN ui \/ ui'[i] = a \/ ui'[i] = b
      BY <3>4, <3>5
    <3>7. \A i \in DOMAIN ui : i \in DOMAIN ui' /\ ui'[i] = ui[i]
      BY <3>4, <3>5
    <3> QED
      BY <3>1, <3>4, <3>6, <3>7 DEF HeldBy, InQueue
  <2> QED
    BY <1>2, <2>1, <2>2
<1>6. SameReferences
  BY <1>1, <1>5, ReferenceParts DEF SameReferences, Called, HasJob
<1>7. TypeOK'
  BY <1>0, <1>1, <1>3, <1>5 DEF TypeOK
<1>8. DeletionScheduled'
  BY <1>1, <1>5 DEF IndInv, DeletionScheduled, InQueue
<1> QED
  BY <1>1, <1>4, <1>6, <1>7, <1>8, NothingReleased DEF IndInv

(* The backend takes a source, in the place of another perhaps, or does     *)
(* not.                                                                     *)
LEMMA AddDataSourceOnIOKeepsInv ==
  ASSUME IndInv, AddDataSourceOnIOThread
  PROVE  IndInv'
<1> DEFINE s0 == Head(io).source
<1>0. /\ TypeOK /\ IOReady /\ io # <<>> /\ io' = Tail(io) /\ ReleaseOnIO
      /\ ui' = ui /\ callbacks' = callbacks /\ request' = request
      /\ jobSource' = jobSource /\ phase' = phase
  BY DEF IndInv, AddDataSourceOnIOThread, IORuns
<1>1. \/ registered' = s0 /\ backend' = [t \in Sources |-> t = s0]
      \/ registered' = registered /\ backend' = backend
  BY DEF AddDataSourceOnIOThread, BackendAfterAdd
<1>2. /\ Tail(io) \in Seq(IOTask) /\ s0 \in Sources
      /\ \A s : HeldBy(io, s) <=> HeldBy(Tail(io), s) \/ s = s0
  BY <1>0, IOHead
<1>3. phase \in {"running", "uiStopped"}
  BY <1>0 DEF IndInv, ShutdownInOrder, IOReady
<1> HIDE DEF s0
<1>4. NoNewReference
  BY <1>0, <1>1, <1>2, ReferenceParts DEF NoNewReference, HasJob, Called
<1>5. /\ source' \in Lives /\ toDelete' \in SUBSET Sources
      /\ schedule_delete' \in BOOLEAN
      /\ LiveIffReferenced' /\ ListIsUnreferenced' /\ DeletionScheduled'
  BY <1>0, <1>3, <1>4, ReleasedOnIO
<1>6. /\ registered' \in Sources \cup {NoSource}
      /\ backend' \in [Sources -> BOOLEAN]
      /\ \A s \in Sources : backend'[s] => registered' = s
  BY <1>0, <1>1, <1>2 DEF TypeOK
<1>7. TypeOK'
  BY <1>0, <1>2, <1>5, <1>6 DEF TypeOK, Lives
<1>8. ShutdownInOrder'
  BY <1>0, <1>3 DEF IndInv, ShutdownInOrder, Alive
<1> QED
  BY <1>5, <1>7, <1>8 DEF IndInv

(* A job gets its MIME type, and holds its source if it asks for HTML.      *)
LEMMA MimeTypeAvailableKeepsInv ==
  ASSUME IndInv, MimeTypeAvailable
  PROVE  IndInv'
<1> DEFINE s0 == Head(io).source
           r0 == Head(io).request
<1>0. /\ TypeOK /\ IOReady /\ io # <<>> /\ Head(io).op = "mimeType" /\ io' = Tail(io)
      /\ ReleaseOnIO
      /\ ui' = ui /\ callbacks' = callbacks /\ registered' = registered
      /\ backend' = backend /\ phase' = phase
  BY DEF IndInv, MimeTypeAvailable, IORuns
<1>1. \/ request' = request /\ jobSource' = jobSource
      \/ /\ request' = [request EXCEPT ![r0] = "typed"] /\ Alive(r0)
         /\ jobSource' \in {jobSource, [jobSource EXCEPT ![r0] = s0]}
  BY DEF MimeTypeAvailable
<1>2. /\ Tail(io) \in Seq(IOTask) /\ s0 \in Sources /\ r0 \in Requests
      /\ \A s : HeldBy(io, s) <=> HeldBy(Tail(io), s) \/ s = s0
  BY <1>0, IOHead
<1>3. phase \in {"running", "uiStopped"}
  BY <1>0 DEF IndInv, ShutdownInOrder, IOReady
<1> HIDE DEF s0, r0
<1>4. \A s \in Sources : HasJob(s)' => HasJob(s) \/ s = s0
  BY <1>0, <1>1, <1>2 DEF HasJob, TypeOK
<1>5. NoNewReference
  BY <1>0, <1>2, <1>4, ReferenceParts DEF NoNewReference, Called
<1>6. /\ source' \in Lives /\ toDelete' \in SUBSET Sources
      /\ schedule_delete' \in BOOLEAN
      /\ LiveIffReferenced' /\ ListIsUnreferenced' /\ DeletionScheduled'
  BY <1>0, <1>3, <1>5, ReleasedOnIO
<1>7. /\ request' \in [Requests -> {"new", "pending", "typed", "answered", "failed", "gone"}]
      /\ jobSource' \in [Requests -> Sources \cup {NoSource}]
  BY <1>0, <1>1, <1>2 DEF TypeOK
<1>8. TypeOK'
  BY <1>0, <1>2, <1>6, <1>7 DEF TypeOK, Lives
<1>9. ShutdownInOrder'
  <2>1. \A r \in Requests : jobSource'[r] # NoSource => Alive(r)'
    BY <1>0, <1>1, <1>2 DEF IndInv, ShutdownInOrder, Alive, TypeOK
  <2> QED
    BY <1>0, <1>3, <2>1 DEF IndInv, ShutdownInOrder
<1> QED
  BY <1>6, <1>8, <1>9 DEF IndInv

(* A job gets its data, or its source is no longer the backend's.          *)
LEMMA SendResponseOnIOKeepsInv ==
  ASSUME IndInv, SendResponseOnIOThread
  PROVE  IndInv'
<1> DEFINE r0 == Head(io).request
<1>0. /\ TypeOK /\ IOReady /\ io # <<>> /\ Head(io).op = "response" /\ io' = Tail(io)
      /\ ReleaseOnIO
      /\ ui' = ui /\ callbacks' = callbacks /\ registered' = registered
      /\ backend' = backend /\ jobSource' = jobSource /\ phase' = phase
  BY DEF IndInv, SendResponseOnIOThread, IORuns
<1>1. \/ request' = request
      \/ request' = [request EXCEPT ![r0] = "answered"]
  BY DEF SendResponseOnIOThread
<1>2. /\ Tail(io) \in Seq(IOTask) /\ r0 \in Requests
      /\ \A s : HeldBy(Tail(io), s) => HeldBy(io, s)
  BY <1>0, IOHead
<1>3. phase \in {"running", "uiStopped"}
  BY <1>0 DEF IndInv, ShutdownInOrder, IOReady
<1> HIDE DEF r0
<1>4. NoNewReference
  BY <1>0, <1>2, ReferenceParts DEF NoNewReference, Called, HasJob
<1>5. /\ source' \in Lives /\ toDelete' \in SUBSET Sources
      /\ schedule_delete' \in BOOLEAN
      /\ LiveIffReferenced' /\ ListIsUnreferenced' /\ DeletionScheduled'
  BY <1>0, <1>3, <1>4, ReleasedOnIO
<1>6. request' \in [Requests -> {"new", "pending", "typed", "answered", "failed", "gone"}]
  BY <1>0, <1>1, <1>2 DEF TypeOK
<1>7. TypeOK'
  BY <1>0, <1>2, <1>5, <1>6 DEF TypeOK, Lives
<1>8. ShutdownInOrder'
  <2>1. \A r \in Requests : Alive(r) => Alive(r)'
    BY <1>0, <1>1, <1>2 DEF Alive, TypeOK
  <2> QED
    BY <1>0, <1>3, <2>1 DEF IndInv, ShutdownInOrder
<1> QED
  BY <1>5, <1>7, <1>8 DEF IndInv

(* A job goes, and with it what it held.                                   *)
LEMMA KillKeepsInv ==
  ASSUME IndInv, NEW r \in Requests, Kill(r)
  PROVE  IndInv'
<1>0. /\ TypeOK /\ IOReady /\ Alive(r) /\ ReleaseOnIO
      /\ request' = [request EXCEPT ![r] = "gone"]
      /\ jobSource' = [jobSource EXCEPT ![r] = NoSource]
      /\ ui' = ui /\ io' = io /\ callbacks' = callbacks
      /\ registered' = registered /\ backend' = backend /\ phase' = phase
  BY DEF IndInv, Kill
<1>1. phase \in {"running", "uiStopped"}
  BY <1>0 DEF IndInv, ShutdownInOrder, IOReady
<1>2. \A s \in Sources : HasJob(s)' => HasJob(s)
  <2>1. \A s \in Sources : s # NoSource
    BY DEF NoSource
  <2> QED
    BY <1>0, <2>1 DEF HasJob, TypeOK
<1>3. NoNewReference
  BY <1>0, <1>2, ReferenceParts DEF NoNewReference, Called
<1>4. /\ source' \in Lives /\ toDelete' \in SUBSET Sources
      /\ schedule_delete' \in BOOLEAN
      /\ LiveIffReferenced' /\ ListIsUnreferenced' /\ DeletionScheduled'
  BY <1>0, <1>1, <1>3, ReleasedOnIO
<1>5. TypeOK'
  BY <1>0, <1>4 DEF TypeOK, Lives
<1>6. ShutdownInOrder'
  <2>1. \A q \in Requests : jobSource'[q] # NoSource => Alive(q)'
    BY <1>0 DEF IndInv, ShutdownInOrder, Alive, TypeOK
  <2> QED
    BY <1>0, <1>1, <2>1 DEF IndInv, ShutdownInOrder
<1> QED
  BY <1>4, <1>5, <1>6 DEF IndInv

-----------------------------------------------------------------------------
(* The rest of the shutdown.                                               *)

(* The backend lets go of its source when no job and no task is left.      *)
LEMMA DeleteBackendKeepsInv ==
  ASSUME IndInv, DeleteBackend
  PROVE  IndInv'
<1>0. /\ TypeOK /\ IOReady /\ phase = "uiStopped" /\ io = <<>> /\ ReleaseOnIO
      /\ \A r \in Requests : ~Alive(r)
      /\ phase' = "backendGone" /\ registered' = NoSource
      /\ backend' = [s \in Sources |-> FALSE]
      /\ ui' = ui /\ io' = io /\ callbacks' = callbacks
      /\ request' = request /\ jobSource' = jobSource
  BY DEF IndInv, DeleteBackend
<1>1. NoNewReference
  <2>1. \A s \in Sources : registered' # s
    BY <1>0 DEF NoSource
  <2> QED
    BY <1>0, <2>1, ReferenceParts DEF NoNewReference, Called, HasJob
<1>2. /\ source' \in Lives /\ toDelete' \in SUBSET Sources
      /\ schedule_delete' \in BOOLEAN
      /\ LiveIffReferenced' /\ ListIsUnreferenced' /\ DeletionScheduled'
  BY <1>0, <1>1, ReleasedOnIO
<1>3. TypeOK'
  BY <1>0, <1>2 DEF TypeOK, Lives
<1>4. ShutdownInOrder'
  BY <1>0 DEF IndInv, ShutdownInOrder, Alive
<1> QED
  BY <1>2, <1>3, <1>4 DEF IndInv

(* The IO thread stops; its last task has been posted.                     *)
LEMMA StopIOKeepsInv ==
  ASSUME IndInv, StopIO
  PROVE  IndInv'
<1>0. /\ TypeOK /\ ~schedule_delete /\ phase = "backendGone" /\ phase' = "ioStopped"
      /\ source' = source /\ toDelete' = toDelete /\ schedule_delete' = schedule_delete
      /\ registered' = registered /\ backend' = backend /\ ui' = ui /\ io' = io
      /\ callbacks' = callbacks /\ request' = request /\ jobSource' = jobSource
  BY DEF IndInv, StopIO, threadVars, IOReady
<1>1. SameReferences
  BY <1>0 DEF SameReferences, Referenced, HeldBy
<1>2. TypeOK'
  BY <1>0 DEF TypeOK
<1>3. DeletionScheduled' /\ ShutdownInOrder'
  BY <1>0 DEF IndInv, DeletionScheduled, ShutdownInOrder, Alive
<1> QED
  BY <1>0, <1>1, <1>2, <1>3, NothingReleased DEF IndInv

(* The UI thread deletes the list and, with its loop, the rest.            *)
LEMMA DestroyUIKeepsInv ==
  ASSUME IndInv, DestroyUI
  PROVE  IndInv'
<1>0. /\ TypeOK /\ phase = "ioStopped" /\ phase' = "done" /\ ui' = <<>>
      /\ registered' = registered /\ backend' = backend /\ io' = io
      /\ schedule_delete' = schedule_delete
      /\ callbacks' = callbacks /\ request' = request /\ jobSource' = jobSource
      /\ toDelete' = {}
      /\ source' = [s \in Sources |-> IF s \in toDelete \/ s \in Orphans
                                      THEN "deleted" ELSE source[s]]
  BY DEF IndInv, DestroyUI, FinalDelete
<1>1. /\ registered = NoSource /\ io = <<>> /\ callbacks = {} /\ ~schedule_delete
      /\ \A r \in Requests : ~Alive(r)
      /\ \A r \in Requests : jobSource[r] # NoSource => Alive(r)
  BY <1>0 DEF IndInv, ShutdownInOrder
<1>2. \A s \in Sources : ~Referenced(s)'
  <2>1. \A s \in Sources : s # NoSource
    BY DEF NoSource
  <2>2. \A s : ~HeldBy(ui', s) /\ ~HeldBy(io', s)
    BY <1>0, <1>1 DEF HeldBy
  <2>3. \A s \in Sources : ~HasJob(s)' /\ ~Called(s)' /\ registered' # s
    BY <1>0, <1>1, <2>1 DEF HasJob, Called
  <2> QED
    BY <2>2, <2>3, ReferenceParts
<1>3. \A s \in Sources : s \in Orphans <=> source[s] = "live"
  BY <1>2 DEF Orphans
<1>4. \A s \in Sources : /\ source'[s] # "live" /\ source'[s] # "unreferenced"
                         /\ source'[s] \in {"new", "live", "unreferenced", "deleted"}
  BY <1>0, <1>3 DEF IndInv, ListIsUnreferenced, TypeOK
<1>5. source' \in [Sources -> {"new", "live", "unreferenced", "deleted"}]
  BY <1>0, <1>4
<1>6. TypeOK'
  BY <1>0, <1>5 DEF TypeOK
<1>7. LiveIffReferenced' /\ ListIsUnreferenced' /\ DeletionScheduled'
  BY <1>0, <1>2, <1>4 DEF LiveIffReferenced, ListIsUnreferenced, DeletionScheduled
<1>8. ShutdownInOrder'
  BY <1>0, <1>1 DEF ShutdownInOrder, Alive
<1> QED
  BY <1>6, <1>7, <1>8 DEF IndInv

-----------------------------------------------------------------------------
(* At the start there is no source and no reference.                       *)
LEMMA InitEstablishesInv == Init => IndInv
<1> SUFFICES ASSUME Init PROVE IndInv
  OBVIOUS
<1>1. TypeOK
  <2>1. <<>> \in Seq(UITask) /\ <<>> \in Seq(IOTask)
    BY EmptySeq
  <2>2. /\ ui = <<>> /\ io = <<>> /\ schedule_delete = FALSE /\ phase = "running"
        /\ source = [s \in Sources |-> "new"] /\ backend = [s \in Sources |-> FALSE]
        /\ request = [r \in Requests |-> "new"] /\ callbacks = {} /\ toDelete = {}
        /\ jobSource = [r \in Requests |-> NoSource] /\ registered = NoSource
    BY DEF Init
  <2>3. /\ ui \in Seq(UITask) /\ io \in Seq(IOTask)
    BY <2>1, <2>2, Zenon
  <2> QED
    BY <2>2, <2>3 DEF TypeOK
<1>2. \A s \in Sources : ~Referenced(s)
  BY DEF Init, Referenced, HeldBy, NoSource
<1> QED
  BY <1>1, <1>2
  DEF Init, IndInv, DeletionScheduled, LiveIffReferenced, ListIsUnreferenced,
      ShutdownInOrder, Alive

(* Every step of every thread keeps the count right.                       *)
LEMMA NextKeepsInv == IndInv /\ [Next]_vars => IndInv'
<1> SUFFICES ASSUME IndInv, [Next]_vars PROVE IndInv'
  OBVIOUS
<1>1. CASE UIStep
  BY <1>1, RunDeleteKeepsInv, GetMimeTypeKeepsInv, CallStartRequestKeepsInv DEF UIStep
<1>2. CASE IOStep
  BY <1>2, AddDataSourceOnIOKeepsInv, MimeTypeAvailableKeepsInv, SendResponseOnIOKeepsInv
  DEF IOStep
<1>3. CASE ScheduleDelete
  BY <1>3, ScheduleDeleteKeepsInv
<1>4. CASE \E s \in Sources : AddDataSource(s) \/ \E r \in Requests : SendResponse(s, r)
  BY <1>4, AddDataSourceKeepsInv, SendResponseKeepsInv
<1>5. CASE \E r \in Requests : StartRequest(r) \/ Kill(r)
  BY <1>5, StartRequestKeepsInv, KillKeepsInv
<1>6. CASE StopUI \/ DeleteBackend \/ StopIO \/ DestroyUI
  BY <1>6, StopUIKeepsInv, DeleteBackendKeepsInv, StopIOKeepsInv, DestroyUIKeepsInv
<1>7. CASE UNCHANGED vars
  <2>1. /\ source' = source /\ toDelete' = toDelete /\ schedule_delete' = schedule_delete
        /\ registered' = registered /\ backend' = backend /\ ui' = ui /\ io' = io
        /\ callbacks' = callbacks /\ request' = request /\ jobSource' = jobSource
        /\ phase' = phase
    BY <1>7 DEF vars, threadVars
  <2>2. SameReferences
    BY <2>1 DEF SameReferences, Referenced, HeldBy
  <2>3. TypeOK'
    BY <2>1 DEF IndInv, TypeOK
  <2>4. DeletionScheduled' /\ ShutdownInOrder'
    BY <2>1 DEF IndInv, DeletionScheduled, ShutdownInOrder, Alive
  <2> QED
    BY <2>1, <2>2, <2>3, <2>4, NothingReleased DEF IndInv
<1> QED
  BY <1>1, <1>2, <1>3, <1>4, <1>5, <1>6, <1>7 DEF Next

-----------------------------------------------------------------------------
(* The type of an answer comes before its data.                            *)

(* A task at the end of a queue ...                                        *)
LEMMA TaskAtEnd ==
  ASSUME NEW S, NEW q \in Seq(S), NEW e \in S, NEW r, NEW a, NEW b
  PROVE  /\ Has(Append(q, e), a, r) <=> Has(q, a, r) \/ IsTask(e, a, r)
         /\ Before(Append(q, e), a, b, r) <=>
              Before(q, a, b, r) /\ (IsTask(e, b, r) => Has(q, a, r))
<1> DEFINE p == Append(q, e)
           n == Len(q) + 1
<1>1. /\ Len(q) \in Nat /\ DOMAIN q = 1..Len(q) /\ DOMAIN p = 1..n /\ p[n] = e
      /\ \A i \in 1..Len(q) : p[i] = q[i]
  BY AppendProperties, LenProperties
<1> HIDE DEF p
<1>2. \A i \in DOMAIN q : i \in DOMAIN p /\ p[i] = q[i] /\ i < n
  BY <1>1
<1>3. \A i \in DOMAIN p : i = n \/ i \in DOMAIN q
  BY <1>1
<1>4. n \in DOMAIN p /\ n \notin DOMAIN q /\ \A i \in DOMAIN q : ~(n < i)
  BY <1>1
<1> HIDE DEF n
<1>5. Has(p, a, r) <=> Has(q, a, r) \/ IsTask(e, a, r)
  BY <1>1, <1>2, <1>3, <1>4 DEF Has
<1>6. ASSUME Before(p, a, b, r)
      PROVE  Before(q, a, b, r) /\ (IsTask(e, b, r) => Has(q, a, r))
  <2>1. \A i \in DOMAIN p : IsTask(p[i], b, r) => \E j \in DOMAIN p : j < i /\ IsTask(p[j], a, r)
    BY <1>6 DEF Before
  <2>2. Before(q, a, b, r)
    BY <1>2, <1>3, <1>4, <2>1 DEF Before
  <2>3. ~(n < n)
    BY <1>1 DEF n
  <2> QED
    BY <1>1, <1>2, <1>3, <1>4, <2>1, <2>2, <2>3 DEF Has
<1>7. ASSUME Before(q, a, b, r), IsTask(e, b, r) => Has(q, a, r)
      PROVE  Before(p, a, b, r)
  BY <1>1, <1>2, <1>3, <1>7 DEF Before, Has
<1> QED
  BY <1>5, <1>6, <1>7 DEF p

(* ... and the one at its head.                                            *)
LEMMA TaskAtHead ==
  ASSUME NEW S, NEW q \in Seq(S), q # <<>>, NEW r, NEW a, NEW b
  PROVE  /\ Has(q, a, r) <=> Has(Tail(q), a, r) \/ IsTask(Head(q), a, r)
         /\ Before(q, a, b, r) => ~IsTask(Head(q), b, r)
         /\ Before(q, a, b, r) /\ ~IsTask(Head(q), a, r) => Before(Tail(q), a, b, r)
<1> DEFINE p == Tail(q)
<1>1. /\ Len(q) \in Nat \ {0} /\ DOMAIN q = 1..Len(q) /\ DOMAIN p = 1..(Len(q) - 1)
      /\ Head(q) = q[1] /\ \A i \in 1..(Len(q) - 1) : p[i] = q[i + 1]
  BY HeadTailProperties, EmptySeq, LenProperties
<1> HIDE DEF p
<1>2. \A i \in DOMAIN p : i + 1 \in DOMAIN q /\ p[i] = q[i + 1]
  BY <1>1
<1>3. \A i \in DOMAIN q : i = 1 \/ \E k \in DOMAIN p : i = k + 1
  <2> TAKE i \in DOMAIN q
  <2>1. i = 1 \/ (i - 1 \in DOMAIN p /\ i = (i - 1) + 1)
    BY <1>1
  <2> QED
    BY <2>1
<1>4. 1 \in DOMAIN q /\ (\A j \in DOMAIN q : ~(j < 1))
        /\ \A i, k \in DOMAIN p : k + 1 < i + 1 => k < i
  BY <1>1
<1>5. Has(q, a, r) <=> Has(p, a, r) \/ IsTask(Head(q), a, r)
  BY <1>1, <1>2, <1>3, <1>4 DEF Has
<1>6. Before(q, a, b, r) => ~IsTask(Head(q), b, r)
  BY <1>1, <1>4 DEF Before
<1>7. ASSUME Before(q, a, b, r), ~IsTask(Head(q), a, r)
      PROVE  Before(p, a, b, r)
  <2> SUFFICES ASSUME NEW i \in DOMAIN p, IsTask(p[i], b, r)
               PROVE  \E k \in DOMAIN p : k < i /\ IsTask(p[k], a, r)
    BY DEF Before
  <2>1. PICK j \in DOMAIN q : j < i + 1 /\ IsTask(q[j], a, r)
    BY <1>2, <1>7 DEF Before
  <2>2. PICK k \in DOMAIN p : j = k + 1
    BY <1>1, <1>3, <1>7, <2>1
  <2> QED
    BY <1>2, <1>4, <2>1, <2>2
<1> QED
  BY <1>5, <1>6, <1>7 DEF p

(* What TypeComesFirst says of one request.                                *)
FirstFor(r) ==
  /\ request[r] = "new" =>
       /\ \A op \in {"getMimeType", "startRequest"} : ~Has(ui, op, r)
       /\ \A op \in {"mimeType", "response"} : ~Has(io, op, r)
       /\ ~Owed(r)
  /\ request[r] = "pending" =>
       /\ \/ Has(io, "mimeType", r)
          \/ Before(ui, "getMimeType", "startRequest", r) /\ ~Owed(r)
       /\ Before(io, "mimeType", "response", r)

(* The tasks that name a request.                                          *)
LEMMA NamesRequest ==
  ASSUME NEW r \in Requests
  PROVE  /\ \A op \in {"getMimeType", "startRequest", "mimeType", "response"} :
              ~IsTask(DeleteTask, op, r)
         /\ \A s \in Sources :
              \A op \in {"getMimeType", "startRequest", "mimeType", "response"} :
                ~IsTask([op |-> "addDataSource", source |-> s], op, r)
  BY DEF IsTask, DeleteTask

(* It is kept where neither the request nor its tasks are touched ...      *)
LEMMA QuietStep ==
  ASSUME NEW r \in Requests, FirstFor(r), request'[r] = request[r],
         ui' = ui, io' = io, callbacks' \subseteq callbacks
  PROVE  FirstFor(r)'
<1>1. /\ \A op : (Has(ui, op, r) <=> Has(ui', op, r)) /\ (Has(io, op, r) <=> Has(io', op, r))
      /\ Before(ui, "getMimeType", "startRequest", r) <=>
           Before(ui', "getMimeType", "startRequest", r)
      /\ Before(io, "mimeType", "response", r) <=> Before(io', "mimeType", "response", r)
      /\ Owed(r)' => Owed(r)
  BY DEF Has, Before, Owed
<1> QED
  BY <1>1 DEF FirstFor

(* ... where the UI thread runs a task ...                                 *)
LEMMA UITaskRuns ==
  ASSUME IndInv, NEW r \in Requests, FirstFor(r), ui # <<>>, ui' = Tail(ui), io' = io,
         request' = request, ~IsTask(Head(ui), "getMimeType", r),
         Owed(r)' => Owed(r) \/ IsTask(Head(ui), "startRequest", r)
  PROVE  FirstFor(r)'
<1>1. ui \in Seq(UITask)
  BY DEF IndInv, TypeOK
<1>2. /\ \A op : Has(ui, op, r) <=> Has(ui', op, r) \/ IsTask(Head(ui), op, r)
      /\ Before(ui, "getMimeType", "startRequest", r) =>
           /\ Before(ui', "getMimeType", "startRequest", r)
           /\ ~IsTask(Head(ui), "startRequest", r)
  BY <1>1, TaskAtHead
<1>3. /\ \A op : Has(io, op, r) <=> Has(io', op, r)
      /\ Before(io, "mimeType", "response", r) <=> Before(io', "mimeType", "response", r)
  BY DEF Has, Before
<1>4. request'[r] = request[r]
  OBVIOUS
<1> QED
  BY <1>2, <1>3, <1>4 DEF FirstFor

(* ... where a task is posted to the IO thread ...                         *)
LEMMA IOTaskPosted ==
  ASSUME IndInv, NEW r \in Requests, FirstFor(r), NEW e \in IOTask, io' = Append(io, e),
         request' = request, ui' = ui, Owed(r)' => Owed(r),
         ~IsTask(e, "mimeType", r), IsTask(e, "response", r) => Owed(r)
  PROVE  FirstFor(r)'
<1>1. io \in Seq(IOTask)
  BY DEF IndInv, TypeOK
<1>2. /\ \A op : Has(io', op, r) <=> Has(io, op, r) \/ IsTask(e, op, r)
      /\ Before(io', "mimeType", "response", r) <=>
           Before(io, "mimeType", "response", r) /\ (IsTask(e, "response", r) => Has(io, "mimeType", r))
  BY <1>1, TaskAtEnd
<1>3. /\ \A op : Has(ui, op, r) <=> Has(ui', op, r)
      /\ Before(ui, "getMimeType", "startRequest", r) <=>
           Before(ui', "getMimeType", "startRequest", r)
  BY DEF Has, Before
<1>4. request'[r] = request[r]
  OBVIOUS
<1> QED
  BY <1>2, <1>3, <1>4 DEF FirstFor

(* ... and where the IO thread runs one.                                   *)
LEMMA IOTaskRuns ==
  ASSUME IndInv, NEW r \in Requests, FirstFor(r), io # <<>>, io' = Tail(io), ui' = ui,
         callbacks' = callbacks, request'[r] = request[r], ~IsTask(Head(io), "mimeType", r)
  PROVE  FirstFor(r)'
<1>1. io \in Seq(IOTask)
  BY DEF IndInv, TypeOK
<1>2. /\ \A op : Has(io, op, r) <=> Has(io', op, r) \/ IsTask(Head(io), op, r)
      /\ Before(io, "mimeType", "response", r) => Before(io', "mimeType", "response", r)
  BY <1>1, TaskAtHead
<1>3. /\ \A op : Has(ui, op, r) <=> Has(ui', op, r)
      /\ Before(ui, "getMimeType", "startRequest", r) <=>
           Before(ui', "getMimeType", "startRequest", r)
      /\ Owed(r)' <=> Owed(r)
  BY DEF Has, Before, Owed
<1> QED
  BY <1>2, <1>3 DEF FirstFor

(* Every step keeps the type ahead of the data: the posts and the runs of   *)
(* either thread in turn.                                                   *)
LEMMA NextKeepsFirst ==
  ASSUME IndInv, [Next]_vars, NEW r \in Requests, FirstFor(r)
  PROVE  FirstFor(r)'
<1>0. TypeOK /\ ui \in Seq(UITask) /\ io \in Seq(IOTask)
  BY DEF IndInv, TypeOK
<1>1. CASE RunDeleteDataSources
  <2>1. /\ ui # <<>> /\ ui' = Tail(ui) /\ io' = io /\ request' = request
        /\ callbacks' = callbacks /\ Head(ui).op = "deleteDataSources"
    BY <1>1 DEF RunDeleteDataSources, UIRuns
  <2>2. ~IsTask(Head(ui), "getMimeType", r)
    BY <2>1 DEF IsTask
  <2>3. Owed(r)' => Owed(r)
    BY <2>1 DEF Owed
  <2> QED
    BY <2>1, <2>2, <2>3, UITaskRuns
<1>2. CASE CallStartRequest
  <2>1. /\ ui # <<>> /\ ui' = Tail(ui) /\ io' = io /\ request' = request
        /\ callbacks' = callbacks \cup {<<Head(ui).source, Head(ui).request>>}
        /\ Head(ui).op = "startRequest"
    BY <1>2 DEF CallStartRequest, UIRuns
  <2>2. ~IsTask(Head(ui), "getMimeType", r)
    BY <2>1 DEF IsTask
  <2>3. Owed(r)' => Owed(r) \/ IsTask(Head(ui), "startRequest", r)
    BY <2>1 DEF Owed, IsTask
  <2> QED
    BY <2>1, <2>2, <2>3, UITaskRuns
<1>3. CASE GetMimeTypeOnUI
  <2> DEFINE e == [Head(ui) EXCEPT !.op = "mimeType"]
  <2>1. /\ ui # <<>> /\ ui' = Tail(ui) /\ io' = Append(io, e) /\ request' = request
        /\ callbacks' = callbacks /\ Head(ui).op = "getMimeType"
    BY <1>3 DEF GetMimeTypeOnUI, UIRuns
  <2>2. Head(ui) \in [op : {"getMimeType", "startRequest"}, source : Sources, request : Requests]
    BY <2>1, UIHead
  <2>3. e \in IOTask /\ e.op = "mimeType" /\ e.request = Head(ui).request
    BY <2>2 DEF IOTask
  <2> HIDE DEF e
  <2>4. /\ \A op : Has(ui, op, r) <=> Has(ui', op, r) \/ IsTask(Head(ui), op, r)
        /\ Before(ui, "getMimeType", "startRequest", r) /\ ~IsTask(Head(ui), "getMimeType", r) =>
             Before(ui', "getMimeType", "startRequest", r)
    BY <1>0, <2>1, TaskAtHead
  <2>5. /\ \A op : Has(io', op, r) <=> Has(io, op, r) \/ IsTask(e, op, r)
        /\ Before(io', "mimeType", "response", r) <=>
             Before(io, "mimeType", "response", r) /\ (IsTask(e, "response", r) => Has(io, "mimeType", r))
    BY <1>0, <2>1, <2>3, TaskAtEnd
  <2>6. /\ ~IsTask(e, "response", r) /\ (Owed(r)' => Owed(r)) /\ request'[r] = request[r]
        /\ IsTask(e, "mimeType", r) <=> IsTask(Head(ui), "getMimeType", r)
    BY <2>1, <2>3 DEF IsTask, Owed
  <2> QED
    BY <2>4, <2>5, <2>6 DEF FirstFor
<1>4. CASE AddDataSourceOnIOThread
  <2>1. /\ io # <<>> /\ io' = Tail(io) /\ ui' = ui /\ callbacks' = callbacks
        /\ request'[r] = request[r] /\ Head(io).op = "addDataSource"
    BY <1>4 DEF AddDataSourceOnIOThread, IORuns
  <2> QED
    BY <2>1, IOTaskRuns DEF IsTask
<1>5. CASE SendResponseOnIOThread
  <2>1. /\ io # <<>> /\ io' = Tail(io) /\ ui' = ui /\ callbacks' = callbacks
        /\ Head(io).op = "response"
        /\ \/ request' = request
           \/ request' = [request EXCEPT ![Head(io).request] = "answered"]
    BY <1>5 DEF SendResponseOnIOThread, IORuns
  <2>2. request'[r] = request[r] \/ request'[r] = "answered"
    BY <1>0, <2>1 DEF TypeOK
  <2>3. CASE request'[r] = request[r]
    BY <2>1, <2>3, IOTaskRuns DEF IsTask
  <2>4. CASE request'[r] = "answered"
    BY <2>4 DEF FirstFor
  <2> QED
    BY <2>2, <2>3, <2>4
<1>6. CASE MimeTypeAvailable
  <2> DEFINE r0 == Head(io).request
  <2>1. /\ io # <<>> /\ io' = Tail(io) /\ ui' = ui /\ callbacks' = callbacks
        /\ Head(io).op = "mimeType"
        /\ IF Alive(r0) THEN request' = [request EXCEPT ![r0] = "typed"] ELSE request' = request
    BY <1>6 DEF MimeTypeAvailable, IORuns
  <2>2. CASE r0 = r
    <3>1. Has(io, "mimeType", r)
      BY <1>0, <2>1, <2>2, TaskAtHead DEF IsTask
    <3>2. request[r] # "new"
      BY <3>1 DEF FirstFor
    <3>3. request'[r] \notin {"new", "pending"}
      BY <1>0, <2>1, <2>2, <3>2 DEF TypeOK, Alive
    <3> QED
      BY <3>3 DEF FirstFor
  <2>3. CASE r0 # r
    <3>1. request'[r] = request[r] /\ ~IsTask(Head(io), "mimeType", r)
      BY <1>0, <2>1, <2>3 DEF TypeOK, IsTask
    <3> QED
      BY <2>1, <3>1, IOTaskRuns
  <2> QED
    BY <2>2, <2>3
<1>7. CASE ScheduleDelete
  <2>1. /\ ui' = Append(ui, DeleteTask) /\ io' = io /\ callbacks' = callbacks
        /\ request' = request
    BY <1>7 DEF ScheduleDelete
  <2>2. DeleteTask \in UITask
    BY DEF UITask
  <2>3. /\ \A op : Has(ui', op, r) <=> Has(ui, op, r) \/ IsTask(DeleteTask, op, r)
        /\ Before(ui', "getMimeType", "startRequest", r) <=>
             /\ Before(ui, "getMimeType", "startRequest", r)
             /\ IsTask(DeleteTask, "startRequest", r) => Has(ui, "getMimeType", r)
    BY <1>0, <2>1, <2>2, TaskAtEnd
  <2>4. /\ \A op : Has(io, op, r) <=> Has(io', op, r)
        /\ Before(io, "mimeType", "response", r) <=> Before(io', "mimeType", "response", r)
        /\ (Owed(r)' <=> Owed(r)) /\ request'[r] = request[r]
    BY <2>1 DEF Has, Before, Owed
  <2> QED
    BY <2>3, <2>4, NamesRequest DEF FirstFor
<1>8. ASSUME NEW s \in Sources, AddDataSource(s)
      PROVE  FirstFor(r)'
  <2> DEFINE e == [op |-> "addDataSource", source |-> s]
  <2>1. /\ io' = Append(io, e) /\ ui' = ui /\ callbacks' = callbacks /\ request' = request
    BY <1>8 DEF AddDataSource
  <2>2. e \in IOTask /\ ~IsTask(e, "mimeType", r) /\ ~IsTask(e, "response", r)
    BY NamesRequest DEF IOTask
  <2>3. Owed(r)' => Owed(r)
    BY <2>1 DEF Owed
  <2> HIDE DEF e
  <2> QED
    BY <2>1, <2>2, <2>3, IOTaskPosted
<1>9. ASSUME NEW s \in Sources, NEW q \in Requests, SendResponse(s, q)
      PROVE  FirstFor(r)'
  <2> DEFINE e == Task("response", s, q)
  <2>1. /\ <<s, q>> \in callbacks /\ callbacks' = callbacks \ {<<s, q>>}
        /\ io' = io \/ io' = Append(io, e)
        /\ ui' = ui /\ request' = request
    BY <1>9 DEF SendResponse
  <2>2. /\ e \in IOTask /\ ~IsTask(e, "mimeType", r)
        /\ IsTask(e, "response", r) => Owed(r)
    BY <2>1 DEF Task, IOTask, IsTask, Owed
  <2>3. (Owed(r)' => Owed(r)) /\ callbacks' \subseteq callbacks /\ request'[r] = request[r]
    BY <2>1 DEF Owed
  <2> HIDE DEF e
  <2>4. CASE io' = io
    BY <2>1, <2>3, <2>4, QuietStep
  <2>5. CASE io' = Append(io, e)
    BY <2>1, <2>2, <2>3, <2>5, IOTaskPosted
  <2> QED
    BY <2>1, <2>4, <2>5
<1>10. ASSUME NEW q \in Requests, StartRequest(q)
       PROVE  FirstFor(r)'
  <2> DEFINE a == Task("getMimeType", registered, q)
             b == Task("startRequest", registered, q)
  <2>1. /\ io' = io /\ callbacks' = callbacks /\ request[q] = "new"
        /\ \/ ui' = ui /\ request' = [request EXCEPT ![q] = "failed"]
           \/ /\ registered \in Sources /\ ui' = ui \o <<a, b>>
              /\ request' = [request EXCEPT ![q] = "pending"]
    BY <1>0, <1>10 DEF StartRequest, TasksOf, TypeOK, NoSource
  <2>2. CASE ui' = ui /\ request' = [request EXCEPT ![q] = "failed"]
    <3>1. request'[r] = request[r] \/ request'[r] = "failed"
      BY <1>0, <2>2 DEF TypeOK
    <3>2. CASE request'[r] = request[r]
      BY <2>1, <2>2, <3>2, QuietStep
    <3>3. CASE request'[r] = "failed"
      BY <3>3 DEF FirstFor
    <3> QED
      BY <3>1, <3>2, <3>3
  <2>3. CASE registered \in Sources /\ ui' = ui \o <<a, b>> /\ request' = [request EXCEPT ![q] = "pending"]
    <3>1. /\ a \in UITask /\ b \in UITask
          /\ ~IsTask(a, "startRequest", r) /\ ~IsTask(b, "getMimeType", r)
          /\ q = r => IsTask(a, "getMimeType", r) /\ IsTask(b, "startRequest", r)
          /\ q # r => ~IsTask(a, "getMimeType", r) /\ ~IsTask(b, "startRequest", r)
      BY <2>3 DEF UITask, Task, IsTask
    <3> HIDE DEF a, b
    <3> DEFINE u == Append(ui, a)
    <3>2. u \in Seq(UITask) /\ ui' = Append(u, b)
      BY <1>0, <2>3, <3>1
    <3>3. /\ \A op : Has(u, op, r) <=> Has(ui, op, r) \/ IsTask(a, op, r)
          /\ Before(u, "getMimeType", "startRequest", r) <=>
               /\ Before(ui, "getMimeType", "startRequest", r)
               /\ IsTask(a, "startRequest", r) => Has(ui, "getMimeType", r)
      BY <1>0, <3>1, TaskAtEnd
    <3> HIDE DEF u
    <3>4. /\ \A op : Has(ui', op, r) <=> Has(u, op, r) \/ IsTask(b, op, r)
          /\ Before(ui', "getMimeType", "startRequest", r) <=>
               /\ Before(u, "getMimeType", "startRequest", r)
               /\ IsTask(b, "startRequest", r) => Has(u, "getMimeType", r)
      BY <3>1, <3>2, TaskAtEnd
    <3>5. /\ \A op : Has(io, op, r) <=> Has(io', op, r)
          /\ Before(io, "mimeType", "response", r) <=> Before(io', "mimeType", "response", r)
          /\ (Owed(r)' <=> Owed(r))
      BY <2>1 DEF Has, Before, Owed
    <3>6. CASE q = r
      <4>1. /\ request'[r] = "pending" /\ ~Owed(r)
            /\ ~Has(ui, "startRequest", r) /\ ~Has(io, "response", r)
        BY <1>0, <2>1, <2>3, <3>6 DEF TypeOK, FirstFor
      <4>2. /\ Before(ui, "getMimeType", "startRequest", r)
            /\ Before(io, "mimeType", "response", r)
        BY <4>1 DEF Before, Has
      <4> QED
        BY <3>1, <3>3, <3>4, <3>5, <3>6, <4>1, <4>2 DEF FirstFor
    <3>7. CASE q # r
      <4>1. request'[r] = request[r]
        BY <1>0, <2>3, <3>7 DEF TypeOK
      <4> QED
        BY <3>1, <3>3, <3>4, <3>5, <3>7, <4>1 DEF FirstFor
    <3> QED
      BY <3>6, <3>7
  <2> QED
    BY <2>1, <2>2, <2>3
<1>11. ASSUME NEW q \in Requests, Kill(q)
       PROVE  FirstFor(r)'
  <2>1. /\ ui' = ui /\ io' = io /\ callbacks' = callbacks
        /\ request' = [request EXCEPT ![q] = "gone"]
    BY <1>11 DEF Kill
  <2>2. request'[r] = request[r] \/ request'[r] = "gone"
    BY <1>0, <2>1 DEF TypeOK
  <2>3. CASE request'[r] = request[r]
    BY <2>1, <2>3, QuietStep
  <2>4. CASE request'[r] = "gone"
    BY <2>4 DEF FirstFor
  <2> QED
    BY <2>2, <2>3, <2>4
<1>12. CASE StopUI \/ DeleteBackend \/ StopIO \/ UNCHANGED vars
  <2>1. ui' = ui /\ io' = io /\ callbacks' \subseteq callbacks /\ request' = request
    BY <1>12 DEF StopUI, DeleteBackend, StopIO, vars, threadVars
  <2> QED
    BY <2>1, QuietStep
<1>13. CASE DestroyUI
  <2>1. /\ ui' = <<>> /\ io' = io /\ callbacks' = callbacks /\ request' = request
    BY <1>13 DEF DestroyUI
  <2>2. /\ \A op : ~Has(ui', op, r) /\ (Has(io, op, r) <=> Has(io', op, r))
        /\ Before(ui', "getMimeType", "startRequest", r)
        /\ Before(io, "mimeType", "response", r) <=> Before(io', "mimeType", "response", r)
        /\ (Owed(r)' <=> Owed(r)) /\ request'[r] = request[r]
    BY <2>1 DEF Has, Before, Owed
  <2> QED
    BY <2>2 DEF FirstFor
<1> QED
  BY <1>1, <1>2, <1>3, <1>4, <1>5, <1>6, <1>7, <1>8, <1>9, <1>10, <1>11, <1>12, <1>13
  DEF Next, UIStep, IOStep

(* A source of a chrome:// page is deleted when nobody refers to it, not    *)
(* before and not never: whichever thread drops the last reference, for     *)
(* any sources and requests, at any stage of the shutdown; and the type of  *)
(* an answer is ahead of its data in the queues.                            *)
THEOREM SourcesInvariance == Spec => []SourcesInv
<1>1. Init => IndInv /\ TypeComesFirst
  <2> SUFFICES ASSUME Init PROVE IndInv /\ TypeComesFirst
    OBVIOUS
  <2>1. DOMAIN ui = {} /\ DOMAIN io = {} /\ callbacks = {} /\ \A r \in Requests : request[r] = "new"
    BY DEF Init
  <2> QED
    BY <2>1, InitEstablishesInv DEF TypeComesFirst, Has, Owed
<1>2. IndInv /\ TypeComesFirst /\ [Next]_vars => IndInv' /\ TypeComesFirst'
  <2> SUFFICES ASSUME IndInv, TypeComesFirst, [Next]_vars
               PROVE  IndInv' /\ TypeComesFirst'
    OBVIOUS
  <2>1. \A r \in Requests : FirstFor(r)
    BY DEF TypeComesFirst, FirstFor
  <2>2. \A r \in Requests : FirstFor(r)'
    BY <2>1, NextKeepsFirst
  <2>3. TypeComesFirst'
    BY <2>2 DEF TypeComesFirst, FirstFor
  <2> QED
    BY <2>3, NextKeepsInv
<1>3. IndInv /\ TypeComesFirst => SourcesInv
  BY IndInvImpliesSourcesInv
<1> QED
  BY <1>1, <1>2, <1>3, PTL DEF Spec

(* A job learns its MIME type before it gets its data, although type and    *)
(* data are asked for and answered by tasks of two threads and the source   *)
(* answers when it likes.                                                   *)
THEOREM TypeAlwaysBeforeData == Spec => TypeBeforeData
<1> DEFINE Typed == \A r \in Requests : request'[r] = "answered" /\ request[r] # "answered"
                                         => request[r] = "typed"
<1>1. SourcesInv /\ [Next]_vars => [Typed]_vars
  <2> SUFFICES ASSUME SourcesInv, Next, NEW r \in Requests,
                      request'[r] = "answered", request[r] # "answered"
               PROVE  request[r] = "typed"
    BY Zenon
  <2>0. TypeOK /\ io \in Seq(IOTask)
    BY DEF SourcesInv, TypeOK
  <2>1. SendResponseOnIOThread
    <3>1. request' # request
      OBVIOUS
    <3>2. ~MimeTypeAvailable
      BY <2>0 DEF MimeTypeAvailable, TypeOK
    <3>3. \A q \in Requests : ~StartRequest(q) /\ ~Kill(q)
      BY <2>0 DEF StartRequest, Kill, TypeOK
    <3> QED
      BY <3>1, <3>2, <3>3
      DEF Next, UIStep, IOStep, RunDeleteDataSources, GetMimeTypeOnUI, CallStartRequest,
          AddDataSourceOnIOThread, ScheduleDelete, AddDataSource, SendResponse, StopUI,
          DeleteBackend, StopIO, DestroyUI
  <2>2. /\ io # <<>> /\ Head(io).op = "response" /\ Head(io).request = r /\ Pending(r)
    BY <2>0, <2>1 DEF SendResponseOnIOThread, IORuns, TypeOK
  <2>3. request[r] # "pending"
    <3>1. request[r] = "pending" => Before(io, "mimeType", "response", r)
      BY DEF SourcesInv, TypeComesFirst
    <3>2. Before(io, "mimeType", "response", r) => ~IsTask(Head(io), "response", r)
      BY <2>0, <2>2, TaskAtHead
    <3> QED
      BY <2>2, <3>1, <3>2 DEF IsTask
  <2> QED
    BY <2>2, <2>3 DEF Pending
<1> QED
  BY <1>1, SourcesInvariance, PTL DEF Spec, TypeBeforeData

=============================================================================
