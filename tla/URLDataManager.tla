--------------------------- MODULE URLDataManager ---------------------------
(***************************************************************************)
(* The data sources of chrome:// pages (web/webui): URLDataManagerIOS,      *)
(* URLDataSourceIOSImpl, URLDataManagerIOSBackend and URLRequestChromeJob.  *)
(*                                                                         *)
(* Sources are made and answer on the UI thread; the backend that maps      *)
(* names to sources, and the requests, live on the IO thread.  The threads  *)
(* send each other tasks, in order, and the tasks hold references to the    *)
(* sources.  A source that loses its last reference on the IO thread is put *)
(* on a list for the UI thread to delete.                                   *)
(*                                                                         *)
(* All sources have the same name, the case in which they affect each       *)
(* other.  Paths, headers and the copying of bytes are left out.            *)
(***************************************************************************)
EXTENDS Naturals, Sequences, FiniteSets

CONSTANTS
  Sources,
  Replacing,    \* those whose ShouldReplaceExistingSource() is true
  Requests

ASSUME ManagerAssumption == Replacing \subseteq Sources /\ "none" \notin Sources

VARIABLES
  source,          \* the life of each URLDataSourceIOSImpl
  registered,      \* data_sources_ of the backend: its source, or "none"
  backend,         \* whether each source's backend_ is set
  toDelete,        \* data_sources_ of URLDataManagerIOS
  schedule_delete, \* the IO thread is about to post DeleteDataSources
  ui, io,          \* the tasks of the two threads
  callbacks,       \* answers that sources owe: <<source, request>>
  request,         \* the life of each URLRequestChromeJob
  jobSource,       \* source_ of the job, or "none"
  phase            \* how far the program has shut down

threadVars == <<schedule_delete, ui, io>>
vars == <<source, registered, backend, toDelete, threadVars, callbacks, request,
          jobSource, phase>>

NoSource == "none"
Task(op, s, r) == [op |-> op, source |-> s, request |-> r]
DeleteTask == [op |-> "deleteDataSources"]
UITask == [op : {"getMimeType", "startRequest"}, source : Sources, request : Requests]
            \cup {DeleteTask}
IOTask == [op : {"addDataSource"}, source : Sources]
            \cup [op : {"mimeType", "response"}, source : Sources, request : Requests]

TypeOK ==
  /\ source \in [Sources -> {"new", "live", "unreferenced", "deleted"}]
  /\ registered \in Sources \cup {NoSource}
  /\ backend \in [Sources -> BOOLEAN]
  /\ toDelete \in SUBSET Sources
  /\ schedule_delete \in BOOLEAN
  /\ ui \in Seq(UITask)
  /\ io \in Seq(IOTask)
  /\ callbacks \in SUBSET (Sources \X Requests)
  /\ request \in [Requests -> {"new", "pending", "typed", "answered",
                               "failed", "gone"}]
  /\ jobSource \in [Requests -> Sources \cup {NoSource}]
  /\ phase \in {"running", "uiStopped", "backendGone", "ioStopped", "done"}
  /\ \A s \in Sources : backend[s] => registered = s

Init ==
  /\ source = [s \in Sources |-> "new"]
  /\ registered = NoSource
  /\ backend = [s \in Sources |-> FALSE]
  /\ toDelete = {}
  /\ schedule_delete = FALSE
  /\ ui = <<>> /\ io = <<>>
  /\ callbacks = {}
  /\ request = [r \in Requests |-> "new"]
  /\ jobSource = [r \in Requests |-> NoSource]
  /\ phase = "running"

-----------------------------------------------------------------------------
(* References.                                                             *)

HeldBy(queue, s) ==
  \E i \in DOMAIN queue : queue[i] # DeleteTask /\ queue[i].source = s

Referenced(s) ==
  \/ registered = s
  \/ HeldBy(ui, s) \/ HeldBy(io, s)
  \/ \E r \in Requests : <<s, r>> \in callbacks \/ jobSource[r] = s

(* Mutant: a source that leaves the backend is taken for unreferenced.     *)
Orphans_detached ==
  {s \in Sources : source[s] = "live" /\ backend[s] /\ ~backend'[s]}

(* The sources that the present step leaves without references.            *)
Orphans == {s \in Sources : source[s] = "live" /\ ~Referenced(s)'}

(* Whether DeleteDataSource finds the list empty.                          *)
FirstToDelete(orphans) == orphans # {} /\ toDelete = {}

(* DeleteDataSource on the UI thread deletes right away.                   *)
ReleaseOnUI ==
  /\ source' = [s \in Sources |-> IF s \in Orphans THEN "deleted" ELSE source[s]]
  /\ UNCHANGED <<toDelete, schedule_delete>>

(* DeleteDataSource on the IO thread, its part under the lock.             *)
ReleaseOnIO ==
  /\ source' = [s \in Sources |->
                  IF s \in Orphans THEN "unreferenced" ELSE source[s]]
  /\ toDelete' = toDelete \cup Orphans
  /\ schedule_delete' = FirstToDelete(Orphans)

(* Its part after the lock.                                                *)
ScheduleDelete ==
  /\ schedule_delete
  /\ schedule_delete' = FALSE
  /\ ui' = Append(ui, DeleteTask)
  /\ UNCHANGED <<source, registered, backend, toDelete, io, callbacks, request,
                 jobSource, phase>>

(* DeleteDataSources.                                                      *)
DeleteAll ==
  /\ source' = [s \in Sources |-> IF s \in toDelete THEN "deleted" ELSE source[s]]
  /\ toDelete' = {}

-----------------------------------------------------------------------------
(* The UI thread.                                                          *)

AddDataSource(s) ==
  /\ phase = "running"
  /\ source[s] = "new"
  /\ source' = [source EXCEPT ![s] = "live"]
  /\ io' = Append(io, [op |-> "addDataSource", source |-> s])
  /\ UNCHANGED <<registered, backend, toDelete, schedule_delete, ui, callbacks,
                 request, jobSource, phase>>

UIRuns(op) == phase = "running" /\ ui # <<>> /\ Head(ui).op = op /\ ui' = Tail(ui)

RunDeleteDataSources ==
  /\ UIRuns("deleteDataSources")
  /\ DeleteAll
  /\ UNCHANGED <<registered, backend, schedule_delete, io, callbacks, request,
                 jobSource, phase>>

GetMimeTypeOnUI ==
  /\ UIRuns("getMimeType")
  /\ io' = Append(io, [Head(ui) EXCEPT !.op = "mimeType"])
  /\ UNCHANGED <<source, registered, backend, toDelete, schedule_delete,
                 callbacks, request, jobSource, phase>>

CallStartRequest ==
  /\ UIRuns("startRequest")
  /\ callbacks' = callbacks \cup {<<Head(ui).source, Head(ui).request>>}
  /\ UNCHANGED <<source, registered, backend, toDelete, schedule_delete, io,
                 request, jobSource, phase>>

(* Mutant: looks only whether anything is scheduled.                       *)
IsScheduledForDeletion_any(s) == toDelete # {}

IsScheduledForDeletion(s) == s \in toDelete

SendResponse(s, r) ==
  /\ phase = "running"
  /\ <<s, r>> \in callbacks
  /\ callbacks' = callbacks \ {<<s, r>>}
  /\ io' = IF IsScheduledForDeletion(s)
            THEN io ELSE Append(io, Task("response", s, r))
  /\ UNCHANGED <<registered, backend, ui, request, jobSource, phase>>
  /\ ReleaseOnUI

-----------------------------------------------------------------------------
(* The IO thread, which posts DeleteDataSources before it goes on.         *)

IOReady == phase \in {"running", "uiStopped", "backendGone"} /\ ~schedule_delete
IORuns(op) == IOReady /\ io # <<>> /\ Head(io).op = op /\ io' = Tail(io)

BackendAfterAdd(s) == [t \in Sources |-> t = s]

AddDataSourceOnIOThread ==
  /\ IORuns("addDataSource")
  /\ LET s == Head(io).source
     IN IF registered = NoSource \/ s \in Replacing
        THEN /\ registered' = s
             /\ backend' = BackendAfterAdd(s)
        ELSE UNCHANGED <<registered, backend>>
  /\ UNCHANGED <<ui, callbacks, request, jobSource, phase>>
  /\ ReleaseOnIO

TasksOf(s, r) == <<Task("getMimeType", s, r), Task("startRequest", s, r)>>

(* URLRequestChromeJob::Start and StartRequest.                            *)
StartRequest(r) ==
  /\ IOReady /\ phase # "backendGone"
  /\ request[r] = "new"
  /\ IF registered = NoSource
     THEN request' = [request EXCEPT ![r] = "failed"] /\ UNCHANGED ui
     ELSE /\ request' = [request EXCEPT ![r] = "pending"]
          /\ ui' = ui \o TasksOf(registered, r)
  /\ UNCHANGED <<source, registered, backend, toDelete, schedule_delete, io,
                 callbacks, jobSource, phase>>

Alive(r) == request[r] \in {"pending", "typed", "answered"}
Pending(r) == request[r] \in {"pending", "typed"}

(* The job is held weakly; the source by an HTML job.                      *)
MimeTypeAvailable ==
  /\ IORuns("mimeType")
  /\ LET r == Head(io).request
     IN IF Alive(r)
        THEN /\ request' = [request EXCEPT ![r] = "typed"]
             /\ \/ jobSource' = [jobSource EXCEPT ![r] = Head(io).source]
                \/ UNCHANGED jobSource
        ELSE UNCHANGED <<request, jobSource>>
  /\ UNCHANGED <<registered, backend, ui, callbacks, phase>>
  /\ ReleaseOnIO

(* SendResponseOnIOThread and DataAvailable.                               *)
SendResponseOnIOThread ==
  /\ IORuns("response")
  /\ LET r == Head(io).request
     IN request' = IF backend[Head(io).source] /\ Pending(r)
                   THEN [request EXCEPT ![r] = "answered"] ELSE request
  /\ UNCHANGED <<registered, backend, ui, callbacks, jobSource, phase>>
  /\ ReleaseOnIO

(* The network stack kills a job, or destroys one that it has read.        *)
Kill(r) ==
  /\ IOReady
  /\ Alive(r)
  /\ request' = [request EXCEPT ![r] = "gone"]
  /\ jobSource' = [jobSource EXCEPT ![r] = NoSource]
  /\ UNCHANGED <<registered, backend, ui, io, callbacks, phase>>
  /\ ReleaseOnIO

-----------------------------------------------------------------------------
(* The shutdown: the UI loop stops and services drop their callbacks; the   *)
(* backend goes, a task after all others, on the IO thread, which stops;    *)
(* the UI thread calls DeleteDataSources and destroys its loop.             *)

StopUI ==
  /\ phase = "running"
  /\ phase' = "uiStopped"
  /\ callbacks' = {}
  /\ UNCHANGED <<registered, backend, ui, io, request, jobSource>>
  /\ ReleaseOnUI

DeleteBackend ==
  /\ IOReady /\ phase = "uiStopped" /\ io = <<>>
  /\ \A r \in Requests : ~Alive(r)
  /\ phase' = "backendGone"
  /\ backend' = [s \in Sources |-> FALSE]
  /\ registered' = NoSource
  /\ UNCHANGED <<ui, io, callbacks, request, jobSource>>
  /\ ReleaseOnIO

StopIO ==
  /\ IOReady /\ phase = "backendGone"
  /\ phase' = "ioStopped"
  /\ UNCHANGED <<source, registered, backend, toDelete, threadVars, callbacks,
                 request, jobSource>>

(* ShutdownThreadsAndCleanUp calls DeleteDataSources; then the tasks of the *)
(* loop, and the references they hold, go too.                              *)
FinalDelete ==
  /\ source' = [s \in Sources |->
                  IF s \in toDelete \/ s \in Orphans THEN "deleted" ELSE source[s]]
  /\ toDelete' = {}

DestroyUI ==
  /\ phase = "ioStopped"
  /\ phase' = "done"
  /\ ui' = <<>>
  /\ UNCHANGED <<registered, backend, schedule_delete, io, callbacks, request,
                 jobSource>>
  /\ FinalDelete

UIStep == RunDeleteDataSources \/ GetMimeTypeOnUI \/ CallStartRequest
IOStep == AddDataSourceOnIOThread \/ MimeTypeAvailable \/ SendResponseOnIOThread

Next ==
  \/ UIStep \/ IOStep \/ ScheduleDelete
  \/ \E s \in Sources : AddDataSource(s) \/ \E r \in Requests : SendResponse(s, r)
  \/ \E r \in Requests : StartRequest(r) \/ Kill(r)
  \/ StopUI \/ DeleteBackend \/ StopIO \/ DestroyUI

Spec == Init /\ [][Next]_vars

(* The threads run their tasks and sources answer; nobody owes a source, a  *)
(* request, its end, or the end of the program.                             *)
FairSpec ==
  /\ Spec
  /\ WF_vars(UIStep) /\ WF_vars(IOStep) /\ WF_vars(ScheduleDelete)
  /\ \A s \in Sources, r \in Requests : WF_vars(SendResponse(s, r))

-----------------------------------------------------------------------------
(* Nobody holds a reference to a source that is deleted or about to be: no  *)
(* task, callback, job or backend brings an unreferenced source back.       *)
NoReferenceToDeleted ==
  \A s \in Sources : source[s] \in {"unreferenced", "deleted"} => ~Referenced(s)

(* A source on the list is not forgotten, although only the first one to    *)
(* come on it posts a task.                                                 *)
DeletionScheduled ==
  toDelete # {} /\ phase # "done" =>
    schedule_delete \/ \E i \in DOMAIN ui : ui[i] = DeleteTask

(* After the shutdown no source is left behind, whichever thread held the   *)
(* last reference and whatever the UI loop had no time to run.              *)
NoneLeaked ==
  phase = "done" => \A s \in Sources : source[s] \in {"new", "deleted"}

(* A job gets its MIME type before its data, although both come through     *)
(* the two threads' queues.                                                 *)
TypeBeforeData ==
  [][\A r \in Requests : request'[r] = "answered" /\ request[r] # "answered"
                           => request[r] = "typed"]_vars

(* A request is answered, unless it ends otherwise, the program ends, or    *)
(* another source takes the place of its own.                               *)
Waits(r, s) ==
  /\ Pending(r) /\ backend[s]
  /\ \/ \E i \in DOMAIN ui : ui[i] # DeleteTask /\ ui[i].source = s
                               /\ ui[i].request = r
     \/ <<s, r>> \in callbacks
AnsweredUnlessReplaced ==
  \A r \in Requests, s \in Sources :
    Waits(r, s) ~> (~Pending(r) \/ ~backend[s] \/ phase # "running")

(* A source is live exactly as long as somebody refers to it, and on the    *)
(* list exactly from the time the IO thread dropped the last reference to   *)
(* the time the UI thread deletes it.                                       *)
LiveIffReferenced == \A s \in Sources : source[s] = "live" <=> Referenced(s)
ListIsUnreferenced == toDelete = {s \in Sources : source[s] = "unreferenced"}

(* What can still refer to a source at each stage of the shutdown.          *)
ShutdownInOrder ==
  /\ \A r \in Requests : jobSource[r] # NoSource => Alive(r)
  /\ phase # "running" => callbacks = {}
  /\ phase \in {"backendGone", "ioStopped", "done"} =>
       /\ registered = NoSource
       /\ io = <<>>
       /\ \A r \in Requests : ~Alive(r)
  /\ phase \in {"ioStopped", "done"} => ~schedule_delete
  /\ phase = "done" => ui = <<>> /\ toDelete = {}

(* The tasks and the callbacks of a request.                                *)
IsTask(task, op, r) == task.op = op /\ task.request = r
Has(queue, op, r) == \E i \in DOMAIN queue : IsTask(queue[i], op, r)
Before(queue, first, then, r) ==
  \A i \in DOMAIN queue : IsTask(queue[i], then, r) =>
    \E j \in DOMAIN queue : j < i /\ IsTask(queue[j], first, r)
Owed(r) == \E s \in Sources : <<s, r>> \in callbacks

(* Until a job knows its type, the task that tells it is ahead of the data, *)
(* on either thread; a job that has not started has no tasks.               *)
TypeComesFirst ==
  \A r \in Requests :
    /\ request[r] = "new" =>
         /\ \A op \in {"getMimeType", "startRequest"} : ~Has(ui, op, r)
         /\ \A op \in {"mimeType", "response"} : ~Has(io, op, r)
         /\ ~Owed(r)
    /\ request[r] = "pending" =>
         /\ \/ Has(io, "mimeType", r)
            \/ Before(ui, "getMimeType", "startRequest", r) /\ ~Owed(r)
         /\ Before(io, "mimeType", "response", r)

(* A source is deleted when nobody refers to it, not before and not never,  *)
(* whichever thread drops the last reference and however far the shutdown   *)
(* is.                                                                      *)
SourcesInv ==
  /\ TypeOK
  /\ NoReferenceToDeleted
  /\ DeletionScheduled
  /\ NoneLeaked
  /\ LiveIffReferenced
  /\ ListIsUnreferenced
  /\ ShutdownInOrder
  /\ TypeComesFirst

(* A request is answered, its type first, unless another source takes the   *)
(* place of its own or the program ends.                                    *)
RequestsAreAnswered ==
  /\ TypeBeforeData
  /\ AnsweredUnlessReplaced
=============================================================================
