------------------------ MODULE BrowsingDataRemover ------------------------
(***************************************************************************)
(* chrome/browser/browsing_data: the queue of removals of                   *)
(* BrowsingDataRemoverImpl, the jobs that one removal starts in other       *)
(* services and threads, and its shutdown with the browser state.  The jobs *)
(* for the HTTP cache (net/http_cache_helper.cc) and for the bookmarks      *)
(* (bookmarks/bookmark_remover_helper.cc) are followed step by step.        *)
(***************************************************************************)
EXTENDS Naturals, Sequences, FiniteSets

CONSTANTS
  Masks,                \* the masks that callers pass to Remove
  MaxRemovals           \* bound: calls of Remove

ASSUME MaxRemovalsAssumption == MaxRemovals \in Nat

VARIABLES
  OffTheRecord,         \* browser_state_->IsOffTheRecord()
  WebClearBrowsingData, \* the experimental feature kWebClearBrowsingData
  removal_queue,        \* [id, mask]
  pending_tasks_count,
  is_removing,
  browser_state,        \* whether it is still there: no Shutdown yet
  jobs,                 \* the jobs under way: [id, kind, step]
  ui,                   \* the tasks of the remover's sequence
  bookmark_model,       \* "loading", "loaded" or "deleted"
  called,               \* ids, in the order in which their callbacks ran
  aborted,              \* ids whose callback Shutdown posted
  crashed,              \* whether a CHECK failed
  calls

setUp == <<OffTheRecord, WebClearBrowsingData>>   \* never changes
queueVars == <<removal_queue, pending_tasks_count, is_removing, browser_state>>
ghostVars == <<called, aborted, crashed>>
vars == <<queueVars, jobs, ui, bookmark_model, ghostVars, calls>>

Job(id, kind) == [id |-> id, kind |-> kind, step |-> "posted"]

(* The data that RemoveDataFromWKWebsiteDataStore asks WebKit to remove.    *)
WebsiteData == {"appcache", "cookies", "indexeddb", "local_storage", "websql", "cache_storage"}

WebsiteDataJob(mask) ==
  IF mask \cap WebsiteData # {} /\ ~WebClearBrowsingData THEN {"website_data"} ELSE {}

(* What RemoveImpl creates a completion closure for.  The keywords are only *)
(* waited for when their model has not been loaded.                         *)
JobsOf(mask, keywords_loaded) ==
  (IF "history" \in mask THEN {"session", "snapshots"} ELSE {})
  \cup (IF "cookies" \in mask THEN {"cookies"} ELSE {})
  \cup IF OffTheRecord THEN {} ELSE
         (IF "history" \in mask THEN {"history", "host_cache", "origins"} ELSE {})
         \cup (IF "history" \in mask /\ ~keywords_loaded THEN {"keywords"} ELSE {})
         \cup (mask \cap {"passwords", "cache", "downloads", "bookmarks", "reading_list"})
         \cup (IF "form_data" \in mask THEN {"form_data", "strikes"} ELSE {})
         \cup {"networking"}
         \cup WebsiteDataJob(mask)

(* What kWebClearBrowsingData has removed without a closure.                *)
Unwaited(mask) ==
  IF mask \cap WebsiteData # {} /\ WebClearBrowsingData /\ ~OffTheRecord
  THEN {"website_data"} ELSE {}

UITasks == {"OnTaskComplete", "RunNextTask", "NotifyBrowsingDataRemoved", "callback",
            "BookmarksCleared", "BookmarksNotCleared"}

Kinds == {"session", "snapshots", "cookies", "history", "host_cache", "origins", "keywords",
          "passwords", "cache", "downloads", "bookmarks", "reading_list", "form_data",
          "strikes", "networking", "website_data"}

Task == [op : UITasks, id : Nat]

TypeOK ==
  /\ removal_queue \in Seq([id : Nat, mask : Masks])
  /\ pending_tasks_count \in Nat
  /\ is_removing = (removal_queue # <<>>)
  /\ browser_state \in BOOLEAN
  /\ IsFiniteSet(jobs)
  /\ \A job \in jobs :
       /\ job \in [id : Nat, kind : Kinds, step : {"posted", "backend", "doom", "unwaited"}]
       /\ job.step # "posted" => job.kind \in {"cache", "website_data"}
  /\ ui \in Seq(Task)
  /\ bookmark_model \in {"loading", "loaded", "deleted"}
  /\ called \in Seq(Nat) /\ aborted \subseteq Nat
  /\ OffTheRecord \in BOOLEAN /\ WebClearBrowsingData \in BOOLEAN /\ crashed \in BOOLEAN
  /\ calls \in 0..MaxRemovals

Init ==
  /\ OffTheRecord \in BOOLEAN /\ WebClearBrowsingData \in BOOLEAN
  /\ removal_queue = <<>> /\ pending_tasks_count = 0 /\ is_removing = FALSE
  /\ browser_state = TRUE
  /\ jobs = {} /\ ui = <<>>
  /\ bookmark_model \in {"loading", "loaded"}
  /\ called = <<>> /\ aborted = {} /\ crashed = FALSE
  /\ calls = 0

Post(op, id) == <<[op |-> op, id |-> id]>>

-----------------------------------------------------------------------------
(* Mutant: a removal starts although another one is under way.              *)
IsFirst_any(queue) == TRUE

IsFirst(queue) == Len(queue) = 1

(* Mutant: nothing is pending while RemoveImpl itself runs.                 *)
Synchronous_none == FALSE

(* synchronous_clear_operations, which completes when RemoveImpl returns.   *)
Synchronous == TRUE

CallbackOf(id) == Post("callback", id)

RemovingAfter(queue) == queue # <<>>

(* NotifyRemovalComplete, after the tasks of the sequence in "tasks".       *)
NotifyRemovalComplete(queue, tasks) ==
  LET task == Head(queue) IN
  /\ removal_queue' = Tail(queue)
  /\ is_removing' = RemovingAfter(Tail(queue))
  /\ ui' = tasks \o CallbackOf(task.id) \o Post("NotifyBrowsingDataRemoved", task.id)
                 \o (IF Tail(queue) = <<>> THEN <<>> ELSE Post("RunNextTask", task.id))

(* RunNextTask and RemoveImpl: the jobs of the first removal of "queue" are *)
(* started; bookmarks that are loaded are removed at once.                  *)
StartRemoval(queue, tasks) ==
  LET task == Head(queue) IN
  \E keywords_loaded \in BOOLEAN :
    LET kinds == JobsOf(task.mask, keywords_loaded)
        now == IF "bookmarks" \in kinds /\ bookmark_model = "loaded"
               THEN {"bookmarks"} ELSE {}
        posted == tasks \o (IF now # {} THEN Post("BookmarksCleared", task.id) ELSE <<>>) IN
    /\ jobs' = jobs \cup {Job(task.id, kind) : kind \in kinds \ now}
                    \cup {[Job(task.id, kind) EXCEPT !.step = "unwaited"] :
                            kind \in Unwaited(task.mask)}
    /\ pending_tasks_count' = pending_tasks_count + Cardinality(kinds)
    /\ IF Synchronous /\ pending_tasks_count' = 0
       THEN NotifyRemovalComplete(queue, posted)
       ELSE removal_queue' = queue /\ is_removing' = TRUE /\ ui' = posted

RemoveData(mask) ==
  /\ browser_state /\ ~crashed /\ calls < MaxRemovals
  /\ calls' = calls + 1
  /\ LET queue == Append(removal_queue, [id |-> calls + 1, mask |-> mask]) IN
     IF IsFirst(queue) THEN StartRemoval(queue, ui)
     ELSE /\ removal_queue' = queue
          /\ UNCHANGED <<pending_tasks_count, is_removing, jobs, ui>>
  /\ UNCHANGED <<browser_state, bookmark_model, called, aborted, crashed>>

-----------------------------------------------------------------------------
(* The jobs.                                                                *)

OnlyJobs == UNCHANGED <<queueVars, bookmark_model, called, aborted, crashed, calls>>

(* A job that is done posts its closure.                                    *)
Finish(job) ==
  /\ jobs' = jobs \ {job}
  /\ ui' = IF job.step = "unwaited" THEN ui ELSE ui \o Post("OnTaskComplete", job.id)

FinishJob(job) ==
  /\ job.kind \notin {"cache", "bookmarks"}
  /\ Finish(job)
  /\ OnlyJobs

GoOn(job, step) ==
  /\ jobs' = (jobs \ {job}) \cup {[job EXCEPT !.step = step]}
  /\ UNCHANGED ui

(* DoomHttpCache: without a backend the error is passed on; what was doomed *)
(* at once, or later, posts the callback.                                   *)
DoomHttpCache(job, rv) ==
  \/ rv = "OK" /\ GoOn(job, "doom")
  \/ Finish(job)

ClearHttpCacheOnIOThread(job) ==
  /\ job.kind = "cache" /\ job.step = "posted"
  /\ \E rv \in {"ERR_IO_PENDING", "OK", "error"} :
       IF rv = "ERR_IO_PENDING" THEN GoOn(job, "backend") ELSE DoomHttpCache(job, rv)
  /\ OnlyJobs

BackendAvailable(job) ==
  /\ job.kind = "cache" /\ job.step = "backend"
  /\ \E rv \in {"OK", "error"} : DoomHttpCache(job, rv)
  /\ OnlyJobs

EntriesDoomed(job) ==
  /\ job.kind = "cache" /\ job.step = "doom"
  /\ Finish(job)
  /\ OnlyJobs

(* The remover helpers that wait for the bookmarks, each of which posts the *)
(* callback it was given.                                                   *)
Waiting == {job \in jobs : job.kind = "bookmarks"}

BookmarksRemoved(op) ==
  /\ \E order \in [1..Cardinality(Waiting) -> Waiting] :
       /\ \A job \in Waiting : \E n \in DOMAIN order : order[n] = job
       /\ ui' = ui \o [n \in DOMAIN order |-> [op |-> op, id |-> order[n].id]]
  /\ jobs' = jobs \ Waiting

BookmarkModelLoaded ==
  /\ bookmark_model = "loading" /\ browser_state
  /\ bookmark_model' = "loaded"
  /\ BookmarksRemoved("BookmarksCleared")
  /\ UNCHANGED <<queueVars, called, aborted, crashed, calls>>

(* The model goes with the browser state, after every Shutdown.             *)
BookmarkModelBeingDeleted ==
  /\ bookmark_model # "deleted" /\ ~browser_state
  /\ bookmark_model' = "deleted"
  /\ BookmarksRemoved("BookmarksNotCleared")
  /\ UNCHANGED <<queueVars, called, aborted, crashed, calls>>

-----------------------------------------------------------------------------
(* The tasks of the sequence.                                               *)

(* Mutant: the last but one closure completes the removal.                  *)
Completes_early(count) == count <= 1

Completes(count) == count = 0

(* OnTaskComplete, bound to a weak pointer.                                 *)
OnTaskComplete(tasks) ==
  IF ~browser_state
  THEN ui' = tasks /\ UNCHANGED <<removal_queue, pending_tasks_count, is_removing>>
  ELSE /\ pending_tasks_count' = pending_tasks_count - 1
       /\ IF Completes(pending_tasks_count') THEN NotifyRemovalComplete(removal_queue, tasks)
          ELSE ui' = tasks /\ UNCHANGED <<removal_queue, is_removing>>

RunTask(op) == ui # <<>> /\ Head(ui).op = op /\ ~crashed

RunClosure ==
  /\ RunTask("OnTaskComplete") \/ RunTask("BookmarksCleared")
  /\ OnTaskComplete(Tail(ui))
  /\ UNCHANGED <<browser_state, jobs, bookmark_model, ghostVars, calls>>

(* BookmarkClearedAdapter and its CHECK(success).                           *)
RunNotCleared ==
  /\ RunTask("BookmarksNotCleared")
  /\ crashed' = TRUE
  /\ ui' = Tail(ui)
  /\ UNCHANGED <<queueVars, jobs, bookmark_model, called, aborted, calls>>

RunNextTask ==
  /\ RunTask("RunNextTask")
  /\ IF browser_state THEN StartRemoval(removal_queue, Tail(ui))
     ELSE ui' = Tail(ui)
          /\ UNCHANGED <<removal_queue, pending_tasks_count, is_removing, jobs>>
  /\ UNCHANGED <<browser_state, bookmark_model, called, aborted, crashed, calls>>

RunCallback ==
  /\ RunTask("callback")
  /\ called' = Append(called, Head(ui).id)
  /\ ui' = Tail(ui)
  /\ UNCHANGED <<queueVars, jobs, bookmark_model, aborted, crashed, calls>>

RunNotify ==
  /\ RunTask("NotifyBrowsingDataRemoved")
  /\ ui' = Tail(ui)
  /\ UNCHANGED <<queueVars, jobs, bookmark_model, ghostVars, calls>>

Pending == removal_queue

Shutdown ==
  /\ browser_state /\ ~crashed
  /\ browser_state' = FALSE
  /\ removal_queue' = <<>> /\ is_removing' = FALSE
  /\ ui' = ui \o [n \in DOMAIN Pending |-> [op |-> "callback", id |-> Pending[n].id]]
  /\ aborted' = {removal_queue[n].id : n \in DOMAIN removal_queue}
  /\ UNCHANGED <<pending_tasks_count, jobs, bookmark_model, called, crashed, calls>>

JobStep ==
  \E job \in jobs :
    FinishJob(job) \/ ClearHttpCacheOnIOThread(job) \/ BackendAvailable(job) \/ EntriesDoomed(job)

SequenceStep == RunClosure \/ RunNotCleared \/ RunNextTask \/ RunCallback \/ RunNotify

Step ==
  \/ \E mask \in Masks : RemoveData(mask)
  \/ JobStep \/ BookmarkModelLoaded \/ BookmarkModelBeingDeleted
  \/ SequenceStep \/ Shutdown

Next == Step /\ UNCHANGED setUp

Spec == Init /\ [][Next]_<<vars, setUp>>

(* Every job finishes, the bookmarks load, the sequence runs its tasks.     *)
FairSpec ==
  /\ Spec
  /\ WF_vars(JobStep) /\ WF_vars(BookmarkModelLoaded) /\ WF_vars(SequenceStep)

-----------------------------------------------------------------------------
(* The callback of Remove runs once, in the order of the calls.             *)
CallbacksInOrder == \A m, n \in DOMAIN called : m < n => called[m] < called[n]

Counted == {job \in jobs : job.step # "unwaited"}

(* A removal whose callback runs has removed everything it was asked to,    *)
(* unless Shutdown cut it short; only web::ClearBrowsingData of the         *)
(* experimental feature is not waited for.                                  *)
DoneMeansRemoved ==
  \A n \in DOMAIN ui : ui[n].op = "callback" /\ ui[n].id \notin aborted
    => ~ \E job \in Counted : job.id = ui[n].id

(* Until the shutdown only the first removal of the queue has jobs under    *)
(* way, and the count is that of its closures.                              *)
OneRemovalAtATime ==
  browser_state =>
    /\ \A job \in Counted : removal_queue # <<>> /\ job.id = Head(removal_queue).id
    /\ pending_tasks_count =
         Cardinality(Counted) + Cardinality({n \in DOMAIN ui :
           ui[n].op \in {"OnTaskComplete", "BookmarksCleared"}})

(* Every call of Remove gets its callback, off the record too, where a      *)
(* removal may have no job at all, and when Shutdown finds it queued, unless*)
(* the CHECK of BookmarkClearedAdapter ends the program.                    *)
EveryCallbackRuns ==
  \A id \in 1..MaxRemovals : calls >= id ~> crashed \/ \E n \in DOMAIN called : called[n] = id

(* The removals wait in the order of the calls, and what has left the queue *)
(* was called before them.                                                  *)
QueueInOrder ==
  /\ Len(removal_queue) <= calls
  /\ \A n \in DOMAIN removal_queue :
       removal_queue[n].id = (calls - Len(removal_queue)) + n

(* Callbacks are posted in the order in which removals leave the queue,     *)
(* "left" of them so far; those in "ran" have run.                          *)
InTurn(tasks, ran, left) ==
  /\ \A n \in DOMAIN tasks : tasks[n].op = "callback" =>
       /\ tasks[n].id <= left
       /\ \A m \in DOMAIN ran : ran[m] < tasks[n].id
       /\ \A m \in DOMAIN tasks : tasks[m].op = "callback" /\ m < n =>
            tasks[m].id < tasks[n].id
  /\ \A m \in DOMAIN ran : ran[m] <= left

(* Until the shutdown a queue moves on: its first removal waits for its     *)
(* closures, or one RunNextTask is posted to start it.                      *)
QueueMovesOn ==
  browser_state =>
    /\ Cardinality({n \in DOMAIN ui : ui[n].op = "RunNextTask"}) =
         IF removal_queue # <<>> /\ pending_tasks_count = 0 THEN 1 ELSE 0
    /\ removal_queue = <<>> => pending_tasks_count = 0
    /\ aborted = {}
    /\ \A n \in DOMAIN ui : ui[n].op # "BookmarksNotCleared"

(* A removal has one job of each kind.                                      *)
OneJobOfAKind ==
  \A job, other \in Counted : job.id = other.id /\ job.kind = other.kind => job = other

(* Removals take their turns: one has jobs under way, the count is right,   *)
(* the next one starts when it is done, and the callbacks run once each in  *)
(* the order of the calls.                                                  *)
RemoverInv ==
  /\ TypeOK
  /\ OneRemovalAtATime
  /\ CallbacksInOrder
  /\ QueueInOrder
  /\ InTurn(ui, called, calls - Len(removal_queue))
  /\ QueueMovesOn
  /\ OneJobOfAKind

=============================================================================
