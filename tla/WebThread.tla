----------------------------- MODULE WebThread -----------------------------
(***************************************************************************)
(* The well-known threads of web/: WebThreadImpl and its globals,           *)
(* WebSubThread, and WebMainLoop, which starts and stops the IO thread.     *)
(*                                                                         *)
(* Three threads take steps: "main", which is WebThread::UI, "io", which    *)
(* becomes WebThread::IO when it registers, and "worker", a thread of the   *)
(* task scheduler without an ID.  PostTaskHelper reads the state of its     *)
(* target without the lock when the target outlives the calling thread; the *)
(* constructor and the destructor of WebThreadImpl write it under the lock. *)
(***************************************************************************)
EXTENDS Naturals, Sequences, SequencesExt

CONSTANTS
  MaxPosts,        \* bound: tasks posted by tasks
  ComponentTasks   \* what the components that use the threads post to them

ASSUME PostsAssumption == MaxPosts \in Nat

UI == 0
IO == 1
ID == {UI, IO}
Threads == {"main", "io", "worker"}

VARIABLES
  states,         \* globals.states
  task_runners,   \* globals.task_runners: the thread that runs each ID's tasks
  lock,           \* globals.lock: who holds it
  call,           \* the call of this module each thread is in
  queue,          \* the message loop of each ID
  mainStep,       \* where WebMainLoop is
  ioStep,         \* where the IO thread is
  delegate,       \* g_io_thread_delegate and what it has been told
  posts

globalVars == <<states, task_runners>>
vars == <<globalVars, lock, call, queue, mainStep, ioStep, delegate, posts>>

NoCall == [op |-> "none"]
Calls == [op : {"register", "unregister", "post"}, id : ID, locks : BOOLEAN,
          step : {"acquire", "use", "push"}]
InCall(t, op, id) == call[t] # NoCall /\ call[t].op = op /\ call[t].id = id
Idle(t) == call[t] = NoCall

(* What a message loop holds: the initialization of the thread, the end of  *)
(* the loop, a task that CleanUp has posted, another that a thread has, or  *)
(* the task of a component.                                                 *)
LoopTask == {"init", "quit", "cleanup"} \cup Threads \cup ComponentTasks

TypeOK ==
  /\ states \in [ID -> {"UNINITIALIZED", "RUNNING", "SHUTDOWN"}]
  /\ task_runners \in [ID -> {"none", "main", "io"}]
  /\ lock \in Threads \cup {"free"}
  /\ call \in [Threads -> Calls \cup {NoCall}]
  /\ \A t \in Threads : lock = t => ~Idle(t) /\ call[t].locks
  /\ queue \in [ID -> Seq(LoopTask)]
  /\ mainStep \in {"early", "started", "registering", "registered", "running",
                   "stopping", "joining", "joined", "destroying", "done"}
  /\ ioStep \in {"none", "looping", "quitting", "cleaning", "dead"}
  /\ delegate \in {"unset", "set", "initialized", "cleaned"}
  /\ posts \in 0..MaxPosts

Init ==
  /\ states = [i \in ID |-> "UNINITIALIZED"]
  /\ task_runners = [i \in ID |-> "none"]
  /\ lock = "free"
  /\ call = [t \in Threads |-> NoCall]
  /\ queue = [i \in ID |-> <<>>]
  /\ mainStep = "early"
  /\ ioStep = "none"
  /\ delegate \in {"unset", "set"}
  /\ posts = 0

-----------------------------------------------------------------------------
(* The globals.                                                            *)

(* Mutant: a thread that is not well-known is taken for ID_COUNT.          *)
TargetOutlives_unknown(t, id) == \A c \in ID : task_runners[c] = t => c >= id

(* GetCurrentThreadIdentifier, under the lock; the IDs are in the order of  *)
(* their lifetimes.                                                         *)
TargetOutlives(t, id) == \E c \in ID : task_runners[c] = t /\ c >= id

Enter(t, op, id, locks) ==
  call' = [call EXCEPT ![t] = [op |-> op, id |-> id, locks |-> locks,
                               step |-> IF locks THEN "acquire" ELSE "use"]]

(* PostTaskHelper begins.                                                  *)
StartPost(t, id) ==
  /\ lock = "free"
  /\ Enter(t, "post", id, ~TargetOutlives(t, id))

Acquire(t) ==
  /\ ~Idle(t) /\ call[t].step = "acquire"
  /\ lock = "free"
  /\ lock' = t
  /\ call' = [call EXCEPT ![t].step = "use"]
  /\ UNCHANGED <<globalVars, queue, mainStep, ioStep, delegate, posts>>

Release(t) == lock' = IF lock = t THEN "free" ELSE lock

Leave(t) ==
  /\ Release(t)
  /\ call' = [call EXCEPT ![t] = NoCall]

(* WebThreadImpl::WebThreadImpl.                                           *)
Register(t) ==
  /\ ~Idle(t) /\ call[t].op = "register" /\ call[t].step = "use"
  /\ states' = [states EXCEPT ![call[t].id] = "RUNNING"]
  /\ task_runners' = [task_runners EXCEPT ![call[t].id] =
                        IF call[t].id = UI THEN "main" ELSE "io"]
  /\ Leave(t)
  /\ mainStep' = IF call[t].id = UI THEN "started" ELSE "registered"
  /\ UNCHANGED <<queue, ioStep, delegate, posts>>

(* WebThreadImpl::~WebThreadImpl: the runner stays.                        *)
Unregister(t) ==
  /\ ~Idle(t) /\ call[t].op = "unregister" /\ call[t].step = "use"
  /\ states' = [states EXCEPT ![call[t].id] = "SHUTDOWN"]
  /\ Leave(t)
  /\ mainStep' = IF call[t].id = UI THEN "done" ELSE mainStep
  /\ ioStep' = IF call[t].id = IO THEN "dead" ELSE ioStep
  /\ UNCHANGED <<task_runners, queue, delegate, posts>>

(* PostTaskHelper looks whether the target accepts tasks ...               *)
ReadState(t) ==
  /\ ~Idle(t) /\ call[t].op = "post" /\ call[t].step = "use"
  /\ IF states[call[t].id] = "RUNNING"
     THEN call' = [call EXCEPT ![t].step = "push"] /\ UNCHANGED lock
     ELSE Leave(t)
  /\ UNCHANGED <<globalVars, queue, mainStep, ioStep, delegate, posts>>

(* ... and posts the task if it does.                                      *)
Push(t) ==
  /\ ~Idle(t) /\ call[t].step = "push"
  /\ queue' = [queue EXCEPT ![call[t].id] = Append(@,
                    IF t = "io" /\ ioStep = "cleaning" THEN "cleanup" ELSE t)]
  /\ Leave(t)
  /\ UNCHANGED <<globalVars, mainStep, ioStep, delegate, posts>>

CallStep(t) == Acquire(t) \/ Register(t) \/ Unregister(t) \/ ReadState(t) \/ Push(t)

-----------------------------------------------------------------------------
(* Code on a thread posts a task: the UI thread in its message loop or in   *)
(* PostMainMessageLoopRun, a worker at any time; the IO thread only from a  *)
(* task that it runs, or from CleanUp.                                      *)
CanPost(t) ==
  \/ t = "main" /\ mainStep \in {"running", "stopping"}
  \/ t = "worker" /\ mainStep \notin {"early", "started"}

CountedPost(t, id) ==
  /\ posts < MaxPosts
  /\ posts' = posts + 1
  /\ StartPost(t, id)

PostTask(t, id) ==
  /\ CanPost(t) /\ Idle(t)
  /\ CountedPost(t, id)
  /\ UNCHANGED <<globalVars, lock, queue, mainStep, ioStep, delegate>>

(* WebMainLoop: InitializeMainThread, CreateThreads, a run of the message   *)
(* loop, ShutdownThreadsAndCleanUp, the destructor.                         *)
MainGoes(from, to) == mainStep = from /\ Idle("main") /\ mainStep' = to

InitializeMainThread ==
  /\ mainStep = "early" /\ Idle("main")
  /\ Enter("main", "register", UI, TRUE)
  /\ UNCHANGED <<globalVars, lock, queue, mainStep, ioStep, delegate, posts>>

CreateThreads ==
  /\ MainGoes("started", "registering")
  /\ ioStep' = "looping"
  /\ Enter("main", "register", IO, TRUE)
  /\ UNCHANGED <<globalVars, lock, queue, delegate, posts>>

InitTask == <<"init">>

(* The end of RegisterAsWebThread posts the initialization itself.         *)
RegisterAsWebThread ==
  /\ MainGoes("registered", "running")
  /\ queue' = [queue EXCEPT ![IO] = @ \o InitTask]
  /\ UNCHANGED <<globalVars, lock, call, ioStep, delegate, posts>>

UIRunTask ==
  /\ mainStep = "running" /\ Idle("main")
  /\ queue[UI] # <<>> /\ Head(queue[UI]) \notin ComponentTasks
  /\ queue' = [queue EXCEPT ![UI] = Tail(@)]
  /\ UNCHANGED <<globalVars, lock, call, mainStep, ioStep, delegate, posts>>

ShutdownThreadsAndCleanUp ==
  /\ MainGoes("running", "stopping")
  /\ StartPost("main", IO)
  /\ UNCHANGED <<globalVars, lock, queue, ioStep, delegate, posts>>

(* io_thread_.reset(): ~WebSubThread stops the thread and waits for it.    *)
StopIO ==
  /\ MainGoes("stopping", "joining")
  /\ queue' = [queue EXCEPT ![IO] = Append(@, "quit")]
  /\ UNCHANGED <<globalVars, lock, call, ioStep, delegate, posts>>

JoinIO ==
  /\ ioStep = "dead"
  /\ MainGoes("joining", "joined")
  /\ UNCHANGED <<globalVars, lock, call, queue, ioStep, delegate, posts>>

(* SetIOThreadDelegate(nullptr), then ~WebMainLoop.                        *)
DestroyMainLoop ==
  /\ MainGoes("joined", "destroying")
  /\ delegate' = "unset"
  /\ Enter("main", "unregister", UI, TRUE)
  /\ UNCHANGED <<globalVars, lock, queue, ioStep, posts>>

MainStep ==
  \/ InitializeMainThread \/ CreateThreads \/ RegisterAsWebThread
  \/ UIRunTask \/ StopIO \/ DestroyMainLoop

-----------------------------------------------------------------------------
(* What runs on the IO thread may post a task.                             *)
MayPost(can) ==
  \/ UNCHANGED <<call, posts>>
  \/ can /\ \E id \in ID : CountedPost("io", id)

(* The IO thread: CompleteInitializationOnWebThread is a task among others; *)
(* "quit" makes the loop end when it is next idle.                          *)
IORunTask ==
  /\ ioStep \in {"looping", "quitting"} /\ Idle("io")
  /\ queue[IO] # <<>> /\ Head(queue[IO]) \notin ComponentTasks
  /\ queue' = [queue EXCEPT ![IO] = Tail(@)]
  /\ delegate' = IF Head(queue[IO]) = "init" /\ delegate = "set"
                 THEN "initialized" ELSE delegate
  /\ ioStep' = IF Head(queue[IO]) = "quit" THEN "quitting" ELSE ioStep
  /\ MayPost(Head(queue[IO]) # "quit")
  /\ UNCHANGED <<globalVars, lock, mainStep>>

LoopEnds == ioStep = "quitting" /\ queue[IO] = <<>>

(* CleanUp: URLFetcher::CancelAll and the delegate's ...                   *)
IOCleanUp ==
  /\ LoopEnds /\ Idle("io")
  /\ ioStep' = "cleaning"
  /\ delegate' = IF delegate = "unset" THEN delegate ELSE "cleaned"
  /\ MayPost(TRUE)
  /\ UNCHANGED <<globalVars, lock, queue, mainStep>>

(* ... then web_thread_.reset().                                           *)
IOReset ==
  /\ ioStep = "cleaning" /\ Idle("io")
  /\ Enter("io", "unregister", IO, TRUE)
  /\ UNCHANGED <<globalVars, lock, queue, mainStep, ioStep, delegate, posts>>

IOThreadStep == IORunTask \/ IOCleanUp \/ IOReset

Finished == mainStep = "done" /\ \A t \in Threads : Idle(t)

-----------------------------------------------------------------------------
(* Skipping the lock is safe: while PostTaskHelper is between its read of   *)
(* the state and its use of the runner, with or without the lock, nobody    *)
(* writes either, and what it read is still so.                             *)
UnlockedReadIsSafe ==
  \A t \in Threads :
    (~Idle(t) /\ call[t].op = "post" /\ call[t].step \in {"use", "push"}) =>
      /\ \A s \in Threads \ {t} :
           lock = s => ~InCall(s, "register", call[t].id)
                         /\ ~InCall(s, "unregister", call[t].id)
      /\ call[t].step = "push" =>
           states[call[t].id] = "RUNNING" /\ task_runners[call[t].id] # "none"

(* The tasks that the UI thread, and the IO thread itself while its loop    *)
(* ran, posted to the IO thread have all run when it goes: only CleanUp and *)
(* a thread that is not well-known can see an accepted task dropped.        *)
WellKnownTasksRun ==
  ioStep \in {"cleaning", "dead"} =>
    \A i \in DOMAIN queue[IO] : queue[IO][i] \in {"worker", "cleanup"}

(* A call holds the lock from Acquire to its end, unless it posts without   *)
(* the lock.                                                                *)
LockIsHeldByCalls ==
  \A t \in Threads :
    /\ lock = t <=> ~Idle(t) /\ call[t].locks /\ call[t].step # "acquire"
    /\ ~Idle(t) /\ call[t].step = "acquire" => call[t].locks

(* Where the program makes its calls, and which of them skip the lock: the  *)
(* UI thread for its own loop, and the IO thread once it is registered.     *)
CallsInPlace ==
  \A t \in Threads : ~Idle(t) =>
    /\ call[t].op = "post" =>
         /\ t = "main" => mainStep \in {"running", "stopping"}
         /\ t = "io" => ioStep \in {"looping", "quitting", "cleaning"}
         /\ ~call[t].locks => \/ t = "main" /\ call[t].id = UI
                              \/ t = "io" /\ task_runners[IO] = "io"
    /\ call[t].op = "register" =>
         /\ t = "main" /\ call[t].locks
         /\ mainStep = IF call[t].id = UI THEN "early" ELSE "registering"
    /\ call[t].op = "unregister" =>
         /\ call[t].locks
         /\ IF call[t].id = UI THEN t = "main" /\ mainStep = "destroying"
                               ELSE t = "io" /\ ioStep = "cleaning"

(* PostTaskHelper pushes to a target that still accepts tasks.             *)
PushIsAccepted ==
  \A t \in Threads : ~Idle(t) /\ call[t].step = "push" =>
    /\ call[t].op = "post"
    /\ states[call[t].id] = "RUNNING" /\ task_runners[call[t].id] # "none"

(* The UI thread has registered before it starts the IO thread, and waits   *)
(* for the end of it before its own; after "quit" it posts nothing more.    *)
IOStopping == mainStep \in {"joining", "joined", "destroying", "done"}
ThreadsAreNested ==
  /\ task_runners[UI] \in {"none", "main"} /\ task_runners[IO] \in {"none", "io"}
  /\ \A id \in ID : states[id] = "RUNNING" => task_runners[id] # "none"
  /\ task_runners[IO] = "io" => mainStep \notin {"early", "started", "registering"}
  /\ ioStep = "none" <=> mainStep \in {"early", "started"}
  /\ ioStep \in {"quitting", "cleaning", "dead"} => IOStopping
  /\ (\E i \in DOMAIN queue[IO] : queue[IO][i] = "quit") => IOStopping
  /\ mainStep \in {"joined", "destroying", "done"} => ioStep = "dead"

(* The threads follow the protocol by which an accepted task is not lost.  *)
ThreadsInv ==
  /\ TypeOK
  /\ LockIsHeldByCalls
  /\ CallsInPlace
  /\ PushIsAccepted
  /\ ThreadsAreNested
  /\ WellKnownTasksRun

(* The shutdown comes to its end: nobody is left holding the lock, and the  *)
(* UI thread does not wait for an IO thread that waits for it.              *)
ShutdownCompletes == mainStep = "stopping" ~> Finished
=============================================================================
