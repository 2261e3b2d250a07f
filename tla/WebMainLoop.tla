---------------------------- MODULE WebMainLoop ----------------------------
(***************************************************************************)
(* A ServiceManagerConnection on the threads that WebMainLoop runs: it is   *)
(* started and destroyed by code on the UI thread, its tasks are in the     *)
(* queues of the two message loops, its frames occupy the IO thread, and    *)
(* the message loop that its observer watches goes after CleanUp, before    *)
(* the thread is joined.                                                    *)
(*                                                                         *)
(* The connections of ServiceManagerContext start as soon as the threads    *)
(* do and are destroyed before io_thread_ is reset; another owner may be    *)
(* later with either, or be outlived by the IO thread.                      *)
(***************************************************************************)
EXTENDS WebThread

CONSTANT MaxRequests

ASSUME RequestsAssumption == MaxRequests \in Nat

VARIABLES connection, context, weak, observerPtr, observer, is_active, binding,
          factories, stop_callback, stack, loop, requests, handled,
          io, ui  \* the connection's tasks of each queue

IOTasks == {"StartOnIOThread", "ShutDownOnIOThread"}
UITasks == {"stop_callback", "CreateService"}

ASSUME TasksAssumption == ComponentTasks = IOTasks \cup UITasks

C == INSTANCE ServiceManagerConnection

connectionVars == <<connection, context, weak, observerPtr, observer, is_active,
                    binding, factories, stop_callback, stack, loop, requests, handled,
                    io, ui>>
otherVars == <<globalVars, lock, call, mainStep, ioStep, delegate, posts>>
allVars == <<vars, connectionVars>>

Posts(id, task) == queue' = [queue EXCEPT ![id] = Append(@, task)]
Runs(id) == queue' = [queue EXCEPT ![id] = Tail(@)]

-----------------------------------------------------------------------------
(* The UI thread.                                                          *)
OnUI == mainStep \in {"running", "stopping"} /\ Idle("main")

StartConnection ==
  /\ OnUI
  /\ Posts(IO, "StartOnIOThread")
  /\ C!Start
  /\ UNCHANGED otherVars

DestroyConnection ==
  /\ OnUI
  /\ IF connection = "started" THEN Posts(IO, "ShutDownOnIOThread") ELSE UNCHANGED queue
  /\ C!Destroy
  /\ UNCHANGED otherVars

RunConnectionUITask ==
  /\ mainStep = "running" /\ Idle("main")
  /\ queue[UI] # <<>> /\ Head(queue[UI]) \in UITasks
  /\ Runs(UI)
  /\ C!UIRunTask
  /\ UNCHANGED otherVars

(* The IO thread's loop.                                                   *)
OnIO == ioStep \in {"looping", "quitting"} /\ Idle("io")

RunConnectionTask ==
  /\ OnIO
  /\ queue[IO] # <<>> /\ Head(queue[IO]) \in IOTasks
  /\ Runs(IO)
  /\ C!IORunTask
  /\ UNCHANGED otherVars

RunFrame == UNCHANGED vars /\ C!FrameStep

ReceiveBindInterface == OnIO /\ UNCHANGED vars /\ C!OnBindInterface

ReceiveCreateService ==
  /\ OnIO
  /\ Posts(UI, "CreateService")
  /\ C!CreateService
  /\ UNCHANGED otherVars

LosesConnection ==
  /\ OnIO
  /\ Posts(UI, C!StopTask)
  /\ C!OnDisconnected
  /\ UNCHANGED otherVars

(* The thread's loop goes with what is still queued.                       *)
DestroyIOLoop ==
  /\ ioStep = "dead"
  /\ queue' = [queue EXCEPT ![IO] = <<>>]
  /\ C!DestroyLoop
  /\ UNCHANGED otherVars

LoopIsGone == loop = "destroyed" /\ stack = <<>>

-----------------------------------------------------------------------------
(* The steps of the threads themselves.                                    *)
ThreadCall(t) == CallStep(t) /\ UNCHANGED connectionVars
ThreadPost(t, id) == PostTask(t, id) /\ UNCHANGED connectionVars
MainThread == MainStep /\ UNCHANGED connectionVars
BeginShutdown == ShutdownThreadsAndCleanUp /\ UNCHANGED connectionVars
Join == LoopIsGone /\ JoinIO /\ UNCHANGED connectionVars
IOThread == stack = <<>> /\ IOThreadStep /\ UNCHANGED connectionVars

AllInit == Init /\ C!Init

AllNext ==
  \/ \E t \in Threads : ThreadCall(t) \/ \E id \in ID : ThreadPost(t, id)
  \/ MainThread \/ BeginShutdown \/ Join \/ IOThread
  \/ StartConnection \/ DestroyConnection
  \/ RunConnectionUITask \/ RunConnectionTask \/ RunFrame \/ DestroyIOLoop
  \/ ReceiveBindInterface \/ ReceiveCreateService \/ LosesConnection

Spec == AllInit /\ [][AllNext]_allVars

(* Threads run; the end of the program is not owed, nor what its owner or   *)
(* the service manager does with the connection.                            *)
FairSpec ==
  /\ Spec
  /\ \A t \in Threads : SF_allVars(ThreadCall(t))
  /\ WF_allVars(MainThread) /\ WF_allVars(Join) /\ WF_allVars(IOThread)
  /\ WF_allVars(RunConnectionUITask) /\ WF_allVars(RunConnectionTask)
  /\ WF_allVars(RunFrame) /\ WF_allVars(DestroyIOLoop)

-----------------------------------------------------------------------------
(* The handler of a destroyed connection is not called.                    *)
NoCallAfterDestroy == C!NoCallAfterDestroy

(* The connection's tasks in the two message loops are those that it has    *)
(* posted and that have not run, in their order.                            *)
TasksAreKept ==
  /\ io = SelectSeq(queue[IO], LAMBDA task : task \in IOTasks)
  /\ ui = SelectSeq(queue[UI], LAMBDA task : task \in UITasks)

(* A connection that is destroyed stops receiving messages, or its thread   *)
(* goes.                                                                    *)
BindingsClose ==
  connection = "destroyed" /\ binding = "bound"
    ~> binding = "closed" \/ loop = "destroyed"

(* Through start and shutdown, accepted tasks are not lost and no frame,    *)
(* pointer or message loop refers to an object that is gone.                *)
WebLoopInv ==
  /\ ThreadsInv
  /\ C!ConnectionInv

(* Shutdown comes to its end, and so does a connection that is destroyed,   *)
(* before, during or without it; until then none of its tasks is lost.      *)
ShutdownIsClean ==
  /\ []TasksAreKept
  /\ ShutdownCompletes
  /\ BindingsClose

=============================================================================
