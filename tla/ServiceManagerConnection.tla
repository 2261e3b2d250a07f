---------------------- MODULE ServiceManagerConnection ----------------------
(***************************************************************************)
(* web/service_manager_connection_impl.cc: a connection that is owned by    *)
(* the UI thread and does its work in an IOThreadContext on the IO thread.  *)
(*                                                                         *)
(* The context is shut down by a task of the owner's destructor or by the   *)
(* MessageLoopObserver, when the message loop of the IO thread goes first.  *)
(* The two call each other, and the observer deletes itself: their frames   *)
(* are on an explicit stack, so that every order of calls is taken.         *)
(***************************************************************************)
EXTENDS Naturals, Sequences, FiniteSets, SequencesExt

CONSTANT MaxRequests  \* bound: CreateService requests

VARIABLES
  connection,     \* ServiceManagerConnectionImpl
  context,        \* IOThreadContext: its life
  weak,           \* whether weak_factory_'s pointers are valid
  observerPtr,    \* whether message_loop_observer_ is set
  observer,       \* MessageLoopObserver: its life
  is_active,
  binding,        \* service_binding_
  factories,      \* number of factory_bindings_
  stop_callback,  \* whether stop_callback_ holds the callback
  io,             \* the tasks of the IO thread
  stack,          \* the frames that run there, innermost first
  loop,           \* its message loop
  ui,             \* the tasks of the UI thread
  requests, handled

contextVars == <<context, weak, observerPtr, binding, factories, stop_callback>>
observerVars == <<observer, is_active>>
vars == <<connection, contextVars, observerVars, io, stack, loop, ui, requests, handled>>

ContextFrames == {"StartOnIOThread", "ShutDownOnIOThread", "clear", "close"}
ObserverFrames == {"ShutDown", "delete this"}

TypeOK ==
  /\ connection \in {"created", "started", "destroyed"}
  /\ context \in {"alive", "freed"}
  /\ weak \in BOOLEAN /\ observerPtr \in BOOLEAN
  /\ observer \in {"none", "alive", "deleted"}
  /\ is_active \in BOOLEAN
  /\ binding \in {"none", "bound", "closed"}
  /\ factories \in 0..1
  /\ stop_callback \in BOOLEAN
  /\ io \in Seq({"StartOnIOThread", "ShutDownOnIOThread"})
  /\ stack \in Seq(ContextFrames \cup ObserverFrames)
  /\ loop \in {"running", "destroyed"}
  /\ ui \in Seq({"stop_callback", "CreateService"})
  /\ requests \in 0..MaxRequests
  /\ handled \in 0..requests

Init ==
  /\ connection = "created"
  /\ context = "alive" /\ weak = TRUE
  /\ observerPtr = FALSE /\ observer = "none" /\ is_active = TRUE
  /\ binding = "none" /\ factories = 0
  /\ stop_callback = FALSE
  /\ io = <<>> /\ stack = <<>> /\ loop = "running" /\ ui = <<>>
  /\ requests = 0 /\ handled = 0

-----------------------------------------------------------------------------
(* The UI thread.                                                          *)

Start ==
  /\ connection = "created" /\ loop = "running"
  /\ connection' = "started"
  /\ stop_callback' = TRUE
  /\ io' = Append(io, "StartOnIOThread")
  /\ UNCHANGED <<context, weak, observerPtr, binding, factories, observerVars,
                 stack, loop, ui, requests, handled>>

(* The references: the connection's, one per task, and that of a task that  *)
(* runs.                                                                    *)
LastReference(conn, tasks, frames) ==
  conn = "destroyed" /\ tasks = <<>> /\ frames = <<>>
Freed(conn, tasks, frames) ==
  IF LastReference(conn, tasks, frames)
  THEN context' = "freed" /\ weak' = FALSE
  ELSE UNCHANGED <<context, weak>>

(* ~ServiceManagerConnectionImpl, which has to come before the IO thread's  *)
(* end, and IOThreadContext::ShutDown.                                      *)
Destroy ==
  /\ connection # "destroyed" /\ loop = "running"
  /\ connection' = "destroyed"
  /\ io' = IF connection = "started" THEN Append(io, "ShutDownOnIOThread") ELSE io
  /\ Freed("destroyed", io', stack)
  /\ UNCHANGED <<observerPtr, binding, factories, stop_callback, observerVars,
                 stack, loop, ui, requests, handled>>

(* Mutant: the callbacks hold the connection by a raw pointer.             *)
Calls_raw == TRUE

(* OnConnectionLost and OnUnhandledServiceRequest are bound weakly.        *)
Calls == connection # "destroyed"

UIRunTask ==
  /\ ui # <<>>
  /\ ui' = Tail(ui)
  /\ handled' = IF Calls /\ Head(ui) = "CreateService" THEN handled + 1 ELSE handled
  /\ UNCHANGED <<connection, contextVars, observerVars, io, stack, loop, requests>>

-----------------------------------------------------------------------------
(* The IO thread.                                                          *)

Top(frame) == stack # <<>> /\ Head(stack) = frame
Return == stack' = Tail(stack)
GoTo(frame) == stack' = <<frame>> \o Tail(stack)
CallThen(frame, next) == stack' = <<frame, next>> \o Tail(stack)

IORunTask ==
  /\ loop = "running" /\ stack = <<>> /\ io # <<>>
  /\ stack' = <<Head(io)>>
  /\ io' = Tail(io)
  /\ UNCHANGED <<connection, contextVars, observerVars, loop, ui, requests, handled>>

StartOnIOThread ==
  /\ Top("StartOnIOThread")
  /\ binding' = "bound"
  /\ observer' = "alive" /\ is_active' = TRUE /\ observerPtr' = TRUE
  /\ Return
  /\ Freed(connection, io, stack')
  /\ UNCHANGED <<connection, factories, stop_callback, io, loop, ui, requests, handled>>

ShutDownOnIOThread ==
  /\ Top("ShutDownOnIOThread")
  /\ weak' = FALSE
  /\ IF observerPtr THEN CallThen("ShutDown", "clear") ELSE GoTo("close")
  /\ UNCHANGED <<connection, context, observerPtr, binding, factories,
                 stop_callback, observerVars, io, loop, ui, requests, handled>>

(* Mutant: the pointer to the observer is kept.                            *)
ResetObserver_kept == UNCHANGED observerPtr

ResetObserver == observerPtr' = FALSE

ClearObserver ==
  /\ Top("clear")
  /\ ResetObserver
  /\ GoTo("close")
  /\ UNCHANGED <<connection, context, weak, binding, factories, stop_callback,
                 observerVars, io, loop, ui, requests, handled>>

(* Mutant: only the bindings of the factories are closed.                  *)
ResetBindings_factories == factories' = 0 /\ UNCHANGED binding

ResetBindings == factories' = 0 /\ binding' = "closed"

CloseBindings ==
  /\ Top("close")
  /\ ResetBindings
  /\ Return
  /\ Freed(connection, io, stack')
  /\ UNCHANGED <<connection, observerPtr, stop_callback, observerVars, io, loop,
                 ui, requests, handled>>

ShutsDown == is_active

(* MessageLoopObserver::ShutDown.                                          *)
ObserverShutDown ==
  /\ Top("ShutDown")
  /\ is_active' = FALSE
  /\ IF ~ShutsDown THEN Return
     ELSE IF weak THEN CallThen("ShutDownOnIOThread", "delete this")
     ELSE GoTo("delete this")
  /\ UNCHANGED <<connection, contextVars, observer, io, loop, ui, requests, handled>>

DeleteObserver ==
  /\ Top("delete this")
  /\ observer' = "deleted"
  /\ Return
  /\ UNCHANGED <<connection, contextVars, is_active, io, loop, ui, requests, handled>>

(* The loop goes: its tasks first, then WillDestroyCurrentMessageLoop.     *)
DestroyLoop ==
  /\ loop = "running" /\ stack = <<>>
  /\ loop' = "destroyed"
  /\ io' = <<>>
  /\ stack' = IF observer = "alive" THEN <<"ShutDown">> ELSE <<>>
  /\ Freed(connection, <<>>, <<>>)
  /\ UNCHANGED <<connection, observerPtr, binding, factories, stop_callback,
                 observerVars, ui, requests, handled>>

(* Messages of the service manager, while the binding stands.              *)
Receives == loop = "running" /\ stack = <<>> /\ binding = "bound"

OnBindInterface ==
  /\ Receives /\ stop_callback /\ factories = 0
  /\ factories' = 1
  /\ UNCHANGED <<connection, context, weak, observerPtr, binding, stop_callback,
                 observerVars, io, stack, loop, ui, requests, handled>>

CreateService ==
  /\ Receives /\ factories > 0
  /\ requests < MaxRequests
  /\ requests' = requests + 1
  /\ ui' = Append(ui, "CreateService")
  /\ UNCHANGED <<connection, contextVars, observerVars, io, stack, loop, handled>>

StopTask == "stop_callback"

(* The pipe closes once; a factory has a pipe of its own.                  *)
OnDisconnected ==
  /\ Receives /\ stop_callback
  /\ stop_callback' = FALSE
  /\ ui' = Append(ui, StopTask)
  /\ UNCHANGED <<connection, context, weak, observerPtr, binding, factories,
                 observerVars, io, stack, loop, requests, handled>>

(* The frame that runs.                                                    *)
FrameStep ==
  \/ StartOnIOThread \/ ShutDownOnIOThread \/ ClearObserver
  \/ CloseBindings \/ ObserverShutDown \/ DeleteObserver

Next ==
  \/ Start \/ Destroy \/ UIRunTask
  \/ IORunTask \/ FrameStep \/ DestroyLoop
  \/ OnBindInterface \/ CreateService \/ OnDisconnected

Spec == Init /\ [][Next]_vars

-----------------------------------------------------------------------------
(* No frame runs on an object that is gone: neither the observer, which     *)
(* deletes itself below a call that may come back to it, nor the context,   *)
(* whose last reference may go with a task that never runs.                 *)
FramesHaveObjects ==
  \A i \in DOMAIN stack :
    /\ stack[i] \in ObserverFrames => observer = "alive"
    /\ stack[i] \in ContextFrames => context = "alive"

(* Once the IO thread has none of its tasks left, no pointer to a deleted   *)
(* observer remains, and a freed context or a destroyed loop has no         *)
(* observer that will call it.                                              *)
NoDanglingObserver ==
  (stack = <<>> /\ io = <<>>) =>
    /\ context = "alive" /\ observerPtr => observer = "alive"
    /\ loop = "destroyed" => observer # "alive"
    /\ context = "freed" /\ loop = "running" => observer # "alive"

(* A request is handled once at most.                                      *)
HandledOnce ==
  handled + Cardinality({i \in 1..Len(ui) : ui[i] = "CreateService"}) <= requests

(* The calls below a task of the IO thread, from the first to the last ...  *)
Starting    == <<"StartOnIOThread">>
TaskRuns    == <<"ShutDownOnIOThread">>
TaskShuts   == <<"ShutDown", "clear">>
TaskDeletes == <<"delete this", "clear">>
TaskClears  == <<"clear">>
TaskCloses  == <<"close">>

(* ... and below WillDestroyCurrentMessageLoop.                             *)
LoopShuts   == <<"ShutDown">>
LoopRuns    == <<"ShutDownOnIOThread", "delete this">>
LoopReturns == <<"ShutDown", "clear", "delete this">>
LoopClears  == <<"clear", "delete this">>
LoopCloses  == <<"close", "delete this">>
LoopDeletes == <<"delete this">>

Empty == <<>>
StartTask == <<"StartOnIOThread">>
ShutDownTask == <<"ShutDownOnIOThread">>
BothTasks == <<"StartOnIOThread", "ShutDownOnIOThread">>

(* What the context and the observer know of each other.                   *)
Know(obs, valid, ptr, active) ==
  observer = obs /\ weak = valid /\ observerPtr = ptr /\ is_active = active

(* The life of a connection, while the message loop runs ...               *)
LifeInLoop ==
  \/ connection = "created" /\ io = Empty /\ stack = Empty
       /\ Know("none", TRUE, FALSE, TRUE)
  \/ /\ connection # "created" /\ Know("none", TRUE, FALSE, TRUE)
     /\ \/ io = (IF connection = "started" THEN StartTask ELSE BothTasks) /\ stack = Empty
        \/ io = (IF connection = "started" THEN Empty ELSE ShutDownTask) /\ stack = Starting
  \/ /\ connection # "created" /\ Know("alive", TRUE, TRUE, TRUE)
     /\ io = (IF connection = "started" THEN Empty ELSE ShutDownTask) /\ stack = Empty
  \/ /\ connection = "destroyed" /\ io = Empty
     /\ \/ stack = TaskRuns    /\ Know("alive", TRUE, TRUE, TRUE)
        \/ stack = TaskShuts   /\ Know("alive", FALSE, TRUE, TRUE)
        \/ stack = TaskDeletes /\ Know("alive", FALSE, TRUE, FALSE)
        \/ stack = TaskClears  /\ Know("deleted", FALSE, TRUE, FALSE)
        \/ stack = TaskCloses  /\ Know("deleted", FALSE, FALSE, FALSE)
        \/ stack = Empty /\ observer # "alive" /\ weak = FALSE

(* ... and once the loop goes, before the owner or after it.               *)
LifeAfterLoop ==
  /\ io = Empty
  /\ \/ connection # "destroyed" /\ stack = Empty /\ Know("none", TRUE, FALSE, TRUE)
     \/ /\ connection = "started"
        /\ \/ stack = LoopShuts   /\ Know("alive", TRUE, TRUE, TRUE)
           \/ stack = LoopRuns    /\ Know("alive", TRUE, TRUE, FALSE)
           \/ stack = LoopReturns /\ Know("alive", FALSE, TRUE, FALSE)
           \/ stack = LoopClears  /\ Know("alive", FALSE, TRUE, FALSE)
           \/ stack = LoopCloses  /\ Know("alive", FALSE, FALSE, FALSE)
           \/ stack = LoopDeletes /\ Know("alive", FALSE, FALSE, FALSE)
           \/ stack = Empty       /\ Know("deleted", FALSE, FALSE, FALSE)
     \/ /\ connection = "destroyed" /\ weak = FALSE
        /\ \/ stack = LoopShuts /\ observer = "alive" /\ is_active = TRUE
           \/ stack = LoopDeletes /\ observer = "alive"
           \/ stack = Empty /\ observer # "alive"

Life ==
  /\ IF loop = "running" THEN LifeInLoop ELSE LifeAfterLoop
  /\ context = "freed" <=> /\ connection = "destroyed" /\ io = Empty
                           /\ stack = Empty \/ loop = "destroyed"

(* The connection and its two objects on the IO thread end in step,         *)
(* whichever of the owner and the message loop goes first.                  *)
ConnectionInv ==
  /\ TypeOK
  /\ FramesHaveObjects
  /\ NoDanglingObserver
  /\ HandledOnce
  /\ Life

(* The handler of a destroyed connection is not called.                    *)
NoCallAfterDestroy == [][connection = "destroyed" => handled' = handled]_vars
=============================================================================
