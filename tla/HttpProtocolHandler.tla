------------------------- MODULE HttpProtocolHandler -------------------------
(***************************************************************************)
(* One request that the system's URL loading hands to Chrome's network      *)
(* stack: CRNHTTPProtocolHandler (an NSURLProtocol), its                    *)
(* HttpProtocolHandlerCore, and the proxy that brings the core's events     *)
(* back to the system (net/crn_http_protocol_handler.mm and                 *)
(* net/crn_http_protocol_handler_proxy_with_client_thread.mm).              *)
(*                                                                         *)
(* Two threads: the client thread, where the system calls the handler and   *)
(* its client is called back, and the IO thread, where the core drives a    *)
(* net::URLRequest.  Each posts to the other and never waits for it.  The   *)
(* core's loop over the data that is there is one action per read, so the   *)
(* client thread can act between any two of its callbacks.                  *)
(***************************************************************************)
EXTENDS Integers, Sequences, FiniteSetsExt, SequencesExt

CONSTANTS
  MaxData,       \* bound: pieces of data in a response
  StreamLength   \* bound: pieces of data in the stream of a sized body

ASSUME HandlerAssumption == MaxData \in Nat /\ StreamLength \in Nat

VARIABLES
  \* The client thread.
  loading,          \* "idle", "loading" or "stopped"
  handler,          \* whether the CRNHTTPProtocolHandler is alive
  protocol,         \* the proxy's _protocol is not nil
  paused, requestComplete, queuedBlocks,   \* the proxy's
  posted,           \* blocks in the client thread's run loop
  draining,         \* runQueuedBlocksOnClientThread is on the stack
  delivered,        \* the calls the NSURLProtocolClient has received
  \* The IO thread.
  ioTasks,          \* posted Start and Cancel tasks of the core
  tracker,          \* tracker_ is not null
  net_request,      \* "null" or the phase of the URLRequest
  body,             \* the kind of body: "none", "sized" or "chunked"
  stream_delegate,  \* whether the core listens to the body's stream
  streamLeft,       \* pieces of a sized body's stream not read yet
  received,         \* pieces of the response read so far
  emitted           \* history: the calls of the core to client_

proxyVars  == <<protocol, paused, requestComplete, queuedBlocks>>
clientVars == <<loading, handler, proxyVars, draining, delivered>>
streamVars == <<body, stream_delegate, streamLeft>>
coreVars   == <<tracker, net_request, streamVars, received>>
vars == <<clientVars, posted, ioTasks, coreVars, emitted>>

(* A call to the client: its kind, and which piece of data it carries.     *)
Kinds == {"redirect", "response", "data", "finish", "fail"}
Callback(kind) == [kind |-> kind, piece |-> 0]
Data(n)        == [kind |-> "data", piece |-> n]
IsTerminal(callback) == callback.kind \in {"finish", "fail"}

(* The phases of the URLRequest: created but not started; started; started  *)
(* and refused authentication; waiting for the tracker's verdict on a       *)
(* certificate; in the core's loop, about to answer Read; Read pending.     *)
Phases  == {"null", "created", "started", "no_auth", "held", "read", "pending"}
Loading == {"started", "no_auth"}

-----------------------------------------------------------------------------
Init ==
  /\ loading = "idle"
  /\ handler = TRUE
  /\ protocol = FALSE
  /\ paused = FALSE
  /\ requestComplete = FALSE
  /\ queuedBlocks = <<>>
  /\ posted = <<>>
  /\ draining = FALSE
  /\ delivered = <<>>
  /\ ioTasks = <<>>
  /\ tracker = FALSE
  /\ net_request = "null"
  /\ body \in {"none", "sized", "chunked"}
  /\ stream_delegate = FALSE
  /\ streamLeft = StreamLength
  /\ received = 0
  /\ emitted = <<>>

-----------------------------------------------------------------------------
(* The proxy, called on the IO thread.                                     *)

(* didFailWithNSErrorCode:, didLoadData:, ...: post to the client thread    *)
(* unless the protocol is gone.                                             *)
Emit(callback) ==
  /\ emitted' = Append(emitted, callback)
  /\ posted' = IF protocol THEN Append(posted, callback) ELSE posted

Silent == UNCHANGED <<emitted, posted>>

(* The proxy, on the client thread.                                        *)

(* Mutant: calls the client without asking whether it still wants to know.  *)
ClientAfter_always(callback) == Append(delivered, callback)

(* didLoadDataOnClientThread: and the others: a call to nil does nothing.   *)
ClientAfter(callback) ==
  IF protocol THEN Append(delivered, callback) ELSE delivered

RunBlock(callback) ==
  /\ delivered' = ClientAfter(callback)
  /\ requestComplete' = (requestComplete \/ IsTerminal(callback))

(* Mutant: only data waits for a resume.                                   *)
MustQueue_data == paused /\ Head(posted).kind = "data"

MustQueue == paused

performBlockOnClientThread ==
  /\ posted # <<>>
  /\ ~draining
  /\ posted' = Tail(posted)
  /\ IF MustQueue
     THEN /\ queuedBlocks' = IF protocol THEN Append(queuedBlocks, Head(posted))
                             ELSE queuedBlocks
          /\ UNCHANGED <<delivered, requestComplete>>
     ELSE RunBlock(Head(posted)) /\ UNCHANGED queuedBlocks
  /\ UNCHANGED <<loading, handler, protocol, paused, draining, ioTasks,
                 coreVars, emitted>>

(* The system holds the callbacks back, also after the request completed.   *)
pause ==
  /\ loading = "loading"
  /\ protocol
  /\ ~draining
  /\ paused' = TRUE
  /\ UNCHANGED <<loading, handler, protocol, requestComplete, queuedBlocks,
                 draining, delivered, posted, ioTasks, coreVars, emitted>>

(* Mutant: leaves the queue to the next block.                             *)
DrainOnResume_never == FALSE

DrainOnResume == queuedBlocks # <<>>

resume ==
  /\ loading = "loading"
  /\ protocol
  /\ paused
  /\ ~requestComplete
  /\ ~draining
  /\ paused' = FALSE
  /\ draining' = DrainOnResume
  /\ UNCHANGED <<loading, handler, protocol, requestComplete, queuedBlocks,
                 delivered, posted, ioTasks, coreVars, emitted>>

(* Mutant: the request that has not got its native request yet is left.    *)
TasksAfterCancelRequest_late ==
  IF net_request = "null" THEN ioTasks ELSE Append(ioTasks, "Cancel")

(* cancelRequest posts the core's Cancel...                                *)
TasksAfterCancelRequest == Append(ioTasks, "Cancel")

(* ... and invalidates the proxy.                                          *)
StopLoading ==
  /\ loading' = "stopped"
  /\ ioTasks' = TasksAfterCancelRequest
  /\ protocol' = FALSE
  /\ requestComplete' = TRUE
  /\ queuedBlocks' = <<>>

(* One round of runQueuedBlocksOnClientThread.  The client may call pause   *)
(* or stopLoading from inside the block.                                    *)
RunQueuedBlock ==
  LET block == Head(queuedBlocks)
  IN  /\ draining
      /\ \E nested \in {"none", "pause", "stop"} :
           /\ delivered' = ClientAfter(block)
           /\ IF nested = "stop"
              THEN StopLoading
              ELSE /\ requestComplete' = (requestComplete \/ IsTerminal(block))
                   /\ queuedBlocks' = Tail(queuedBlocks)
                   /\ UNCHANGED <<loading, protocol, ioTasks>>
           /\ paused' = (nested = "pause")
      /\ draining' = (~paused' /\ queuedBlocks' # <<>>)
      /\ UNCHANGED <<handler, posted, coreVars, emitted>>

-----------------------------------------------------------------------------
(* CRNHTTPProtocolHandler, called by the system on the client thread.      *)

(* A supported URL gets a proxy and a Start task; another one fails at once.*)
startLoading ==
  /\ loading = "idle"
  /\ loading' = "loading"
  /\ \/ /\ protocol' = TRUE
        /\ ioTasks' = Append(ioTasks, "Start")
        /\ UNCHANGED <<delivered, emitted, requestComplete>>
     \/ /\ delivered' = <<Callback("fail")>>
        /\ emitted' = <<Callback("fail")>>
        /\ requestComplete' = TRUE
        /\ UNCHANGED <<protocol, ioTasks>>
  /\ UNCHANGED <<handler, paused, queuedBlocks, draining, posted, coreVars>>

stopLoading ==
  /\ loading = "loading"
  /\ ~draining
  /\ StopLoading
  /\ UNCHANGED <<handler, paused, draining, delivered, posted, coreVars, emitted>>

(* The system releases a handler it has stopped.                           *)
Dealloc ==
  /\ loading = "stopped"
  /\ handler
  /\ ~draining
  /\ handler' = FALSE
  /\ UNCHANGED <<loading, proxyVars, draining, delivered, posted, ioTasks,
                 coreVars, emitted>>

-----------------------------------------------------------------------------
(* HttpProtocolHandlerCore, on the IO thread.                              *)

Idle == net_request # "read"

(* Mutant: forgets the stream when the request goes.                       *)
ListeningAfterStop_kept == stream_delegate

(* StopNetRequest deletes the URLRequest and stops listening to the stream. *)
ListeningAfterStop == FALSE

StopNetRequest ==
  /\ net_request' = "null"
  /\ stream_delegate' = ListeningAfterStop
  /\ UNCHANGED <<tracker, body, streamLeft, received>>

StopRequestWithError == Emit(Callback("fail")) /\ StopNetRequest

(* A handler that only moves the request to another phase.                 *)
Phase(phase) ==
  /\ net_request' = phase
  /\ UNCHANGED <<tracker, streamVars, received>>

onIOThread == UNCHANGED <<clientVars, ioTasks>>

(* The task Start.  The request fails if it names a tracker that does not   *)
(* exist or if its URL is invalid; otherwise the URLRequest is created, and *)
(* started unless a body of known length has to be read first.              *)
Start ==
  /\ Idle
  /\ ioTasks # <<>>
  /\ Head(ioTasks) = "Start"
  /\ ioTasks' = Tail(ioTasks)
  /\ \/ Emit(Callback("fail")) /\ UNCHANGED coreVars
     \/ /\ tracker' \in BOOLEAN
        /\ net_request' = IF body = "sized" THEN "created" ELSE "started"
        /\ stream_delegate' = (body # "none")
        /\ UNCHANGED <<body, streamLeft, received>>
        /\ Silent
  /\ UNCHANGED clientVars

(* The task Cancel.                                                        *)
Cancel ==
  /\ Idle
  /\ ioTasks # <<>>
  /\ Head(ioTasks) = "Cancel"
  /\ ioTasks' = Tail(ioTasks)
  /\ IF net_request = "null" THEN UNCHANGED coreVars ELSE StopNetRequest
  /\ Silent
  /\ UNCHANGED clientVars

(* HandleStreamEvent for a sized body: a piece of it is read, or cannot be. *)
(* A chunked body is left to its uploader.                                  *)
StreamHasBytesAvailable ==
  /\ Idle
  /\ stream_delegate /\ body = "sized"
  /\ streamLeft > 0
  /\ \/ /\ streamLeft' = streamLeft - 1
        /\ UNCHANGED <<tracker, net_request, body, stream_delegate, received>>
        /\ Silent
     \/ StopRequestWithError
  /\ onIOThread

(* The stream ends: a sized body is complete and the request starts.       *)
StreamEndEncountered ==
  /\ Idle
  /\ stream_delegate /\ body = "sized"
  /\ streamLeft = 0
  /\ stream_delegate' = FALSE
  /\ net_request' = "started"
  /\ UNCHANGED <<tracker, body, streamLeft, received>>
  /\ Silent
  /\ onIOThread

StreamErrorOccurred ==
  /\ Idle
  /\ stream_delegate
  /\ StopRequestWithError
  /\ onIOThread

(* A redirect goes to the client, which makes a new request of it.         *)
OnReceivedRedirect ==
  /\ net_request \in Loading
  /\ \/ StopRequestWithError
     \/ Emit(Callback("redirect")) /\ StopNetRequest
  /\ onIOThread

(* The proxy refuses every challenge: the request loads without credentials.*)
OnAuthRequired ==
  /\ net_request = "started"
  /\ Phase("no_auth")
  /\ Silent
  /\ onIOThread

OnCertificateRequested ==
  /\ net_request \in Loading
  /\ StopRequestWithError
  /\ onIOThread

(* A tracker that is closing or has forgotten the request never answers.    *)
OnSSLCertificateError ==
  /\ net_request \in Loading
  /\ \/ StopRequestWithError
     \/ Phase(net_request) /\ Silent
     \/ tracker /\ Phase("held") /\ Silent
  /\ onIOThread

(* Mutant: the response is reported once the first data is there.          *)
StartReading_silent == Phase("read") /\ Silent

StartReading == Emit(Callback("response")) /\ Phase("read")

OnResponseStarted ==
  /\ net_request \in Loading
  /\ \/ StopRequestWithError
     \/ StartReading
     \/ tracker /\ Phase("held") /\ Silent
  /\ onIOThread

NextPiece == received + 1

(* The value of Read in StartReading or in the loop of OnReadCompleted, or  *)
(* the argument of OnReadCompleted when a Read was pending.                 *)
ReadData ==
  /\ net_request \in {"read", "pending"}
  /\ received < MaxData
  /\ received' = NextPiece
  /\ Emit(Data(NextPiece))
  /\ net_request' = "read"
  /\ UNCHANGED <<tracker, streamVars>>
  /\ onIOThread

ReadPending ==
  /\ net_request = "read"
  /\ Phase("pending")
  /\ Silent
  /\ onIOThread

ReadEnd ==
  /\ net_request \in {"read", "pending"}
  /\ StopNetRequest
  /\ Emit(Callback("finish"))
  /\ onIOThread

ReadError ==
  /\ net_request \in {"read", "pending"}
  /\ StopRequestWithError
  /\ onIOThread

(* The tracker is destroyed, on the IO thread.                             *)
LoseTracker ==
  /\ Idle
  /\ tracker
  /\ tracker' = FALSE
  /\ UNCHANGED <<net_request, streamVars, received>>
  /\ Silent
  /\ onIOThread

-----------------------------------------------------------------------------
RunTask    == Start \/ Cancel
StreamStep == StreamHasBytesAvailable \/ StreamEndEncountered \/ StreamErrorOccurred
NetStep    == \/ OnReceivedRedirect \/ OnAuthRequired \/ OnCertificateRequested
              \/ OnSSLCertificateError \/ OnResponseStarted
ReadStep   == ReadData \/ ReadPending \/ ReadEnd \/ ReadError

ClientStep ==
  \/ startLoading \/ stopLoading \/ Dealloc \/ pause \/ resume
  \/ performBlockOnClientThread \/ RunQueuedBlock

-----------------------------------------------------------------------------
(* Properties.                                                             *)

(* Every variable has its type; no piece of data has a number the response  *)
(* does not have.                                                           *)
TypeOK ==
  LET Blocks == Seq([kind : Kinds, piece : 0..MaxData])
  IN  /\ loading \in {"idle", "loading", "stopped"}
      /\ {handler, protocol, paused, requestComplete, draining, tracker,
          stream_delegate} \subseteq BOOLEAN
      /\ {queuedBlocks, posted, delivered, emitted} \subseteq Blocks
      /\ ioTasks \in Seq({"Start", "Cancel"})
      /\ net_request \in Phases
      /\ body \in {"none", "sized", "chunked"}
      /\ streamLeft \in 0..StreamLength
      /\ received \in 0..MaxData

(* The client is called exactly as the core called the proxy: nothing is    *)
(* lost, repeated or reordered on the way, however the system pauses and    *)
(* resumes the request, and what has not arrived yet is on its way unless   *)
(* the request was stopped.                                                 *)
DeliveredInOrder ==
  /\ IsPrefix(delivered, emitted)
  /\ loading = "loading" => emitted = delivered \o queuedBlocks \o posted

EndKinds == {"finish", "fail", "redirect"}

CallbackOrder(calls) ==
  /\ calls # <<>> => calls[1].kind \in {"response", "redirect", "fail"}
  /\ \A i, j \in DOMAIN calls : i < j =>
       /\ calls[i].kind \notin EndKinds
       /\ calls[j].kind \notin {"response", "redirect"}

(* The contract of NSURLProtocolClient that the comment above the core      *)
(* quotes: one response, before any data and before the end; nothing after  *)
(* the end, after a failure, or after a redirect (the system then makes     *)
(* another request).                                                        *)
ClientCallbackOrder == CallbackOrder(delivered)

(* The core keeps the contract, because it calls the proxy only while it    *)
(* has a request, or from Start: there is one before the response and none  *)
(* after the end.                                                           *)
CoreKeepsOrder ==
  /\ CallbackOrder(emitted)
  /\ net_request \in {"created", "started", "no_auth", "held"} => emitted = <<>>
  /\ net_request \in {"read", "pending"} =>
       emitted # <<>> /\ \A i \in DOMAIN emitted : emitted[i].kind \notin EndKinds

(* What each phase of the handler leaves on the other thread: Start runs at *)
(* most once and first, and a stopped handler has its Cancel posted until   *)
(* the request is gone.                                                     *)
LifeCycle ==
  /\ loading = "idle" => /\ handler /\ ~protocol /\ ~paused /\ ~requestComplete
                         /\ ioTasks = <<>> /\ net_request = "null"
                         /\ emitted = <<>> /\ delivered = <<>> /\ posted = <<>>
  /\ loading = "loading" => /\ handler
                            /\ ioTasks \in {<<>>, <<"Start">>}
                            /\ ~protocol => /\ ioTasks = <<>> /\ posted = <<>>
                                            /\ net_request = "null"
  /\ loading = "stopped" => /\ ~protocol /\ ~draining /\ queuedBlocks = <<>>
                            /\ ioTasks \in {<<>>, <<"Cancel">>, <<"Start", "Cancel">>}
                            /\ ioTasks = <<>> => net_request = "null"
  /\ ioTasks # <<>> /\ ioTasks[1] = "Start" => net_request = "null" /\ emitted = <<>>

(* Blocks are only queued while the proxy is paused, or being run from the  *)
(* queue.                                                                   *)
QueueDrains ==
  /\ draining => ~paused /\ queuedBlocks # <<>> /\ loading = "loading" /\ protocol
  /\ queuedBlocks # <<>> => paused \/ draining

(* _requestComplete is set with the call that ends the request.            *)
CompletionWasDelivered ==
  requestComplete /\ protocol =>
    \E i \in DOMAIN delivered : delivered[i].kind \in EndKinds

(* The DCHECKs of performBlockOnClientThread: and                           *)
(* runQueuedBlocksOnClientThread: no block is left to run once the client   *)
(* has been told the end, unless the handler was stopped.                   *)
NoBlockAfterCompletion ==
  requestComplete /\ protocol => posted = <<>> /\ queuedBlocks = <<>>

(* HandleStreamEvent uses net_request_ unchecked, and ~HttpProtocolHandler- *)
(* Core expects both to be gone: while the core listens to a body stream    *)
(* its request exists, and has not been started if it waits for the body.   *)
StreamHasRequest ==
  stream_delegate => /\ net_request # "null"
                     /\ body = "sized" => net_request = "created"

(* The URLRequest has a plain pointer to the core as its delegate: as long  *)
(* as there is a URLRequest the handler, or a task posted to the IO thread, *)
(* keeps the core alive, also when the handler is released right after      *)
(* stopLoading.                                                             *)
CoreOutlivesRequest == net_request # "null" => handler \/ ioTasks # <<>>

(* Once the system has called stopLoading its client is not called again,   *)
(* whatever the IO thread still sends and whatever was queued.              *)
NoCallbackAfterStop == [][loading = "stopped" => UNCHANGED delivered]_vars

Ended ==
  delivered # <<>> /\ Last(delivered).kind \in {"finish", "fail", "redirect"}

(* A request that is started ends: the client hears of its end, unless it   *)
(* stops the request, keeps it paused, or the tracker does not decide about *)
(* a certificate.                                                           *)
EveryLoadEnds ==
  loading = "loading" ~>
    (Ended \/ loading = "stopped" \/ paused \/ net_request = "held")

(* Stopping releases the network request for good, also when stopLoading    *)
(* overtakes the Start task, or comes while the tracker holds the request.  *)
StopReleasesRequest ==
  loading = "stopped" ~> [](net_request = "null" /\ ~stream_delegate)

=============================================================================
