-------------------------- MODULE ChunkedUploader --------------------------
(***************************************************************************)
(* The upload of a request body that comes from an NSInputStream and has no *)
(* Content-Length: ChunkedDataStreamUploader, which HttpProtocolHandlerCore *)
(* gives to its URLRequest and feeds (net/), in a load of                   *)
(* HttpProtocolHandler whose body is "chunked".                             *)
(*                                                                         *)
(* The uploader runs on the IO thread, but three parties take turns in any  *)
(* order: the producer of the stream, the stream's run loop source, and the *)
(* network transaction, which initializes the upload and reads from it.     *)
(* The core's other handlers and the client thread go on meanwhile, and     *)
(* whatever stops the request deletes the uploader.                         *)
(*                                                                         *)
(* The bytes of the body are 1, 2, ..., BodyLength; the stream is the       *)
(* interval consumed + 1 .. produced.                                       *)
(***************************************************************************)
EXTENDS HttpProtocolHandler

CONSTANTS
  BodyLength,        \* bytes of the body
  MaxBuffer,         \* bound: the network's read buffer
  MaxEmptyReads,     \* bound: reads of a non-empty stream that return 0 bytes
  MaxInits           \* bound: times the transaction initializes the upload

ASSUME UploaderAssumption ==
  /\ BodyLength \in Nat
  /\ MaxBuffer \in Nat \ {0}
  /\ MaxEmptyReads \in Nat
  /\ MaxInits \in Nat

VARIABLES
  produced, consumed,     \* bytes put into the stream, bytes read from it
  closed,                 \* the producer has closed its end
  signalled,              \* NSStreamEventHasBytesAvailable sent since last read
  emptyReads,             \* reads that returned 0 bytes
  pending_stream,         \* pending_stream_ is the stream, not nil
  pending_read_buffer,    \* pending_read_buffer_length_, 0 for no buffer
  pending_internal_read,
  is_final_chunk,
  is_front_of_stream,
  upload,                 \* "none", "initialized" or "failed"
  inits,                  \* number of UploadDataStream::Init calls
  uploaded,               \* the bytes the present attempt has received
  eof                     \* SetIsFinalChunk() in the present attempt

inputVars    == <<produced, consumed, closed, signalled, emptyReads>>
uploaderVars == <<pending_read_buffer, pending_internal_read, is_final_chunk,
                  is_front_of_stream>>
netVars      == <<upload, inits, uploaded, eof>>
uploadVars   == <<inputVars, pending_stream, uploaderVars, netVars>>
allVars      == <<vars, uploadVars>>

hasBytesAvailable == consumed < produced

(* The core listens to the stream of a chunked body, and is not in its loop *)
(* over the response.                                                       *)
Listening == body = "chunked" /\ stream_delegate /\ Idle

-----------------------------------------------------------------------------
UploaderInit ==
  /\ produced = 0 /\ consumed = 0
  /\ closed = FALSE
  /\ signalled = FALSE
  /\ emptyReads = 0
  /\ pending_stream = FALSE
  /\ pending_read_buffer = 0
  /\ pending_internal_read = FALSE
  /\ is_final_chunk = FALSE
  /\ is_front_of_stream = TRUE
  /\ upload = "none"
  /\ inits = 0
  /\ uploaded = <<>>
  /\ eof = FALSE

(* The owner of the stream; what it does while nobody listens is not seen.  *)
Produce ==
  /\ Listening
  /\ ~closed
  /\ IF produced < BodyLength
     THEN produced' = produced + 1 /\ UNCHANGED closed
     ELSE closed' = TRUE /\ UNCHANGED produced
  /\ UNCHANGED <<consumed, signalled, emptyReads, pending_stream, uploaderVars,
                 netVars, vars>>

(* What UploadDataStream gets from an Upload() that ends with n bytes.     *)
Complete(n) ==
  /\ pending_read_buffer' = 0
  /\ pending_internal_read' = FALSE
  /\ uploaded' = uploaded \o [k \in 1..n |-> consumed + k]

(* OnRead's ERR_IO_PENDING, or 0 bytes: the network's read stays pending.   *)
IsPending(n) == n = 0

(* The bytes OnRead may return for this buffer: none when there is no       *)
(* stream yet or it has none available.                                     *)
ReadableBytes(stream, buffer) ==
  IF ~stream \/ ~hasBytesAvailable
  THEN {0}
  ELSE (IF emptyReads < MaxEmptyReads THEN {0} ELSE {})
         \cup 1..Min({buffer, produced - consumed})

(* Mutant: forgets that the stream has been touched.                       *)
FrontAfterUpload_kept == is_front_of_stream

(* Upload() clears is_front_of_stream_ before anything else.               *)
FrontAfterUpload == FALSE

(* Whether Upload() gets to read from the stream.                          *)
Reads(final, stream) == ~final /\ stream /\ hasBytesAvailable

(* Upload(), unless the stream fails.                                      *)
Upload(final, stream, buffer) ==
  /\ is_front_of_stream' = FrontAfterUpload
  /\ IF final
     THEN eof' = TRUE /\ Complete(0) /\ UNCHANGED <<consumed, emptyReads>>
     ELSE \E n \in ReadableBytes(stream, buffer) :
            /\ consumed' = consumed + n
            /\ emptyReads' = IF Reads(final, stream) /\ n = 0
                             THEN emptyReads + 1 ELSE emptyReads
            /\ IF IsPending(n)
               THEN /\ pending_internal_read' = TRUE
                    /\ pending_read_buffer' = buffer
                    /\ UNCHANGED uploaded
               ELSE Complete(n)
            /\ UNCHANGED eof

(* Mutant: the data waits for the network's next read.                     *)
UploadsNow_never == FALSE

(* UploadWhenReady: put the data if the network's read came first.         *)
UploadsNow == pending_internal_read

UploadWhenReady(final, stream) ==
  /\ is_final_chunk' = final
  /\ IF UploadsNow
     THEN Upload(final, stream, pending_read_buffer)
     ELSE UNCHANGED <<pending_read_buffer, pending_internal_read,
                      is_front_of_stream, consumed, emptyReads, uploaded, eof>>

-----------------------------------------------------------------------------
(* The network transaction.                                                *)

(* It sends the body before the response has come.                         *)
Sending == body = "chunked" /\ net_request \in Loading

MayRead ==
  /\ Sending
  /\ upload = "initialized"
  /\ pending_read_buffer = 0
  /\ ~eof

(* UploadDataStream::Read.                                                 *)
ReadInternal ==
  /\ MayRead
  /\ \E buffer \in 1..MaxBuffer : Upload(is_final_chunk, pending_stream, buffer)
  /\ signalled' = (signalled /\ ~Reads(is_final_chunk, pending_stream))
  /\ UNCHANGED <<produced, closed, pending_stream, is_final_chunk, upload,
                 inits, vars>>

ResetInternal ==
  /\ pending_read_buffer' = 0
  /\ pending_internal_read' = FALSE
  /\ is_final_chunk' = FALSE

InitInternal ==
  upload' = IF is_front_of_stream THEN "initialized" ELSE "failed"

(* UploadDataStream::Init resets the stream and initializes it: when the    *)
(* transaction first sends the request, and when it starts over.            *)
InitUpload ==
  /\ Sending
  /\ upload # "failed"
  /\ inits < MaxInits
  /\ inits' = inits + 1
  /\ ResetInternal
  /\ InitInternal
  /\ uploaded' = <<>>
  /\ eof' = FALSE
  /\ UNCHANGED <<inputVars, pending_stream, is_front_of_stream, vars>>

-----------------------------------------------------------------------------
(* HttpProtocolHandlerCore.                                                *)

(* HandleStreamEvent, NSStreamEventHasBytesAvailable: the stream sends it   *)
(* again only after a read.                                                 *)
MaySignal == Listening /\ hasBytesAvailable /\ ~signalled

HasBytesAvailable ==
  /\ MaySignal
  /\ pending_stream' = TRUE
  /\ UploadWhenReady(FALSE, TRUE)
  /\ signalled' = ~UploadsNow
  /\ UNCHANGED <<produced, closed, upload, inits, vars>>

(* HandleStreamEvent, NSStreamEventEndEncountered: StopListeningStream and  *)
(* the final chunk.                                                         *)
EndEncountered ==
  /\ Listening
  /\ closed
  /\ ~hasBytesAvailable
  /\ stream_delegate' = FALSE
  /\ pending_stream' = FALSE
  /\ UploadWhenReady(TRUE, FALSE)
  /\ UNCHANGED <<produced, closed, signalled, upload, inits>>
  /\ UNCHANGED <<tracker, net_request, body, streamLeft, received>>
  /\ Silent
  /\ onIOThread

(* The request owns the uploader: both go, and the stream with them.       *)
UploaderDeleted ==
  /\ produced' = 0 /\ consumed' = 0 /\ emptyReads' = 0
  /\ closed' = FALSE /\ signalled' = FALSE
  /\ pending_stream' = FALSE
  /\ pending_read_buffer' = 0 /\ pending_internal_read' = FALSE
  /\ is_final_chunk' = FALSE /\ is_front_of_stream' = TRUE
  /\ upload' = "none" /\ inits' = 0 /\ uploaded' = <<>> /\ eof' = FALSE

(* A read of the stream fails in OnRead, which fails the request at once.   *)
OnReadFails ==
  /\ \/ MayRead /\ Reads(is_final_chunk, pending_stream)
     \/ MaySignal /\ UploadsNow
  /\ StopRequestWithError
  /\ onIOThread
  /\ UploaderDeleted

(* The transaction reports the ERR_FAILED of InitInternal.                 *)
InitFailed ==
  /\ Sending
  /\ upload = "failed"
  /\ StopRequestWithError
  /\ onIOThread
  /\ UploaderDeleted

-----------------------------------------------------------------------------
(* What the other handlers of the core do to the uploader.                 *)
UploaderFollows ==
  IF net_request # "null" /\ net_request' = "null"
  THEN UploaderDeleted ELSE UNCHANGED uploadVars

(* A step of the client thread or of the core; the network has nothing else *)
(* to tell of a request whose upload failed.                                *)
Load(step) == step /\ UploaderFollows
NetLoad(step) == upload # "failed" /\ Load(step)

UploadStep ==
  \/ Produce \/ ReadInternal \/ InitUpload \/ HasBytesAvailable
  \/ EndEncountered \/ OnReadFails \/ InitFailed

Next ==
  \/ Load(ClientStep)
  \/ Load(RunTask) \/ Load(StreamStep) \/ Load(ReadStep) \/ Load(LoseTracker)
  \/ NetLoad(NetStep)
  \/ UploadStep

(* The first initialization; a second one is up to the network.            *)
FirstInit == inits = 0 /\ InitUpload

(* The response is due once the body has been sent.                        *)
ResponseStarts == (body = "chunked" => eof) /\ NetLoad(OnResponseStarted)

(* The threads run what is posted to them, the streams and the network make *)
(* progress, the owner of a chunked body's stream closes it in the end, and *)
(* a certificate error does not come up for ever.  Nothing forces the       *)
(* system to stop, to resume or to start a request.                         *)
Fairness ==
  /\ WF_allVars(Load(RunTask))
  /\ WF_allVars(Load(StreamStep))
  /\ WF_allVars(ResponseStarts)
  /\ WF_allVars(Load(ReadStep))
  /\ WF_allVars(Load(performBlockOnClientThread))
  /\ WF_allVars(Load(RunQueuedBlock))
  /\ WF_allVars(Produce)
  /\ WF_allVars(HasBytesAvailable)
  /\ WF_allVars(EndEncountered)
  /\ WF_allVars(FirstInit)
  /\ WF_allVars(ReadInternal)
  /\ WF_allVars(InitFailed)

LoadInit == Init /\ UploaderInit
Spec == LoadInit /\ [][Next]_allVars
FairSpec == Spec /\ Fairness

-----------------------------------------------------------------------------
(* Properties.                                                             *)

(* Every variable of the load and of the uploader has its type, and no byte *)
(* is read that the stream does not hold.                                   *)
LoadTypeOK ==
  /\ TypeOK
  /\ produced \in 0..BodyLength /\ consumed \in 0..produced
  /\ emptyReads \in 0..MaxEmptyReads
  /\ {closed, signalled, pending_stream, pending_internal_read,
      is_final_chunk, is_front_of_stream, eof} \subseteq BOOLEAN
  /\ pending_read_buffer \in 0..MaxBuffer
  /\ upload \in {"none", "initialized", "failed"}
  /\ inits \in 0..MaxInits
  /\ uploaded \in Seq(1..BodyLength)

(* The DCHECK of Upload(): whenever UploadWhenReady would upload, the       *)
(* network's buffer is there, also after the transaction started over.      *)
PendingReadHasBuffer == pending_internal_read => pending_read_buffer # 0

(* An attempt that is under way has received the body from its first byte,  *)
(* each byte once and in order, and the body ends only after the last one:  *)
(* a transaction that starts over cannot send the rest of a stream that an  *)
(* earlier attempt began to read.                                           *)
AttemptSendsBody ==
  upload = "initialized" =>
    /\ uploaded = [k \in 1..Len(uploaded) |-> k]
    /\ eof => Len(uploaded) = BodyLength

(* What the attempt has received is what has been read from the stream, as  *)
(* long as it began at the front; the last chunk is only known once all of  *)
(* the stream has been read.                                                *)
UploadFollowsStream ==
  /\ upload = "initialized" => Len(uploaded) = consumed
  /\ upload = "none" => /\ is_front_of_stream /\ uploaded = <<>>
                        /\ pending_read_buffer = 0
  /\ is_front_of_stream => consumed = 0
  /\ pending_internal_read \/ eof => upload = "initialized"
  /\ closed => produced = BodyLength
  /\ is_final_chunk => closed /\ consumed = produced

(* The upload ends: the last chunk is announced to the network or the       *)
(* request goes, whichever of the network's read and the stream's events    *)
(* comes first each time; only a tracker that does not decide about a       *)
(* certificate may keep it waiting.                                         *)
UploadEnds ==
  body = "chunked" /\ net_request # "null" ~>
    eof \/ net_request = "null" \/ net_request = "held"

(* What the code's DCHECKs and unchecked pointers rely on: between the two  *)
(* threads, the body's stream and the network, nothing is used that is gone *)
(* and nothing comes after the end.                                         *)
LoadInv ==
  /\ LoadTypeOK
  /\ NoBlockAfterCompletion
  /\ StreamHasRequest
  /\ CoreOutlivesRequest
  /\ PendingReadHasBuffer
  /\ CoreKeepsOrder
  /\ LifeCycle
  /\ QueueDrains
  /\ CompletionWasDelivered
  /\ UploadFollowsStream

=============================================================================
