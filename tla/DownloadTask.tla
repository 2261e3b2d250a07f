---------------------------- MODULE DownloadTask -----------------------------
(***************************************************************************)
(* DownloadTaskImpl (web/download/download_task_impl.mm): a download by a  *)
(* background NSURLSession whose delegate queue hands every chunk to the   *)
(* UI thread and blocks until the chunk is written.                        *)
(*                                                                         *)
(* The n-th Start makes attempt n; its session task delivers the chunks    *)
(* <<n, 1>> .. <<n, Chunks>>.  The writer is external: it writes a chunk   *)
(* at once, later (ERR_IO_PENDING), or fails to; one that is destroyed     *)
(* drops its pending callback.  So is the session: a cancelled task still  *)
(* completes, with an error.  data: URLs and the byte counts are left out. *)
(***************************************************************************)
EXTENDS Naturals, Sequences

CONSTANTS
  Chunks,             \* the chunks of the file
  MaxStarts           \* bound: calls of Start

ASSUME DownloadAssumption == Chunks \in Nat \ {0} /\ MaxStarts \in Nat

VARIABLES
  alive,              \* the DownloadTaskImpl exists
  state, errorCode,   \* state_, error_code_ (0, or 1 for any error)
  attempt,            \* the number of Start calls
  writer,             \* writer_: the attempt it was given to, what it wrote,
                      \* whether a write failed, and its pending operation
  cookieCalls,        \* getAllCookies calls that have not called back
  sessionTask,        \* session_task_: its attempt, 0 for nil
  loading,            \* the chunks each unfinished session task has received
  queue,              \* the session's delegate queue, oldest first
  blocked,            \* the delegate queue waits for its semaphore
  ui                  \* what the delegate posted to the UI thread

taskVars == <<alive, state, errorCode, attempt, writer, cookieCalls, sessionTask, loading,
          queue, blocked, ui>>

NoTask == 0
NewWriter(a) == [of |-> a, wrote |-> <<>>, failed |-> FALSE, pending |-> <<>>]
NoWriter == NewWriter(0)
Data(a, n) == [kind |-> "data", of |-> a, chunk |-> n, error |-> 0]
Complete(a, e) == [kind |-> "complete", of |-> a, chunk |-> 0, error |-> e]

Event == [kind : {"data", "complete"}, of : 1 .. MaxStarts, chunk : 0 .. Chunks,
          error : {0, 1}]
Writers == [of : 0 .. MaxStarts, wrote : Seq(Nat \X Nat), failed : BOOLEAN,
            pending : Seq(Event)]

TaskTypeOK ==
  /\ alive \in BOOLEAN /\ blocked \in BOOLEAN
  /\ state \in {"kNotStarted", "kInProgress", "kCancelled", "kComplete"}
  /\ errorCode \in {0, 1} /\ attempt \in 0 .. MaxStarts /\ cookieCalls \in Nat
  /\ writer \in Writers
  /\ sessionTask \in 0 .. MaxStarts
  /\ DOMAIN loading \subseteq 1 .. MaxStarts
  /\ loading \in [DOMAIN loading -> 0 .. Chunks]
  /\ queue \in Seq(Event) /\ ui \in Seq(Event)
  /\ sessionTask # NoTask => state = "kInProgress"

TaskInit ==
  /\ alive = TRUE /\ state = "kNotStarted" /\ errorCode = 0 /\ attempt = 0
  /\ writer = NoWriter /\ cookieCalls = 0 /\ sessionTask = NoTask
  /\ loading = <<>> /\ queue = <<>> /\ blocked = FALSE /\ ui = <<>>

Without(f, a) == [x \in DOMAIN f \ {a} |-> f[x]]
-----------------------------------------------------------------------------
(* Start, with a new writer that replaces the previous one.  The download  *)
(* manager offers it for a new task and to retry a failed one.             *)
MayStart ==
  /\ alive
  /\ state = "kNotStarted" \/ (state = "kComplete" /\ errorCode # 0)

Start ==
  /\ MayStart /\ attempt < MaxStarts
  /\ attempt' = attempt + 1
  /\ writer' = NewWriter(attempt')
  /\ state' = "kInProgress"
  /\ cookieCalls' = cookieCalls + 1
  /\ UNCHANGED <<alive, errorCode, sessionTask, loading, queue, blocked, ui>>

(* StartWithCookies, through a weak pointer.                               *)
StartWithCookies ==
  /\ cookieCalls > 0
  /\ cookieCalls' = cookieCalls - 1
  /\ IF alive
     THEN /\ sessionTask' = attempt
          /\ loading' = [a \in DOMAIN loading \cup {attempt} |->
                           IF a = attempt THEN 0 ELSE loading[a]]
     ELSE UNCHANGED <<sessionTask, loading>>
  /\ UNCHANGED <<alive, state, errorCode, attempt, writer, queue, blocked, ui>>

(* [session_task_ cancel]: the session completes the task with an error    *)
(* once its delegate has been handed what is queued.                       *)
CancelSessionTask ==
  /\ sessionTask' = NoTask
  /\ IF sessionTask \in DOMAIN loading
     THEN /\ queue' = Append(queue, Complete(sessionTask, 1))
          /\ loading' = Without(loading, sessionTask)
     ELSE UNCHANGED <<queue, loading>>

(* Cancel; DownloadManagerTabHelper, which owns the task, destroys it in   *)
(* the OnDownloadUpdated callback.                                         *)
Cancel ==
  /\ alive
  /\ CancelSessionTask
  /\ state' = "kCancelled"
  /\ alive' = FALSE /\ writer' = NoWriter
  /\ UNCHANGED <<errorCode, attempt, cookieCalls, blocked, ui>>

(* The tab goes away, and the task with it.                                *)
Destroy ==
  /\ alive
  /\ CancelSessionTask
  /\ alive' = FALSE /\ writer' = NoWriter
  /\ UNCHANGED <<state, errorCode, attempt, cookieCalls, blocked, ui>>
-----------------------------------------------------------------------------
(* The network: a session task receives a chunk, completes or fails.       *)
ReceiveChunk(a) ==
  /\ a \in DOMAIN loading /\ loading[a] < Chunks
  /\ loading' = [loading EXCEPT ![a] = @ + 1]
  /\ queue' = Append(queue, Data(a, loading'[a]))
  /\ UNCHANGED <<alive, state, errorCode, attempt, writer, cookieCalls, sessionTask, blocked, ui>>

LoadEnds(a, e) ==
  /\ a \in DOMAIN loading
  /\ e = 0 => loading[a] = Chunks
  /\ loading' = Without(loading, a)
  /\ queue' = Append(queue, Complete(a, e))
  /\ UNCHANGED <<alive, state, errorCode, attempt, writer, cookieCalls, sessionTask, blocked, ui>>

(* Mutant: the queue does not wait for the write.                         *)
Waits_not(e) == FALSE

(* The delegate queue: didReceiveData posts the chunk and waits;           *)
(* didCompleteWithError posts the terminal callback.                       *)
Waits(e) == e.kind = "data"

RunDelegate ==
  /\ ~blocked /\ queue # <<>>
  /\ queue' = Tail(queue)
  /\ ui' = Append(ui, Head(queue))
  /\ blocked' = Waits(Head(queue))
  /\ UNCHANGED <<alive, state, errorCode, attempt, writer, cookieCalls, sessionTask, loading>>
-----------------------------------------------------------------------------
(* The UI thread runs the oldest posted block.                             *)
IsUI(kind) == ui # <<>> /\ Head(ui).kind = kind
Wrote(w, e) == [w EXCEPT !.wrote = Append(@, <<e.of, e.chunk>>)]
FailedToWrite(w) == [w EXCEPT !.failed = TRUE]

(* The data block of a live task: the chunk is written, the write is left  *)
(* pending, or it fails, which is not looked at.                           *)
WriteData ==
  /\ IsUI("data") /\ alive
  /\ \/ writer' = Wrote(writer, Head(ui)) /\ blocked' = FALSE
     \/ writer' = [writer EXCEPT !.pending = <<Head(ui)>>] /\ UNCHANGED blocked
     \/ writer' = FailedToWrite(writer) /\ blocked' = FALSE
  /\ ui' = Tail(ui)
  /\ UNCHANGED <<alive, state, errorCode, attempt, cookieCalls, sessionTask, loading, queue>>

(* ... and of a dead one: only the semaphore is signalled.                 *)
DropData ==
  /\ IsUI("data") /\ ~alive
  /\ ui' = Tail(ui) /\ blocked' = FALSE
  /\ UNCHANGED <<alive, state, errorCode, attempt, writer, cookieCalls, sessionTask, loading, queue>>

(* A pending write ends: its callback signals the semaphore.               *)
PendingIs(kind) == writer.pending # <<>> /\ Head(writer.pending).kind = kind

(* Mutant: the semaphore is not signalled.                                *)
BlockedAfterWrite_still == blocked

BlockedAfterWrite == FALSE

WriteEnds ==
  /\ PendingIs("data")
  /\ \/ writer' = [Wrote(writer, Head(writer.pending)) EXCEPT !.pending = <<>>]
     \/ writer' = [FailedToWrite(writer) EXCEPT !.pending = <<>>]
  /\ blocked' = BlockedAfterWrite
  /\ UNCHANGED <<alive, state, errorCode, attempt, cookieCalls, sessionTask, loading, queue, ui>>

(* OnDownloadFinished.                                                     *)
DownloadFinished(e) ==
  /\ errorCode' = e
  /\ state' = "kComplete"
  /\ sessionTask' = NoTask

(* The terminal properties block: the writer is finished, at once or       *)
(* later.                                                                  *)
FinishWriter ==
  /\ IsUI("complete")
  /\ ui' = Tail(ui)
  /\ \/ ~alive /\ UNCHANGED <<state, errorCode, sessionTask, writer>>
     \/ alive /\ DownloadFinished(Head(ui).error) /\ UNCHANGED writer
     \/ /\ alive /\ errorCode' = Head(ui).error
        /\ writer' = [writer EXCEPT !.pending = <<Head(ui)>>]
        /\ UNCHANGED <<state, sessionTask>>
  /\ UNCHANGED <<alive, attempt, cookieCalls, loading, queue, blocked>>

FinishEnds ==
  /\ PendingIs("complete")
  /\ writer' = [writer EXCEPT !.pending = <<>>]
  /\ DownloadFinished(Head(writer.pending).error)
  /\ UNCHANGED <<alive, attempt, cookieCalls, loading, queue, blocked, ui>>
-----------------------------------------------------------------------------
Step == StartWithCookies \/ RunDelegate \/ WriteData \/ DropData \/ WriteEnds
        \/ FinishWriter \/ FinishEnds
Network == \E a \in 1 .. MaxStarts :
             ReceiveChunk(a) \/ \E e \in {0, 1} : LoadEnds(a, e)
TaskNext == Start \/ Cancel \/ Destroy \/ Step \/ Network

TaskSpec == TaskInit /\ [][TaskNext]_taskVars

(* The threads run what is posted to them, WebKit calls back with the      *)
(* cookies, and a session task completes or times out.                     *)
TaskFairSpec ==
  /\ TaskSpec
  /\ WF_taskVars(StartWithCookies) /\ WF_taskVars(RunDelegate)
  /\ WF_taskVars(WriteData \/ DropData \/ FinishWriter)
  /\ WF_taskVars(WriteEnds \/ FinishEnds) /\ WF_taskVars(Network)
-----------------------------------------------------------------------------
(* The writer given to Start receives chunks of that attempt, in their     *)
(* order, and nothing of an earlier attempt: this is what makes a retry of *)
(* a failed download safe, though the callbacks carry no attempt.          *)
WriterHoldsItsDownload ==
  \A i \in DOMAIN writer.wrote :
    /\ writer.wrote[i][1] = writer.of
    /\ i > 1 => writer.wrote[i - 1][2] < writer.wrote[i][2]

(* A download that is complete without an error has been written           *)
(* completely, unless a write failed: nobody looks at that.                *)
CompleteMeansWritten ==
  alive /\ state = "kComplete" /\ errorCode = 0 /\ ~writer.failed
    => Len(writer.wrote) = Chunks

(* A download in progress ends: no callback or semaphore keeps it waiting. *)
DownloadTaskEnds == (alive /\ state = "kInProgress") ~> (~alive \/ state # "kInProgress")

(* The events of the running attempt, in line.  The UI thread is done with  *)
(* k chunks; at most one event is handed to it or to the writer, and the    *)
(* queue waits exactly while this is a chunk; the queue and the session     *)
(* task hold the chunks that follow, and nothing of another attempt.        *)
NoneHanded == writer.pending = <<>> /\ ui = <<>>
Handed(e) ==
  \/ writer.pending = <<e>> /\ ui = <<>>
  \/ writer.pending = <<>> /\ ui = <<e>>

(* p chunks have left the queue: it holds the next ones, of a session task  *)
(* that goes on, or of one whose completion is the last in the queue.       *)
StillLoads(p) ==
  /\ DOMAIN loading = {attempt}
  /\ loading[attempt] = p + Len(queue)
  /\ \A i \in 1 .. Len(queue) : queue[i] = Data(attempt, p + i)

HasEnded(p) ==
  /\ DOMAIN loading = {}
  /\ queue # <<>> /\ p + Len(queue) - 1 <= Chunks
  /\ \A i \in 1 .. Len(queue) - 1 : queue[i] = Data(attempt, p + i)
  /\ \E e \in {0, 1} : /\ queue[Len(queue)] = Complete(attempt, e)
                       /\ e = 0 => p + Len(queue) - 1 = Chunks

InLine(k) ==
  /\ \A i \in DOMAIN writer.wrote : writer.wrote[i][2] <= k
  /\ ~writer.failed => Len(writer.wrote) = k
  /\ \/ NoneHanded /\ ~blocked /\ (StillLoads(k) \/ HasEnded(k))
     \/ /\ k < Chunks /\ Handed(Data(attempt, k + 1)) /\ blocked
        /\ StillLoads(k + 1) \/ HasEnded(k + 1)
     \/ \E e \in {0, 1} : /\ Handed(Complete(attempt, e)) /\ ~blocked
                          /\ e = 0 => k = Chunks
                          /\ queue = <<>> /\ DOMAIN loading = {}

NothingUnderWay ==
  /\ NoneHanded /\ ~blocked
  /\ queue = <<>> /\ DOMAIN loading = {} /\ sessionTask = NoTask

(* One attempt at a time is under way, from its Start to its completion, so *)
(* that a retry starts when nothing of the failed attempt is left: neither  *)
(* a block, nor a queued chunk, nor a pending write.                        *)
OneAttemptUnderWay ==
  IF ~alive THEN writer = NoWriter
  ELSE /\ state # "kCancelled" /\ writer.of = attempt
       /\ state # "kInProgress" => cookieCalls = 0 /\ NothingUnderWay
       /\ state = "kInProgress" =>
            /\ attempt > 0
            /\ \/ /\ cookieCalls = 1 /\ NothingUnderWay
                  /\ writer.wrote = <<>> /\ ~writer.failed
               \/ /\ cookieCalls = 0 /\ sessionTask = attempt
                  /\ \E k \in 0 .. Chunks : InLine(k)

(* A writer holds chunks of its own download in order, and all of them when *)
(* the download is complete.                                                *)
TaskInv ==
  /\ TaskTypeOK
  /\ OneAttemptUnderWay
  /\ WriterHoldsItsDownload
  /\ CompleteMeansWritten

=============================================================================
