--------------------------- MODULE URLDownloader ---------------------------
(***************************************************************************)
(* URLDownloader (chrome/browser/reading_list): offline copies of pages.    *)
(*                                                                         *)
(* DELETE and DOWNLOAD tasks wait in tasks_ and are handled one at a time.  *)
(* A task goes through jobs that end elsewhere: file operations on          *)
(* task_runner_ whose replies come back to the main thread, the distiller,  *)
(* and the loader of PDF files.  Between two of these the main thread may   *)
(* run any caller of the public operations.                                 *)
(*                                                                         *)
(* Data left out: titles, sizes, the text and the images of a page, the URL *)
(* after redirections.  What a save leaves on the disk is "none", "partial" *)
(* (a directory without its page) or "page".                                *)
(***************************************************************************)
EXTENDS Naturals, Sequences, SequencesExt

CONSTANT Urls

VARIABLES
  tasks,       \* tasks_
  working,     \* working_
  distiller,   \* whether distiller_ is set
  mime,        \* mime_type_: "" at first, "pdf", or "other"
  job,         \* what the current task waits for
  disk         \* the offline directory of each URL

downloaderVars == <<tasks, working, distiller, mime, job, disk>>

Task == [type : {"DELETE", "DOWNLOAD"}, url : Urls]
SuccessState == {"DOWNLOAD_SUCCESS", "DOWNLOAD_EXISTS", "ERROR"}
Files == {"none", "partial", "page"}

DELETE(u) == [type |-> "DELETE", url |-> u]
DOWNLOAD(u) == [type |-> "DOWNLOAD", url |-> u]

(* A job is posted, then done; result is what its reply carries.           *)
JobsOf(steps, done, results) ==
  [step : steps, url : Urls, done : done, result : results]
Job ==
  UNION {JobsOf({"delete", "cleanup"}, BOOLEAN, {""}),
         JobsOf({"exists", "save", "distill", "fetch"}, {FALSE}, {""}),
         JobsOf({"exists"}, {TRUE}, {"path", "missing"}),
         JobsOf({"save"}, {TRUE}, {"DOWNLOAD_SUCCESS", "ERROR"})}
NoJob == [step |-> "none"]
Posted(step, u) == [step |-> step, url |-> u, done |-> FALSE, result |-> ""]
Doing(step) == job.step = step /\ ~job.done
Done(step) == job.step = step /\ job.done

DownloaderTypeOK ==
  /\ tasks \in Seq(Task)
  /\ working \in BOOLEAN
  /\ distiller \in BOOLEAN
  /\ mime \in {"", "pdf", "other"}
  /\ job \in Job \cup {NoJob}
  /\ disk \in [Urls -> Files]

DownloaderInit ==
  /\ tasks = <<>>
  /\ working = FALSE
  /\ distiller = FALSE
  /\ mime = ""
  /\ job = NoJob

-----------------------------------------------------------------------------
(* The queue.  HandleNextTask(ts, busy) is the call with tasks_ = ts and    *)
(* working_ = busy.                                                         *)

FirstJob(t) == Posted(IF t.type = "DELETE" THEN "delete" ELSE "exists", t.url)

HandleNextTask(ts, busy) ==
  IF busy \/ ts = <<>>
  THEN /\ tasks' = ts
       /\ working' = busy
       /\ job' = IF busy THEN job ELSE NoJob
  ELSE /\ working' = TRUE
       /\ tasks' = Tail(ts)
       /\ job' = FirstJob(Head(ts))

(* std::remove and erase: what is left of ts without the tasks of S.       *)
Erase(ts, S) ==
  LET left[n \in 0 .. Len(ts)] ==
        IF n = 0 THEN <<>>
        ELSE IF ts[n] \in S THEN left[n - 1] ELSE Append(left[n - 1], ts[n])
  IN left[Len(ts)]

WithoutDownload(u) == Erase(tasks, {DOWNLOAD(u)})

CancelDownloadOfflineURL(u) ==
  /\ tasks' = WithoutDownload(u)
  /\ UNCHANGED <<working, distiller, mime, job, disk>>

(* Mutant: a URL whose download is still queued needs no deletion.         *)
RemoveOfflineURL_cancel(u) ==
  IF Contains(tasks, DOWNLOAD(u))
  THEN CancelDownloadOfflineURL(u)
  ELSE /\ HandleNextTask(Append(tasks, DELETE(u)), working)
       /\ UNCHANGED <<distiller, mime, disk>>

RemoveOfflineURL(u) ==
  /\ HandleNextTask(Append(WithoutDownload(u), DELETE(u)), working)
  /\ UNCHANGED <<distiller, mime, disk>>

DownloadOfflineURL(u) ==
  /\ IF Contains(tasks, DOWNLOAD(u))
     THEN UNCHANGED <<tasks, working, job>>
     ELSE HandleNextTask(Append(tasks, DOWNLOAD(u)), working)
  /\ UNCHANGED <<distiller, mime, disk>>

-----------------------------------------------------------------------------
(* The file operations, on task_runner_.                                   *)

RunDeleteFile ==
  /\ \E step \in {"delete", "cleanup"} : Doing(step)
  /\ disk' = [disk EXCEPT ![job.url] = "none"]
  /\ job' = [job EXCEPT !.done = TRUE]
  /\ UNCHANGED <<tasks, working, distiller, mime>>

RunPathExists ==
  /\ Doing("exists")
  /\ job' = [job EXCEPT !.done = TRUE,
                        !.result = IF disk[job.url] = "none"
                                   THEN "missing" ELSE "path"]
  /\ UNCHANGED <<tasks, working, distiller, mime, disk>>

(* SaveDistilledHTML and SavePDFFile: creating the directory may fail, and  *)
(* so may writing the images or the page into it.                           *)
RunSave ==
  /\ Doing("save")
  /\ \E outcome \in {<<disk[job.url], "ERROR">>, <<"partial", "ERROR">>,
                     <<"page", "DOWNLOAD_SUCCESS">>} :
       /\ disk' = [disk EXCEPT ![job.url] = outcome[1]]
       /\ job' = [job EXCEPT !.done = TRUE, !.result = outcome[2]]
  /\ UNCHANGED <<tasks, working, distiller, mime>>

-----------------------------------------------------------------------------
(* The replies, the distiller and the loader, on the main thread.          *)

(* DownloadURL for a URL that has no offline copy.                         *)
StartDistiller ==
  /\ Done("exists") /\ job.result = "missing"
  /\ distiller' = TRUE
  /\ job' = Posted("distill", job.url)
  /\ UNCHANGED <<tasks, working, mime, disk>>

(* DownloadCompletionHandler with ERROR: clean up any partial download.    *)
CleanUpPartial == job' = Posted("cleanup", job.url)

(* The distiller's page tells the MIME type of what it loaded, if it did;   *)
(* only HTML can be distilled, and the distillation may find nothing.       *)
DistillerCallback ==
  /\ Doing("distill")
  /\ \E mimeType \in {mime, "pdf", "other"}, empty \in BOOLEAN :
       /\ empty \/ mimeType = "other"
       /\ mime' = mimeType
       /\ IF ~empty THEN job' = Posted("save", job.url)
          ELSE IF mimeType = "pdf" THEN job' = Posted("fetch", job.url)
          ELSE CleanUpPartial
  /\ UNCHANGED <<tasks, working, distiller, disk>>

OnURLLoadComplete ==
  /\ Doing("fetch")
  /\ CleanUpPartial \/ job' = Posted("save", job.url)
  /\ UNCHANGED <<tasks, working, distiller, mime, disk>>

SaveFailed ==
  /\ Done("save") /\ job.result = "ERROR"
  /\ CleanUpPartial
  /\ UNCHANGED <<tasks, working, distiller, mime, disk>>

(* Mutant: a failed download is reported before its files are removed.     *)
Outcome_early(success) ==
  \/ Done("exists") /\ job.result = "path" /\ success = "DOWNLOAD_EXISTS"
  \/ Done("save") /\ job.result = success

(* How a download may end, as DownloadCompletionHandler is told.           *)
Outcome(success) ==
  \/ Done("exists") /\ job.result = "path" /\ success = "DOWNLOAD_EXISTS"
  \/ Done("save") /\ job.result = "DOWNLOAD_SUCCESS" /\ success = job.result
  \/ Done("cleanup") /\ success = "ERROR"

DistillerAfterDownload == FALSE

WorkingAfterDownload(success) == FALSE

(* post_delete: the client hears of the end of the download of u, then the  *)
(* next task starts.                                                        *)
PostDelete(u, success) ==
  /\ Outcome(success)
  /\ u = job.url
  /\ distiller' = DistillerAfterDownload
  /\ HandleNextTask(tasks, WorkingAfterDownload(success))
  /\ UNCHANGED <<mime, disk>>

DeleteCompletionHandler ==
  /\ Done("delete")
  /\ HandleNextTask(tasks, FALSE)
  /\ UNCHANGED <<distiller, mime, disk>>

(* Every step of the downloader that the client does not hear of.          *)
SilentStep ==
  \/ RunDeleteFile \/ RunPathExists \/ RunSave
  \/ StartDistiller \/ DistillerCallback \/ OnURLLoadComplete \/ SaveFailed
  \/ DeleteCompletionHandler

-----------------------------------------------------------------------------
(* DCHECK(!distiller_) in HandleNextTask: a download starts only when no    *)
(* distiller of an earlier one is left.                                     *)
DistillerIsFree == job.step = "exists" => ~distiller

(* A task is handled at a time, and the next one as soon as it is done; the *)
(* distiller belongs to it.                                                 *)
OneTaskAtATime ==
  /\ working <=> job # NoJob
  /\ ~working => tasks = <<>>
  /\ distiller => job.step \in {"distill", "fetch", "save", "cleanup"}

(* A deletion that is queued comes before the downloads of its URL: those   *)
(* that were queued before it were cancelled.                               *)
DeletionsComeFirst ==
  \A u \in Urls : \A i, j \in 1 .. Len(tasks) :
    i < j /\ tasks[i] = DOWNLOAD(u) => tasks[j] # DELETE(u)

(* What a file operation has left on the disk until its reply is handled,   *)
(* whatever CleanUpFiles deletes meanwhile.                                 *)
FilesOfDoneJob ==
  job # NoJob /\ job.done =>
    /\ job.step \in {"delete", "cleanup"} => disk[job.url] = "none"
    /\ job.step = "save" /\ job.result = "DOWNLOAD_SUCCESS" => disk[job.url] # "partial"
=============================================================================
