------------------------ MODULE ReadingListDownload ------------------------
(***************************************************************************)
(* ReadingListDownloadService and ReadingListRemoverHelper                  *)
(* (chrome/browser/reading_list) over URLDownloader: which entries of the   *)
(* reading list are downloaded, when, and what the entries then say.        *)
(*                                                                         *)
(* Around them: the ReadingListModel (external, persistent), the network    *)
(* connection, whose changes are posted to the service after they have      *)
(* taken effect, the timers of the retries, CleanUpFiles on a runner of its *)
(* own at the start, and the end of the program at any moment.              *)
(***************************************************************************)
EXTENDS URLDownloader, FiniteSets

CONSTANTS
  kNumberOfFailsBeforeWifiOnly,
  kNumberOfFailsBeforeStop,
  MaxUserOps,       \* bound: changes of the list by the user
  MaxConnections,   \* bound: changes of the connection
  MaxRestarts       \* bound: ends of the program

ASSUME ServiceAssumption ==
  /\ IsFiniteSet(Urls)
  /\ kNumberOfFailsBeforeWifiOnly \in Nat
  /\ kNumberOfFailsBeforeStop \in Nat \ {0}
  /\ kNumberOfFailsBeforeWifiOnly <= kNumberOfFailsBeforeStop
  /\ {MaxUserOps, MaxConnections, MaxRestarts} \subseteq Nat

VARIABLES
  entries,          \* the reading list, and whether each entry is read
  loaded,           \* ReadingListModel::loaded()
  timers,           \* posted DownloadEntry tasks of each URL
  url_to_download_cellular, url_to_download_wifi,  \* occurrences of each URL
  had_connection,
  connection,       \* what NetworkConnectionTracker answers
  notices,          \* OnConnectionChanged calls not yet made
  cleanup,          \* CleanUpFiles and its reply
  remover,          \* ReadingListRemoverHelper
  userOps, connections, restarts

listVars    == <<entries, loaded>>
waitingVars == <<timers, url_to_download_cellular, url_to_download_wifi>>
netVars     == <<had_connection, connection, notices>>
boundVars   == <<userOps, connections, restarts>>
vars == <<downloaderVars, listVars, waitingVars, netVars, cleanup, remover,
          boundVars>>

DistilledState ==
  {"WAITING", "PROCESSING", "PROCESSED", "WILL_RETRY", "DISTILLATION_ERROR"}
Connection == {"none", "cellular", "wifi"}
Entry == [state : DistilledState, read : BOOLEAN,
          fails : 0..kNumberOfFailsBeforeStop]
Absent == [state |-> "absent"]
NewEntry == [state |-> "WAITING", read |-> FALSE, fails |-> 0]
Has(es, u) == es[u] # Absent

NoCleanUp == [phase |-> "none"]
CleanUpIn(phases, todos) ==
  [phase : phases, keep : SUBSET Urls, todo : todos, unprocessed : SUBSET Urls]
CleanUp == CleanUpIn({"posted", "done"}, {{}}) \cup
           CleanUpIn({"deleting"}, SUBSET Urls)

TypeOK ==
  /\ DownloaderTypeOK
  /\ entries \in [Urls -> Entry \cup {Absent}]
  /\ loaded \in BOOLEAN
  /\ timers \in [Urls -> Nat]
  /\ url_to_download_cellular \in [Urls -> Nat]
  /\ url_to_download_wifi \in [Urls -> Nat]
  /\ had_connection \in BOOLEAN
  /\ connection \in Connection
  /\ notices \in Seq(Connection)
  /\ cleanup \in CleanUp \cup {NoCleanUp}
  /\ remover \in {"none", "waiting", "posted"}
  /\ userOps \in 0..MaxUserOps
  /\ connections \in 0..MaxConnections
  /\ restarts \in 0..MaxRestarts

None == [u \in Urls |-> 0]
Plus(f, S) == [u \in Urls |-> IF u \in S THEN f[u] + 1 ELSE f[u]]

(* What the constructor sets, and a model that has not loaded.             *)
Started ==
  /\ loaded' = FALSE
  /\ timers' = None
  /\ url_to_download_cellular' = None
  /\ url_to_download_wifi' = None
  /\ had_connection' = (connection # "none")
  /\ notices' = <<>>
  /\ cleanup' = NoCleanUp
  /\ remover' = "none"

(* What an earlier session left: an entry with a copy, one without, or      *)
(* none; and the files of a removal or a download that was cut short.       *)
Init ==
  /\ DownloaderInit
  /\ entries \in [Urls -> {Absent, NewEntry,
                           [NewEntry EXCEPT !.state = "PROCESSED"]}]
  /\ disk \in [Urls -> Files]
  /\ \A u \in Urls : entries[u].state = "PROCESSED" => disk[u] = "page"
  /\ loaded = FALSE
  /\ timers = None
  /\ url_to_download_cellular = None
  /\ url_to_download_wifi = None
  /\ connection \in {"none", "wifi"}
  /\ had_connection = (connection # "none")
  /\ notices = <<>>
  /\ cleanup = NoCleanUp
  /\ remover = "none"
  /\ userOps = 0 /\ connections = 0 /\ restarts = 0

-----------------------------------------------------------------------------
(* ReadingListModel (external).                                            *)

Failed == {"WILL_RETRY", "DISTILLATION_ERROR"}

(* SetEntryDistilledState counts a failure when a download turns into one.  *)
SetEntryDistilledState(u, s) ==
  entries' =
    IF ~Has(entries, u) THEN entries
    ELSE [entries EXCEPT ![u].state = s,
                         ![u].fails = IF s \in Failed /\ entries[u].state \notin Failed
                                      THEN @ + 1 ELSE @]

SetEntryDistilledInfo(u) ==
  entries' = IF ~Has(entries, u) THEN entries
             ELSE [entries EXCEPT ![u].state = "PROCESSED", ![u].fails = 0]

-----------------------------------------------------------------------------
(* Scheduling.                                                             *)

(* The test that both ScheduleDownloadEntry and DownloadEntry begin with.   *)
ToDownload(es, u) ==
  /\ Has(es, u)
  /\ es[u].state \notin {"DISTILLATION_ERROR", "PROCESSED"}
  /\ ~es[u].read

(* ScheduleDownloadEntry for the URLs of S: a delayed task for each that    *)
(* passes the test in the list es.                                          *)
Schedule(S, es) == timers' = Plus(timers, {u \in S : ToDownload(es, u)})

(* Mutant: every entry waits for wifi.                                     *)
SaveForLater_wifi(u) ==
  /\ url_to_download_wifi' = Plus(url_to_download_wifi,
       {v \in {u} : entries[u].fails < kNumberOfFailsBeforeStop})
  /\ UNCHANGED url_to_download_cellular

(* DownloadEntry without a connection, or without the wifi it needs.       *)
SaveForLater(u) ==
  /\ url_to_download_cellular' = Plus(url_to_download_cellular,
       {v \in {u} : entries[u].fails < kNumberOfFailsBeforeWifiOnly})
  /\ url_to_download_wifi' = Plus(url_to_download_wifi,
       {v \in {u} : entries[u].fails < kNumberOfFailsBeforeStop})

MayDownloadNow(u) ==
  /\ connection # "none"
  /\ \/ entries[u].fails < kNumberOfFailsBeforeWifiOnly
     \/ connection = "wifi" /\ entries[u].fails < kNumberOfFailsBeforeStop

(* A timer fires.                                                          *)
DownloadEntry(u) ==
  /\ timers[u] > 0
  /\ timers' = [timers EXCEPT ![u] = @ - 1]
  /\ IF ToDownload(entries, u)
     THEN IF MayDownloadNow(u)
          THEN /\ SetEntryDistilledState(u, "PROCESSING")
               /\ DownloadOfflineURL(u)
               /\ UNCHANGED <<url_to_download_cellular, url_to_download_wifi>>
          ELSE /\ SaveForLater(u)
               /\ UNCHANGED <<downloaderVars, entries>>
     ELSE UNCHANGED <<downloaderVars, entries, url_to_download_cellular,
                      url_to_download_wifi>>
  /\ UNCHANGED <<loaded, netVars, cleanup, remover, boundVars>>

(* OnDownloadEnd.  The path that comes with DOWNLOAD_EXISTS is empty, which *)
(* makes it an ERROR.                                                       *)
OnDownloadEnd(u, success) ==
  IF success = "DOWNLOAD_SUCCESS"
  THEN SetEntryDistilledInfo(u) /\ UNCHANGED timers
  ELSE IF Has(entries, u) /\ entries[u].fails + 1 < kNumberOfFailsBeforeStop
       THEN SetEntryDistilledState(u, "WILL_RETRY") /\ Schedule({u}, entries')
       ELSE SetEntryDistilledState(u, "DISTILLATION_ERROR") /\ UNCHANGED timers

DownloadEnds ==
  /\ \E u \in Urls, s \in SuccessState : PostDelete(u, s) /\ OnDownloadEnd(u, s)
  /\ UNCHANGED <<loaded, url_to_download_cellular, url_to_download_wifi, netVars,
                 cleanup, remover, boundVars>>

DownloaderStep ==
  /\ SilentStep
  /\ UNCHANGED <<listVars, waitingVars, netVars, cleanup, remover, boundVars>>

-----------------------------------------------------------------------------
(* The start: SyncWithModel, CleanUpFiles, DownloadUnprocessedEntries.     *)

SyncWithModel(es) ==
  cleanup' = [phase |-> "posted",
              keep |-> {u \in Urls : es[u].state = "PROCESSED"},
              todo |-> {},
              unprocessed |-> {u \in Urls : es[u].state \in
                                 {"WAITING", "PROCESSING", "WILL_RETRY"}}]

Listed == {u \in Urls : Has(entries, u)}
Downloads(S) == {DOWNLOAD(u) : u \in S}
Deletions(order) == [i \in DOMAIN order |-> DELETE(order[i])]

(* DeleteAllEntries: ReadingListWillRemoveEntry for every entry, in the     *)
(* order of the URLs.                                                       *)
DeleteAllEntries ==
  \E order \in SetToSeqs(Listed) :
    /\ entries' = [u \in Urls |-> Absent]
    /\ HandleNextTask(Erase(tasks, Downloads(Listed)) \o Deletions(order), working)
    /\ UNCHANGED <<distiller, mime, disk>>

RemoverWaits == remover = "waiting"

(* Every observer hears of the loaded model; a remover that waits for it    *)
(* then empties it.                                                         *)
ReadingListModelLoaded ==
  /\ ~loaded
  /\ loaded' = TRUE
  /\ SyncWithModel(entries)
  /\ IF RemoverWaits
     THEN DeleteAllEntries /\ remover' = "posted"
     ELSE UNCHANGED <<downloaderVars, entries, remover>>
  /\ UNCHANGED <<waitingVars, netVars, boundVars>>

(* Mutant: directories without a page are not looked at.                   *)
DirectoriesToDelete_pages == {u \in Urls : disk[u] = "page"} \ cleanup.keep

DirectoriesToDelete == {u \in Urls : disk[u] # "none"} \ cleanup.keep

CleanUpScan ==
  /\ cleanup.phase = "posted"
  /\ cleanup' = [cleanup EXCEPT !.phase = "deleting",
                                !.todo = DirectoriesToDelete]
  /\ UNCHANGED <<downloaderVars, listVars, waitingVars, netVars, remover, boundVars>>

CleanUpEnds == cleanup.todo = {}

CleanUpDelete ==
  /\ cleanup.phase = "deleting"
  /\ \/ \E u \in cleanup.todo :
          /\ disk' = [disk EXCEPT ![u] = "none"]
          /\ cleanup' = [cleanup EXCEPT !.todo = @ \ {u}]
     \/ /\ CleanUpEnds
        /\ cleanup' = [cleanup EXCEPT !.phase = "done"]
        /\ UNCHANGED disk
  /\ UNCHANGED <<tasks, working, distiller, mime, job, listVars, waitingVars,
                 netVars, remover, boundVars>>

DownloadUnprocessedEntries ==
  /\ cleanup.phase = "done"
  /\ Schedule(cleanup.unprocessed, entries)
  /\ cleanup' = NoCleanUp
  /\ UNCHANGED <<downloaderVars, listVars, url_to_download_cellular,
                 url_to_download_wifi, netVars, remover, boundVars>>

-----------------------------------------------------------------------------
(* The user.                                                               *)

UserStep(op) ==
  /\ loaded \/ op = "removeAll"
  /\ userOps < MaxUserOps
  /\ userOps' = userOps + 1
  /\ UNCHANGED <<loaded, netVars, cleanup, connections, restarts>>

(* Adding replaces an entry of the same URL: ReadingListWillRemoveEntry,    *)
(* then ReadingListDidAddEntry.                                             *)
AddEntry(u) ==
  /\ UserStep("add")
  /\ entries' = [entries EXCEPT ![u] = NewEntry]
  /\ IF Has(entries, u) THEN RemoveOfflineURL(u) ELSE UNCHANGED downloaderVars
  /\ Schedule({u}, entries')
  /\ UNCHANGED <<url_to_download_cellular, url_to_download_wifi, remover>>

RemoveEntry(u) ==
  /\ UserStep("remove")
  /\ Has(entries, u)
  /\ entries' = [entries EXCEPT ![u] = Absent]
  /\ RemoveOfflineURL(u)
  /\ UNCHANGED <<waitingVars, remover>>

(* Marking an entry read or unread moves it: ReadingListDidMoveEntry.      *)
MoveEntry(u) ==
  /\ UserStep("move")
  /\ Has(entries, u)
  /\ entries' = [entries EXCEPT ![u].read = ~@]
  /\ IF entries'[u].read
     THEN CancelDownloadOfflineURL(u) /\ UNCHANGED timers
     ELSE Schedule({u}, entries') /\ UNCHANGED downloaderVars
  /\ UNCHANGED <<url_to_download_cellular, url_to_download_wifi, remover>>

RemoveAllUserReadingListItemsIOS ==
  /\ UserStep("removeAll")
  /\ remover = "none"
  /\ IF loaded
     THEN DeleteAllEntries /\ remover' = "posted"
     ELSE remover' = "waiting" /\ UNCHANGED <<downloaderVars, entries>>
  /\ UNCHANGED waitingVars

(* The remover's completion, a posted task.                                *)
ReadlingListItemsRemoved ==
  /\ remover = "posted"
  /\ remover' = "none"
  /\ UNCHANGED <<downloaderVars, listVars, waitingVars, netVars, cleanup, boundVars>>

-----------------------------------------------------------------------------
(* The connection.                                                         *)

ConnectionChanges ==
  /\ connections < MaxConnections
  /\ connections' = connections + 1
  /\ \E c \in Connection \ {connection} :
       connection' = c /\ notices' = Append(notices, c)
  /\ UNCHANGED <<downloaderVars, listVars, waitingVars, had_connection, cleanup,
                 remover, userOps, restarts>>

OnConnectionChanged ==
  /\ notices # <<>>
  /\ LET type == Head(notices)
         Waiting(f) == {u \in Urls : f[u] > 0 /\ ToDownload(entries, u)}
         cellular == ~had_connection /\ type # "none"
     IN /\ had_connection' = (type # "none")
        /\ timers' = [u \in Urls |->
             timers[u]
             + (IF cellular /\ u \in Waiting(url_to_download_cellular)
                THEN url_to_download_cellular[u] ELSE 0)
             + (IF type = "wifi" /\ u \in Waiting(url_to_download_wifi)
                THEN url_to_download_wifi[u] ELSE 0)]
  /\ notices' = Tail(notices)
  /\ UNCHANGED <<downloaderVars, listVars, url_to_download_cellular,
                 url_to_download_wifi, connection, cleanup, remover, boundVars>>

-----------------------------------------------------------------------------
(* The program ends, at any moment, and starts again.                      *)
Restart ==
  /\ restarts < MaxRestarts
  /\ restarts' = restarts + 1
  /\ tasks' = <<>> /\ working' = FALSE /\ distiller' = FALSE /\ mime' = ""
  /\ job' = NoJob
  /\ Started
  /\ UNCHANGED <<disk, entries, connection, userOps, connections>>

ServiceStep ==
  \/ DownloaderStep \/ DownloadEnds
  \/ ReadingListModelLoaded \/ CleanUpScan \/ CleanUpDelete
  \/ DownloadUnprocessedEntries \/ ReadlingListItemsRemoved
  \/ OnConnectionChanged

Next ==
  \/ ServiceStep
  \/ \E u \in Urls : DownloadEntry(u) \/ AddEntry(u) \/ RemoveEntry(u) \/ MoveEntry(u)
  \/ RemoveAllUserReadingListItemsIOS
  \/ ConnectionChanges \/ Restart

Spec == Init /\ [][Next]_vars

(* Posted tasks, replies and timers run; the distiller and the loader       *)
(* answer.  The user and the network owe nothing.                           *)
FairSpec ==
  /\ Spec
  /\ WF_vars(ServiceStep)
  /\ \A u \in Urls : WF_vars(DownloadEntry(u))

-----------------------------------------------------------------------------
Handled(u) == job # NoJob /\ job.url = u
Deleting(u) == Contains(tasks, DELETE(u)) \/ (job.step = "delete" /\ job.url = u)

CleanedUpAtStart(u) ==
  \/ cleanup.phase = "posted" /\ u \notin cleanup.keep
  \/ cleanup.phase = "deleting" /\ u \in cleanup.todo

(* Files of a URL that is not in the list are about to go: a deletion is    *)
(* queued or running, or the CleanUpFiles of this start will find them.     *)
(* An entry that is removed while its download is in progress, whose timer  *)
(* fires after the removal, or that was removed just before the program     *)
(* ended, leaves nothing for ever on the disk.                              *)
NoOrphanFiles ==
  \A u \in Urls : loaded /\ ~Has(entries, u) /\ disk[u] # "none" =>
    Deleting(u) \/ CleanedUpAtStart(u)

(* A reported failure has left no partial copy behind, which a retry would  *)
(* take for an offline version: of an entry that is not PROCESSED there is  *)
(* a partial copy only while its own task is handled, until a deletion that *)
(* comes before the next download, or from an earlier session, whose files  *)
(* are cleaned up before the first download.                                *)
PartialCopyIsCleanedUp ==
  \A u \in Urls :
    loaded /\ disk[u] = "partial" /\ entries[u].state # "PROCESSED" =>
      Handled(u) \/ Contains(tasks, DELETE(u)) \/ CleanedUpAtStart(u)

(* No download starts on a partial copy: a copy of a PROCESSED entry, which *)
(* the end of the program may have made partial, is not downloaded again,   *)
(* and the others are deleted first.                                        *)
NoDownloadOverPartialCopy ==
  \A u \in Urls : loaded /\ disk[u] = "partial" =>
    \/ Contains(tasks, DELETE(u)) \/ CleanedUpAtStart(u)
    \/ Handled(u) /\ job.step # "exists"
    \/ /\ entries[u].state = "PROCESSED"
       /\ ~Contains(tasks, DOWNLOAD(u)) /\ ~Handled(u)

(* A URL that was removed from the list is not downloaded any more, but for *)
(* a download that had begun, after which its files are deleted.            *)
RemovedIsDeletedLast ==
  \A u \in Urls : loaded /\ ~Has(entries, u) =>
    /\ ~Contains(tasks, DOWNLOAD(u))
    /\ Handled(u) /\ job.step # "delete" => Contains(tasks, DELETE(u))

(* Nothing is under way until the list is loaded.                          *)
NothingBeforeLoad ==
  ~loaded => /\ tasks = <<>> /\ job = NoJob /\ cleanup = NoCleanUp /\ timers = None
             /\ url_to_download_cellular = None /\ url_to_download_wifi = None

(* Only an entry that is given up has failed kNumberOfFailsBeforeStop       *)
(* times.                                                                   *)
FailuresAreCounted ==
  \A u \in Urls : Has(entries, u) /\ entries[u].state # "DISTILLATION_ERROR" =>
    entries[u].fails < kNumberOfFailsBeforeStop

(* A download that fails is tried again, but not for ever: an unread entry  *)
(* ends PROCESSED or DISTILLATION_ERROR, across restarts and losses of the  *)
(* connection, unless it is left without a connection, or without wifi once *)
(* its failures require it.                                                 *)
Settled(u) == Has(entries, u) => entries[u].read
                \/ entries[u].state \in {"PROCESSED", "DISTILLATION_ERROR"}
Unconnected(u) ==
  \/ connection = "none"
  \/ connection = "cellular" /\ entries[u].fails >= kNumberOfFailsBeforeWifiOnly
EntriesSettle == \A u \in Urls : ~Settled(u) ~> (Settled(u) \/ Unconnected(u))

(* RemoveAllUserReadingListItemsIOS calls back, also when it came before    *)
(* the model had loaded, unless the program ends first.                     *)
RemoverCallsBack == remover = "waiting" ~> remover = "none"

(* The files of a removed entry go away.                                   *)
RemovedFilesGo ==
  \A u \in Urls : ~Has(entries, u) ~> (disk[u] = "none" \/ Has(entries, u))

(* Between the steps of the downloader's jobs, one distiller is in use at a *)
(* time and no partial copy is left to be taken for an offline version.     *)
DownloadsInv ==
  /\ TypeOK
  /\ DistillerIsFree /\ OneTaskAtATime /\ DeletionsComeFirst /\ FilesOfDoneJob
  /\ NothingBeforeLoad /\ FailuresAreCounted /\ RemovedIsDeletedLast
  /\ PartialCopyIsCleanedUp /\ NoDownloadOverPartialCopy

(* A removal comes to its end: its caller hears of it, and the files go.    *)
RemovalsEnd ==
  /\ RemoverCallsBack
  /\ RemovedFilesGo
=============================================================================
