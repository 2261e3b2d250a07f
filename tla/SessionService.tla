--------------------------- MODULE SessionService ---------------------------
(***************************************************************************)
(* SessionServiceIOS: the singleton that writes each browser state's tabs   *)
(* to its session file, at once or after a delay, together with the calls   *)
(* the TabModels make to it (chrome/browser/sessions/session_service_ios.mm *)
(* and chrome/browser/tabs/tab_model.mm).                                   *)
(*                                                                         *)
(* Two actors run concurrently: the main thread (TabModels, the service,    *)
(* the delayed selectors of its run loop) and the sequenced task runner     *)
(* that does the file IO.  The process can be killed between any two steps. *)
(*                                                                         *)
(* The tabs of a TabModel are abstracted to a version, which every change   *)
(* of the model increases; a session file holds the version it serialized.  *)
(***************************************************************************)
EXTENDS Integers, Sequences, FiniteSetsExt, SequencesExt

CONSTANTS
  Directories,   \* the state paths: the browser state and its incognito one
  Watched,       \* the directory of which the history is kept, any one of them
  MaxVersion,    \* bound: changes of each directory's TabModel in a launch
  MaxTasks       \* bound: no save or deletion is asked for while the task
                 \* runner has this many tasks (the service's own steps are
                 \* never held up by a bound)

ASSUME SessionAssumption ==
  /\ IsFiniteSet(Directories)
  /\ Watched \in Directories
  /\ MaxVersion \in [Directories -> Nat]
  /\ MaxTasks \in Nat

VARIABLES
  current,          \* version of each TabModel's tabs
  selected,         \* whether it has a current tab, or no tab at all
  alive,            \* whether it has a browser state
  pendingSessions,  \* keys of _pendingSessions
  orphaned,         \* the version a pending factory yields if the TabModel it
                    \* refers to is gone, NoFile if it is the present one
  delayed,          \* directories with a scheduled performSaveToPathInBackground:
  tasks,            \* queue of _taskRunner
  disk,             \* content of the session file, NoFile if there is none
  newest,           \* history: the newest version written or loaded
  asked,            \* history: version at the latest saveSession: call whose
                    \* write did not fail
  cancelled,        \* history: whether another directory cancelled the timer
  promised          \* history: version an immediate save captured

modelVars   == <<current, selected, alive>>
serviceVars == <<pendingSessions, orphaned, delayed, tasks>>
historyVars == <<newest, asked, cancelled, promised>>
vars == <<modelVars, serviceVars, disk, historyVars>>

NoFile == -1
Versions == UNION {0..MaxVersion[d] : d \in Directories}

Task == [op : {"save", "delete"}, directory : Directories, version : Versions]

SaveVersion(d, v) == [op |-> "save", directory |-> d, version |-> v]
Save(d)   == SaveVersion(d, current[d])
Delete(d) == [op |-> "delete", directory |-> d, version |-> 0]

-----------------------------------------------------------------------------
Init ==
  /\ current = [d \in Directories |-> 0]
  /\ selected = [d \in Directories |-> TRUE]
  /\ alive = [d \in Directories |-> TRUE]
  /\ pendingSessions = {}
  /\ orphaned = [d \in Directories |-> NoFile]
  /\ delayed = {}
  /\ tasks = <<>>
  /\ disk = [d \in Directories |-> NoFile]
  /\ newest = NoFile
  /\ asked = NoFile
  /\ cancelled = FALSE
  /\ promised = NoFile

(* Tabs are opened, closed, selected or navigated.                         *)
ChangeTabs(d) ==
  /\ alive[d]
  /\ current[d] < MaxVersion[d]
  /\ current' = [current EXCEPT ![d] = @ + 1]
  /\ \E s \in BOOLEAN : selected' = [selected EXCEPT ![d] = s]
  /\ UNCHANGED <<alive, serviceVars, disk, historyVars>>

(* saveSessionImmediately: does nothing in a transitional state and after   *)
(* browserStateDestroyed.                                                   *)
MaySave(d) == selected[d] /\ alive[d]

(* Mutant: schedules nothing.                                              *)
DelayedAfterSave_never(d) == delayed

(* A delayed save is scheduled unless the directory has a pending one.     *)
DelayedAfterSave(d) == IF d \in pendingSessions THEN delayed ELSE delayed \cup {d}

(* saveSessionImmediately:NO: the factory replaces a pending one.          *)
SaveSession(d) ==
  /\ MaySave(d)
  /\ Len(tasks) < MaxTasks
  /\ pendingSessions' = pendingSessions \cup {d}
  /\ orphaned' = [orphaned EXCEPT ![d] = NoFile]
  /\ delayed' = DelayedAfterSave(d)
  /\ asked' = IF d = Watched THEN current[d] ELSE asked
  /\ UNCHANGED <<modelVars, tasks, disk, newest, cancelled, promised>>

(* Mutant: an immediate save leaves the timers alone.                       *)
DelayedAfterImmediateSave_kept(saving) == delayed

(* cancelPreviousPerformRequestsWithTarget:self cancels every delayed save  *)
(* of the service, whatever its directory.                                  *)
DelayedAfterImmediateSave(saving) == IF saving = {} THEN delayed ELSE {}

(* Mutant: an immediate save is left to the timer if there is one.         *)
ImmediateSaves_unlessPending(order) ==
  LET ds == SelectSeq(order, LAMBDA d : d \notin pendingSessions)
  IN  [k \in DOMAIN ds |-> Save(ds[k])]

(* performSaveToPathInBackground: for each of these directories.           *)
ImmediateSaves(order) == [k \in DOMAIN order |-> Save(order[k])]

(* UIApplicationDidEnterBackgroundNotification: every TabModel calls        *)
(* saveSessionImmediately:YES, one after the other in some order.           *)
EnterBackground ==
  LET saving == {d \in Directories : MaySave(d)}
  IN  /\ Len(tasks) < MaxTasks
      /\ pendingSessions' = pendingSessions \ saving
      /\ orphaned' = [d \in Directories |->
                        IF d \in saving THEN NoFile ELSE orphaned[d]]
      /\ delayed' = DelayedAfterImmediateSave(saving)
      /\ \E order \in SetToSeqs(saving) : tasks' = tasks \o ImmediateSaves(order)
      /\ asked' = IF Watched \in saving THEN current[Watched] ELSE asked
      /\ promised' = IF Watched \in saving THEN current[Watched] ELSE promised
      /\ cancelled' = /\ Watched \notin saving
                      /\ cancelled \/ (saving # {} /\ Watched \in delayed)
      /\ UNCHANGED <<modelVars, disk, newest>>

(* The delay has passed: the factory serializes the tabs as they are now,   *)
(* or no tabs if the TabModel it was made by is gone.                       *)
FactorySession(d) ==
  IF orphaned[d] = NoFile THEN Save(d) ELSE SaveVersion(d, orphaned[d])

PerformDelayedSave(d) ==
  /\ d \in delayed
  /\ delayed' = delayed \ {d}
  /\ pendingSessions' = pendingSessions \ {d}
  /\ orphaned' = [orphaned EXCEPT ![d] = NoFile]
  /\ tasks' = Append(tasks, FactorySession(d))
  /\ UNCHANGED <<modelVars, disk, historyVars>>

(* deleteLastSessionFileInDirectory:.                                      *)
DeleteLastSessionFile(d) ==
  /\ Len(tasks) < MaxTasks
  /\ tasks' = Append(tasks, Delete(d))
  /\ UNCHANGED <<modelVars, pendingSessions, orphaned, delayed, disk, historyVars>>

(* Mutant: the runner is not sequenced.                                    *)
NextTask_any == CHOOSE t \in ToSet(tasks) : \A u \in ToSet(tasks) : t.version >= u.version

(* The task runner is sequenced.                                           *)
NextTask == Head(tasks)

(* performSaveSessionData:, an atomic write.                               *)
WriteSession ==
  LET t == NextTask
  IN  /\ tasks # <<>>
      /\ t.op = "save"
      /\ tasks' = RemoveFirst(tasks, t)
      /\ disk' = [disk EXCEPT ![t.directory] = t.version]
      /\ newest' = IF t.directory = Watched THEN Max({newest, t.version}) ELSE newest
      /\ UNCHANGED <<modelVars, pendingSessions, orphaned, delayed, asked, cancelled,
                     promised>>

(* The write that fails is one that would have kept a promise.             *)
Fails(t, version) == t.directory = Watched /\ t.version >= version

(* The directory cannot be created or the file cannot be written: the       *)
(* session is dropped and not tried again.                                  *)
FailToWriteSession ==
  LET t == NextTask
  IN  /\ tasks # <<>>
      /\ t.op = "save"
      /\ tasks' = RemoveFirst(tasks, t)
      /\ promised' = IF Fails(t, promised) THEN NoFile ELSE promised
      /\ asked' = IF Fails(t, asked) THEN NoFile ELSE asked
      /\ UNCHANGED <<modelVars, pendingSessions, orphaned, delayed, disk, newest,
                     cancelled>>

DeleteSession ==
  LET t == NextTask
  IN  /\ tasks # <<>>
      /\ t.op = "delete"
      /\ tasks' = RemoveFirst(tasks, t)
      /\ disk' = [disk EXCEPT ![t.directory] = NoFile]
      /\ UNCHANGED <<modelVars, pendingSessions, orphaned, delayed, historyVars>>

(* browserStateDestroyed closes all tabs and saves nothing; a pending       *)
(* factory keeps a weak pointer to this TabModel.                           *)
DestroyTabModel(d) ==
  /\ alive[d]
  /\ current[d] < MaxVersion[d]
  /\ alive' = [alive EXCEPT ![d] = FALSE]
  /\ current' = [current EXCEPT ![d] = @ + 1]
  /\ selected' = [selected EXCEPT ![d] = TRUE]
  /\ orphaned' = [orphaned EXCEPT ![d] =
                    IF d \in pendingSessions /\ @ = NoFile THEN current[d] + 1 ELSE @]
  /\ UNCHANGED <<pendingSessions, delayed, tasks, disk, historyVars>>

(* A new TabModel for the same directory, without restoring (the incognito  *)
(* one is rebuilt when its last tab has been closed).                       *)
CreateTabModel(d) ==
  /\ ~alive[d]
  /\ alive' = [alive EXCEPT ![d] = TRUE]
  /\ UNCHANGED <<current, selected, serviceVars, disk, historyVars>>

(* loadSessionFromDirectory:, nil without a file.                          *)
Loaded(d) == IF disk[d] = NoFile THEN 0 ELSE disk[d]

(* The process dies and is launched again: the TabModels load their         *)
(* session files, and everything in memory is gone.                         *)
Relaunch ==
  /\ current' = [d \in Directories |-> Loaded(d)]
  /\ selected' = [d \in Directories |-> TRUE]
  /\ alive' = [d \in Directories |-> TRUE]
  /\ pendingSessions' = {}
  /\ orphaned' = [d \in Directories |-> NoFile]
  /\ delayed' = {}
  /\ tasks' = <<>>
  /\ newest' = disk[Watched]
  /\ asked' = disk[Watched]
  /\ cancelled' = FALSE
  /\ promised' = disk[Watched]
  /\ UNCHANGED disk

RunTask == WriteSession \/ FailToWriteSession \/ DeleteSession

Next ==
  \/ \E d \in Directories :
       \/ ChangeTabs(d)
       \/ SaveSession(d)
       \/ PerformDelayedSave(d)
       \/ DeleteLastSessionFile(d)
       \/ DestroyTabModel(d)
       \/ CreateTabModel(d)
  \/ EnterBackground
  \/ WriteSession
  \/ FailToWriteSession
  \/ DeleteSession
  \/ Relaunch

Spec == Init /\ [][Next]_vars

(* The run loop fires timers and the task runner runs its tasks; nothing    *)
(* forces the user or the system to do anything.                            *)
Fairness ==
  /\ \A d \in Directories : WF_vars(PerformDelayedSave(d))
  /\ WF_vars(RunTask)

FairSpec == Spec /\ Fairness

-----------------------------------------------------------------------------
(* Properties.                                                             *)

(* Every variable has its type.                                            *)
TypeOK ==
  /\ current \in [Directories -> Versions]
  /\ selected \in [Directories -> BOOLEAN]
  /\ alive \in [Directories -> BOOLEAN]
  /\ pendingSessions \subseteq Directories
  /\ orphaned \in [Directories -> {NoFile} \cup Versions]
  /\ delayed \subseteq Directories
  /\ tasks \in Seq(Task)
  /\ disk \in [Directories -> {NoFile} \cup Versions]
  /\ {newest, asked, promised} \subseteq {NoFile} \cup Versions
  /\ cancelled \in BOOLEAN

(* The DCHECK of performSaveToPathInBackground: a delayed save that fires   *)
(* finds the factory it is to call, also when an immediate save overtook    *)
(* it.                                                                      *)
DelayedSavesHaveFactory == delayed \subseteq pendingSessions

(* The session file, where there is one, is the newest that was written:    *)
(* no older session, delayed in the queue, ever overwrites a newer one.     *)
FileIsNewest == disk[Watched] # NoFile => disk[Watched] = newest

(* Tabs that an immediate save captured when the application went to the    *)
(* background reach the disk: they are written, or still in the queue,      *)
(* unless the write failed or the process died first.                       *)
BackgroundSaveNotLost ==
  \/ promised <= newest
  \/ \E k \in DOMAIN tasks :
       /\ tasks[k].op = "save"
       /\ tasks[k].directory = Watched
       /\ tasks[k].version >= promised

(* A saveSession: call is honoured: unless the process dies, the write      *)
(* fails, or the immediate save of another directory has cancelled the      *)
(* timer of this one, the session (or a later one) is written after the     *)
(* delay.                                                                   *)
EveryRequestIsSaved ==
  \A v \in 0..MaxVersion[Watched] :
    asked = v ~> (newest >= v \/ asked < v \/ cancelled)

(* The sessions of the watched directory leave the main thread in the order *)
(* in which they were taken, and what is on the disk is older than all of   *)
(* them: the queue holds them from old to new.                              *)
WatchedSave(t) == t.op = "save" /\ t.directory = Watched

QueueInOrder ==
  /\ newest <= current[Watched]
  /\ \A k \in DOMAIN tasks :
       WatchedSave(tasks[k]) => newest <= tasks[k].version /\ tasks[k].version <= current[Watched]
  /\ \A j, k \in DOMAIN tasks :
       j < k /\ WatchedSave(tasks[j]) /\ WatchedSave(tasks[k])
         => tasks[j].version <= tasks[k].version

(* A factory whose TabModel is gone still yields a session that is newer    *)
(* than all that were taken: a save by the new TabModel replaces it.        *)
OrphanIsNewest ==
  orphaned[Watched] # NoFile =>
    /\ newest <= orphaned[Watched] /\ orphaned[Watched] <= current[Watched]
    /\ \A k \in DOMAIN tasks :
         WatchedSave(tasks[k]) => tasks[k].version <= orphaned[Watched]

(* A timer of the service always finds its factory, whatever immediate      *)
(* saves, deletions and lost TabModels came between, and sessions are       *)
(* queued from old to new.                                                  *)
SessionInv ==
  /\ TypeOK
  /\ DelayedSavesHaveFactory
  /\ QueueInOrder
  /\ OrphanIsNewest

=============================================================================
