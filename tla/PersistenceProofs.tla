-------------------------- MODULE PersistenceProofs --------------------------
(***************************************************************************)
(* What outlives the process.  SessionService for any number of browser     *)
(* states, changes and queued tasks: no old session overwrites a newer one, *)
(* and a session taken when the application went to the background is not   *)
(* lost.  OmahaService for any schedule, any number of versions, deaths and *)
(* clock changes: an install event that is not acknowledged keeps its       *)
(* request id, a failed ping waits before it is sent again, and PingInv.    *)
(* SnapshotCache for any number of tabs and any capacity: the files of the  *)
(* snapshots follow the tabs, and no callback of a retrieval is lost.       *)
(***************************************************************************)
EXTENDS SessionService, OmahaService, SnapshotCache, ListLemmas

USE SessionAssumption

(* The inductive invariant.                                                *)
IndInv == SessionInv /\ FileIsNewest /\ BackgroundSaveNotLost

-----------------------------------------------------------------------------
(* Versions are natural numbers.                                           *)
LEMMA VersionFacts ==
  /\ Versions \subseteq Nat /\ 0 \in Versions
  /\ \A d \in Directories : 0 .. MaxVersion[d] \subseteq Versions
<1>1. \A d \in Directories : MaxVersion[d] \in Nat
  OBVIOUS
<1> QED
  BY <1>1 DEF Versions

(* The queue has the indices 1 to Len(tasks), and holds tasks.             *)
LEMMA TaskFacts ==
  ASSUME TypeOK
  PROVE  /\ tasks \in Seq(Task) /\ Len(tasks) \in Nat
         /\ DOMAIN tasks = 1 .. Len(tasks)
         /\ \A k \in 1 .. Len(tasks) : /\ tasks[k] \in Task
                                       /\ tasks[k].version \in Nat
                                       /\ tasks[k].version \in Versions
<1>1. tasks \in Seq(Task)
  BY DEF TypeOK
<1>2. /\ Len(tasks) \in Nat /\ DOMAIN tasks = 1 .. Len(tasks)
      /\ \A k \in 1 .. Len(tasks) : tasks[k] \in Task
  BY <1>1, LenProperties, ElementOfSeq
<1> QED
  BY <1>1, <1>2, VersionFacts DEF Task

(* What the variables of the watched directory are.                        *)
LEMMA WatchedFacts ==
  ASSUME TypeOK
  PROVE  /\ current[Watched] \in Nat /\ newest \in Int /\ promised \in Int
         /\ NoFile <= newest
         /\ orphaned[Watched] \in Int
<1>1. /\ current[Watched] \in Versions
      /\ orphaned[Watched] \in {NoFile} \cup Versions
      /\ newest \in {NoFile} \cup Versions /\ promised \in {NoFile} \cup Versions
  BY DEF TypeOK
<1>2. \A x \in {NoFile} \cup Versions : x \in Int /\ NoFile <= x
  BY VersionFacts DEF NoFile
<1> QED
  BY <1>1, <1>2, VersionFacts

(* The saves that the service makes are tasks.                             *)
LEMMA SaveFacts ==
  ASSUME TypeOK, NEW d \in Directories
  PROVE  /\ Save(d) \in Task /\ Delete(d) \in Task /\ FactorySession(d) \in Task
         /\ Save(d).version = current[d] /\ Save(d).op = "save" /\ Save(d).directory = d
         /\ Delete(d).op = "delete"
         /\ FactorySession(d).op = "save" /\ FactorySession(d).directory = d
         /\ FactorySession(d).version =
              IF orphaned[d] = NoFile THEN current[d] ELSE orphaned[d]
<1>1. /\ current[d] \in Versions /\ 0 \in Versions
      /\ orphaned[d] # NoFile => orphaned[d] \in Versions
  BY VersionFacts DEF TypeOK
<1> QED
  BY <1>1 DEF Save, SaveVersion, Delete, FactorySession, Task

-----------------------------------------------------------------------------
(* Queueing behind the tasks a sequence of tasks that, where they save the  *)
(* watched directory, all save one version that is newer than what is       *)
(* queued.                                                                  *)
LEMMA ConcatKeepsOrder ==
  ASSUME TypeOK, QueueInOrder, BackgroundSaveNotLost,
         NEW more \in Seq(Task), NEW v \in Nat,
         v <= current[Watched], newest <= v,
         \A k \in 1 .. Len(tasks) : WatchedSave(tasks[k]) => tasks[k].version <= v,
         \A k \in 1 .. Len(more) : WatchedSave(more[k]) => more[k].version = v,
         tasks' = tasks \o more, UNCHANGED <<current, newest>>
  PROVE  /\ tasks' \in Seq(Task)
         /\ DOMAIN tasks' = 1 .. Len(tasks') /\ Len(tasks') = Len(tasks) + Len(more)
         /\ QueueInOrder'
         /\ UNCHANGED promised => BackgroundSaveNotLost'
         /\ \A k \in DOMAIN tasks' : WatchedSave(tasks'[k]) => tasks'[k].version <= v
         /\ \A k \in 1 .. Len(more) : /\ Len(tasks) + k \in DOMAIN tasks'
                                      /\ tasks'[Len(tasks) + k] = more[k]
<1>0. /\ tasks \in Seq(Task) /\ Len(tasks) \in Nat /\ Len(more) \in Nat
      /\ DOMAIN tasks = 1 .. Len(tasks)
      /\ \A k \in 1 .. Len(tasks) : tasks[k].version \in Nat
      /\ current[Watched] \in Nat /\ newest \in Int
  BY TaskFacts, WatchedFacts, LenProperties
<1> DEFINE n == Len(tasks)
           m == Len(more)
           q == tasks \o more
<1>1. /\ q \in Seq(Task) /\ Len(q) = n + m
      /\ \A i \in 1 .. n + m : q[i] = IF i <= n THEN tasks[i] ELSE more[i - n]
  BY <1>0, ConcatProperties
<1>2. DOMAIN q = 1 .. n + m
  BY <1>1, LenProperties
<1> HIDE DEF q
<1>3. tasks' = q
  BY DEF q
<1>4. ASSUME NEW k \in 1 .. n + m
      PROVE  \/ k \in 1 .. n /\ q[k] = tasks[k]
             \/ k > n /\ k - n \in 1 .. m /\ q[k] = more[k - n]
  BY <1>0, <1>1
<1>5. /\ \A k \in 1 .. n : k \in 1 .. n + m /\ q[k] = tasks[k]
      /\ \A k \in 1 .. m : n + k \in 1 .. n + m /\ q[n + k] = more[k]
  <2>1. ASSUME NEW k \in 1 .. n PROVE k \in 1 .. n + m /\ q[k] = tasks[k]
    BY <1>0, <1>1
  <2>2. ASSUME NEW k \in 1 .. m PROVE n + k \in 1 .. n + m /\ q[n + k] = more[k]
    <3>1. n + k \in 1 .. n + m /\ ~(n + k <= n) /\ (n + k) - n = k
      BY <1>0
    <3> QED
      BY <1>1, <3>1
  <2> QED
    BY <2>1, <2>2
<1> HIDE DEF n, m
<1>6. n \in Nat /\ m \in Nat /\ n = Len(tasks) /\ m = Len(more)
  BY <1>0 DEF n, m
<1>7. ASSUME NEW k \in 1 .. n + m, WatchedSave(q[k])
      PROVE  /\ newest <= q[k].version /\ q[k].version <= v /\ q[k].version \in Nat
             /\ k > n => q[k].version = v
  <2>1. CASE k \in 1 .. n /\ q[k] = tasks[k]
    <3>1. newest <= tasks[k].version /\ tasks[k].version <= v /\ tasks[k].version \in Nat
      BY <1>0, <1>6, <1>7, <2>1 DEF QueueInOrder
    <3>2. ~(k > n)
      BY <1>6, <2>1
    <3> QED
      BY <2>1, <3>1, <3>2
  <2>2. CASE k > n /\ k - n \in 1 .. m /\ q[k] = more[k - n]
    <3>1. more[k - n].version = v
      BY <1>6, <1>7, <2>2
    <3> QED
      BY <1>0, <2>2, <3>1
  <2> QED
    BY <1>4, <2>1, <2>2
<1>8. QueueInOrder'
  <2>1. ASSUME NEW j \in 1 .. n + m, NEW k \in 1 .. n + m, j < k,
               WatchedSave(q[j]), WatchedSave(q[k])
        PROVE  q[j].version <= q[k].version
    <3>1. CASE k > n
      BY <1>7, <2>1, <3>1
    <3>2. CASE ~(k > n)
      <4>1. j \in 1 .. n /\ k \in 1 .. n
        BY <1>6, <2>1, <3>2
      <4> QED
        BY <1>0, <1>5, <1>6, <2>1, <4>1 DEF QueueInOrder
    <3> QED
      BY <3>1, <3>2
  <2>2. ASSUME NEW k \in 1 .. n + m, WatchedSave(q[k])
        PROVE  newest <= q[k].version /\ q[k].version <= current[Watched]
    BY <1>0, <1>7, <2>2
  <2> QED
    BY <1>2, <1>3, <2>1, <2>2 DEF QueueInOrder, WatchedSave
<1>9. UNCHANGED promised => BackgroundSaveNotLost'
  BY <1>0, <1>2, <1>3, <1>5, <1>6 DEF BackgroundSaveNotLost
<1> QED
  BY <1>1, <1>2, <1>3, <1>5, <1>6, <1>7, <1>8, <1>9

(* The same for one task.                                                  *)
LEMMA AppendKeepsOrder ==
  ASSUME TypeOK, QueueInOrder, BackgroundSaveNotLost, NEW t \in Task,
         WatchedSave(t) =>
           /\ newest <= t.version /\ t.version <= current[Watched]
           /\ \A k \in DOMAIN tasks : WatchedSave(tasks[k]) => tasks[k].version <= t.version,
         tasks' = Append(tasks, t), UNCHANGED <<current, newest, promised>>
  PROVE  /\ tasks' \in Seq(Task)
         /\ QueueInOrder' /\ BackgroundSaveNotLost'
         /\ \A k \in DOMAIN tasks' :
              tasks'[k] = t \/ \E j \in DOMAIN tasks : tasks'[k] = tasks[j]
<1>0. /\ tasks \in Seq(Task) /\ Len(tasks) \in Nat /\ DOMAIN tasks = 1 .. Len(tasks)
      /\ current[Watched] \in Nat /\ newest \in Int
      /\ \A k \in 1 .. Len(tasks) : tasks[k].version \in Nat
  BY TaskFacts, WatchedFacts
<1>1. tasks' = tasks \o <<t>> /\ tasks' \in Seq(Task)
  BY <1>0, AppendIsConcat, AppendProperties
<1>2. <<t>> \in Seq(Task) /\ Len(<<t>>) = 1 /\ <<t>>[1] = t
  OBVIOUS
<1>3. \A k \in 1 .. Len(<<t>>) : <<t>>[k] = t
  BY <1>2
<1>4. QueueInOrder' /\ BackgroundSaveNotLost'
  <2>1. CASE WatchedSave(t)
    <3>1. t.version \in Nat
      BY VersionFacts DEF Task
    <3> DEFINE more == <<t>>
    <3>2. more \in Seq(Task) /\ \A k \in 1 .. Len(more) : more[k] = t
      BY <1>2, <1>3
    <3>3. tasks' = tasks \o more
      BY <1>1
    <3> HIDE DEF more
    <3>4. \A k \in 1 .. Len(more) : WatchedSave(more[k]) => more[k].version = t.version
      BY <3>2
    <3> QED
      BY <1>0, <2>1, <3>1, <3>2, <3>3, <3>4, ConcatKeepsOrder
  <2>2. CASE ~WatchedSave(t)
    <3> DEFINE more == <<t>>
    <3>2. more \in Seq(Task) /\ \A k \in 1 .. Len(more) : more[k] = t
      BY <1>2, <1>3
    <3>3. tasks' = tasks \o more
      BY <1>1
    <3> HIDE DEF more
    <3>4. \A k \in 1 .. Len(tasks) : WatchedSave(tasks[k]) => tasks[k].version <= current[Watched]
      BY <1>0 DEF QueueInOrder
    <3>5. newest <= current[Watched]
      BY DEF QueueInOrder
    <3>6. \A k \in 1 .. Len(more) : ~WatchedSave(more[k])
      BY <2>2, <3>2
    <3>7. current[Watched] <= current[Watched]
      BY <1>0
    <3> QED
      BY <1>0, <3>2, <3>3, <3>4, <3>5, <3>6, <3>7, ConcatKeepsOrder
  <2> QED
    BY <2>1, <2>2
<1>5. ASSUME NEW k \in DOMAIN tasks'
      PROVE  tasks'[k] = t \/ \E j \in DOMAIN tasks : tasks'[k] = tasks[j]
  <2>1. /\ Len(tasks') = Len(tasks) + 1 /\ DOMAIN tasks' = 1 .. Len(tasks')
        /\ \A i \in 1 .. Len(tasks) : tasks'[i] = tasks[i]
        /\ tasks'[Len(tasks) + 1] = t
    BY <1>0, <1>1, AppendProperties, LenProperties
  <2>2. k \in 1 .. Len(tasks) \/ k = Len(tasks) + 1
    BY <1>0, <2>1
  <2> QED
    BY <1>0, <2>1, <2>2
<1> QED
  BY <1>1, <1>4, <1>5

(* Taking the first task off the queue.                                    *)
LEMMA TakeTaskFacts ==
  ASSUME TypeOK, tasks # <<>>, tasks' = RemoveFirst(tasks, NextTask)
  PROVE  /\ NextTask = tasks[1] /\ NextTask \in Task /\ 1 \in DOMAIN tasks
         /\ tasks' \in Seq(Task)
         /\ DOMAIN tasks' = 1 .. (Len(tasks) - 1)
         /\ \A k \in DOMAIN tasks' : tasks'[k] = tasks[k + 1] /\ k + 1 \in DOMAIN tasks
         /\ \A k \in DOMAIN tasks : k # 1 =>
              /\ k - 1 \in DOMAIN tasks' /\ tasks'[k - 1] = tasks[k] /\ 1 < k
<1>0. tasks \in Seq(Task) /\ Len(tasks) \in Nat /\ DOMAIN tasks = 1 .. Len(tasks)
  BY TaskFacts
<1>1. /\ NextTask = tasks[1] /\ NextTask \in Task /\ 1 \in 1 .. Len(tasks)
      /\ tasks' \in Seq(Task) /\ Len(tasks') = Len(tasks) - 1
      /\ \A k \in 1 .. (Len(tasks) - 1) : tasks'[k] = tasks[k + 1]
  BY <1>0, RemoveFirstOfHead DEF NextTask
<1>2. DOMAIN tasks' = 1 .. (Len(tasks) - 1)
  BY <1>1, LenProperties
<1>3. \A k \in 1 .. (Len(tasks) - 1) : k + 1 \in 1 .. Len(tasks)
  BY <1>0
<1>4. \A k \in 1 .. Len(tasks) : k # 1 =>
        k - 1 \in 1 .. (Len(tasks) - 1) /\ (k - 1) + 1 = k /\ 1 < k
  BY <1>0
<1>5. \A k \in 1 .. Len(tasks) : k # 1 => tasks'[k - 1] = tasks[k]
  BY <1>1, <1>4
<1> QED
  BY <1>0, <1>1, <1>2, <1>3, <1>4, <1>5


-----------------------------------------------------------------------------
(* The first launch.                                                       *)
LEMMA IndInvInit == Init => IndInv
<1> SUFFICES ASSUME Init PROVE IndInv
  OBVIOUS
<1>1. TypeOK
  <2>1. <<>> \in Seq(Task) /\ cancelled \in BOOLEAN
    BY Zenon, EmptySeq DEF Init
  <2> QED
    BY <2>1, VersionFacts DEF Init, TypeOK
<1>2. DOMAIN tasks = {}
  BY DEF Init
<1> QED
  BY <1>1, <1>2 DEF Init, IndInv, SessionInv, DelayedSavesHaveFactory, QueueInOrder,
     OrphanIsNewest, FileIsNewest, BackgroundSaveNotLost, NoFile

(* The tabs of a directory change, or its TabModel is destroyed: nothing is *)
(* saved, and a pending factory yields the empty list of tabs from then on. *)
LEMMA ModelStepKeepsIndInv ==
  ASSUME IndInv, NEW d \in Directories,
         \/ ChangeTabs(d) \/ DestroyTabModel(d) \/ CreateTabModel(d)
  PROVE  IndInv'
<1> USE DEF IndInv, SessionInv
<1>0. /\ UNCHANGED <<pendingSessions, delayed, tasks, disk, newest, asked, cancelled, promised>>
      /\ \/ UNCHANGED current
         \/ current[d] < MaxVersion[d] /\ current' = [current EXCEPT ![d] = @ + 1]
      /\ \/ UNCHANGED orphaned
         \/ /\ orphaned' = [orphaned EXCEPT ![d] = IF d \in pendingSessions /\ @ = NoFile
                                                   THEN current[d] + 1 ELSE @]
            /\ current[d] < MaxVersion[d] /\ current' = [current EXCEPT ![d] = @ + 1]
  BY DEF ChangeTabs, DestroyTabModel, CreateTabModel, serviceVars, historyVars
<1>1. current[d] \in Nat /\ MaxVersion[d] \in Nat /\ current[Watched] \in Nat
  BY VersionFacts DEF TypeOK
<1>2. current[d] < MaxVersion[d] => current[d] + 1 \in Versions
  <2>1. current[d] < MaxVersion[d] => current[d] + 1 \in 0 .. MaxVersion[d]
    BY <1>1
  <2> QED
    BY <2>1, VersionFacts
<1>3. TypeOK'
  <2>1. selected' \in [Directories -> BOOLEAN] /\ alive' \in [Directories -> BOOLEAN]
    BY DEF ChangeTabs, DestroyTabModel, CreateTabModel, TypeOK
  <2>2. current' \in [Directories -> Versions]
    BY <1>0, <1>2 DEF TypeOK
  <2>3. orphaned' \in [Directories -> {NoFile} \cup Versions]
    BY <1>0, <1>2 DEF TypeOK
  <2> QED
    BY <1>0, <2>1, <2>2, <2>3, Zenon DEF TypeOK
<1>4. DelayedSavesHaveFactory' /\ FileIsNewest' /\ BackgroundSaveNotLost'
  BY <1>0 DEF DelayedSavesHaveFactory, FileIsNewest, BackgroundSaveNotLost
<1>5. current'[Watched] \in Nat /\ current[Watched] <= current'[Watched]
  BY <1>0, <1>1 DEF TypeOK
<1>6. /\ newest \in Int /\ DOMAIN tasks = 1 .. Len(tasks)
      /\ orphaned[Watched] \in Int
      /\ \A k \in DOMAIN tasks : tasks[k].version \in Nat
  BY TaskFacts, WatchedFacts
<1>7. QueueInOrder'
  <2>1. newest <= current'[Watched]
    BY <1>1, <1>5, <1>6 DEF QueueInOrder
  <2>2. \A k \in DOMAIN tasks : WatchedSave(tasks[k]) =>
          newest <= tasks[k].version /\ tasks[k].version <= current'[Watched]
    BY <1>1, <1>5, <1>6 DEF QueueInOrder
  <2> QED
    BY <1>0, <2>1, <2>2 DEF QueueInOrder, WatchedSave
<1>8. OrphanIsNewest'
  <2>1. CASE orphaned'[Watched] = orphaned[Watched]
    <3>1. orphaned[Watched] <= current[Watched] => orphaned[Watched] <= current'[Watched]
      BY <1>1, <1>5, <1>6
    <3> QED
      BY <1>0, <2>1, <3>1 DEF OrphanIsNewest, WatchedSave
  <2>2. CASE orphaned'[Watched] # orphaned[Watched]
    <3>1. /\ orphaned'[Watched] = current[Watched] + 1
          /\ current'[Watched] = current[Watched] + 1
      BY <1>0, <2>2 DEF TypeOK
    <3>2. /\ newest <= current[Watched] + 1
          /\ \A k \in DOMAIN tasks : WatchedSave(tasks[k]) =>
               tasks[k].version <= current[Watched] + 1
      BY <1>1, <1>6 DEF QueueInOrder
    <3>3. current[Watched] + 1 <= current[Watched] + 1
      BY <1>1
    <3> QED
      BY <1>0, <3>1, <3>2, <3>3 DEF OrphanIsNewest, WatchedSave
  <2> QED
    BY <2>1, <2>2
<1> QED
  BY <1>3, <1>4, <1>7, <1>8

(* saveSession: with a delay.                                              *)
LEMMA SaveSessionKeepsIndInv ==
  ASSUME IndInv, NEW d \in Directories, SaveSession(d)
  PROVE  IndInv'
<1> USE DEF IndInv, SessionInv
<1>0. /\ pendingSessions' = pendingSessions \cup {d}
      /\ orphaned' = [orphaned EXCEPT ![d] = NoFile]
      /\ delayed' \in {delayed, delayed \cup {d}}
      /\ asked' \in {asked, current[Watched]}
      /\ UNCHANGED <<current, selected, alive, tasks, disk, newest, cancelled, promised>>
  BY DEF SaveSession, DelayedAfterSave, modelVars
<1>1. TypeOK'
  <2>1. orphaned' \in [Directories -> {NoFile} \cup Versions]
    BY <1>0 DEF TypeOK
  <2>2. asked' \in {NoFile} \cup Versions
    BY <1>0 DEF TypeOK
  <2>3. pendingSessions' \subseteq Directories /\ delayed' \subseteq Directories
    BY <1>0 DEF TypeOK
  <2>4. {newest', asked', promised'} \subseteq {NoFile} \cup Versions
    BY <1>0, <2>2 DEF TypeOK
  <2> QED
    BY <1>0, <2>1, <2>3, <2>4, Zenon DEF TypeOK
<1>2. DelayedSavesHaveFactory' /\ FileIsNewest' /\ BackgroundSaveNotLost' /\ QueueInOrder'
  BY <1>0 DEF DelayedSavesHaveFactory, FileIsNewest, BackgroundSaveNotLost, QueueInOrder,
              WatchedSave
<1>3. OrphanIsNewest'
  <2>1. orphaned'[Watched] \in {NoFile, orphaned[Watched]}
    BY <1>0 DEF TypeOK
  <2> QED
    BY <1>0, <2>1 DEF OrphanIsNewest, WatchedSave
<1> QED
  BY <1>1, <1>2, <1>3

(* A timer fires: what its factory yields is newer than all that is queued. *)
LEMMA PerformDelayedSaveKeepsIndInv ==
  ASSUME IndInv, NEW d \in Directories, PerformDelayedSave(d)
  PROVE  IndInv'
<1> USE DEF IndInv, SessionInv
<1> DEFINE t == FactorySession(d)
<1>0. /\ delayed' = delayed \ {d} /\ pendingSessions' = pendingSessions \ {d}
      /\ orphaned' = [orphaned EXCEPT ![d] = NoFile]
      /\ tasks' = Append(tasks, t)
      /\ UNCHANGED <<current, selected, alive, disk, newest, asked, cancelled, promised>>
  BY DEF PerformDelayedSave, modelVars, historyVars
<1>1. /\ t \in Task /\ t.directory = d
      /\ t.version = IF orphaned[d] = NoFile THEN current[d] ELSE orphaned[d]
  BY SaveFacts
<1> HIDE DEF t
<1>2. ASSUME WatchedSave(t)
      PROVE  /\ newest <= t.version /\ t.version <= current[Watched]
             /\ \A k \in DOMAIN tasks : WatchedSave(tasks[k]) => tasks[k].version <= t.version
  <2>1. d = Watched /\ current[Watched] \in Nat
    BY <1>1, <1>2, WatchedFacts DEF WatchedSave
  <2> QED
    BY <1>1, <2>1 DEF QueueInOrder, OrphanIsNewest
<1>3. /\ tasks' \in Seq(Task) /\ QueueInOrder' /\ BackgroundSaveNotLost'
      /\ \A k \in DOMAIN tasks' :
           tasks'[k] = t \/ \E j \in DOMAIN tasks : tasks'[k] = tasks[j]
  BY <1>0, <1>1, <1>2, AppendKeepsOrder
<1>4. TypeOK'
  <2>1. orphaned' \in [Directories -> {NoFile} \cup Versions]
    BY <1>0 DEF TypeOK
  <2>2. pendingSessions' \subseteq Directories /\ delayed' \subseteq Directories
    BY <1>0 DEF TypeOK
  <2> QED
    BY <1>0, <1>3, <2>1, <2>2, Zenon DEF TypeOK
<1>5. DelayedSavesHaveFactory' /\ FileIsNewest'
  BY <1>0 DEF DelayedSavesHaveFactory, FileIsNewest
<1>6. OrphanIsNewest'
  <2>1. CASE d = Watched
    BY <1>0, <2>1 DEF OrphanIsNewest, TypeOK
  <2>2. CASE d # Watched
    <3>1. orphaned'[Watched] = orphaned[Watched] /\ ~WatchedSave(t)
      BY <1>0, <1>1, <2>2 DEF TypeOK, WatchedSave
    <3> QED
      BY <1>0, <1>3, <3>1 DEF OrphanIsNewest, WatchedSave
  <2> QED
    BY <2>1, <2>2
<1> QED
  BY <1>3, <1>4, <1>5, <1>6

(* deleteLastSessionFileInDirectory:.                                      *)
LEMMA DeleteLastSessionFileKeepsIndInv ==
  ASSUME IndInv, NEW d \in Directories, DeleteLastSessionFile(d)
  PROVE  IndInv'
<1> USE DEF IndInv, SessionInv
<1> DEFINE t == Delete(d)
<1>0. /\ tasks' = Append(tasks, t)
      /\ UNCHANGED <<current, selected, alive, pendingSessions, orphaned, delayed, disk,
                     newest, asked, cancelled, promised>>
  BY DEF DeleteLastSessionFile, modelVars, historyVars
<1>1. t \in Task /\ ~WatchedSave(t)
  BY SaveFacts DEF WatchedSave
<1> HIDE DEF t
<1>3. /\ tasks' \in Seq(Task) /\ QueueInOrder' /\ BackgroundSaveNotLost'
      /\ \A k \in DOMAIN tasks' :
           tasks'[k] = t \/ \E j \in DOMAIN tasks : tasks'[k] = tasks[j]
  BY <1>0, <1>1, AppendKeepsOrder
<1>4. TypeOK'
  BY <1>0, <1>3, Zenon DEF TypeOK
<1>5. DelayedSavesHaveFactory' /\ FileIsNewest'
  BY <1>0 DEF DelayedSavesHaveFactory, FileIsNewest
<1>6. OrphanIsNewest'
  BY <1>0, <1>1, <1>3 DEF OrphanIsNewest, WatchedSave
<1> QED
  BY <1>3, <1>4, <1>5, <1>6


(* The application goes to the background: every TabModel that may save     *)
(* does, with what it has now, which is newer than all that is queued.      *)
LEMMA EnterBackgroundKeepsIndInv ==
  ASSUME IndInv, EnterBackground
  PROVE  IndInv'
<1> USE DEF IndInv, SessionInv
<1> DEFINE saving == {d \in Directories : MaySave(d)}
<1>0. /\ pendingSessions' = pendingSessions \ saving
      /\ orphaned' = [d \in Directories |-> IF d \in saving THEN NoFile ELSE orphaned[d]]
      /\ delayed' = IF saving = {} THEN delayed ELSE {}
      /\ asked' = IF Watched \in saving THEN current[Watched] ELSE asked
      /\ promised' = IF Watched \in saving THEN current[Watched] ELSE promised
      /\ cancelled' \in BOOLEAN
      /\ UNCHANGED <<current, selected, alive, disk, newest>>
  BY DEF EnterBackground, DelayedAfterImmediateSave, modelVars
<1>1. PICK order \in SetToSeqs(saving) : tasks' = tasks \o ImmediateSaves(order)
  BY DEF EnterBackground
<1>2. IsFiniteSet(saving) /\ saving \subseteq Directories
  <2>1. saving \in SUBSET Directories
    OBVIOUS
  <2> HIDE DEF saving
  <2> QED
    BY <2>1, FS_Subset
<1> HIDE DEF saving
<1>3. /\ order \in Seq(saving) /\ DOMAIN order = 1 .. Len(order) /\ Len(order) \in Nat
      /\ \A d \in saving : \E k \in 1 .. Len(order) : order[k] = d
      /\ \A k \in 1 .. Len(order) : order[k] \in saving
  BY <1>2, SetToSeqsProperties, LenProperties, ElementOfSeq
<1> DEFINE more == ImmediateSaves(order)
<1>4. /\ more \in Seq(Task) /\ Len(more) = Len(order)
      /\ \A k \in 1 .. Len(more) : more[k] = Save(order[k]) /\ order[k] \in Directories
  <2>1. more = [k \in 1 .. Len(order) |-> Save(order[k])]
    BY <1>3 DEF ImmediateSaves
  <2>2. \A k \in 1 .. Len(order) : Save(order[k]) \in Task
    BY <1>2, <1>3, SaveFacts
  <2>3. more \in [1 .. Len(order) -> Task]
    BY <2>1, <2>2
  <2>4. more \in Seq(Task)
    BY <1>3, <2>3, SeqDef
  <2>5. DOMAIN more = 1 .. Len(order) /\ Len(more) \in Nat /\ DOMAIN more = 1 .. Len(more)
    BY <2>3, <2>4, LenProperties
  <2>6. Len(more) = Len(order)
    BY <1>3, <2>5
  <2> QED
    BY <1>2, <1>3, <2>1, <2>4, <2>6
<1>5. \A k \in 1 .. Len(more) :
        /\ WatchedSave(more[k]) => more[k].version = current[Watched] /\ order[k] = Watched
        /\ order[k] = Watched => WatchedSave(more[k])
  <2>1. ASSUME NEW k \in 1 .. Len(more)
        PROVE  /\ more[k].op = "save" /\ more[k].directory = order[k]
               /\ more[k].version = current[order[k]]
    BY <1>4, SaveFacts
  <2> QED
    BY <2>1 DEF WatchedSave
<1> HIDE DEF more
<1>6. /\ current[Watched] \in Nat /\ newest \in Int
      /\ tasks \in Seq(Task) /\ Len(tasks) \in Nat /\ DOMAIN tasks = 1 .. Len(tasks)
      /\ orphaned[Watched] \in Int
  BY TaskFacts, WatchedFacts
<1>7. /\ tasks' \in Seq(Task) /\ QueueInOrder'
      /\ UNCHANGED promised => BackgroundSaveNotLost'
      /\ \A k \in DOMAIN tasks' : WatchedSave(tasks'[k]) => tasks'[k].version <= current[Watched]
      /\ \A k \in 1 .. Len(more) : /\ Len(tasks) + k \in DOMAIN tasks'
                                   /\ tasks'[Len(tasks) + k] = more[k]
  <2>1. tasks' = tasks \o more
    BY <1>1 DEF more
  <2>2. /\ current[Watched] <= current[Watched] /\ newest <= current[Watched]
        /\ \A k \in 1 .. Len(tasks) :
             WatchedSave(tasks[k]) => tasks[k].version <= current[Watched]
    BY <1>6 DEF QueueInOrder
  <2> QED
    BY <1>0, <1>4, <1>5, <1>6, <2>1, <2>2, ConcatKeepsOrder
<1>8. TypeOK'
  <2>1. orphaned' \in [Directories -> {NoFile} \cup Versions]
    BY <1>0 DEF TypeOK
  <2>2. pendingSessions' \subseteq Directories /\ delayed' \subseteq Directories
    BY <1>0 DEF TypeOK
  <2>3. {newest', asked', promised'} \subseteq {NoFile} \cup Versions
    BY <1>0 DEF TypeOK
  <2> QED
    BY <1>0, <1>7, <2>1, <2>2, <2>3, Zenon DEF TypeOK
<1>9. DelayedSavesHaveFactory' /\ FileIsNewest'
  BY <1>0 DEF DelayedSavesHaveFactory, FileIsNewest
<1>10. CASE Watched \in saving
  <2>1. PICK k \in 1 .. Len(more) : order[k] = Watched
    BY <1>3, <1>4, <1>10
  <2>2. WatchedSave(more[k]) /\ more[k].version = current[Watched]
    BY <1>5, <2>1
  <2>3. /\ Len(tasks) + k \in DOMAIN tasks' /\ tasks'[Len(tasks) + k] = more[k]
        /\ promised' = current[Watched] /\ current[Watched] >= current[Watched]
    BY <1>0, <1>6, <1>7, <1>10
  <2>4. BackgroundSaveNotLost'
    BY <2>2, <2>3 DEF BackgroundSaveNotLost, WatchedSave
  <2>5. OrphanIsNewest'
    BY <1>0, <1>10 DEF OrphanIsNewest
  <2> QED
    BY <1>7, <1>8, <1>9, <2>4, <2>5
<1>11. CASE Watched \notin saving
  <2>1. BackgroundSaveNotLost'
    BY <1>0, <1>7, <1>11
  <2>2. \A k \in 1 .. Len(more) : ~WatchedSave(more[k])
    BY <1>3, <1>4, <1>5, <1>11
  <2>3. orphaned'[Watched] = orphaned[Watched]
    BY <1>0, <1>11
  <2>4. OrphanIsNewest'
    <3> SUFFICES ASSUME orphaned[Watched] # NoFile
                 PROVE  OrphanIsNewest'
      BY <2>3 DEF OrphanIsNewest
    <3>1. /\ newest <= orphaned[Watched] /\ orphaned[Watched] <= current[Watched]
          /\ \A k \in 1 .. Len(tasks) :
               WatchedSave(tasks[k]) => tasks[k].version <= orphaned[Watched]
          /\ orphaned[Watched] \in Nat
      BY <1>6, VersionFacts DEF OrphanIsNewest, TypeOK
    <3>2. \A k \in DOMAIN tasks' :
            WatchedSave(tasks'[k]) => tasks'[k].version <= orphaned[Watched]
      <4>1. tasks' = tasks \o more
        BY <1>1 DEF more
      <4>2. \A k \in 1 .. Len(more) :
              WatchedSave(more[k]) => more[k].version = orphaned[Watched]
        BY <2>2
      <4> QED
        BY <1>0, <1>4, <1>6, <3>1, <4>1, <4>2, ConcatKeepsOrder
    <3> QED
      BY <1>0, <2>3, <3>1, <3>2 DEF OrphanIsNewest, WatchedSave
  <2> QED
    BY <1>7, <1>8, <1>9, <2>1, <2>4
<1> QED
  BY <1>10, <1>11

(* Taking a task off the queue keeps its order, whatever becomes of the     *)
(* session, if what counts as newest is not newer than what is left.        *)
LEMMA TakeTaskKeepsOrder ==
  ASSUME TypeOK, QueueInOrder, OrphanIsNewest, tasks # <<>>,
         tasks' = RemoveFirst(tasks, NextTask), UNCHANGED <<current, orphaned>>,
         \/ newest' = newest
         \/ WatchedSave(NextTask) /\ newest' = NextTask.version
  PROVE  QueueInOrder' /\ OrphanIsNewest'
<1>0. /\ NextTask = tasks[1] /\ 1 \in DOMAIN tasks
      /\ \A k \in DOMAIN tasks' : /\ tasks'[k] = tasks[k + 1] /\ k + 1 \in DOMAIN tasks
                                  /\ k \in Nat /\ 1 < k + 1
  <2>1. DOMAIN tasks' = 1 .. (Len(tasks) - 1) /\ Len(tasks) \in Nat
    BY TakeTaskFacts, TaskFacts
  <2>2. \A k \in 1 .. (Len(tasks) - 1) : k \in Nat /\ 1 < k + 1
    BY <2>1
  <2> QED
    BY <2>1, <2>2, TakeTaskFacts
<1>1. \A k \in DOMAIN tasks : WatchedSave(tasks[k]) =>
        newest <= tasks[k].version /\ (1 < k => newest' <= tasks[k].version)
  BY <1>0 DEF QueueInOrder
<1>2. newest' <= current[Watched] /\ (orphaned[Watched] # NoFile => newest' <= orphaned[Watched])
  BY <1>0 DEF QueueInOrder, OrphanIsNewest
<1>3. QueueInOrder'
  <2>1. \A k \in DOMAIN tasks' : WatchedSave(tasks'[k]) =>
          newest' <= tasks'[k].version /\ tasks'[k].version <= current[Watched]
    BY <1>0, <1>1 DEF QueueInOrder
  <2>2. ASSUME NEW j \in DOMAIN tasks', NEW k \in DOMAIN tasks', j < k,
               WatchedSave(tasks'[j]), WatchedSave(tasks'[k])
        PROVE  tasks'[j].version <= tasks'[k].version
    <3>1. j + 1 < k + 1
      BY <1>0, <2>2
    <3> QED
      BY <1>0, <2>2, <3>1 DEF QueueInOrder
  <2> QED
    BY <1>2, <2>1, <2>2 DEF QueueInOrder, WatchedSave
<1>4. OrphanIsNewest'
  BY <1>0, <1>2 DEF OrphanIsNewest, WatchedSave
<1> QED
  BY <1>3, <1>4

(* A session is written.                                                   *)
LEMMA WriteSessionKeepsIndInv ==
  ASSUME IndInv, WriteSession
  PROVE  IndInv'
<1> USE DEF IndInv, SessionInv
<1> DEFINE t == NextTask
<1>0. /\ tasks # <<>> /\ t.op = "save" /\ tasks' = RemoveFirst(tasks, t)
      /\ disk' = [disk EXCEPT ![t.directory] = t.version]
      /\ newest' = IF t.directory = Watched THEN Max({newest, t.version}) ELSE newest
      /\ UNCHANGED <<current, selected, alive, pendingSessions, orphaned, delayed, asked,
                     cancelled, promised>>
  BY DEF WriteSession, modelVars
<1>1. /\ t = tasks[1] /\ t \in Task /\ 1 \in DOMAIN tasks /\ tasks' \in Seq(Task)
      /\ \A k \in DOMAIN tasks : k # 1 =>
           k - 1 \in DOMAIN tasks' /\ tasks'[k - 1] = tasks[k]
  BY <1>0, TakeTaskFacts
<1>2. t.directory \in Directories /\ t.version \in Versions /\ t.version \in Nat
  BY <1>1, VersionFacts DEF Task
<1>3. newest' = IF WatchedSave(t) THEN t.version ELSE newest
  <2>1. CASE t.directory = Watched
    <3>1. WatchedSave(t) /\ newest <= t.version /\ newest \in Int
      BY <1>0, <1>1, <2>1, WatchedFacts DEF WatchedSave, QueueInOrder
    <3>2. Max({newest, t.version}) = IF newest >= t.version THEN newest ELSE t.version
      <4>1. newest \in Int /\ t.version \in Int
        BY <1>2, <3>1
      <4> HIDE DEF t
      <4> QED
        BY <4>1, MinMaxOfPair
    <3> QED
      BY <1>0, <1>2, <2>1, <3>1, <3>2
  <2>2. CASE t.directory # Watched
    BY <1>0, <2>2 DEF WatchedSave
  <2> QED
    BY <2>1, <2>2
<1>4. QueueInOrder' /\ OrphanIsNewest'
  BY <1>0, <1>3, TakeTaskKeepsOrder
<1>5. TypeOK'
  <2>1. disk' \in [Directories -> {NoFile} \cup Versions]
    BY <1>0, <1>2 DEF TypeOK
  <2>2. {newest', asked', promised'} \subseteq {NoFile} \cup Versions
    BY <1>0, <1>2, <1>3 DEF TypeOK
  <2> QED
    BY <1>0, <1>1, <2>1, <2>2, Zenon DEF TypeOK
<1>6. DelayedSavesHaveFactory'
  BY <1>0 DEF DelayedSavesHaveFactory
<1>7. FileIsNewest'
  <2>1. CASE t.directory = Watched
    BY <1>0, <1>3, <2>1 DEF FileIsNewest, TypeOK, WatchedSave
  <2>2. CASE t.directory # Watched
    BY <1>0, <1>3, <2>2 DEF FileIsNewest, TypeOK, WatchedSave
  <2> QED
    BY <2>1, <2>2
<1>8. BackgroundSaveNotLost'
  <2>0. promised \in Int /\ newest \in Int
    BY WatchedFacts
  <2>1. CASE promised <= newest
    <3>1. newest <= newest'
      BY <1>1, <1>2, <1>3, <2>0 DEF QueueInOrder
    <3>2. newest' \in Int
      BY <1>2, <1>3, <2>0
    <3> QED
      BY <1>0, <2>0, <2>1, <3>1, <3>2 DEF BackgroundSaveNotLost
  <2>2. CASE ~(promised <= newest)
    <3>1. PICK k \in DOMAIN tasks : WatchedSave(tasks[k]) /\ tasks[k].version >= promised
      BY <2>2 DEF BackgroundSaveNotLost, WatchedSave
    <3>2. CASE k = 1
      BY <1>0, <1>1, <1>2, <1>3, <2>0, <3>1, <3>2 DEF BackgroundSaveNotLost
    <3>3. CASE k # 1
      BY <1>0, <1>1, <3>1, <3>3 DEF BackgroundSaveNotLost, WatchedSave
    <3> QED
      BY <3>2, <3>3
  <2> QED
    BY <2>1, <2>2
<1> QED
  BY <1>4, <1>5, <1>6, <1>7, <1>8

(* A session is dropped because it cannot be written.                      *)
LEMMA FailToWriteSessionKeepsIndInv ==
  ASSUME IndInv, FailToWriteSession
  PROVE  IndInv'
<1> USE DEF IndInv, SessionInv
<1> DEFINE t == NextTask
<1>0. /\ tasks # <<>> /\ t.op = "save" /\ tasks' = RemoveFirst(tasks, t)
      /\ promised' = IF Fails(t, promised) THEN NoFile ELSE promised
      /\ asked' = IF Fails(t, asked) THEN NoFile ELSE asked
      /\ UNCHANGED <<current, selected, alive, pendingSessions, orphaned, delayed, disk,
                     newest, cancelled>>
  BY DEF FailToWriteSession, modelVars
<1>1. /\ t = tasks[1] /\ t \in Task /\ 1 \in DOMAIN tasks /\ tasks' \in Seq(Task)
      /\ \A k \in DOMAIN tasks : k # 1 =>
           k - 1 \in DOMAIN tasks' /\ tasks'[k - 1] = tasks[k]
  BY <1>0, TakeTaskFacts
<1>2. QueueInOrder' /\ OrphanIsNewest'
  BY <1>0, TakeTaskKeepsOrder
<1>3. TypeOK'
  <2>1. {newest', asked', promised'} \subseteq {NoFile} \cup Versions
    BY <1>0 DEF TypeOK
  <2> QED
    BY <1>0, <1>1, <2>1, Zenon DEF TypeOK
<1>4. DelayedSavesHaveFactory' /\ FileIsNewest'
  BY <1>0 DEF DelayedSavesHaveFactory, FileIsNewest
<1>5. BackgroundSaveNotLost'
  <2>1. CASE Fails(t, promised)
    BY <1>0, <2>1, WatchedFacts DEF BackgroundSaveNotLost
  <2>2. CASE ~Fails(t, promised) /\ promised <= newest
    BY <1>0, <2>2 DEF BackgroundSaveNotLost
  <2>3. CASE ~Fails(t, promised) /\ ~(promised <= newest)
    <3>1. PICK k \in DOMAIN tasks : WatchedSave(tasks[k]) /\ tasks[k].version >= promised
      BY <2>3 DEF BackgroundSaveNotLost, WatchedSave
    <3>2. k # 1
      BY <1>1, <2>3, <3>1 DEF Fails, WatchedSave
    <3> QED
      BY <1>0, <1>1, <2>3, <3>1, <3>2 DEF BackgroundSaveNotLost, WatchedSave
  <2> QED
    BY <2>1, <2>2, <2>3
<1> QED
  BY <1>2, <1>3, <1>4, <1>5

(* A session file is deleted.                                              *)
LEMMA DeleteSessionKeepsIndInv ==
  ASSUME IndInv, DeleteSession
  PROVE  IndInv'
<1> USE DEF IndInv, SessionInv
<1> DEFINE t == NextTask
<1>0. /\ tasks # <<>> /\ t.op = "delete" /\ tasks' = RemoveFirst(tasks, t)
      /\ disk' = [disk EXCEPT ![t.directory] = NoFile]
      /\ UNCHANGED <<current, selected, alive, pendingSessions, orphaned, delayed, newest,
                     asked, cancelled, promised>>
  BY DEF DeleteSession, modelVars, historyVars
<1>1. /\ t = tasks[1] /\ t \in Task /\ 1 \in DOMAIN tasks /\ tasks' \in Seq(Task)
      /\ \A k \in DOMAIN tasks : k # 1 =>
           k - 1 \in DOMAIN tasks' /\ tasks'[k - 1] = tasks[k]
  BY <1>0, TakeTaskFacts
<1>2. QueueInOrder' /\ OrphanIsNewest'
  BY <1>0, TakeTaskKeepsOrder
<1>3. disk' \in [Directories -> {NoFile} \cup Versions] /\ disk'[Watched] \in {NoFile, disk[Watched]}
  BY <1>0, <1>1 DEF TypeOK
<1>4. TypeOK'
  BY <1>0, <1>1, <1>3, Zenon DEF TypeOK
<1>5. DelayedSavesHaveFactory' /\ FileIsNewest'
  BY <1>0, <1>3 DEF DelayedSavesHaveFactory, FileIsNewest
<1>6. BackgroundSaveNotLost'
  <2>1. CASE promised <= newest
    BY <1>0, <2>1 DEF BackgroundSaveNotLost
  <2>2. CASE ~(promised <= newest)
    <3>1. PICK k \in DOMAIN tasks : WatchedSave(tasks[k]) /\ tasks[k].version >= promised
      BY <2>2 DEF BackgroundSaveNotLost, WatchedSave
    <3>2. k # 1
      BY <1>0, <1>1, <3>1 DEF WatchedSave
    <3> QED
      BY <1>0, <1>1, <3>1, <3>2 DEF BackgroundSaveNotLost, WatchedSave
  <2> QED
    BY <2>1, <2>2
<1> QED
  BY <1>2, <1>4, <1>5, <1>6

(* The process dies and is launched again.                                 *)
LEMMA RelaunchKeepsIndInv ==
  ASSUME IndInv, Relaunch
  PROVE  IndInv'
<1> USE DEF IndInv, SessionInv
<1>0. \A d \in Directories : disk[d] \in {NoFile} \cup Versions /\ Loaded(d) \in Versions
  BY VersionFacts DEF TypeOK, Loaded
<1>1. TypeOK'
  <2>1. tasks' \in Seq(Task) /\ cancelled' \in BOOLEAN
    BY Zenon, EmptySeq DEF Relaunch
  <2>2. /\ current' \in [Directories -> Versions]
        /\ selected' \in [Directories -> BOOLEAN] /\ alive' \in [Directories -> BOOLEAN]
        /\ orphaned' \in [Directories -> {NoFile} \cup Versions]
        /\ disk' \in [Directories -> {NoFile} \cup Versions]
    BY <1>0 DEF Relaunch, TypeOK
  <2>3. {newest', asked', promised'} \subseteq {NoFile} \cup Versions
    BY <1>0 DEF Relaunch
  <2> QED
    BY <2>1, <2>2, <2>3 DEF Relaunch, TypeOK
<1>2. DOMAIN tasks' = {}
  BY DEF Relaunch
<1>3. disk[Watched] \in Int /\ disk[Watched] <= Loaded(Watched)
  <2>1. \A x \in Versions : x \in Nat
    BY VersionFacts
  <2> QED
    BY <1>0, <2>1 DEF Loaded, NoFile
<1>4. QueueInOrder' /\ BackgroundSaveNotLost'
  BY <1>2, <1>3 DEF Relaunch, QueueInOrder, BackgroundSaveNotLost
<1> QED
  BY <1>1, <1>4
  DEF Relaunch, DelayedSavesHaveFactory, OrphanIsNewest, FileIsNewest

(* IndInv is inductive.                                                    *)
LEMMA IndInvNext ==
  ASSUME IndInv, [Next]_vars
  PROVE  IndInv'
<1>1. CASE UNCHANGED vars
  BY <1>1 DEF vars, modelVars, serviceVars, historyVars, IndInv, SessionInv, TypeOK,
     DelayedSavesHaveFactory, QueueInOrder, OrphanIsNewest, FileIsNewest,
     BackgroundSaveNotLost, WatchedSave
<1> QED
  BY <1>1, ModelStepKeepsIndInv, SaveSessionKeepsIndInv, PerformDelayedSaveKeepsIndInv,
     DeleteLastSessionFileKeepsIndInv, EnterBackgroundKeepsIndInv, WriteSessionKeepsIndInv,
     FailToWriteSessionKeepsIndInv, DeleteSessionKeepsIndInv, RelaunchKeepsIndInv
  DEF Next

-----------------------------------------------------------------------------
(* The inductive invariant holds in every reachable state.                 *)
LEMMA IndInvariance == Spec => []IndInv
  BY IndInvInit, IndInvNext, PTL DEF Spec

(* A timer always finds its factory, and the sessions of a directory are    *)
(* queued from old to new, for any number of directories and tasks.         *)
THEOREM SessionInvariance == Spec => []SessionInv
  BY IndInvariance, PTL DEF IndInv

(* The session file, where there is one, is the newest session written:     *)
(* no delayed or orphaned save overwrites a newer session.                  *)
THEOREM FileIsAlwaysNewest == Spec => []FileIsNewest
  BY IndInvariance, PTL DEF IndInv

(* A session taken when the application went to the background is written   *)
(* or queued, unless its write failed or the process died.                  *)
THEOREM BackgroundSaveIsNeverLost == Spec => []BackgroundSaveNotLost
  BY IndInvariance, PTL DEF IndInv

HIDE SessionAssumption

-----------------------------------------------------------------------------
(* OmahaService.                                                           *)
USE OmahaAssumption

-----------------------------------------------------------------------------
(* The powers of two of the backoff.  Induction goes over the set of the    *)
(* counterexamples, whose smallest element would not be one.                *)

(* g holds the first n + 1 powers of two.                                  *)
Doubles(g, n) ==
  /\ g \in [0 .. n -> Nat]
  /\ g[0] = 1
  /\ \A k \in 1 .. n : g[k] = 2 * g[k - 1]

(* There are as many powers of two as one likes.                           *)
LEMMA DoublesExists == \A n \in Nat : \E g : Doubles(g, n)
<1> DEFINE Bad == {n \in Nat : ~ \E g : Doubles(g, n)}
<1> SUFFICES ASSUME Bad # {} PROVE FALSE
  OBVIOUS
<1>1. PICK m \in Bad : \A y \in Bad : m <= y
  <2>1. Bad \subseteq Nat
    OBVIOUS
  <2> HIDE DEF Bad
  <2> QED
    BY <2>1, MinOfNaturals
<1>2. CASE m = 0
  <2>1. Doubles([k \in 0 .. 0 |-> 1], 0)
    BY DEF Doubles
  <2> QED
    BY <1>2, <2>1
<1>3. CASE m # 0
  <2>1. m - 1 \in Nat /\ m - 1 \notin Bad
    <3>1. m \in Nat
      OBVIOUS
    <3>2. m - 1 \in Nat /\ ~(m <= m - 1)
      BY <1>3, <3>1
    <3> HIDE DEF Bad
    <3> QED
      BY <1>1, <3>2
  <2>2. PICK g : Doubles(g, m - 1)
    BY <2>1
  <2> DEFINE h == [k \in 0 .. m |-> IF k = m THEN 2 * g[m - 1] ELSE g[k]]
  <2>3. Doubles(h, m)
    <3>1. m \in Nat /\ m # 0
      BY <1>3
    <3>2. g \in [0 .. m - 1 -> Nat] /\ g[0] = 1 /\ \A k \in 1 .. m - 1 : g[k] = 2 * g[k - 1]
      BY <2>2 DEF Doubles
    <3>3. \A k \in 0 .. m : k # m => k \in 0 .. m - 1
      BY <3>1
    <3>4. h \in [0 .. m -> Nat] /\ h[0] = 1
      BY <3>1, <3>2, <3>3
    <3>5. ASSUME NEW k \in 1 .. m PROVE h[k] = 2 * h[k - 1]
      <4>1. k - 1 \in 0 .. m /\ k \in 0 .. m /\ k - 1 # m
        BY <3>1
      <4>2. CASE k = m
        BY <4>1, <4>2
      <4>3. CASE k # m
        BY <3>1, <3>2, <4>1, <4>3
      <4> QED
        BY <4>2, <4>3
    <3> QED
      BY <3>4, <3>5 DEF Doubles
  <2> QED
    BY <2>3
<1> QED
  BY <1>2, <1>3

(* They do not depend on how many there are.                               *)
LEMMA DoublesUnique ==
  ASSUME NEW m \in Nat, NEW n \in Nat, m <= n, NEW g, NEW h, Doubles(g, m), Doubles(h, n)
  PROVE  \A k \in 0 .. m : g[k] = h[k]
<1> DEFINE Bad == {k \in 0 .. m : g[k] # h[k]}
<1> SUFFICES ASSUME Bad # {} PROVE FALSE
  OBVIOUS
<1>1. PICK k \in Bad : \A y \in Bad : k <= y
  <2>1. Bad \subseteq Nat
    OBVIOUS
  <2> HIDE DEF Bad
  <2> QED
    BY <2>1, MinOfNaturals
<1>2. k # 0
  BY DEF Doubles
<1>3. k - 1 \in 0 .. m /\ k \in 1 .. m /\ k \in 1 .. n /\ ~(k <= k - 1)
  BY <1>2
<1>4. g[k - 1] = h[k - 1]
  BY <1>1, <1>3
<1> QED
  BY <1>3, <1>4 DEF Doubles

(* PowerOfTwo is the function its definition describes.                    *)
LEMMA PowerOfTwoDef ==
  \A n \in Nat : PowerOfTwo[n] = IF n = 0 THEN 1 ELSE 2 * PowerOfTwo[n - 1]
<1> DEFINE g(n) == CHOOSE x : Doubles(x, n)
           f    == [n \in Nat |-> g(n)[n]]
<1>1. \A n \in Nat : Doubles(g(n), n)
  BY DoublesExists
<1> HIDE DEF g
<1>2. ASSUME NEW n \in Nat PROVE f[n] = IF n = 0 THEN 1 ELSE 2 * f[n - 1]
  <2>1. CASE n = 0
    BY <1>1, <2>1 DEF Doubles
  <2>2. CASE n # 0
    <3>1. n - 1 \in Nat /\ n - 1 <= n /\ n - 1 \in 0 .. n - 1 /\ n \in 1 .. n
      BY <2>2
    <3>2. g(n - 1)[n - 1] = g(n)[n - 1]
      BY <1>1, <3>1, DoublesUnique
    <3>3. g(n)[n] = 2 * g(n)[n - 1]
      BY <1>1, <3>1 DEF Doubles
    <3> QED
      BY <2>2, <3>1, <3>2, <3>3
  <2> QED
    BY <2>1, <2>2
<1>3. f = [n \in Nat |-> IF n = 0 THEN 1 ELSE 2 * f[n - 1]]
  <2>1. f = [n \in Nat |-> f[n]]
    OBVIOUS
  <2> HIDE DEF f
  <2> QED
    BY <1>2, <2>1
<1> HIDE DEF f
<1>4. PowerOfTwo = [n \in Nat |-> IF n = 0 THEN 1 ELSE 2 * PowerOfTwo[n - 1]]
  BY <1>3, Zenon DEF PowerOfTwo
<1> QED
  BY <1>4, Zenon

(* A power of two is at least one.                                         *)
LEMMA PowerOfTwoPositive == \A n \in Nat : PowerOfTwo[n] \in Nat \ {0}
<1> DEFINE Bad == {n \in Nat : PowerOfTwo[n] \notin Nat \ {0}}
<1> SUFFICES ASSUME Bad # {} PROVE FALSE
  OBVIOUS
<1>1. PICK m \in Bad : \A y \in Bad : m <= y
  <2>1. Bad \subseteq Nat
    OBVIOUS
  <2> HIDE DEF Bad
  <2> QED
    BY <2>1, MinOfNaturals
<1>2. PowerOfTwo[m] = IF m = 0 THEN 1 ELSE 2 * PowerOfTwo[m - 1]
  BY PowerOfTwoDef
<1>3. m # 0
  BY <1>2
<1>4. m - 1 \in Nat /\ ~(m <= m - 1)
  BY <1>3
<1>5. PowerOfTwo[m - 1] \in Nat \ {0}
  BY <1>1, <1>4
<1> QED
  BY <1>2, <1>3, <1>5

(* GetBackOff waits kPostRetryBaseSeconds at least, and                    *)
(* kPostRetryMaxSeconds at most.                                           *)
LEMMA BackOffRange ==
  ASSUME NEW n \in Nat \ {0}
  PROVE  GetBackOff(n) \in PostRetryBase .. PostRetryMax
<1>1. PowerOfTwo[n - 1] \in Nat \ {0}
  <2>1. n - 1 \in Nat
    OBVIOUS
  <2> QED
    BY <2>1, PowerOfTwoPositive
<1>2. ASSUME NEW p \in Nat \ {0} 
      PROVE  PostRetryBase * p \in Nat /\ PostRetryBase <= PostRetryBase * p
  OBVIOUS
<1> QED
  BY <1>1, <1>2 DEF GetBackOff, Smaller

-----------------------------------------------------------------------------
(* The inductive invariant.                                                *)
PingIndInv == PingInv /\ RetriesKeepTheirId

(* What Initialize makes of the stored state has its type, keeps the        *)
(* version last sent, and so keeps whether an install event is due.         *)
LEMMA InitializedFacts ==
  ASSUME NEW m \in States, NEW t \in 0 .. MaxNow, NEW v \in AppVersions
  PROVE  /\ Initialized(m, t, v) \in States
         /\ Initialized(m, t, v).sentVersion = m.sentVersion
<1> DEFINE u == Untampered(m, t)
           r == Rescheduled(u, t)
<1>1. u \in States /\ u.sentVersion = m.sentVersion /\ u.sentTime \in 0 .. MaxNow
  BY DEF Untampered, Smaller, States, Times, AppVersions
<1> HIDE DEF u
<1>2. r \in States /\ r.sentVersion = m.sentVersion
  BY <1>1 DEF Rescheduled, States, Times, AppVersions
<1> HIDE DEF r
<1>3. /\ DueIfNewVersion(r, t, v) \in States
      /\ DueIfNewVersion(r, t, v).sentVersion = m.sentVersion
  <2>1. CASE r.sentVersion < v
    <3>1. DueIfNewVersion(r, t, v) = [r EXCEPT !.next = t, !.tries = 0]
      BY <2>1 DEF DueIfNewVersion
    <3>2. t \in Times /\ 0 \in 0 .. TriesCap
      BY DEF Times
    <3> QED
      BY <1>2, <3>1, <3>2 DEF States
  <2>2. CASE ~(r.sentVersion < v)
    BY <1>2, <2>2 DEF DueIfNewVersion
  <2> QED
    BY <2>1, <2>2
<1> QED
  BY <1>3 DEF Initialized, r, u

(* SendPing schedules the retry before the attempt is made.                *)
LEMMA AfterAttemptFacts ==
  ASSUME PingTypeOK, NEW m \in States
  PROVE  /\ AfterAttempt(m) \in States
         /\ AfterAttempt(m).sentVersion = m.sentVersion
         /\ AfterAttempt(m).next >= now + PostRetryBase
<1> DEFINE n == TriesAfter(m)
           b == GetBackOff(n)
<1>1. n \in 0 .. TriesCap /\ n \in Nat \ {0}
  BY DEF TriesAfter, States
<1> HIDE DEF n
<1>2. b \in PostRetryBase .. PostRetryMax
  BY <1>1, BackOffRange
<1>3. AfterAttempt(m) = [m EXCEPT !.tries = n, !.next = now + b]
  BY DEF AfterAttempt, n
<1> HIDE DEF b
<1>4. now + b \in Times /\ now + b >= now + PostRetryBase
  BY <1>2 DEF Times, PingTypeOK
<1> QED
  BY <1>1, <1>3, <1>4 DEF States

(* The first launch has nothing stored.                                    *)
LEMMA PingIndInvInit == PingInit => PingIndInv
<1> SUFFICES ASSUME PingInit PROVE PingIndInv
  OBVIOUS
<1>1. NothingSent \in States
  BY DEF NothingSent, States, Times, AppVersions
<1>2. PingTypeOK
  <2>1. sendingInstall \in BOOLEAN /\ timer \in BOOLEAN
    BY Zenon DEF PingInit
  <2>2. /\ now \in 0 .. MaxNow /\ version \in AppVersions
        /\ retryId \in Nat /\ nextId \in Nat
    BY DEF PingInit, AppVersions, NoId
  <2> QED
    BY <1>1, <2>1, <2>2, Zenon DEF PingInit, PingTypeOK
<1> QED
  BY <1>2 DEF PingInit, PingIndInv, PingInv, RetriesKeepTheirId, StoredIdMeansInstallDue,
     FlightMatchesFlag, OneRequestPending, QuietUnlessIdle, DefaultsFollowMemory,
     FlightIsDue, UnackedIdIsStored, AttemptSchedulesRetry, NoId, NoAttempt


(* SendPing from a state that is stored, or whose version is this one,      *)
(* with nothing in flight.                                                  *)
LEMMA SendPingKeepsIndInv ==
  ASSUME PingIndInv, SendPing(mem), urlLoader' = "none",
         pc # "stopped",
         retryId # NoId => InstallDue(mem),
         UNCHANGED <<now, version, retryId, sendingInstall, nextId, bounds, sent, acked>>
  PROVE  PingIndInv'
<1> USE DEF PingIndInv, PingInv
<1>0. mem \in States /\ PingTypeOK
  BY DEF PingTypeOK
<1>1. /\ mem' = AfterAttempt(mem) /\ defaults' = mem' /\ timer' = FALSE /\ pc' = "sending"
      /\ lastAttempt' = [at |-> now, here |-> TRUE]
  BY DEF SendPing
<1>2. /\ mem' \in States /\ mem'.sentVersion = mem.sentVersion
      /\ mem'.next >= now + PostRetryBase
  BY <1>0, <1>1, AfterAttemptFacts
<1>3. PingTypeOK'
  <2>1. timer' \in BOOLEAN
    BY <1>1, Zenon
  <2> QED
    BY <1>0, <1>1, <1>2, <2>1, Zenon DEF PingTypeOK
<1>4. StoredIdMeansInstallDue'
  BY <1>1, <1>2 DEF StoredIdMeansInstallDue, InstallDue
<1>5. /\ FlightMatchesFlag' /\ OneRequestPending' /\ QuietUnlessIdle'
      /\ DefaultsFollowMemory' /\ FlightIsDue'
  BY <1>1 DEF FlightMatchesFlag, OneRequestPending, QuietUnlessIdle, DefaultsFollowMemory,
              FlightIsDue
<1>6. UnackedIdIsStored' /\ RetriesKeepTheirId'
  BY DEF UnackedIdIsStored, RetriesKeepTheirId
<1>7. AttemptSchedulesRetry'
  <2>1. lastAttempt' \in [at : Nat, here : BOOLEAN] /\ lastAttempt'.at = now
    BY <1>0, <1>1 DEF PingTypeOK
  <2> QED
    BY <1>1, <1>2, <2>1 DEF AttemptSchedulesRetry
<1> QED
  BY <1>3, <1>4, <1>5, <1>6, <1>7

(* Waiting for the timer with nothing in flight, from a stored state.      *)
LEMMA ScheduleKeepsIndInv ==
  ASSUME PingIndInv, timer' = TRUE, mem' = mem, defaults' = mem, pc' = "idle",
         urlLoader' = "none", pc # "stopped",
         retryId # NoId => InstallDue(mem),
         UNCHANGED <<now, version, retryId, sendingInstall, nextId, bounds, sent, acked,
                     lastAttempt>>
  PROVE  PingIndInv'
<1> USE DEF PingIndInv, PingInv
<1>1. PingTypeOK'
  <2>1. timer' \in BOOLEAN
    BY Zenon
  <2> QED
    BY <2>1, Zenon DEF PingTypeOK
<1>2. StoredIdMeansInstallDue'
  BY DEF StoredIdMeansInstallDue, InstallDue
<1>3. /\ FlightMatchesFlag' /\ OneRequestPending' /\ QuietUnlessIdle'
      /\ DefaultsFollowMemory' /\ FlightIsDue'
  BY DEF FlightMatchesFlag, OneRequestPending, QuietUnlessIdle, DefaultsFollowMemory,
         FlightIsDue
<1>4. UnackedIdIsStored' /\ RetriesKeepTheirId'
  BY DEF UnackedIdIsStored, RetriesKeepTheirId
<1>5. AttemptSchedulesRetry'
  BY DEF AttemptSchedulesRetry
<1> QED
  BY <1>1, <1>2, <1>3, <1>4, <1>5

(* GetCurrentPingContent, in a started process: the install flag is what is *)
(* due, and a request id is drawn only for an install event without one.    *)
LEMMA CurrentPingContentFacts ==
  ASSUME PingIndInv, CurrentPingContent, pc \in {"starting", "idle", "sending"}
  PROVE  /\ sendingInstall' \in BOOLEAN /\ (sendingInstall' <=> InstallDue(mem))
         /\ nextId' \in Nat /\ nextId' # NoId
         /\ retryId' \in Nat
         /\ retryId # NoId => retryId' = retryId
         /\ sendingInstall' => retryId' # NoId
         /\ retryId' # NoId => InstallDue(mem)
<1> USE DEF PingIndInv, PingInv
<1>1. /\ retryId \in Nat /\ nextId \in Nat /\ nextId # NoId /\ InstallDue(mem) \in BOOLEAN
      /\ retryId # NoId => InstallDue(mem)
  BY DEF PingTypeOK, UnackedIdIsStored, StoredIdMeansInstallDue, InstallDue
<1>2. sendingInstall' = InstallDue(mem)
  BY DEF CurrentPingContent
<1>3. sendingInstall' \in BOOLEAN /\ (sendingInstall' <=> InstallDue(mem))
  BY <1>1, <1>2, Zenon
<1>4. /\ retryId' = IF sendingInstall' /\ retryId = NoId THEN nextId ELSE retryId
      /\ nextId' = nextId + 1 \/ nextId' = nextId
  BY DEF CurrentPingContent, DrawsId
<1> QED
  BY <1>1, <1>3, <1>4 DEF NoId


(* PingIndInv is inductive.                                                    *)
LEMMA PingIndInvNext ==
  ASSUME PingIndInv, [PingNext]_pingVars
  PROVE  PingIndInv'
<1> USE DEF PingIndInv, PingInv
<1>1. ASSUME NEW v \in 1 .. MaxAppVersion, Launch(v)
      PROVE  PingIndInv'
  <2>0. v \in AppVersions /\ v >= version /\ version \in Nat /\ version >= 1
    BY <1>1 DEF Launch, AppVersions, PingTypeOK, UnackedIdIsStored
  <2>1. mem' \in States /\ mem'.sentVersion = defaults.sentVersion /\ defaults' = mem'
    BY <1>1, <2>0, InitializedFacts DEF Launch, PingTypeOK
  <2>2. PingTypeOK'
    BY <1>1, <2>0, <2>1, Zenon DEF Launch, PingTypeOK
  <2>3. StoredIdMeansInstallDue'
    <3>1. defaults.sentVersion \in Nat
      BY DEF PingTypeOK, States, AppVersions
    <3> QED
      BY <1>1, <2>0, <2>1, <3>1 DEF Launch, StoredIdMeansInstallDue, InstallDue
  <2>4. /\ FlightMatchesFlag' /\ OneRequestPending' /\ QuietUnlessIdle'
        /\ DefaultsFollowMemory' /\ FlightIsDue'
    BY <1>1, <2>1 DEF Launch, FlightMatchesFlag, OneRequestPending, QuietUnlessIdle,
                      DefaultsFollowMemory, FlightIsDue
  <2>5. UnackedIdIsStored' /\ RetriesKeepTheirId'
    <3>1. /\ version' = v /\ v \in Nat
          /\ UNCHANGED <<sent, acked, retryId, nextId>>
      BY <1>1, <2>0 DEF Launch
    <3>2. 1 .. version \subseteq 1 .. v
      BY <2>0, <3>1
    <3>3. \A a \in sent : a[1] \in 1 .. version
      BY DEF UnackedIdIsStored
    <3>4. \A a \in sent : a[1] = v => v = version
      BY <2>0, <3>1, <3>3
    <3> QED
      BY <2>0, <3>1, <3>2, <3>4 DEF UnackedIdIsStored, RetriesKeepTheirId
  <2>6. AttemptSchedulesRetry'
    BY <1>1 DEF Launch, AttemptSchedulesRetry
  <2> QED
    BY <2>2, <2>3, <2>4, <2>5, <2>6
<1>2. CASE StartTask
  <2>1. pc # "stopped" /\ urlLoader' = "none" /\ defaults = mem
        /\ (retryId # NoId => InstallDue(mem))
    BY <1>2 DEF StartTask, QuietUnlessIdle, DefaultsFollowMemory, StoredIdMeansInstallDue
  <2>2. CASE mem.next <= now /\ SendPing(mem)
    BY <1>2, <2>1, <2>2, SendPingKeepsIndInv DEF StartTask
  <2>3. CASE ~(mem.next <= now /\ SendPing(mem))
    BY <1>2, <2>1, <2>3, ScheduleKeepsIndInv DEF StartTask, SendOrScheduleNextPing
  <2> QED
    BY <2>2, <2>3
<1>3. CASE TimerFires
  <2>1. pc # "stopped" /\ urlLoader' = "none" /\ (retryId # NoId => InstallDue(mem))
    BY <1>3 DEF TimerFires, OneRequestPending, StoredIdMeansInstallDue, PingTypeOK
  <2> QED
    BY <1>3, <2>1, SendPingKeepsIndInv DEF TimerFires
<1>4. CASE SendRequest
  <2>0. pc = "sending" /\ CurrentPingContent /\ pc' = "idle"
        /\ UNCHANGED <<now, version, mem, defaults, timer, acked, lastAttempt>>
    BY <1>4 DEF SendRequest
  <2>1. /\ sendingInstall' \in BOOLEAN /\ (sendingInstall' <=> InstallDue(mem))
        /\ nextId' \in Nat /\ nextId' # NoId
        /\ retryId' \in Nat
        /\ retryId # NoId => retryId' = retryId
        /\ sendingInstall' => retryId' # NoId
        /\ retryId' # NoId => InstallDue(mem)
    BY <2>0, CurrentPingContentFacts
  <2>2. /\ urlLoader' = IF sendingInstall' THEN "install" ELSE "usage"
        /\ sent' = IF sendingInstall' THEN sent \cup {<<version, retryId'>>} ELSE sent
    BY <1>4 DEF SendRequest
  <2>3. PingTypeOK'
    BY <2>0, <2>1, <2>2, Zenon DEF PingTypeOK
  <2>4. StoredIdMeansInstallDue' /\ DefaultsFollowMemory'
    BY <2>0, <2>1 DEF StoredIdMeansInstallDue, InstallDue, DefaultsFollowMemory
  <2>5. FlightMatchesFlag' /\ OneRequestPending' /\ QuietUnlessIdle'
    <3>1. timer = FALSE
      BY <2>0 DEF QuietUnlessIdle, PingTypeOK
    <3>2. sendingInstall' = (urlLoader' = "install")
      BY <2>1, <2>2, Zenon
    <3> QED
      BY <2>0, <2>2, <3>1, <3>2 DEF FlightMatchesFlag, OneRequestPending, QuietUnlessIdle
  <2>6. FlightIsDue'
    BY <2>0, <2>1, <2>2 DEF FlightIsDue, InstallDue
  <2>7. UnackedIdIsStored'
    <3>1. <<version, retryId'>> \in (1 .. version) \X Nat
      BY <2>1 DEF UnackedIdIsStored, PingTypeOK, AppVersions
    <3> QED
      BY <2>0, <2>1, <2>2, <3>1 DEF UnackedIdIsStored
  <2>8. RetriesKeepTheirId'
    BY <2>0, <2>1, <2>2 DEF UnackedIdIsStored, RetriesKeepTheirId
  <2>9. AttemptSchedulesRetry'
    BY <2>0 DEF AttemptSchedulesRetry
  <2> QED
    BY <2>3, <2>4, <2>5, <2>6, <2>7, <2>8, <2>9
<1>5. CASE GetDebugInformation
  <2>0. /\ pc \in {"starting", "idle"} /\ CurrentPingContent
        /\ UNCHANGED <<now, version, pc, mem, defaults, urlLoader, timer, sent, acked,
                       lastAttempt>>
    BY <1>5 DEF GetDebugInformation
  <2>1. /\ sendingInstall' \in BOOLEAN /\ (sendingInstall' <=> InstallDue(mem))
        /\ nextId' \in Nat /\ nextId' # NoId
        /\ retryId' \in Nat
        /\ retryId # NoId => retryId' = retryId
        /\ retryId' # NoId => InstallDue(mem)
    BY <2>0, CurrentPingContentFacts
  <2>2. PingTypeOK'
    BY <2>0, <2>1, Zenon DEF PingTypeOK
  <2>3. StoredIdMeansInstallDue' /\ DefaultsFollowMemory'
    BY <2>0, <2>1 DEF StoredIdMeansInstallDue, InstallDue, DefaultsFollowMemory
  <2>4. OneRequestPending' /\ QuietUnlessIdle' /\ FlightIsDue'
    BY <2>0 DEF OneRequestPending, QuietUnlessIdle, FlightIsDue, InstallDue
  <2>5. FlightMatchesFlag'
    <3>1. urlLoader' # "none" => (sendingInstall' <=> urlLoader' = "install")
      BY <2>0, <2>1 DEF FlightIsDue
    <3> QED
      BY <2>1, <3>1, Zenon DEF FlightMatchesFlag
  <2>6. UnackedIdIsStored' /\ RetriesKeepTheirId'
    BY <2>0, <2>1 DEF UnackedIdIsStored, RetriesKeepTheirId
  <2>7. AttemptSchedulesRetry'
    BY <2>0 DEF AttemptSchedulesRetry
  <2> QED
    BY <2>2, <2>3, <2>4, <2>5, <2>6, <2>7
<1>6. CASE RequestFails
  <2>1. pc # "stopped" /\ urlLoader' = "none" /\ defaults = mem
        /\ (retryId # NoId => InstallDue(mem))
    BY <1>6 DEF RequestFails, DefaultsFollowMemory, StoredIdMeansInstallDue
  <2>2. CASE mem.next <= now /\ SendPing(mem)
    BY <1>6, <2>1, <2>2, SendPingKeepsIndInv DEF RequestFails
  <2>3. CASE ~(mem.next <= now /\ SendPing(mem))
    BY <1>6, <2>1, <2>3, ScheduleKeepsIndInv DEF RequestFails, SendOrScheduleNextPing
  <2> QED
    BY <2>2, <2>3
<1>7. CASE RequestSucceeds
  <2>0. /\ pc = "idle" /\ urlLoader # "none" /\ urlLoader' = "none" /\ pc' = "acknowledged"
        /\ mem' = Acknowledged(mem) /\ sendingInstall' = FALSE /\ retryId' = NoId
        /\ acked' = (IF sendingInstall THEN acked \cup {version} ELSE acked)
        /\ lastAttempt' = NoAttempt
        /\ UNCHANGED <<now, version, defaults, timer, nextId, sent>>
    BY <1>7 DEF RequestSucceeds, IdAfterAcknowledge
  <2>1. mem' \in States /\ mem'.sentVersion = version
    BY <2>0 DEF Acknowledged, States, PingTypeOK, Times, AppVersions
  <2>2. PingTypeOK'
    <3>1. sendingInstall' \in BOOLEAN /\ retryId' \in Nat
      <4>1. sendingInstall' \in BOOLEAN
        BY <2>0, Zenon
      <4> QED
        BY <2>0, <4>1 DEF NoId
    <3> QED
      BY <2>0, <2>1, <3>1, Zenon DEF PingTypeOK
  <2>3. StoredIdMeansInstallDue' /\ DefaultsFollowMemory'
    BY <2>0, <2>1 DEF StoredIdMeansInstallDue, DefaultsFollowMemory
  <2>4. FlightMatchesFlag' /\ OneRequestPending' /\ QuietUnlessIdle' /\ FlightIsDue'
    <3>1. ~timer
      BY <2>0 DEF OneRequestPending, PingTypeOK
    <3> QED
      BY <2>0, <3>1 DEF FlightMatchesFlag, OneRequestPending, QuietUnlessIdle, FlightIsDue
  <2>5. UnackedIdIsStored' /\ RetriesKeepTheirId'
    (* A usage ping is only in flight when no request id is stored, so that *)
    (* no install event waits for its acknowledgement.                      *)
    <3>1. ~sendingInstall => retryId = NoId
      BY <2>0 DEF FlightMatchesFlag, FlightIsDue, StoredIdMeansInstallDue
    <3>2. acked \subseteq acked' /\ (sendingInstall => version \in acked')
      BY <2>0
    <3> QED
      BY <2>0, <3>1, <3>2 DEF UnackedIdIsStored, RetriesKeepTheirId
  <2>6. AttemptSchedulesRetry'
    BY <2>0 DEF AttemptSchedulesRetry, NoAttempt
  <2> QED
    BY <2>2, <2>3, <2>4, <2>5, <2>6
<1>8. CASE PersistAcknowledged
  <2>1. pc # "stopped" /\ urlLoader' = "none" /\ retryId = NoId
    BY <1>8 DEF PersistAcknowledged, DefaultsFollowMemory, QuietUnlessIdle
  <2>2. CASE mem.next <= now /\ SendPing(mem)
    BY <1>8, <2>1, <2>2, SendPingKeepsIndInv DEF PersistAcknowledged
  <2>3. CASE ~(mem.next <= now /\ SendPing(mem))
    BY <1>8, <2>1, <2>3, ScheduleKeepsIndInv DEF PersistAcknowledged
  <2> QED
    BY <2>2, <2>3
<1>9. CASE Dies
  <2>0. /\ pc' = "stopped" /\ mem' = NothingSent /\ sendingInstall' = FALSE
        /\ urlLoader' = "none" /\ timer' = FALSE
        /\ lastAttempt' = [lastAttempt EXCEPT !.here = FALSE]
        /\ UNCHANGED <<now, version, defaults, retryId, nextId, sent, acked>>
    BY <1>9 DEF Dies
  <2>1. PingTypeOK'
    <3>1. sendingInstall' \in BOOLEAN /\ timer' \in BOOLEAN
      BY <2>0, Zenon
    <3>2. NothingSent \in States
      BY DEF NothingSent, States, Times, AppVersions
    <3> QED
      BY <2>0, <3>1, <3>2, Zenon DEF PingTypeOK
  <2>2. StoredIdMeansInstallDue' /\ DefaultsFollowMemory'
    BY <2>0 DEF StoredIdMeansInstallDue, DefaultsFollowMemory
  <2>3. FlightMatchesFlag' /\ OneRequestPending' /\ QuietUnlessIdle' /\ FlightIsDue'
    BY <2>0 DEF FlightMatchesFlag, OneRequestPending, QuietUnlessIdle, FlightIsDue
  <2>4. UnackedIdIsStored' /\ RetriesKeepTheirId'
    BY <2>0 DEF UnackedIdIsStored, RetriesKeepTheirId
  <2>5. AttemptSchedulesRetry'
    BY <2>0 DEF AttemptSchedulesRetry
  <2> QED
    BY <2>1, <2>2, <2>3, <2>4, <2>5
<1>10. CASE Tick \/ SetClock
  <2>0. /\ now' \in 0 .. MaxNow
        /\ UNCHANGED <<version, pc, defaults, retryId, process, nextId, sent, acked>>
        /\ lastAttempt' \in {lastAttempt, NoAttempt}
    BY <1>10 DEF Tick, SetClock, PingTypeOK, ghosts
  <2>1. PingTypeOK'
    BY <2>0, Zenon DEF PingTypeOK, process
  <2>2. StoredIdMeansInstallDue' /\ DefaultsFollowMemory'
    BY <2>0 DEF StoredIdMeansInstallDue, DefaultsFollowMemory, InstallDue, process
  <2>3. FlightMatchesFlag' /\ OneRequestPending' /\ QuietUnlessIdle' /\ FlightIsDue'
    BY <2>0 DEF FlightMatchesFlag, OneRequestPending, QuietUnlessIdle, FlightIsDue,
                InstallDue, process
  <2>4. UnackedIdIsStored' /\ RetriesKeepTheirId'
    BY <2>0 DEF UnackedIdIsStored, RetriesKeepTheirId
  <2>5. AttemptSchedulesRetry'
    <3>1. NoAttempt \in [at : Nat, here : BOOLEAN] /\ ~NoAttempt.here
      BY DEF NoAttempt
    <3> QED
      BY <2>0, <3>1 DEF AttemptSchedulesRetry, process
  <2> QED
    BY <2>1, <2>2, <2>3, <2>4, <2>5
<1>11. CASE UNCHANGED pingVars
  BY <1>11 DEF pingVars, PingTypeOK, StoredIdMeansInstallDue, FlightMatchesFlag, OneRequestPending,
     QuietUnlessIdle, DefaultsFollowMemory, FlightIsDue, UnackedIdIsStored,
     AttemptSchedulesRetry, RetriesKeepTheirId, InstallDue
<1> QED
  BY <1>1, <1>2, <1>3, <1>4, <1>5, <1>6, <1>7, <1>8, <1>9, <1>10, <1>11 DEF PingNext

-----------------------------------------------------------------------------
(* The parts of PingInv hold in every reachable state, and install events   *)
(* that wait for their acknowledgement share one request id.                *)
LEMMA PingIndInvariance == PingSpec => []PingIndInv
  BY PingIndInvInit, PingIndInvNext, PTL DEF PingSpec

(* Whatever the schedule, the deaths, the updates and the clock do: the     *)
(* stored id belongs to an install event that is due, the flag describes    *)
(* the request in flight, and the loop of timer and request goes on.        *)
THEOREM PingInvariance == PingSpec => []PingInv
  BY PingIndInvariance, PTL DEF PingIndInv

(* An install event is retried with its own request id until it is          *)
(* acknowledged, over any number of deaths, updates and clock changes.      *)
THEOREM RetriesAlwaysKeepTheirId == PingSpec => []RetriesKeepTheirId
  BY PingIndInvariance, PTL DEF PingIndInv

(* A process never sends a ping again before kPostRetryBaseSeconds have     *)
(* passed since its last attempt, unless that one succeeded.                *)
THEOREM RetriesAlwaysWait == PingSpec => RetriesWait
<1>1. ASSUME PingIndInv, [PingNext]_pingVars
      PROVE  [pc' = "sending" /\ lastAttempt.here /\ pc # "sending"
                => now >= lastAttempt.at + PostRetryBase]_pingVars
  <2> SUFFICES ASSUME PingNext, pc' = "sending", lastAttempt.here, pc # "sending"
               PROVE  now >= lastAttempt.at + PostRetryBase
    BY <1>1
  <2>1. /\ pc = "idle" /\ mem.next >= lastAttempt.at + PostRetryBase
        /\ now \in Nat /\ mem.next \in Nat /\ lastAttempt.at \in Nat
    BY <1>1 DEF PingIndInv, PingInv, AttemptSchedulesRetry, PingTypeOK, States, Times
  <2>2. mem.next <= now
    BY <2>1 DEF PingNext, Launch, StartTask, TimerFires, SendRequest, GetDebugInformation,
       RequestFails, RequestSucceeds, PersistAcknowledged, Dies, Tick, SetClock,
       SendOrScheduleNextPing, process
  <2> QED
    BY <2>1, <2>2
<1> QED
  BY <1>1, PingIndInvariance, PTL DEF PingSpec, RetriesWait

-----------------------------------------------------------------------------
(* SnapshotCache.  The inductive invariant is SnapshotInv itself.  What the *)
(* posted tasks will have done to the files (Settled) does not change when  *)
(* one of them runs, and what is posted acts on the settled files: so every *)
(* step is a step on them, whatever is still in the queue.                  *)
HIDE OmahaAssumption

(* An entry of the memory cache.                                           *)
Entry == Tabs \X Images

(* Every id has one entry.                                                 *)
Distinct(c) == \A i, j \in 1..Len(c) : c[i][1] = c[j][1] => i = j

(* The contents a cache may have.                                          *)
Caches == {c \in Seq(Entry) : Distinct(c) /\ Len(c) <= Capacity}

(* The function that WithoutObjects defines by recursion.                  *)
LEMMA KeptExists ==
  ASSUME NEW S, NEW c \in Seq(S), NEW ids
  PROVE  \E f : /\ f[0] = <<>>
                /\ \A n \in 1..Len(c) :
                     f[n] = IF c[n][1] \in ids THEN f[n - 1] ELSE Append(f[n - 1], c[n])
                /\ WithoutObjects(c, ids) = f[Len(c)]
<1> DEFINE L == Len(c)
           D == Seq(S)
           step == [n \in 1..L |-> [d \in D |->
                      IF c[n][1] \in ids THEN d ELSE Append(d, c[n])]]
           F(g) == [n \in 0..L |->
                      IF n = 0 THEN <<>>
                      ELSE IF c[n][1] \in ids THEN g[n - 1] ELSE Append(g[n - 1], c[n])]
           kept == CHOOSE g : g = F(g)
<1>1. L \in Nat /\ <<>> \in D /\ \A n \in 1..L : c[n] \in S
  BY LenProperties, ElementOfSeq, EmptySeq
<1>2. AreSteps(step, L, D)
  <2>1. ASSUME NEW n \in 1..L, NEW d \in D
        PROVE  (IF c[n][1] \in ids THEN d ELSE Append(d, c[n])) \in D
    BY <1>1, AppendProperties
  <2> HIDE DEF D
  <2> QED
    BY <2>1 DEF AreSteps
<1>3. \A d \in D, n \in 1..L :
        step[n][d] = IF c[n][1] \in ids THEN d ELSE Append(d, c[n])
  OBVIOUS
<1> HIDE DEF step, D, L
<1>4. PICK g \in [0..L -> D] :
        g[0] = <<>> /\ \A n \in 1..L : g[n] = step[n][g[n - 1]]
  <2> HIDE DEF F, kept
  <2>1. \E g : AreResults(g, <<>>, step, L, D)
    BY <1>1, <1>2, ResultsExist
  <2> QED
    BY <2>1 DEF AreResults
<1>5. ASSUME NEW n \in 0..L
      PROVE  g[n] = IF n = 0 THEN <<>>
                    ELSE IF c[n][1] \in ids THEN g[n - 1] ELSE Append(g[n - 1], c[n])
  <2>1. CASE n = 0
    BY <1>4, <2>1
  <2>2. CASE n # 0
    <3>1. n \in 1..L /\ n - 1 \in 0..L
      BY <1>1, <2>2
    <3>2. g[n] = step[n][g[n - 1]] /\ g[n - 1] \in D
      BY <1>4, <3>1
    <3> QED
      BY <1>3, <2>2, <3>1, <3>2
  <2> QED
    BY <2>1, <2>2
<1>6. g = F(g)
  BY <1>5
<1>7. kept = F(kept)
  BY <1>6, Zenon
<1>8. WithoutObjects(c, ids) = kept[L]
  BY Zenon DEF WithoutObjects, L
<1> HIDE DEF kept
<1>9. kept[0] = <<>>
  <2>1. 0 \in 0..L
    BY <1>1
  <2> QED
    BY <1>7, <2>1
<1>10. \A n \in 1..L :
         kept[n] = IF c[n][1] \in ids THEN kept[n - 1] ELSE Append(kept[n - 1], c[n])
  <2>1. \A n \in 1..L : n \in 0..L /\ n # 0
    BY <1>1
  <2> QED
    BY <1>7, <2>1
<1> QED
  BY <1>8, <1>9, <1>10, Zenon DEF L

(* It leaves out the entries of the ids, and only them.                    *)
LEMMA WithoutObjectsProperties ==
  ASSUME NEW c \in Seq(Entry), Distinct(c), NEW ids
  PROVE  LET w == WithoutObjects(c, ids)
         IN  /\ w \in Seq(Entry) /\ Distinct(w) /\ Len(w) <= Len(c)
             /\ \A i \in 1..Len(w) : w[i][1] \notin ids
             /\ (\E m \in 1..Len(c) : c[m][1] \in ids) => Len(w) < Len(c)
<1> DEFINE L == Len(c)
<1>0. L \in Nat /\ \A n \in 1..L : c[n] \in Entry
  BY LenProperties, ElementOfSeq
<1>1. PICK f : /\ f[0] = <<>>
               /\ \A n \in 1..L :
                    f[n] = IF c[n][1] \in ids THEN f[n - 1] ELSE Append(f[n - 1], c[n])
               /\ WithoutObjects(c, ids) = f[L]
  BY KeptExists, Zenon
<1> DEFINE Good(w, n) ==
             /\ w \in Seq(Entry) /\ Distinct(w) /\ Len(w) <= n
             /\ \A i \in 1..Len(w) : \E m \in 1..n : w[i] = c[m] /\ c[m][1] \notin ids
             /\ (\E m \in 1..n : c[m][1] \in ids) => Len(w) < n
           G == {n \in 0..L : Good(f[n], n)}
<1>2. 0 \in G
  <2>1. f[0] \in Seq(Entry) /\ Len(f[0]) = 0 /\ 1..0 = {}
    BY <1>1, EmptySeq
  <2>2. Good(f[0], 0)
    BY <2>1 DEF Distinct
  <2> QED
    BY <1>0, <2>2
<1>3. ASSUME NEW n \in 1..L, n - 1 \in G
      PROVE  n \in G
  <2> DEFINE h == f[n - 1]
             x == c[n]
  <2>1. Good(h, n - 1)
    BY <1>3
  <2>2. x \in Entry /\ n \in 0..L /\ n \in 1..n /\ 1..(n - 1) \subseteq 1..n
        /\ \A m \in 1..n : m \in 1..(n - 1) \/ m = n
    BY <1>0
  <2>3. f[n] = IF x[1] \in ids THEN h ELSE Append(h, x)
    BY <1>1
  <2>4. /\ h \in Seq(Entry) /\ Distinct(h) /\ Len(h) <= n - 1 /\ Len(h) \in Nat
        /\ \A i \in 1..Len(h) : \E m \in 1..(n - 1) : h[i] = c[m] /\ c[m][1] \notin ids
        /\ (\E m \in 1..(n - 1) : c[m][1] \in ids) => Len(h) < n - 1
    BY <2>1, LenProperties
  <2>5. \A i \in 1..Len(h) : h[i][1] # x[1]
    <3> SUFFICES ASSUME NEW i \in 1..Len(h), h[i][1] = x[1] PROVE FALSE
      OBVIOUS
    <3>1. PICK m \in 1..(n - 1) : h[i] = c[m]
      BY <2>4
    <3>2. m \in 1..L /\ n \in 1..L /\ m # n
      BY <1>0
    <3> QED
      BY <3>1, <3>2 DEF Distinct
  <2>6. CASE x[1] \in ids
    <3>1. f[n] = h
      BY <2>3, <2>6
    <3>2. Len(h) <= n /\ Len(h) < n
      BY <2>4
    <3>3. Good(h, n)
      <4> HIDE DEF h, x
      <4> QED
        BY <2>2, <2>4, <3>2
    <3> HIDE DEF Good, h
    <3> QED
      BY <2>2, <3>1, <3>3
  <2>7. CASE x[1] \notin ids
    <3> DEFINE w == Append(h, x)
    <3>1. f[n] = w
      BY <2>3, <2>7
    <3> HIDE DEF h
    <3>2. /\ w \in Seq(Entry) /\ Len(w) = Len(h) + 1 /\ w[Len(h) + 1] = x
          /\ \A i \in 1..Len(h) : w[i] = h[i]
      BY <2>2, <2>4, AppendProperties
    <3> HIDE DEF w
    <3>3. \A i \in 1..Len(w) : i \in 1..Len(h) \/ i = Len(h) + 1
      BY <2>4, <3>2
    <3>4. Distinct(w)
      <4>1. \A i \in 1..Len(h) : w[i][1] # x[1]
        BY <2>5, <3>2
      <4>2. ASSUME NEW i \in 1..Len(w), NEW j \in 1..Len(w), w[i][1] = w[j][1]
            PROVE  i = j
        <5>1. CASE i \in 1..Len(h) /\ j \in 1..Len(h)
          BY <2>4, <3>2, <4>2, <5>1 DEF Distinct
        <5> QED
          BY <3>2, <3>3, <4>1, <4>2, <5>1
      <4> QED
        BY <4>2 DEF Distinct
    <3>5. \A i \in 1..Len(w) : \E m \in 1..n : w[i] = c[m] /\ c[m][1] \notin ids
      <4>1. ASSUME NEW i \in 1..Len(h)
            PROVE  \E m \in 1..n : w[i] = c[m] /\ c[m][1] \notin ids
        <5>1. PICK m \in 1..(n - 1) : h[i] = c[m] /\ c[m][1] \notin ids
          BY <2>4
        <5> QED
          BY <2>2, <3>2, <5>1
      <4>2. w[Len(h) + 1] = c[n] /\ c[n][1] \notin ids
        BY <2>7, <3>2
      <4> QED
        BY <2>2, <3>3, <4>1, <4>2
    <3>6. (\E m \in 1..n : c[m][1] \in ids) => Len(w) < n
      <4>1. ASSUME NEW m \in 1..n, c[m][1] \in ids PROVE Len(w) < n
        <5>1. m \in 1..(n - 1)
          BY <2>2, <2>7, <4>1
        <5>2. Len(h) < n - 1
          BY <2>4, <4>1, <5>1
        <5> QED
          BY <2>4, <3>2, <5>2
      <4> QED
        BY <4>1
    <3>7. Len(w) <= n
      BY <2>4, <3>2
    <3>8. Good(w, n)
      BY <3>2, <3>4, <3>5, <3>6, <3>7
    <3> HIDE DEF Good
    <3> QED
      BY <2>2, <3>1, <3>8
  <2> QED
    BY <2>6, <2>7
<1>4. \A n \in 0..L : n \in G
  <2> HIDE DEF G, L
  <2> QED
    BY <1>0, <1>2, <1>3, CountUp
<1>5. L \in 0..L
  BY <1>0
<1>6. Good(f[L], L)
  <2> HIDE DEF Good
  <2> QED
    BY <1>4, <1>5
<1> DEFINE w == WithoutObjects(c, ids)
<1>7. Good(w, L)
  <2> HIDE DEF Good
  <2> QED
    BY <1>1, <1>6
<1> HIDE DEF w
<1>8. /\ w \in Seq(Entry) /\ Distinct(w) /\ Len(w) <= L
      /\ \A i \in 1..Len(w) : w[i][1] \notin ids
      /\ (\E m \in 1..L : c[m][1] \in ids) => Len(w) < L
  BY <1>7
<1> QED
  BY <1>8 DEF w

(* What is peeked at is an image or nil.                                   *)
LEMMA PeekIsAnImage ==
  ASSUME NEW c \in Seq(Entry), NEW id
  PROVE  Peek(c, id) \in Images
<1>1. DOMAIN c = 1..Len(c) /\ \A n \in 1..Len(c) : c[n] \in Entry
  BY LenProperties, ElementOfSeq
<1>2. CASE id \in Keys(c)
  <2>1. \E e \in Range(c) : e[1] = id
    BY <1>2 DEF Keys, Range
  <2> DEFINE e == CHOOSE x \in Range(c) : x[1] = id
  <2>2. e \in Range(c)
    BY <2>1
  <2>3. e \in Entry
    <3> HIDE DEF e
    <3> QED
      BY <1>1, <2>2 DEF Range
  <2>4. Peek(c, id) = e[2]
    BY <1>2 DEF Peek
  <2> HIDE DEF e
  <2> QED
    BY <2>3, <2>4 DEF Entry
<1>3. CASE id \notin Keys(c)
  BY <1>3, SnapshotAssumption DEF Peek, Images, Nil
<1> QED
  BY <1>2, <1>3

(* A new entry at the front of the others.                                 *)
LEMMA FrontEntry ==
  ASSUME NEW c \in Seq(Entry), Distinct(c), NEW e \in Entry,
         \A i \in 1..Len(c) : c[i][1] # e[1]
  PROVE  LET w == <<e>> \o c
         IN  w \in Seq(Entry) /\ Distinct(w) /\ Len(w) = Len(c) + 1
<1> DEFINE h == <<e>>
           w == h \o c
<1>1. h \in Seq(Entry) /\ Len(h) = 1 /\ h[1] = e
  OBVIOUS
<1> HIDE DEF h
<1>2. /\ w \in Seq(Entry) /\ Len(w) = Len(h) + Len(c)
      /\ \A k \in 1..(Len(h) + Len(c)) : w[k] = IF k <= Len(h) THEN h[k] ELSE c[k - Len(h)]
  BY <1>1, ConcatProperties
<1>3. Len(c) \in Nat
  BY LenProperties
<1> HIDE DEF w
<1>4. Len(w) = Len(c) + 1 /\ w[1] = e
  BY <1>1, <1>2, <1>3
<1>5. ASSUME NEW k \in 1..Len(w), k # 1
      PROVE  k - 1 \in 1..Len(c) /\ w[k] = c[k - 1]
  BY <1>1, <1>2, <1>3, <1>4, <1>5
<1>6. ASSUME NEW i \in 1..Len(w), NEW j \in 1..Len(w), w[i][1] = w[j][1]
      PROVE  i = j
  <2>1. CASE i # 1 /\ j # 1
    <3>1. i - 1 = j - 1
      BY <1>5, <1>6, <2>1 DEF Distinct
    <3> QED
      BY <1>3, <1>4, <3>1
  <2> QED
    BY <1>4, <1>5, <1>6, <2>1
<1>7. Distinct(w)
  BY <1>6 DEF Distinct
<1> QED
  BY <1>2, <1>4, <1>7 DEF w, h

(* Eviction keeps the first entries.                                       *)
LEMMA EvictProperties ==
  ASSUME NEW c \in Seq(Entry), Distinct(c)
  PROVE  Evict(c) \in Caches
<1> DEFINE n == IF Len(c) > Capacity THEN Capacity ELSE Len(c)
           w == SubSeq(c, 1, n)
<1>1. Len(c) \in Nat /\ n \in Nat /\ n <= Len(c) /\ n <= Capacity
      /\ \A k \in 1..Len(c) : c[k] \in Entry
  BY LenProperties, ElementOfSeq, SnapshotAssumption
<1>2. Evict(c) = w
  BY DEF Evict
<1> HIDE DEF n
<1>3. /\ w \in Seq(Entry) /\ Len(w) = IF 1 <= n THEN n - 1 + 1 ELSE 0
      /\ \A k \in 1..(n - 1 + 1) : w[k] = c[1 + k - 1]
  <2>1. \A k \in 1..n : c[k] \in Entry
    BY <1>1
  <2> QED
    BY <1>1, <2>1, SubSeqProperties
<1> HIDE DEF w
<1>4. Len(w) = n /\ \A k \in 1..n : k \in 1..Len(c) /\ w[k] = c[k]
  BY <1>1, <1>3
<1>5. Distinct(w)
  BY <1>4 DEF Distinct
<1> QED
  BY <1>1, <1>2, <1>3, <1>4, <1>5 DEF Caches

(* The operations of the cache give caches.                                *)
LEMMA SetObjectIsACache ==
  ASSUME NEW c \in Caches, NEW id \in Tabs, NEW image \in Images
  PROVE  SetObject(c, id, image) \in Caches
<1> DEFINE w == WithoutObjects(c, {id})
           e == <<id, image>>
<1>1. c \in Seq(Entry) /\ Distinct(c) /\ e \in Entry /\ e[1] = id
  BY DEF Caches, Entry
<1>2. w \in Seq(Entry) /\ Distinct(w) /\ \A i \in 1..Len(w) : w[i][1] \notin {id}
  BY <1>1, WithoutObjectsProperties
<1>3. SetObject(c, id, image) = Evict(<<e>> \o w)
  BY DEF SetObject, RemoveObject
<1> HIDE DEF w, e
<1>4. <<e>> \o w \in Seq(Entry) /\ Distinct(<<e>> \o w)
  BY <1>1, <1>2, FrontEntry
<1> QED
  BY <1>3, <1>4, EvictProperties

(* Looking an id up ...                                                    *)
LEMMA TouchIsACache ==
  ASSUME NEW c \in Caches, NEW id \in Tabs
  PROVE  Touch(c, id) \in Caches
<1> DEFINE w == WithoutObjects(c, {id})
           e == <<id, Peek(c, id)>>
<1>1. c \in Seq(Entry) /\ Distinct(c) /\ Len(c) <= Capacity
  BY DEF Caches
<1>2. e \in Entry /\ e[1] = id
  BY <1>1, PeekIsAnImage DEF Entry
<1>3. /\ w \in Seq(Entry) /\ Distinct(w) /\ \A i \in 1..Len(w) : w[i][1] \notin {id}
      /\ (\E m \in 1..Len(c) : c[m][1] \in {id}) => Len(w) < Len(c)
  BY <1>1, WithoutObjectsProperties
<1>4. Touch(c, id) = IF id \in Keys(c) THEN <<e>> \o w ELSE c
  BY DEF Touch, RemoveObject
<1> HIDE DEF w, e
<1>5. CASE id \in Keys(c)
  <2>1. \E m \in 1..Len(c) : c[m][1] \in {id}
    <3>1. DOMAIN c = 1..Len(c)
      BY <1>1, LenProperties
    <3> QED
      BY <1>5, <3>1 DEF Keys
  <2>2. <<e>> \o w \in Seq(Entry) /\ Distinct(<<e>> \o w) /\ Len(<<e>> \o w) = Len(w) + 1
    BY <1>1, <1>2, <1>3, FrontEntry
  <2>3. Len(w) + 1 <= Capacity
    BY <1>1, <1>3, <2>1, LenProperties, SnapshotAssumption
  <2> QED
    BY <1>4, <1>5, <2>2, <2>3 DEF Caches
<1> QED
  BY <1>4, <1>5

(* ... removing some ...                                                   *)
LEMMA WithoutObjectsIsACache ==
  ASSUME NEW c \in Caches, NEW ids
  PROVE  WithoutObjects(c, ids) \in Caches
<1> DEFINE w == WithoutObjects(c, ids)
<1>1. c \in Seq(Entry) /\ Distinct(c) /\ Len(c) <= Capacity /\ Len(c) \in Nat
  BY LenProperties DEF Caches
<1>2. w \in Seq(Entry) /\ Distinct(w) /\ Len(w) <= Len(c)
  BY <1>1, WithoutObjectsProperties
<1> HIDE DEF w
<1>3. Len(w) <= Capacity
  BY <1>1, <1>2, LenProperties, SnapshotAssumption
<1>4. w \in Caches
  BY <1>2, <1>3 DEF Caches
<1> QED
  BY <1>4 DEF w

(* ... removing all.                                                       *)
LEMMA EmptyIsACache ==
  <<>> \in Caches
  BY EmptySeq, SnapshotAssumption DEF Caches, Distinct

(* Looking several ids up.                                                 *)
LEMMA TouchAllIsACache ==
  ASSUME NEW c \in Caches, NEW ids \in Seq(Tabs)
  PROVE  TouchAll(c, ids) \in Caches
<1> DEFINE L == Len(ids)
           step == [n \in 1..L |-> [d \in Caches |-> Touch(d, ids[n])]]
           F(g) == [n \in 0..L |-> IF n = 0 THEN c ELSE Touch(g[n - 1], ids[n])]
           touched == CHOOSE g : g = F(g)
<1>1. L \in Nat /\ \A n \in 1..L : ids[n] \in Tabs
  BY LenProperties, ElementOfSeq
<1>2. \A n \in 1..L, d \in Caches : Touch(d, ids[n]) \in Caches
  BY <1>1, TouchIsACache
<1>3. AreSteps(step, L, Caches) /\ \A n \in 1..L, d \in Caches : step[n][d] = Touch(d, ids[n])
  BY <1>2 DEF AreSteps
<1> HIDE DEF step, L
<1>4. PICK g \in [0..L -> Caches] :
        g[0] = c /\ \A n \in 1..L : g[n] = step[n][g[n - 1]]
  <2> HIDE DEF F, touched
  <2>1. \E g : AreResults(g, c, step, L, Caches)
    BY <1>1, <1>3, ResultsExist
  <2> QED
    BY <2>1 DEF AreResults
<1>5. ASSUME NEW n \in 0..L
      PROVE  g[n] = IF n = 0 THEN c ELSE Touch(g[n - 1], ids[n])
  <2>1. CASE n = 0
    BY <1>4, <2>1
  <2>2. CASE n # 0
    <3>1. n \in 1..L /\ n - 1 \in 0..L
      BY <1>1, <2>2
    <3>2. g[n] = step[n][g[n - 1]] /\ g[n - 1] \in Caches
      BY <1>4, <3>1
    <3> QED
      BY <1>3, <2>2, <3>1, <3>2
  <2> QED
    BY <2>1, <2>2
<1>6. g = F(g)
  BY <1>5
<1>7. touched = F(touched)
  BY <1>6, Zenon
<1>8. TouchAll(c, ids) = touched[L]
  BY Zenon DEF TouchAll, L
<1> HIDE DEF touched
<1> DEFINE G == {n \in 0..L : touched[n] \in Caches}
<1>9. 0 \in G
  BY <1>1, <1>7
<1>10. ASSUME NEW n \in 1..L, n - 1 \in G PROVE n \in G
  <2>1. n \in 0..L /\ n # 0 /\ touched[n - 1] \in Caches
    BY <1>1, <1>10
  <2>2. touched[n] = Touch(touched[n - 1], ids[n])
    BY <1>7, <2>1
  <2> QED
    BY <1>2, <2>1, <2>2
<1>11. \A n \in 0..L : n \in G
  <2> HIDE DEF G
  <2> QED
    BY <1>1, <1>9, <1>10, CountUp
<1>12. L \in 0..L
  BY <1>1
<1> QED
  BY <1>8, <1>11, <1>12

(* Setting the images of several ids again.                                *)
LEMMA SetAgainIsACache ==
  ASSUME NEW c \in Caches, NEW ids \in Seq(Tabs)
  PROVE  SetAgain(c, ids) \in Caches
<1> DEFINE L == Len(ids)
           Set(d, n) == SetObject(d, ids[n], Peek(c, ids[n]))
           step == [n \in 1..L |-> [d \in Caches |-> Set(d, n)]]
           F(g) == [n \in 0..L |-> IF n = 0 THEN <<>> ELSE SetObject(g[n - 1], ids[n], Peek(c, ids[n]))]
           set == CHOOSE g : g = F(g)
<1>1. L \in Nat /\ \A n \in 1..L : ids[n] \in Tabs
  BY LenProperties, ElementOfSeq
<1>2. \A n \in 1..L, d \in Caches : Set(d, n) \in Caches
  <2>1. c \in Seq(Entry)
    BY DEF Caches
  <2> QED
    BY <1>1, <2>1, PeekIsAnImage, SetObjectIsACache
<1>3. AreSteps(step, L, Caches) /\ \A n \in 1..L, d \in Caches : step[n][d] = Set(d, n)
  <2> HIDE DEF Set
  <2> QED
    BY <1>2 DEF AreSteps
<1> HIDE DEF step, L
<1>4. PICK g \in [0..L -> Caches] :
        g[0] = <<>> /\ \A n \in 1..L : g[n] = step[n][g[n - 1]]
  <2> HIDE DEF F, set
  <2>1. \E g : AreResults(g, <<>>, step, L, Caches)
    BY <1>1, <1>3, EmptyIsACache, ResultsExist
  <2> QED
    BY <2>1 DEF AreResults
<1>5. ASSUME NEW n \in 0..L
      PROVE  g[n] = IF n = 0 THEN <<>> ELSE Set(g[n - 1], n)
  <2> HIDE DEF Set
  <2>1. CASE n = 0
    BY <1>4, <2>1
  <2>2. CASE n # 0
    <3>1. n \in 1..L /\ n - 1 \in 0..L
      BY <1>1, <2>2
    <3>2. g[n] = step[n][g[n - 1]] /\ g[n - 1] \in Caches
      BY <1>4, <3>1
    <3> QED
      BY <1>3, <2>2, <3>1, <3>2
  <2> QED
    BY <2>1, <2>2
<1>6. g = F(g)
  BY <1>5
<1>7. set = F(set)
  BY <1>6, Zenon
<1>8. SetAgain(c, ids) = set[L]
  BY Zenon DEF SetAgain, L
<1> HIDE DEF set
<1> DEFINE G == {n \in 0..L : set[n] \in Caches}
<1>9. 0 \in G
  <2>1. 0 \in 0..L
    BY <1>1
  <2>2. set[0] = <<>>
    BY <1>7, <2>1
  <2> QED
    BY <2>1, <2>2, EmptyIsACache
<1>10. ASSUME NEW n \in 1..L, n - 1 \in G PROVE n \in G
  <2>1. n \in 0..L /\ n # 0 /\ set[n - 1] \in Caches
    BY <1>1, <1>10
  <2>2. set[n] = Set(set[n - 1], n)
    BY <1>7, <2>1
  <2> HIDE DEF Set
  <2> QED
    BY <1>2, <2>1, <2>2
<1>11. \A n \in 0..L : n \in G
  <2> HIDE DEF G
  <2> QED
    BY <1>1, <1>9, <1>10, CountUp
<1>12. L \in 0..L
  BY <1>1
<1> QED
  BY <1>8, <1>11, <1>12

(* What may be posted, and what the files may be.                          *)
Postings == Asking \cup PinReads \cup Changes \cup Purges
Stores == [color : [Tabs -> Images], grey : [Tabs -> Images]]

(* Nil is an image.                                                        *)
LEMMA NilIsAnImage ==
  Nil \in Images
  BY SnapshotAssumption DEF Nil, Images

(* The kinds of tasks and their fields.                                    *)
LEMMA PostingKinds ==
  ASSUME NEW t \in Postings
  PROVE  /\ t.kind \in {"read", "readGrey", "write", "delete", "saveGrey", "purge"}
         /\ t.kind # "purge" => t.id \in Tabs /\ t.image \in Images /\ t.gen \in Nat
         /\ t.kind \in {"read", "readGrey"} <=> t \in Asking \cup PinReads
         /\ t.kind \in {"write", "delete", "saveGrey"} => t \notin Asking
         /\ t.kind = "purge" => t \notin Asking
<1>1. CASE t \in Asking
  BY <1>1 DEF Asking, PinReads
<1>2. CASE t \in PinReads
  BY <1>2 DEF Asking, PinReads
<1>3. CASE t \in Changes
  BY <1>3 DEF Asking, PinReads, Changes
<1>4. CASE t \in Purges
  BY <1>4 DEF Asking, PinReads, Purges
<1> QED
  BY <1>1, <1>2, <1>3, <1>4 DEF Postings

(* What a task does to the colour files, by its kind ...                   *)
LEMMA ColorSteps ==
  ASSUME NEW c \in [Tabs -> Images], NEW t \in Postings
  PROVE  /\ t.kind = "write" => DiskAfter(c, t) = [c EXCEPT ![t.id] = t.image]
         /\ t.kind = "delete" => DiskAfter(c, t) = [c EXCEPT ![t.id] = Nil]
         /\ t.kind \in {"read", "readGrey", "saveGrey"} => DiskAfter(c, t) = c
         /\ t.kind = "purge" =>
              /\ DiskAfter(c, t) \in [Tabs -> Images]
              /\ \A id \in Tabs : DiskAfter(c, t)[id] \in {Nil, c[id]}
              /\ \A id \in Tabs : id \in t.keep => DiskAfter(c, t)[id] = c[id]
<1>1. ASSUME t.kind = "write" PROVE DiskAfter(c, t) = [c EXCEPT ![t.id] = t.image]
  BY <1>1 DEF DiskAfter
<1>2. ASSUME t.kind = "delete" PROVE DiskAfter(c, t) = [c EXCEPT ![t.id] = Nil]
  BY <1>2 DEF DiskAfter, DeletedTypes
<1>3. ASSUME t.kind \in {"read", "readGrey", "saveGrey"} PROVE DiskAfter(c, t) = c
  BY <1>3 DEF DiskAfter
<1>4. ASSUME t.kind = "purge"
      PROVE  /\ DiskAfter(c, t) \in [Tabs -> Images]
             /\ \A id \in Tabs : DiskAfter(c, t)[id] \in {Nil, c[id]}
             /\ \A id \in Tabs : id \in t.keep => DiskAfter(c, t)[id] = c[id]
  <2>1. DiskAfter(c, t) =
          [id \in Tabs |-> IF id \notin t.keep /\ <<"color", id, c[id]>> \in t.aged
                             THEN Nil ELSE c[id]]
    BY <1>4 DEF DiskAfter
  <2> QED
    BY <2>1, NilIsAnImage
<1> QED
  BY <1>1, <1>2, <1>3, <1>4

(* ... and to the grey ones.                                               *)
LEMMA GreySteps ==
  ASSUME NEW g \in [Tabs -> Images], NEW c \in [Tabs -> Images], NEW t \in Postings
  PROVE  /\ t.kind = "delete" => GreyAfter(g, c, t) = [g EXCEPT ![t.id] = Nil]
         /\ t.kind \in {"read", "readGrey", "write"} => GreyAfter(g, c, t) = g
         /\ t.kind = "saveGrey" =>
              /\ GreyAfter(g, c, t) \in [Tabs -> Images]
              /\ \A id \in Tabs : id # t.id => GreyAfter(g, c, t)[id] = g[id]
         /\ t.kind = "purge" =>
              /\ GreyAfter(g, c, t) \in [Tabs -> Images]
              /\ \A id \in Tabs : GreyAfter(g, c, t)[id] \in {Nil, g[id]}
<1>1. ASSUME t.kind = "delete" PROVE GreyAfter(g, c, t) = [g EXCEPT ![t.id] = Nil]
  BY <1>1 DEF GreyAfter, DeletedTypes
<1>2. ASSUME t.kind \in {"read", "readGrey", "write"} PROVE GreyAfter(g, c, t) = g
  BY <1>2 DEF GreyAfter
<1>3. ASSUME t.kind = "saveGrey"
      PROVE  /\ GreyAfter(g, c, t) \in [Tabs -> Images]
             /\ \A id \in Tabs : id # t.id => GreyAfter(g, c, t)[id] = g[id]
  <2> DEFINE image == IF t.image # Nil THEN t.image ELSE c[t.id]
  <2>1. GreyAfter(g, c, t) = IF image = Nil THEN g ELSE [g EXCEPT ![t.id] = image]
    BY <1>3 DEF GreyAfter
  <2>2. t.id \in Tabs /\ image \in Images
    BY <1>3, PostingKinds
  <2> HIDE DEF image
  <2> QED
    BY <2>1, <2>2
<1>4. ASSUME t.kind = "purge"
      PROVE  /\ GreyAfter(g, c, t) \in [Tabs -> Images]
             /\ \A id \in Tabs : GreyAfter(g, c, t)[id] \in {Nil, g[id]}
  <2>1. GreyAfter(g, c, t) =
          [id \in Tabs |-> IF id \notin t.keep /\ <<"grey", id, g[id]>> \in t.aged
                             THEN Nil ELSE g[id]]
    BY <1>4 DEF GreyAfter
  <2> QED
    BY <2>1, NilIsAnImage
<1> QED
  BY <1>1, <1>2, <1>3, <1>4

(* After a task the files are files.                                       *)
LEMMA FilesStepType ==
  ASSUME NEW fs \in Stores, NEW t \in Postings
  PROVE  FilesStep(fs, t) \in Stores
<1>1. fs.color \in [Tabs -> Images] /\ fs.grey \in [Tabs -> Images]
  BY DEF Stores
<1>2. DiskAfter(fs.color, t) \in [Tabs -> Images]
  <2>1. CASE t.kind = "write"
    BY <1>1, <2>1, ColorSteps, PostingKinds
  <2>2. CASE t.kind = "delete"
    BY <1>1, <2>2, ColorSteps, PostingKinds, NilIsAnImage
  <2>3. CASE t.kind \in {"read", "readGrey", "saveGrey"}
    BY <1>1, <2>3, ColorSteps
  <2>4. CASE t.kind = "purge"
    BY <1>1, <2>4, ColorSteps
  <2> QED
    BY <2>1, <2>2, <2>3, <2>4, PostingKinds
<1>3. GreyAfter(fs.grey, fs.color, t) \in [Tabs -> Images]
  <2>1. CASE t.kind = "delete"
    BY <1>1, <2>1, GreySteps, PostingKinds, NilIsAnImage
  <2>2. CASE t.kind \in {"read", "readGrey", "write"}
    BY <1>1, <2>2, GreySteps
  <2>3. CASE t.kind = "purge" \/ t.kind = "saveGrey"
    BY <1>1, <2>3, GreySteps
  <2> QED
    BY <2>1, <2>2, <2>3, PostingKinds
<1> QED
  BY <1>2, <1>3 DEF FilesStep, Stores

(* The files after each of some tasks.                                     *)
AreStages(f, fs, ts) ==
  /\ f[0] = fs
  /\ \A n \in 1..Len(ts) : f[n] = FilesStep(f[n - 1], ts[n])
  /\ \A n \in 0..Len(ts) : f[n] \in Stores
  /\ FilesAfter(fs, ts) = f[Len(ts)]

(* They are the function that FilesAfter defines by recursion.             *)
LEMMA AfterExists ==
  ASSUME NEW fs \in Stores, NEW ts \in Seq(Postings)
  PROVE  \E f : AreStages(f, fs, ts)
<1> DEFINE L == Len(ts)
           step == [n \in 1..L |-> [d \in Stores |-> FilesStep(d, ts[n])]]
           F(g) == [n \in 0..L |-> IF n = 0 THEN fs ELSE FilesStep(g[n - 1], ts[n])]
           after == CHOOSE g : g = F(g)
<1>1. L \in Nat /\ \A n \in 1..L : ts[n] \in Postings
  BY LenProperties, ElementOfSeq
<1>2. \A n \in 1..L, d \in Stores : FilesStep(d, ts[n]) \in Stores
  BY <1>1, FilesStepType
<1>3. AreSteps(step, L, Stores) /\ \A n \in 1..L, d \in Stores : step[n][d] = FilesStep(d, ts[n])
  BY <1>2 DEF AreSteps
<1> HIDE DEF step, L
<1>4. PICK g \in [0..L -> Stores] :
        g[0] = fs /\ \A n \in 1..L : g[n] = step[n][g[n - 1]]
  <2> HIDE DEF F, after
  <2>1. \E g : AreResults(g, fs, step, L, Stores)
    BY <1>1, <1>3, ResultsExist
  <2> QED
    BY <2>1 DEF AreResults
<1>5. ASSUME NEW n \in 0..L
      PROVE  g[n] = IF n = 0 THEN fs ELSE FilesStep(g[n - 1], ts[n])
  <2>1. CASE n = 0
    BY <1>4, <2>1
  <2>2. CASE n # 0
    <3>1. n \in 1..L /\ n - 1 \in 0..L
      BY <1>1, <2>2
    <3>2. g[n] = step[n][g[n - 1]] /\ g[n - 1] \in Stores
      BY <1>4, <3>1
    <3> QED
      BY <1>3, <2>2, <3>1, <3>2
  <2> QED
    BY <2>1, <2>2
<1>6. g = F(g)
  BY <1>5
<1>7. after = F(after)
  BY <1>6, Zenon
<1>8. FilesAfter(fs, ts) = after[L]
  BY Zenon DEF FilesAfter, L
<1> HIDE DEF after
<1>9. after[0] = fs /\ \A n \in 1..L : after[n] = FilesStep(after[n - 1], ts[n])
  <2>1. 0 \in 0..L /\ \A n \in 1..L : n \in 0..L /\ n # 0
    BY <1>1
  <2> QED
    BY <1>7, <2>1
<1> DEFINE G == {n \in 0..L : after[n] \in Stores}
<1>10. 0 \in G
  BY <1>1, <1>9
<1>11. ASSUME NEW n \in 1..L, n - 1 \in G PROVE n \in G
  <2>1. n \in 0..L /\ after[n - 1] \in Stores
    BY <1>1, <1>11
  <2> QED
    BY <1>2, <1>9, <2>1
<1>12. \A n \in 0..L : n \in G
  <2> HIDE DEF G
  <2> QED
    BY <1>1, <1>10, <1>11, CountUp
<1>13. \A n \in 0..L : after[n] \in Stores
  BY <1>12
<1>14. AreStages(after, fs, ts)
  BY <1>8, <1>9, <1>13 DEF AreStages, L
<1> QED
  BY <1>14

(* No task, one task.                                                      *)
LEMMA AfterOne ==
  ASSUME NEW fs \in Stores, NEW t \in Postings
  PROVE  FilesAfter(fs, <<t>>) = FilesStep(fs, t)
<1> DEFINE ts == <<t>>
<1>1. ts \in Seq(Postings) /\ Len(ts) = 1 /\ ts[1] = t
  OBVIOUS
<1> HIDE DEF ts
<1>2. PICK f : AreStages(f, fs, ts)
  BY <1>1, AfterExists
<1>3. 1 \in 1..Len(ts) /\ 1 - 1 = 0
  BY <1>1
<1>4. f[1] = FilesStep(f[0], ts[1])
  BY <1>2, <1>3 DEF AreStages
<1>5. FilesAfter(fs, ts) = f[1] /\ f[0] = fs
  BY <1>1, <1>2 DEF AreStages
<1> QED
  BY <1>1, <1>4, <1>5 DEF ts

(* Some tasks and then some others.                                        *)
LEMMA AfterConcat ==
  ASSUME NEW fs \in Stores, NEW ts \in Seq(Postings), NEW us \in Seq(Postings)
  PROVE  /\ FilesAfter(fs, ts) \in Stores
         /\ FilesAfter(fs, ts \o us) = FilesAfter(FilesAfter(fs, ts), us)
<1> DEFINE L == Len(ts)
           M == Len(us)
           vs == ts \o us
<1>1. L \in Nat /\ M \in Nat
  BY LenProperties
<1>2. /\ vs \in Seq(Postings) /\ Len(vs) = L + M
      /\ \A k \in 1..(L + M) : vs[k] = IF k <= L THEN ts[k] ELSE us[k - L]
  BY ConcatProperties
<1>3. PICK f : /\ f[0] = fs
               /\ \A n \in 1..L : f[n] = FilesStep(f[n - 1], ts[n])
               /\ \A n \in 0..L : f[n] \in Stores
               /\ FilesAfter(fs, ts) = f[L]
  <2>1. PICK f : AreStages(f, fs, ts)
    BY AfterExists
  <2> QED
    BY <2>1 DEF AreStages
<1>4. f[L] \in Stores
  BY <1>1, <1>3
<1>5. PICK h : /\ h[0] = f[L]
               /\ \A n \in 1..M : h[n] = FilesStep(h[n - 1], us[n])
               /\ FilesAfter(f[L], us) = h[M]
  <2>1. PICK h : AreStages(h, f[L], us)
    BY <1>4, AfterExists
  <2> QED
    BY <2>1 DEF AreStages
<1> HIDE DEF vs
<1>6. PICK g : /\ g[0] = fs
               /\ \A n \in 1..Len(vs) : g[n] = FilesStep(g[n - 1], vs[n])
               /\ FilesAfter(fs, vs) = g[Len(vs)]
  <2>1. PICK g : AreStages(g, fs, vs)
    BY <1>2, AfterExists
  <2> QED
    BY <2>1 DEF AreStages
<1> HIDE DEF L, M
<1>7. \A n \in 0..L : g[n] = f[n]
  <2> DEFINE G == {n \in 0..L : g[n] = f[n]}
  <2>1. 0 \in G
    BY <1>1, <1>3, <1>6
  <2>2. ASSUME NEW n \in 1..L, n - 1 \in G PROVE n \in G
    <3>1. n \in 0..L /\ n \in 1..Len(vs) /\ vs[n] = ts[n] /\ g[n - 1] = f[n - 1]
      BY <1>1, <1>2, <2>2
    <3> QED
      BY <1>3, <1>6, <3>1
  <2>3. \A n \in 0..L : n \in G
    <3> HIDE DEF G
    <3> QED
      BY <1>1, <2>1, <2>2, CountUp
  <2> QED
    BY <2>3
<1>8. \A n \in 0..M : g[L + n] = h[n]
  <2> DEFINE G == {n \in 0..M : g[L + n] = h[n]}
  <2>1. 0 \in G
    <3>1. L \in 0..L /\ L + 0 = L /\ 0 \in 0..M
      BY <1>1
    <3>2. g[L] = h[0]
      BY <1>5, <1>7, <3>1
    <3> QED
      BY <3>1, <3>2
  <2>2. ASSUME NEW n \in 1..M, n - 1 \in G PROVE n \in G
    <3>1. n \in 0..M /\ L + n \in 1..Len(vs) /\ (L + n) - 1 = L + (n - 1)
          /\ ~(L + n <= L) /\ (L + n) - L = n /\ L + n \in 1..(L + M)
      BY <1>1, <1>2
    <3>2. vs[L + n] = us[n]
      BY <1>2, <3>1
    <3>3. g[L + (n - 1)] = h[n - 1]
      BY <2>2
    <3>4. g[L + n] = FilesStep(g[L + (n - 1)], us[n])
      BY <1>6, <3>1, <3>2
    <3>5. h[n] = FilesStep(h[n - 1], us[n])
      BY <1>5
    <3> QED
      BY <3>1, <3>3, <3>4, <3>5
  <2>3. \A n \in 0..M : n \in G
    <3> HIDE DEF G
    <3> QED
      BY <1>1, <2>1, <2>2, CountUp
  <2> QED
    BY <2>3
<1>9. g[L + M] = h[M]
  BY <1>1, <1>8
<1> QED
  BY <1>2, <1>3, <1>4, <1>5, <1>6, <1>9 DEF vs

(* Reads change no file.                                                   *)
LEMMA AfterReads ==
  ASSUME NEW fs \in Stores, NEW ts \in Seq(Asking \cup PinReads)
  PROVE  FilesAfter(fs, ts) = fs
<1> DEFINE L == Len(ts)
<1>1. L \in Nat /\ \A n \in 1..L : ts[n] \in Asking \cup PinReads
  BY LenProperties, ElementOfSeq
<1>2. ts \in Seq(Postings)
  BY <1>1 DEF Postings
<1>3. \A n \in 1..L : FilesStep(fs, ts[n]) = fs
  <2>1. ASSUME NEW n \in 1..L PROVE FilesStep(fs, ts[n]) = fs
    <3>1. ts[n] \in Postings /\ ts[n].kind \in {"read", "readGrey"}
      BY <1>1 DEF Postings, Asking, PinReads
    <3>2. fs.color \in [Tabs -> Images] /\ fs.grey \in [Tabs -> Images]
          /\ fs = [color |-> fs.color, grey |-> fs.grey]
      BY DEF Stores
    <3>3. DiskAfter(fs.color, ts[n]) = fs.color /\ GreyAfter(fs.grey, fs.color, ts[n]) = fs.grey
      BY <3>1, <3>2, ColorSteps, GreySteps
    <3> QED
      BY <3>2, <3>3 DEF FilesStep
  <2> QED
    BY <2>1
<1>4. PICK f : /\ f[0] = fs
               /\ \A n \in 1..L : f[n] = FilesStep(f[n - 1], ts[n])
               /\ FilesAfter(fs, ts) = f[L]
  <2>1. PICK f : AreStages(f, fs, ts)
    BY <1>2, AfterExists
  <2> QED
    BY <2>1 DEF AreStages
<1> HIDE DEF L
<1> DEFINE G == {n \in 0..L : f[n] = fs}
<1>5. 0 \in G
  BY <1>1, <1>4
<1>6. ASSUME NEW n \in 1..L, n - 1 \in G PROVE n \in G
  <2>1. n \in 0..L /\ f[n - 1] = fs
    BY <1>1, <1>6
  <2> QED
    BY <1>3, <1>4, <2>1
<1>7. \A n \in 0..L : n \in G
  <2> HIDE DEF G
  <2> QED
    BY <1>1, <1>5, <1>6, CountUp
<1> QED
  BY <1>1, <1>4, <1>7

(* Deletions leave nothing of their ids and the files of the others.       *)
LEMMA AfterDeletes ==
  ASSUME NEW fs \in Stores, NEW order \in Seq(Tabs)
  PROVE  LET after == FilesAfter(fs, DeleteTasks(order))
         IN  /\ DeleteTasks(order) \in Seq(Postings)
             /\ Len(DeleteTasks(order)) = Len(order)
             /\ \A k \in 1..Len(order) : DeleteTasks(order)[k] \notin Asking
             /\ after \in Stores
             /\ \A k \in 1..Len(order) :
                  after.color[order[k]] = Nil /\ after.grey[order[k]] = Nil
             /\ \A id \in Tabs : (\A k \in 1..Len(order) : order[k] # id) =>
                  after.color[id] = fs.color[id] /\ after.grey[id] = fs.grey[id]
<1> DEFINE L == Len(order)
           ts == DeleteTasks(order)
<1>1. L \in Nat /\ \A n \in 1..L : order[n] \in Tabs
  BY LenProperties, ElementOfSeq
<1>2. \A n \in 1..L : /\ ts[n].kind = "delete" /\ ts[n].id = order[n]
                      /\ ts[n] \in Changes
  BY <1>1, NilIsAnImage DEF DeleteTasks, FileTask, Changes
<1>3. ts \in [1..L -> Changes]
  BY <1>2 DEF DeleteTasks
<1>4. /\ ts \in Seq(Postings) /\ Len(ts) = L
      /\ \A n \in 1..L : ts[n] \in Postings /\ ts[n] \notin Asking
  <2>1. \A n \in 1..L : ts[n] \in Postings /\ ts[n] \notin Asking
    BY <1>2, PostingKinds DEF Postings
  <2>2. ts \in [1..L -> Postings]
    BY <1>3, <2>1
  <2> HIDE DEF ts, L
  <2> QED
    BY <1>1, <2>1, <2>2, SeqDef, LenProperties
<1> HIDE DEF ts
<1>5. PICK f : /\ f[0] = fs
               /\ \A n \in 1..L : f[n] = FilesStep(f[n - 1], ts[n])
               /\ \A n \in 0..L : f[n] \in Stores
               /\ FilesAfter(fs, ts) = f[L]
  <2>1. PICK f : AreStages(f, fs, ts)
    BY <1>4, AfterExists
  <2> QED
    BY <1>4, <2>1 DEF AreStages
<1> HIDE DEF L
<1> DEFINE Good(a, n) ==
             /\ \A k \in 1..n : a.color[order[k]] = Nil /\ a.grey[order[k]] = Nil
             /\ \A id \in Tabs : (\A k \in 1..n : order[k] # id) =>
                  a.color[id] = fs.color[id] /\ a.grey[id] = fs.grey[id]
           G == {n \in 0..L : Good(f[n], n)}
<1>6. 0 \in G
  <2>1. 1..0 = {} /\ 0 \in 0..L
    BY <1>1
  <2> QED
    BY <1>5, <2>1
<1>7. ASSUME NEW n \in 1..L, n - 1 \in G PROVE n \in G
  <2> DEFINE a == f[n - 1]
             b == f[n]
             x == order[n]
  <2>1. n \in 0..L /\ n - 1 \in 0..L /\ \A k \in 1..n : k \in 1..(n - 1) \/ k = n
    BY <1>1
  <2>2. Good(a, n - 1) /\ a \in Stores /\ x \in Tabs
    BY <1>1, <1>5, <1>7, <2>1
  <2>3. /\ b.color = [a.color EXCEPT ![x] = Nil]
        /\ b.grey = [a.grey EXCEPT ![x] = Nil]
    <3>1. b = FilesStep(a, ts[n])
      BY <1>5
    <3>2. a.color \in [Tabs -> Images] /\ a.grey \in [Tabs -> Images]
      BY <2>2 DEF Stores
    <3> HIDE DEF a, b
    <3>3. b.color = DiskAfter(a.color, ts[n]) /\ b.grey = GreyAfter(a.grey, a.color, ts[n])
      BY <3>1 DEF FilesStep
    <3>4. QED
      <4> DEFINE u == ts[n]
      <4>1. u \in Postings /\ u.kind = "delete" /\ u.id = x
        BY <1>2, <1>4 DEF x
      <4>2. b.color = DiskAfter(a.color, u) /\ b.grey = GreyAfter(a.grey, a.color, u)
        BY <3>3
      <4> HIDE DEF u, x, G, Good
      <4>3. DiskAfter(a.color, u) = [a.color EXCEPT ![u.id] = Nil]
        BY <3>2, <4>1, ColorSteps
      <4>4. GreyAfter(a.grey, a.color, u) = [a.grey EXCEPT ![u.id] = Nil]
        BY <3>2, <4>1, GreySteps
      <4> QED
        BY <4>1, <4>2, <4>3, <4>4
  <2>4. a.color \in [Tabs -> Images] /\ a.grey \in [Tabs -> Images]
    BY <2>2 DEF Stores
  <2> HIDE DEF a, b, x
  <2>5. \A k \in 1..n : b.color[order[k]] = Nil /\ b.grey[order[k]] = Nil
    <3>1. \A k \in 1..n : order[k] \in Tabs
      BY <1>1
    <3>2. \A k \in 1..(n - 1) : a.color[order[k]] = Nil /\ a.grey[order[k]] = Nil
      BY <2>2
    <3> QED
      BY <2>1, <2>3, <2>4, <3>1, <3>2 DEF x
  <2>6. ASSUME NEW id \in Tabs, \A k \in 1..n : order[k] # id
        PROVE  b.color[id] = fs.color[id] /\ b.grey[id] = fs.grey[id]
    <3>1. id # x /\ \A k \in 1..(n - 1) : order[k] # id
      BY <1>1, <2>6 DEF x
    <3>2. a.color[id] = fs.color[id] /\ a.grey[id] = fs.grey[id]
      BY <2>2, <3>1
    <3> QED
      BY <2>3, <2>4, <3>1, <3>2
  <2>7. Good(f[n], n)
    BY <2>5, <2>6 DEF b
  <2> HIDE DEF Good
  <2> QED
    BY <2>1, <2>7
<1>8. \A n \in 0..L : n \in G
  <2> HIDE DEF G
  <2> QED
    BY <1>1, <1>6, <1>7, CountUp
<1>9. Good(f[L], L) /\ f[L] \in Stores
  <2>1. L \in 0..L
    BY <1>1
  <2> HIDE DEF Good
  <2> QED
    BY <1>5, <1>8, <2>1
<1> DEFINE after == FilesAfter(fs, ts)
<1>10. Good(after, L) /\ after \in Stores
  <2> HIDE DEF Good
  <2> QED
    BY <1>5, <1>9
<1> HIDE DEF after
<1> QED
  BY <1>4, <1>10 DEF after, ts, L

(* The reads of handleBecomeActive.                                        *)
LEMMA ReadTasksType ==
  ASSUME NEW ids \in Seq(Tabs), NEW absent
  PROVE  ReadTasks(ids, absent) \in Seq(PinReads)
<1> DEFINE L == Len(ids)
           D == Seq(PinReads)
           t(n) == FileTask("read", ids[n], Nil, "pin")
           step == [n \in 1..L |-> [d \in D |->
                      IF ids[n] \in absent THEN Append(d, t(n)) ELSE d]]
           F(g) == [n \in 0..L |->
                      IF n = 0 THEN <<>>
                      ELSE IF ids[n] \in absent
                           THEN Append(g[n - 1], FileTask("read", ids[n], Nil, "pin"))
                           ELSE g[n - 1]]
           reads == CHOOSE g : g = F(g)
<1>1. L \in Nat /\ <<>> \in D /\ \A n \in 1..L : ids[n] \in Tabs
  BY LenProperties, ElementOfSeq, EmptySeq
<1>2. \A n \in 1..L : t(n) \in PinReads
  BY <1>1, NilIsAnImage DEF FileTask, PinReads
<1>3. \A n \in 1..L, d \in D : (IF ids[n] \in absent THEN Append(d, t(n)) ELSE d) \in D
  <2> HIDE DEF t
  <2> QED
    BY <1>2, AppendProperties
<1>4. /\ AreSteps(step, L, D)
      /\ \A n \in 1..L, d \in D : step[n][d] = IF ids[n] \in absent THEN Append(d, t(n)) ELSE d
  <2> HIDE DEF t, D
  <2> QED
    BY <1>3 DEF AreSteps
<1> HIDE DEF step, L, D
<1>5. PICK g \in [0..L -> D] :
        g[0] = <<>> /\ \A n \in 1..L : g[n] = step[n][g[n - 1]]
  <2> HIDE DEF F, reads, t
  <2>1. \E g : AreResults(g, <<>>, step, L, D)
    BY <1>1, <1>4, ResultsExist
  <2> QED
    BY <2>1 DEF AreResults
<1>6. ASSUME NEW n \in 0..L
      PROVE  g[n] = IF n = 0 THEN <<>>
                    ELSE IF ids[n] \in absent THEN Append(g[n - 1], t(n)) ELSE g[n - 1]
  <2> HIDE DEF t
  <2>1. CASE n = 0
    BY <1>5, <2>1
  <2>2. CASE n # 0
    <3>1. n \in 1..L /\ n - 1 \in 0..L
      BY <1>1, <2>2
    <3>2. g[n] = step[n][g[n - 1]] /\ g[n - 1] \in D
      BY <1>5, <3>1
    <3> QED
      BY <1>4, <2>2, <3>1, <3>2
  <2> QED
    BY <2>1, <2>2
<1>7. g = F(g)
  BY <1>6
<1>8. reads = F(reads)
  BY <1>7, Zenon
<1>9. ReadTasks(ids, absent) = reads[L]
  BY Zenon DEF ReadTasks, L
<1> HIDE DEF reads
<1> DEFINE G == {n \in 0..L : reads[n] \in D}
<1>10. 0 \in G
  <2>1. 0 \in 0..L
    BY <1>1
  <2>2. reads[0] = <<>>
    BY <1>8, <2>1
  <2> QED
    BY <1>1, <2>1, <2>2
<1>11. ASSUME NEW n \in 1..L, n - 1 \in G PROVE n \in G
  <2>1. n \in 0..L /\ n # 0 /\ reads[n - 1] \in D
    BY <1>1, <1>11
  <2>2. reads[n] = IF ids[n] \in absent THEN Append(reads[n - 1], t(n)) ELSE reads[n - 1]
    BY <1>8, <2>1
  <2> HIDE DEF t
  <2> QED
    BY <1>3, <2>1, <2>2
<1>12. \A n \in 0..L : n \in G
  <2> HIDE DEF G
  <2> QED
    BY <1>1, <1>10, <1>11, CountUp
<1>13. L \in 0..L
  BY <1>1
<1> QED
  BY <1>9, <1>12, <1>13 DEF D

-----------------------------------------------------------------------------
(* The parts of the invariant.                                             *)

(* The types of what is neither a cache nor a queue.                       *)
PlainTypes ==
  /\ colorDisk \in [Tabs -> Images] /\ greyDisk \in [Tabs -> Images]
  /\ markedIDs \subseteq Tabs /\ pinnedIDs \subseteq Tabs
  /\ backgrounding \in (Tabs \cup {NoTab}) \X Images
  /\ open \subseteq Tabs /\ saved \subseteq Tabs
  /\ lastImage \in Images /\ lastTaken \in [Tabs -> Images]
  /\ waiting \in Nat /\ undos \in Nat /\ events \in 0 .. MaxEvents
  /\ waiting + undos <= events
  /\ app \in {"active", "resigned", "background"}

(* The callbacks that some tasks or replies have.                          *)
Callbacks(s) == Cardinality(Places(s, Asking))

(* The files fs are those of the tabs that are open or saved.              *)
FilesAreOf(fs, opened, undoable, taken, risk) ==
  /\ \A id \in (opened \cup undoable) \ risk : fs.color[id] = taken[id]
  /\ \A id \in Tabs \ (opened \cup undoable) : fs.color[id] = Nil /\ fs.grey[id] = Nil

(* The invariant in these terms ...                                        *)
LEMMA SnapshotParts ==
  SnapshotInv <=>
    /\ lruCache \in Caches /\ posted \in Seq(Postings)
    /\ replies \in Seq(Asking \cup PinReads) /\ PlainTypes
    /\ MarkedAreSaved
    /\ FilesAreOf(Settled, open, saved, lastTaken, atRisk)
    /\ waiting = Callbacks(posted) + Callbacks(replies)
<1>1. SnapshotTypeOK <=> /\ lruCache \in Caches /\ posted \in Seq(Postings)
                         /\ replies \in Seq(Asking \cup PinReads) /\ PlainTypes
  BY Zenon DEF SnapshotTypeOK, Caches, Distinct, Entry, Postings, PlainTypes
<1>2. CallbacksAreOnTheirWay <=> waiting = Callbacks(posted) + Callbacks(replies)
  BY DEF CallbacksAreOnTheirWay, Callbacks, Places
<1>3. OpenTabsKeepSnapshots /\ ClosedTabsLeaveNothing
        <=> FilesAreOf(Settled, open, saved, lastTaken, atRisk)
  BY Zenon DEF OpenTabsKeepSnapshots, ClosedTabsLeaveNothing, FilesAreOf
<1> QED
  BY <1>1, <1>2, <1>3, Zenon DEF SnapshotInv

(* ... and after a step.                                                   *)
LEMMA SnapshotPartsNext ==
  SnapshotInv' <=>
    /\ lruCache' \in Caches /\ posted' \in Seq(Postings)
    /\ replies' \in Seq(Asking \cup PinReads) /\ PlainTypes'
    /\ MarkedAreSaved'
    /\ FilesAreOf(Settled', open', saved', lastTaken', atRisk')
    /\ waiting' = Callbacks(posted') + Callbacks(replies')
<1>1. SnapshotTypeOK' <=> /\ lruCache' \in Caches /\ posted' \in Seq(Postings)
                          /\ replies' \in Seq(Asking \cup PinReads) /\ PlainTypes'
  BY Zenon DEF SnapshotTypeOK, Caches, Distinct, Entry, Postings, PlainTypes
<1>2. CallbacksAreOnTheirWay' <=> waiting' = Callbacks(posted') + Callbacks(replies')
  BY DEF CallbacksAreOnTheirWay, Callbacks, Places
<1>3. OpenTabsKeepSnapshots' /\ ClosedTabsLeaveNothing'
        <=> FilesAreOf(Settled', open', saved', lastTaken', atRisk')
  BY Zenon DEF OpenTabsKeepSnapshots, ClosedTabsLeaveNothing, FilesAreOf
<1> QED
  BY <1>1, <1>2, <1>3, Zenon DEF SnapshotInv

(* The kinds of tasks that are posted.                                     *)
LEMMA TaskTypes ==
  ASSUME undos \in Nat, NEW id \in Tabs, NEW image \in Images
  PROVE  /\ FileTask("write", id, image, "") \in Changes
         /\ FileTask("delete", id, Nil, "") \in Changes
         /\ FileTask("saveGrey", id, image, "") \in Changes
         /\ FileTask("read", id, Nil, "color") \in Asking
         /\ FileTask("readGrey", id, Nil, "grey") \in Asking
         /\ FileTask("read", id, Nil, "pin") \in PinReads
  BY NilIsAnImage DEF FileTask, Changes, Asking, PinReads

(* The callbacks of a queue that grows at the end or loses its head.       *)
LEMMA CallbackCounts ==
  ASSUME NEW S, NEW s \in Seq(S)
  PROVE  /\ Callbacks(s) \in Nat
         /\ \A t \in Seq(S) : Callbacks(s \o t) = Callbacks(s) + Callbacks(t)
         /\ \A x \in S : Callbacks(Append(s, x)) = Callbacks(s) + IF x \in Asking THEN 1 ELSE 0
         /\ s # <<>> => Callbacks(s) = Callbacks(Tail(s)) + IF Head(s) \in Asking THEN 1 ELSE 0
         /\ (\A i \in 1..Len(s) : s[i] \notin Asking) => Callbacks(s) = 0
  BY PlacesAreFinite, PlacesOfConcat, PlacesOfAppend, PlacesOfTail, NoPlaces DEF Callbacks

(* One task alone.                                                         *)
LEMMA OneCallback ==
  ASSUME NEW t \in Postings
  PROVE  Callbacks(<<t>>) = IF t \in Asking THEN 1 ELSE 0
<1> DEFINE e == <<>>
<1>1. e \in Seq(Postings) /\ Len(e) = 0 /\ Append(e, t) = <<t>>
  BY EmptySeq
<1> HIDE DEF e
<1>2. \A i \in 1..Len(e) : e[i] \notin Asking
  BY <1>1
<1>3. Callbacks(e) = 0
  BY <1>1, <1>2, CallbackCounts
<1>4. Callbacks(Append(e, t)) = Callbacks(e) + IF t \in Asking THEN 1 ELSE 0
  <2>1. e \in Seq(Postings)
    BY <1>1
  <2> QED
    BY <2>1, PlacesOfAppend DEF Callbacks
<1>5. Callbacks(<<t>>) = 0 + IF t \in Asking THEN 1 ELSE 0
  BY <1>1, <1>3, <1>4
<1> QED
  BY <1>5

(* Posting: the tasks run after those that were posted before.             *)
LEMMA PostFacts ==
  ASSUME SnapshotInv, NEW us \in Seq(Postings), Post(us),
         colorDisk' = colorDisk, greyDisk' = greyDisk
  PROVE  /\ Settled \in Stores
         /\ posted' \in Seq(Postings)
         /\ Settled' = FilesAfter(Settled, us)
         /\ Callbacks(posted') = Callbacks(posted) + Callbacks(us)
<1> DEFINE fs == [color |-> colorDisk, grey |-> greyDisk]
<1>1. posted \in Seq(Postings) /\ fs \in Stores /\ fs' = fs /\ posted' = posted \o us
  BY SnapshotParts DEF PlainTypes, Stores, Post
<1>2. Settled = FilesAfter(fs, posted) /\ Settled' = FilesAfter(fs, posted')
  <2>1. Settled' = FilesAfter(fs', posted')
    BY DEF Settled
  <2> HIDE DEF fs
  <2> QED
    BY <1>1, <2>1 DEF Settled, fs
<1> HIDE DEF fs
<1>3. FilesAfter(fs, posted) \in Stores
      /\ FilesAfter(fs, posted \o us) = FilesAfter(FilesAfter(fs, posted), us)
  BY <1>1, AfterConcat
<1>4. posted \o us \in Seq(Postings)
  BY <1>1, ConcatProperties
<1>5. Callbacks(posted \o us) = Callbacks(posted) + Callbacks(us)
  BY <1>1, CallbackCounts
<1> QED
  BY <1>1, <1>2, <1>3, <1>4, <1>5

(* A task that changes files and calls nobody back.                        *)
LEMMA ChangePosted ==
  ASSUME SnapshotInv, NEW t \in Changes \cup Purges, Post(<<t>>),
         colorDisk' = colorDisk, greyDisk' = greyDisk
  PROVE  /\ posted' \in Seq(Postings) /\ Callbacks(posted') = Callbacks(posted)
         /\ Settled.color \in [Tabs -> Images] /\ Settled.grey \in [Tabs -> Images]
         /\ Settled'.color = DiskAfter(Settled.color, t)
         /\ Settled'.grey = GreyAfter(Settled.grey, Settled.color, t)
<1> DEFINE us == <<t>>
           n == Callbacks(us)
           m == Callbacks(posted)
           fs == Settled
<1>1. t \in Postings
  BY DEF Postings
<1>2. t \notin Asking
  BY DEF Changes, Purges, Asking
<1>3. us \in Seq(Postings)
  BY <1>1
<1>4. n = 0
  BY <1>1, <1>2, OneCallback
<1>5. posted \in Seq(Postings)
  BY SnapshotParts
<1>6. m \in Nat
  BY <1>5, CallbackCounts
<1>7. FilesAfter(fs, us) = FilesStep(fs, t) /\ fs \in Stores
      /\ Settled' = FilesAfter(fs, us)
      /\ posted' \in Seq(Postings) /\ Callbacks(posted') = m + n
  <2> HIDE DEF us
  <2>1. /\ fs \in Stores /\ posted' \in Seq(Postings)
        /\ Settled' = FilesAfter(fs, us)
        /\ Callbacks(posted') = m + n
    BY <1>3, PostFacts DEF us
  <2>2. FilesAfter(fs, us) = FilesStep(fs, t)
    BY <1>1, <2>1, AfterOne DEF us
  <2> QED
    BY <2>1, <2>2
<1> HIDE DEF n, m, us
<1>8. m + n = m
  BY <1>4, <1>6
<1>9. Settled' = FilesStep(fs, t)
  BY <1>7
<1> HIDE DEF fs
<1>10. fs.color \in [Tabs -> Images] /\ fs.grey \in [Tabs -> Images]
  BY <1>7 DEF Stores
<1>11. /\ Settled'.color = DiskAfter(fs.color, t)
       /\ Settled'.grey = GreyAfter(fs.grey, fs.color, t)
  BY <1>9 DEF FilesStep
<1>12. posted' \in Seq(Postings) /\ Callbacks(posted') = Callbacks(posted)
  BY <1>7, <1>8 DEF m
<1> QED
  BY <1>10, <1>11, <1>12 DEF fs

(* A new image of an open tab.                                             *)
LEMMA ImageTaken ==
  ASSUME SnapshotInv, NEW id \in open, NEW image \in Images,
         Post(<<FileTask("write", id, image, "")>>),
         colorDisk' = colorDisk, greyDisk' = greyDisk,
         lastTaken' = [lastTaken EXCEPT ![id] = image],
         open' = open, saved' = saved, atRisk' = atRisk \ {id}
  PROVE  /\ posted' \in Seq(Postings) /\ Callbacks(posted') = Callbacks(posted)
         /\ FilesAreOf(Settled', open', saved', lastTaken', atRisk')
<1> DEFINE t == FileTask("write", id, image, "")
           c == Settled.color
           g == Settled.grey
<1>1. /\ undos \in Nat /\ id \in Tabs /\ open \subseteq Tabs /\ saved \subseteq Tabs
      /\ lastTaken \in [Tabs -> Images]
      /\ FilesAreOf(Settled, open, saved, lastTaken, atRisk)
  BY SnapshotParts DEF PlainTypes
<1>2. t \in Changes
  BY <1>1, TaskTypes
<1>3. t.kind = "write" /\ t.id = id /\ t.image = image
  BY DEF FileTask
<1>4. t \in Postings
  BY <1>2 DEF Postings
<1>5. Post(<<t>>)
  OBVIOUS
<1> HIDE DEF t
<1>6. /\ posted' \in Seq(Postings) /\ Callbacks(posted') = Callbacks(posted)
      /\ c \in [Tabs -> Images] /\ g \in [Tabs -> Images]
      /\ Settled'.color = DiskAfter(c, t) /\ Settled'.grey = GreyAfter(g, c, t)
  BY <1>2, <1>5, ChangePosted
<1> HIDE DEF c, g
<1>7. c \in [Tabs -> Images] /\ g \in [Tabs -> Images]
  BY <1>6
<1>8. t.kind = "write" => DiskAfter(c, t) = [c EXCEPT ![t.id] = t.image]
  BY <1>4, <1>7, ColorSteps
<1>9. t.kind \in {"read", "readGrey", "write"} => GreyAfter(g, c, t) = g
  BY <1>4, <1>7, GreySteps
<1>10. DiskAfter(c, t) = [c EXCEPT ![id] = image]
  BY <1>3, <1>8
<1>11. GreyAfter(g, c, t) = g
  BY <1>3, <1>9
<1>12. /\ Settled'.color = [Settled.color EXCEPT ![id] = image]
      /\ Settled'.grey = Settled.grey /\ Settled.color \in [Tabs -> Images]
  BY <1>6, <1>10, <1>11 DEF c, g
<1>13. FilesAreOf(Settled', open, saved, lastTaken', atRisk \ {id})
  BY <1>1, <1>12 DEF FilesAreOf
<1> QED
  BY <1>6, <1>13

(* The removal of some images.                                             *)
LEMMA ImagesRemoved ==
  ASSUME SnapshotInv, NEW gone \in SUBSET Tabs, NEW order \in Seq(Tabs),
         \A k \in 1..Len(order) : order[k] \in gone,
         \A id \in gone : \E k \in 1..Len(order) : order[k] = id,
         Post(DeleteTasks(order)),
         colorDisk' = colorDisk, greyDisk' = greyDisk
  PROVE  /\ posted' \in Seq(Postings) /\ Callbacks(posted') = Callbacks(posted)
         /\ \A id \in gone : Settled'.color[id] = Nil /\ Settled'.grey[id] = Nil
         /\ \A id \in Tabs \ gone :
              Settled'.color[id] = Settled.color[id] /\ Settled'.grey[id] = Settled.grey[id]
<1> DEFINE us == DeleteTasks(order)
<1>0. posted \in Seq(Postings) /\ [color |-> colorDisk, grey |-> greyDisk] \in Stores
  BY SnapshotParts DEF PlainTypes, Stores
<1>1. Settled \in Stores
  BY <1>0, AfterConcat DEF Settled
<1>2. /\ us \in Seq(Postings) /\ Len(us) = Len(order)
      /\ \A k \in 1..Len(order) : us[k] \notin Asking
      /\ \A k \in 1..Len(order) :
           FilesAfter(Settled, us).color[order[k]] = Nil
           /\ FilesAfter(Settled, us).grey[order[k]] = Nil
      /\ \A id \in Tabs : (\A k \in 1..Len(order) : order[k] # id) =>
           FilesAfter(Settled, us).color[id] = Settled.color[id]
           /\ FilesAfter(Settled, us).grey[id] = Settled.grey[id]
  BY <1>1, AfterDeletes
<1>3. Post(us)
  OBVIOUS
<1> HIDE DEF us
<1>4. /\ posted' \in Seq(Postings) /\ Settled' = FilesAfter(Settled, us)
      /\ Callbacks(posted') = Callbacks(posted) + Callbacks(us)
  BY <1>2, <1>3, PostFacts
<1>5. Callbacks(posted') = Callbacks(posted)
  <2>1. Callbacks(us) = 0 /\ Callbacks(posted) \in Nat
    BY <1>0, <1>2, CallbackCounts
  <2> QED
    BY <1>4, <2>1
<1>6. \A id \in gone : Settled'.color[id] = Nil /\ Settled'.grey[id] = Nil
  BY <1>2, <1>4
<1>7. \A id \in Tabs \ gone :
        Settled'.color[id] = Settled.color[id] /\ Settled'.grey[id] = Settled.grey[id]
  BY <1>2, <1>4
<1> QED
  BY <1>4, <1>5, <1>6, <1>7

(* removeImageWithSessionID for some ids.                                  *)
LEMMA RemoveImagesFacts ==
  ASSUME SnapshotInv, NEW ids \in SUBSET Tabs, NEW marks, RemoveImages(ids, marks),
         colorDisk' = colorDisk, greyDisk' = greyDisk
  PROVE  /\ lruCache' \in Caches
         /\ posted' \in Seq(Postings) /\ Callbacks(posted') = Callbacks(posted)
         /\ \A id \in ids \ marks : Settled'.color[id] = Nil /\ Settled'.grey[id] = Nil
         /\ \A id \in Tabs \ (ids \ marks) :
              Settled'.color[id] = Settled.color[id] /\ Settled'.grey[id] = Settled.grey[id]
<1> DEFINE gone == ids \ marks
<1>1. /\ gone \in SUBSET Tabs /\ lruCache' = WithoutObjects(lruCache, gone)
      /\ \E order \in SetToSeqs(gone) : Post(DeleteTasks(order))
  BY DEF RemoveImages, MayRemove
<1>2. lruCache' \in Caches
  BY <1>1, SnapshotParts, WithoutObjectsIsACache
<1>3. IsFiniteSet(gone)
  BY <1>1, SnapshotAssumption, FS_Subset
<1> HIDE DEF gone
<1>4. PICK order \in SetToSeqs(gone) : Post(DeleteTasks(order))
  BY <1>1
<1>5. /\ order \in Seq(gone) /\ Len(order) \in Nat
      /\ \A id \in gone : \E k \in 1..Len(order) : order[k] = id
  BY <1>3, SetToSeqsProperties, LenProperties
<1>6. \A k \in 1..Len(order) : order[k] \in gone
  BY <1>5, ElementOfSeq
<1>7. order \in Seq(Tabs)
  BY <1>1, <1>5, <1>6
<1>8. /\ posted' \in Seq(Postings) /\ Callbacks(posted') = Callbacks(posted)
      /\ \A id \in gone : Settled'.color[id] = Nil /\ Settled'.grey[id] = Nil
      /\ \A id \in Tabs \ gone :
           Settled'.color[id] = Settled.color[id] /\ Settled'.grey[id] = Settled.grey[id]
  BY <1>1, <1>4, <1>5, <1>6, <1>7, ImagesRemoved
<1> QED
  BY <1>2, <1>8 DEF gone

(* Reads.                                                                  *)
LEMMA ReadsPosted ==
  ASSUME SnapshotInv, NEW us \in Seq(Asking \cup PinReads), Post(us),
         colorDisk' = colorDisk, greyDisk' = greyDisk
  PROVE  /\ posted' \in Seq(Postings) /\ Settled' = Settled
         /\ Callbacks(posted') = Callbacks(posted) + Callbacks(us)
<1>1. us \in Seq(Postings)
  BY DEF Postings
<1>2. /\ Settled \in Stores /\ posted' \in Seq(Postings)
      /\ Settled' = FilesAfter(Settled, us)
      /\ Callbacks(posted') = Callbacks(posted) + Callbacks(us)
  BY <1>1, PostFacts
<1>3. FilesAfter(Settled, us) = Settled
  BY <1>2, AfterReads
<1> QED
  BY <1>2, <1>3

(* One read.                                                               *)
LEMMA ReadPosted ==
  ASSUME SnapshotInv, NEW t \in Asking \cup PinReads, Post(<<t>>),
         colorDisk' = colorDisk, greyDisk' = greyDisk
  PROVE  /\ posted' \in Seq(Postings) /\ Settled' = Settled
         /\ Callbacks(posted') = Callbacks(posted) + IF t \in Asking THEN 1 ELSE 0
<1>1. <<t>> \in Seq(Asking \cup PinReads) /\ t \in Postings
  BY DEF Postings
<1>2. /\ posted' \in Seq(Postings) /\ Settled' = Settled
      /\ Callbacks(posted') = Callbacks(posted) + Callbacks(<<t>>)
  BY <1>1, ReadsPosted
<1> QED
  BY <1>1, <1>2, OneCallback

(* Nothing posted and no file changed.                                     *)
LEMMA NothingPosted ==
  ASSUME posted' = posted, colorDisk' = colorDisk, greyDisk' = greyDisk
  PROVE  Settled' = Settled
  BY DEF Settled

(* The number of the next image.                                           *)
LEMMA NextImage ==
  ASSUME SnapshotInv, lastImage < MaxImage, lastImage' = lastImage + 1
  PROVE  lastImage' \in Images
<1>1. lastImage \in Images
  BY SnapshotParts DEF PlainTypes
<1>2. lastImage \in 0 .. MaxImage
  BY <1>1 DEF Images
<1>3. MaxImage \in Nat
  BY SnapshotAssumption
<1>4. lastImage + 1 \in 0 .. MaxImage
  BY <1>2, <1>3
<1> QED
  BY <1>4 DEF Images

-----------------------------------------------------------------------------
(* The steps.                                                              *)

(* Taking a snapshot.                                                      *)
LEMMA SetImageKeeps ==
  ASSUME SnapshotInv, NEW id \in Tabs, SetImage(id)
  PROVE  SnapshotInv'
<1> DEFINE image == lastImage'
<1>1. /\ lruCache \in Caches /\ posted \in Seq(Postings)
      /\ replies \in Seq(Asking \cup PinReads) /\ PlainTypes /\ MarkedAreSaved
      /\ waiting = Callbacks(posted) + Callbacks(replies)
  BY SnapshotParts
<1>2. image \in Images
  BY NextImage DEF SetImage
<1>3. lruCache' \in Caches
  BY <1>1, <1>2, SetObjectIsACache DEF SetImage
<1>4. /\ posted' \in Seq(Postings) /\ Callbacks(posted') = Callbacks(posted)
      /\ FilesAreOf(Settled', open', saved', lastTaken', atRisk')
  BY <1>2, ImageTaken DEF SetImage
<1>5. PlainTypes'
  BY <1>1, <1>2 DEF PlainTypes, SetImage
<1>6. MarkedAreSaved'
  BY <1>1 DEF MarkedAreSaved, SetImage
<1>7. replies' = replies /\ waiting' = waiting
  BY DEF SetImage
<1> QED
  BY <1>1, <1>3, <1>4, <1>5, <1>6, <1>7, SnapshotPartsNext

(* A snapshot that fails.                                                  *)
LEMMA SnapshotFailsKeeps ==
  ASSUME SnapshotInv, NEW id \in Tabs, SnapshotFails(id)
  PROVE  SnapshotInv'
<1>1. /\ replies \in Seq(Asking \cup PinReads) /\ PlainTypes /\ MarkedAreSaved
      /\ waiting = Callbacks(posted) + Callbacks(replies)
      /\ FilesAreOf(Settled, open, saved, lastTaken, atRisk)
  BY SnapshotParts
<1>2. /\ id \in open /\ RemoveImages({id}, markedIDs) /\ {id} \in SUBSET Tabs
      /\ colorDisk' = colorDisk /\ greyDisk' = greyDisk
      /\ open' = open /\ saved' = saved /\ atRisk' = atRisk \ {id}
      /\ lastTaken' = [lastTaken EXCEPT ![id] = Nil]
  BY DEF SnapshotFails
<1>3. {id} \ markedIDs = {id}
  BY <1>1, <1>2 DEF MarkedAreSaved
<1>4. /\ lruCache' \in Caches
      /\ posted' \in Seq(Postings) /\ Callbacks(posted') = Callbacks(posted)
      /\ \A x \in {id} : Settled'.color[x] = Nil /\ Settled'.grey[x] = Nil
      /\ \A x \in Tabs \ {id} :
           Settled'.color[x] = Settled.color[x] /\ Settled'.grey[x] = Settled.grey[x]
  <2> DEFINE ids == {id}
  <2>1. /\ ids \in SUBSET Tabs /\ RemoveImages(ids, markedIDs)
        /\ colorDisk' = colorDisk /\ greyDisk' = greyDisk
    BY <1>2
  <2> HIDE DEF ids
  <2>2. /\ lruCache' \in Caches
        /\ posted' \in Seq(Postings) /\ Callbacks(posted') = Callbacks(posted)
        /\ \A x \in ids \ markedIDs : Settled'.color[x] = Nil /\ Settled'.grey[x] = Nil
        /\ \A x \in Tabs \ (ids \ markedIDs) :
             Settled'.color[x] = Settled.color[x] /\ Settled'.grey[x] = Settled.grey[x]
    BY <2>1, RemoveImagesFacts
  <2> QED
    BY <1>3, <2>2, Zenon DEF ids
<1>5. FilesAreOf(Settled', open', saved', lastTaken', atRisk')
  BY <1>1, <1>2, <1>4 DEF FilesAreOf, PlainTypes
<1>6. PlainTypes'
  BY <1>1, NilIsAnImage DEF PlainTypes, SnapshotFails
<1>7. MarkedAreSaved' /\ replies' = replies /\ waiting' = waiting
  BY <1>1 DEF MarkedAreSaved, SnapshotFails
<1> QED
  BY <1>1, <1>4, <1>5, <1>6, <1>7, SnapshotPartsNext

(* Closing a tab.                                                          *)
LEMMA CloseTabKeeps ==
  ASSUME SnapshotInv, NEW id \in Tabs, CloseTab(id)
  PROVE  SnapshotInv'
<1>1. /\ replies \in Seq(Asking \cup PinReads) /\ PlainTypes /\ MarkedAreSaved
      /\ waiting = Callbacks(posted) + Callbacks(replies)
      /\ FilesAreOf(Settled, open, saved, lastTaken, atRisk)
  BY SnapshotParts
<1>2. /\ id \in open /\ RemoveImages({id}, markedIDs) /\ {id} \in SUBSET Tabs
      /\ colorDisk' = colorDisk /\ greyDisk' = greyDisk
      /\ open' = open \ {id} /\ saved' = saved /\ atRisk' = atRisk
      /\ lastTaken' = lastTaken
  BY DEF CloseTab
<1>3. {id} \ markedIDs = {id} /\ saved = {}
  BY <1>1, <1>2 DEF MarkedAreSaved
<1>4. /\ lruCache' \in Caches
      /\ posted' \in Seq(Postings) /\ Callbacks(posted') = Callbacks(posted)
      /\ \A x \in {id} : Settled'.color[x] = Nil /\ Settled'.grey[x] = Nil
      /\ \A x \in Tabs \ {id} :
           Settled'.color[x] = Settled.color[x] /\ Settled'.grey[x] = Settled.grey[x]
  <2> DEFINE ids == {id}
  <2>1. /\ ids \in SUBSET Tabs /\ RemoveImages(ids, markedIDs)
        /\ colorDisk' = colorDisk /\ greyDisk' = greyDisk
    BY <1>2
  <2> HIDE DEF ids
  <2>2. /\ lruCache' \in Caches
        /\ posted' \in Seq(Postings) /\ Callbacks(posted') = Callbacks(posted)
        /\ \A x \in ids \ markedIDs : Settled'.color[x] = Nil /\ Settled'.grey[x] = Nil
        /\ \A x \in Tabs \ (ids \ markedIDs) :
             Settled'.color[x] = Settled.color[x] /\ Settled'.grey[x] = Settled.grey[x]
    BY <2>1, RemoveImagesFacts
  <2> QED
    BY <1>3, <2>2, Zenon DEF ids
<1>5. FilesAreOf(Settled', open', saved', lastTaken', atRisk')
  BY <1>1, <1>2, <1>3, <1>4 DEF FilesAreOf, PlainTypes
<1>6. PlainTypes'
  BY <1>1 DEF PlainTypes, CloseTab
<1>7. MarkedAreSaved' /\ replies' = replies /\ waiting' = waiting
  BY <1>1, <1>3 DEF MarkedAreSaved, CloseTab
<1> QED
  BY <1>1, <1>4, <1>5, <1>6, <1>7, SnapshotPartsNext

(* Closing all tabs with undo.                                             *)
LEMMA SaveAndCloseAllItemsKeeps ==
  ASSUME SnapshotInv, SaveAndCloseAllItems
  PROVE  SnapshotInv'
<1>1. /\ replies \in Seq(Asking \cup PinReads) /\ PlainTypes /\ MarkedAreSaved
      /\ waiting = Callbacks(posted) + Callbacks(replies)
      /\ FilesAreOf(Settled, open, saved, lastTaken, atRisk)
  BY SnapshotParts
<1>2. /\ RemoveImages(open, markedIDs') /\ open \in SUBSET Tabs
      /\ colorDisk' = colorDisk /\ greyDisk' = greyDisk
      /\ open' = {} /\ saved' = open /\ saved = {} /\ atRisk' = atRisk
      /\ lastTaken' = lastTaken /\ markedIDs' = markedIDs \cup open
  BY <1>1 DEF SaveAndCloseAllItems, PlainTypes
<1>3. open \ markedIDs' = {} /\ markedIDs' = open
  BY <1>1, <1>2 DEF MarkedAreSaved
<1>4. /\ lruCache' \in Caches
      /\ posted' \in Seq(Postings) /\ Callbacks(posted') = Callbacks(posted)
      /\ \A x \in Tabs \ (open \ markedIDs') :
           Settled'.color[x] = Settled.color[x] /\ Settled'.grey[x] = Settled.grey[x]
  BY <1>2, RemoveImagesFacts
<1>5. FilesAreOf(Settled', open', saved', lastTaken', atRisk')
  BY <1>1, <1>2, <1>3, <1>4 DEF FilesAreOf, PlainTypes
<1>6. PlainTypes'
  BY <1>1 DEF PlainTypes, SaveAndCloseAllItems
<1>7. MarkedAreSaved' /\ replies' = replies /\ waiting' = waiting
  BY <1>2, <1>3 DEF MarkedAreSaved, SaveAndCloseAllItems
<1> QED
  BY <1>1, <1>4, <1>5, <1>6, <1>7, SnapshotPartsNext

(* Discarding what was saved for undo.                                     *)
LEMMA DiscardSavedClosedItemsKeeps ==
  ASSUME SnapshotInv, DiscardSavedClosedItems
  PROVE  SnapshotInv'
<1>1. /\ replies \in Seq(Asking \cup PinReads) /\ PlainTypes /\ MarkedAreSaved
      /\ waiting = Callbacks(posted) + Callbacks(replies)
      /\ FilesAreOf(Settled, open, saved, lastTaken, atRisk)
  BY SnapshotParts
<1>2. /\ RemoveImages(markedIDs, markedIDs') /\ markedIDs \in SUBSET Tabs
      /\ colorDisk' = colorDisk /\ greyDisk' = greyDisk
      /\ open' = open /\ saved' = {} /\ saved # {} /\ atRisk' = atRisk
      /\ lastTaken' = lastTaken /\ markedIDs' = {}
  BY <1>1 DEF DiscardSavedClosedItems, PlainTypes
<1>3. markedIDs \ markedIDs' = saved /\ open = {}
  BY <1>1, <1>2 DEF MarkedAreSaved
<1>4. /\ lruCache' \in Caches
      /\ posted' \in Seq(Postings) /\ Callbacks(posted') = Callbacks(posted)
      /\ \A x \in saved : Settled'.color[x] = Nil /\ Settled'.grey[x] = Nil
      /\ \A x \in Tabs \ saved :
           Settled'.color[x] = Settled.color[x] /\ Settled'.grey[x] = Settled.grey[x]
  BY <1>2, <1>3, RemoveImagesFacts
<1>5. FilesAreOf(Settled', open', saved', lastTaken', atRisk')
  BY <1>1, <1>2, <1>3, <1>4 DEF FilesAreOf, PlainTypes
<1>6. PlainTypes'
  BY <1>1 DEF PlainTypes, DiscardSavedClosedItems
<1>7. MarkedAreSaved' /\ replies' = replies /\ waiting' = waiting
  BY <1>2, <1>3 DEF MarkedAreSaved, DiscardSavedClosedItems
<1> QED
  BY <1>1, <1>4, <1>5, <1>6, <1>7, SnapshotPartsNext

(* Undo.                                                                   *)
LEMMA UndoCloseAllItemsKeeps ==
  ASSUME SnapshotInv, UndoCloseAllItems
  PROVE  SnapshotInv'
<1>1. /\ lruCache \in Caches /\ posted \in Seq(Postings)
      /\ replies \in Seq(Asking \cup PinReads) /\ PlainTypes /\ MarkedAreSaved
      /\ waiting = Callbacks(posted) + Callbacks(replies)
      /\ FilesAreOf(Settled, open, saved, lastTaken, atRisk)
  BY SnapshotParts
<1>2. /\ open' = open \cup saved /\ saved' = {} /\ atRisk' = atRisk
      /\ lastTaken' = lastTaken /\ markedIDs' = {} /\ lruCache' = lruCache
      /\ posted' = posted /\ replies' = replies /\ waiting' = waiting
      /\ colorDisk' = colorDisk /\ greyDisk' = greyDisk
  BY DEF UndoCloseAllItems, UnmarkAllImages
<1>3. Settled' = Settled
  BY <1>2, NothingPosted
<1>4. FilesAreOf(Settled', open', saved', lastTaken', atRisk')
  BY <1>1, <1>2, <1>3 DEF FilesAreOf
<1>5. PlainTypes'
  BY <1>1, SnapshotAssumption DEF PlainTypes, UndoCloseAllItems, UnmarkAllImages, Event
<1>6. MarkedAreSaved'
  BY <1>2 DEF MarkedAreSaved
<1> QED
  BY <1>1, <1>2, <1>4, <1>5, <1>6, SnapshotPartsNext

(* The count of events leaves room for one more callback or undo.          *)
LEMMA EventCounted ==
  ASSUME PlainTypes, Event
  PROVE  events' \in 0 .. MaxEvents /\ events' = events + 1
<1>1. events \in 0 .. MaxEvents
  BY DEF PlainTypes
<1>2. events < MaxEvents /\ events' = events + 1
  BY DEF Event
<1>3. MaxEvents \in Nat
  BY SnapshotAssumption
<1> QED
  BY <1>1, <1>2, <1>3

(* One more callback that waits.                                           *)
LEMMA OneMoreWaits ==
  ASSUME PlainTypes, Event, waiting' = waiting \/ waiting' = waiting + 1, undos' = undos
  PROVE  waiting' \in Nat /\ events' \in 0 .. MaxEvents /\ waiting' + undos' <= events'
<1>1. waiting \in Nat /\ undos \in Nat /\ events \in 0 .. MaxEvents /\ waiting + undos <= events
  BY DEF PlainTypes
<1>2. events' \in 0 .. MaxEvents /\ events' = events + 1
  BY EventCounted
<1> QED
  BY <1>1, <1>2

(* retrieveImageForSessionID for a colour snapshot.                        *)
LEMMA RetrieveColorSnapshotKeeps ==
  ASSUME SnapshotInv, NEW id \in Tabs, RetrieveColorSnapshot(id)
  PROVE  SnapshotInv'
<1> DEFINE t == FileTask("read", id, Nil, "color")
<1>1. /\ lruCache \in Caches /\ posted \in Seq(Postings)
      /\ replies \in Seq(Asking \cup PinReads) /\ PlainTypes /\ MarkedAreSaved
      /\ FilesAreOf(Settled, open, saved, lastTaken, atRisk)
      /\ waiting = Callbacks(posted) + Callbacks(replies)
  BY SnapshotParts
<1>2. /\ Event /\ replies' = replies /\ undos' = undos
      /\ colorDisk' = colorDisk /\ greyDisk' = greyDisk
      /\ open' = open /\ saved' = saved /\ atRisk' = atRisk /\ lastTaken' = lastTaken
      /\ lruCache' = Touch(lruCache, id)
      /\ \/ waiting' = waiting /\ posted' = posted
         \/ waiting' = waiting + 1 /\ Post(<<t>>)
  BY DEF RetrieveColorSnapshot, RetrieveImage
<1>3. t \in Asking
  BY <1>1, NilIsAnImage, TaskTypes DEF PlainTypes
<1> HIDE DEF t
<1>4. lruCache' \in Caches
  BY <1>1, <1>2, TouchIsACache
<1>5. /\ posted' \in Seq(Postings) /\ Settled' = Settled
      /\ waiting' = Callbacks(posted') + Callbacks(replies')
  <2>1. Callbacks(posted) \in Nat /\ Callbacks(replies) \in Nat
    BY <1>1, CallbackCounts
  <2>2. CASE waiting' = waiting /\ posted' = posted
    BY <1>1, <1>2, <2>2, NothingPosted
  <2>3. CASE waiting' = waiting + 1 /\ Post(<<t>>)
    <3>1. t \in Asking \cup PinReads
      BY <1>3
    <3>2. /\ posted' \in Seq(Postings) /\ Settled' = Settled
          /\ Callbacks(posted') = Callbacks(posted) + IF t \in Asking THEN 1 ELSE 0
      BY <1>2, <2>3, <3>1, ReadPosted
    <3>3. Callbacks(posted') = Callbacks(posted) + 1 /\ Callbacks(replies') = Callbacks(replies)
      BY <1>2, <1>3, <3>2
    <3>4. waiting' = Callbacks(posted') + Callbacks(replies')
      BY <1>1, <2>1, <2>3, <3>3
    <3> QED
      BY <3>2, <3>4
  <2> QED
    BY <1>2, <2>2, <2>3
<1>6. FilesAreOf(Settled', open', saved', lastTaken', atRisk')
  BY <1>1, <1>2, <1>5
<1>7. waiting' \in Nat /\ events' \in 0 .. MaxEvents /\ waiting' + undos' <= events'
  BY <1>1, <1>2, OneMoreWaits
<1>8. PlainTypes'
  BY <1>1, <1>7 DEF PlainTypes, RetrieveColorSnapshot
<1>9. MarkedAreSaved'
  BY <1>1 DEF MarkedAreSaved, RetrieveColorSnapshot
<1> QED
  BY <1>1, <1>2, <1>4, <1>5, <1>6, <1>8, <1>9, SnapshotPartsNext

(* The read of a grey file.                                                *)
LEMMA RetrieveGreySnapshotKeeps ==
  ASSUME SnapshotInv, NEW id \in Tabs, RetrieveGreySnapshot(id)
  PROVE  SnapshotInv'
<1> DEFINE t == FileTask("readGrey", id, Nil, "grey")
<1>1. /\ lruCache \in Caches /\ posted \in Seq(Postings)
      /\ replies \in Seq(Asking \cup PinReads) /\ PlainTypes /\ MarkedAreSaved
      /\ FilesAreOf(Settled, open, saved, lastTaken, atRisk)
      /\ waiting = Callbacks(posted) + Callbacks(replies)
  BY SnapshotParts
<1>2. /\ Event /\ replies' = replies /\ undos' = undos
      /\ colorDisk' = colorDisk /\ greyDisk' = greyDisk
      /\ open' = open /\ saved' = saved /\ atRisk' = atRisk /\ lastTaken' = lastTaken
      /\ lruCache' = lruCache
      /\ waiting' = waiting + 1 /\ Post(<<t>>)
  BY DEF RetrieveGreySnapshot
<1>3. t \in Asking
  BY <1>1, NilIsAnImage, TaskTypes DEF PlainTypes
<1> HIDE DEF t
<1>4. /\ posted' \in Seq(Postings) /\ Settled' = Settled
      /\ waiting' = Callbacks(posted') + Callbacks(replies')
  <2>1. Callbacks(posted) \in Nat /\ Callbacks(replies) \in Nat
    BY <1>1, CallbackCounts
  <2>2. t \in Asking \cup PinReads
    BY <1>3
  <2>3. /\ posted' \in Seq(Postings) /\ Settled' = Settled
        /\ Callbacks(posted') = Callbacks(posted) + IF t \in Asking THEN 1 ELSE 0
    BY <1>2, <2>2, ReadPosted
  <2>4. Callbacks(posted') = Callbacks(posted) + 1 /\ Callbacks(replies') = Callbacks(replies)
    BY <1>2, <1>3, <2>3
  <2>5. waiting' = Callbacks(posted') + Callbacks(replies')
    BY <1>1, <1>2, <2>1, <2>4
  <2> QED
    BY <2>3, <2>5
<1>5. FilesAreOf(Settled', open', saved', lastTaken', atRisk')
  BY <1>1, <1>2, <1>4
<1>6. waiting' \in Nat /\ events' \in 0 .. MaxEvents /\ waiting' + undos' <= events'
  BY <1>1, <1>2, OneMoreWaits
<1>7. PlainTypes'
  BY <1>1, <1>6 DEF PlainTypes, RetrieveGreySnapshot
<1>8. MarkedAreSaved'
  BY <1>1 DEF MarkedAreSaved, RetrieveGreySnapshot
<1> QED
  BY <1>1, <1>2, <1>4, <1>5, <1>7, <1>8, SnapshotPartsNext

(* The purge of old files.                                                 *)
LEMMA PurgeSnapshotsKeeps ==
  ASSUME SnapshotInv, PurgeSnapshots
  PROVE  SnapshotInv'
<1>1. /\ lruCache \in Caches /\ posted \in Seq(Postings)
      /\ replies \in Seq(Asking \cup PinReads) /\ PlainTypes /\ MarkedAreSaved
      /\ FilesAreOf(Settled, open, saved, lastTaken, atRisk)
      /\ waiting = Callbacks(posted) + Callbacks(replies)
  BY SnapshotParts
<1>2. /\ Event /\ replies' = replies /\ undos' = undos /\ waiting' = waiting
      /\ colorDisk' = colorDisk /\ greyDisk' = greyDisk
      /\ open' = open /\ saved' = saved /\ atRisk' = atRisk \cup saved
      /\ lastTaken' = lastTaken /\ lruCache' = lruCache
  BY DEF PurgeSnapshots
<1>3. PICK aged \in SUBSET {f \in Files : f[2] \notin open} : Post(<<PurgeTask(open, aged)>>)
  BY DEF PurgeSnapshots, LiveSessions
<1> DEFINE t == PurgeTask(open, aged)
           c == Settled.color
           g == Settled.grey
<1>4. /\ colorDisk \in [Tabs -> Images] /\ greyDisk \in [Tabs -> Images]
      /\ open \in SUBSET Tabs /\ saved \subseteq Tabs
  BY <1>1 DEF PlainTypes
<1>5. Files \subseteq ({"color", "grey"} \X Tabs \X Images)
  BY <1>4 DEF Files
<1>6. aged \in SUBSET ({"color", "grey"} \X Tabs \X Images)
  BY <1>3, <1>5
<1>7. t \in Purges /\ t.kind = "purge" /\ t.keep = open
  BY <1>4, <1>6 DEF PurgeTask, Purges
<1>8. t \in Postings /\ t \in Changes \cup Purges /\ Post(<<t>>)
  BY <1>3, <1>7 DEF Postings
<1> HIDE DEF t
<1>9. /\ posted' \in Seq(Postings) /\ Callbacks(posted') = Callbacks(posted)
      /\ c \in [Tabs -> Images] /\ g \in [Tabs -> Images]
      /\ Settled'.color = DiskAfter(c, t) /\ Settled'.grey = GreyAfter(g, c, t)
  BY <1>2, <1>8, ChangePosted
<1> HIDE DEF c, g
<1>10. c \in [Tabs -> Images] /\ g \in [Tabs -> Images]
  BY <1>9
<1>11. t.kind = "purge" =>
         /\ \A id \in Tabs : DiskAfter(c, t)[id] \in {Nil, c[id]}
         /\ \A id \in Tabs : id \in t.keep => DiskAfter(c, t)[id] = c[id]
  BY <1>8, <1>10, ColorSteps
<1>12. t.kind = "purge" => \A id \in Tabs : GreyAfter(g, c, t)[id] \in {Nil, g[id]}
  BY <1>8, <1>10, GreySteps
<1>13. /\ \A id \in Tabs : Settled'.color[id] \in {Nil, Settled.color[id]}
       /\ \A id \in open : Settled'.color[id] = Settled.color[id]
       /\ \A id \in Tabs : Settled'.grey[id] \in {Nil, Settled.grey[id]}
  BY <1>4, <1>7, <1>9, <1>11, <1>12 DEF c, g
<1>14. FilesAreOf(Settled', open, saved, lastTaken, atRisk \cup saved)
  BY <1>1, <1>4, <1>13 DEF FilesAreOf
<1>15. FilesAreOf(Settled', open', saved', lastTaken', atRisk')
  BY <1>2, <1>14
<1>16. waiting' \in Nat /\ events' \in 0 .. MaxEvents /\ waiting' + undos' <= events'
  BY <1>1, <1>2, OneMoreWaits
<1>17. PlainTypes'
  BY <1>1, <1>16 DEF PlainTypes, PurgeSnapshots
<1>18. MarkedAreSaved'
  BY <1>1 DEF MarkedAreSaved, PurgeSnapshots
<1> QED
  BY <1>1, <1>2, <1>9, <1>15, <1>17, <1>18, SnapshotPartsNext

(* Pinning ids.                                                            *)
LEMMA PinNeighboursKeeps ==
  ASSUME SnapshotInv, NEW ids \in SUBSET open, PinNeighbours(ids)
  PROVE  SnapshotInv'
<1>1. /\ lruCache \in Caches /\ posted \in Seq(Postings)
      /\ replies \in Seq(Asking \cup PinReads) /\ PlainTypes /\ MarkedAreSaved
      /\ FilesAreOf(Settled, open, saved, lastTaken, atRisk)
      /\ waiting = Callbacks(posted) + Callbacks(replies)
  BY SnapshotParts
<1>2. /\ Event /\ replies' = replies /\ undos' = undos /\ waiting' = waiting
      /\ colorDisk' = colorDisk /\ greyDisk' = greyDisk /\ posted' = posted
      /\ open' = open /\ saved' = saved /\ atRisk' = atRisk
      /\ lastTaken' = lastTaken /\ lruCache' = lruCache
  BY DEF PinNeighbours
<1>3. Settled' = Settled
  BY <1>2, NothingPosted
<1>4. FilesAreOf(Settled', open', saved', lastTaken', atRisk')
  BY <1>1, <1>2, <1>3
<1>5. waiting' \in Nat /\ events' \in 0 .. MaxEvents /\ waiting' + undos' <= events'
  BY <1>1, <1>2, OneMoreWaits
<1>6. PlainTypes'
  BY <1>1, <1>5 DEF PlainTypes, PinNeighbours
<1>7. MarkedAreSaved'
  BY <1>1 DEF MarkedAreSaved, PinNeighbours
<1> QED
  BY <1>1, <1>2, <1>4, <1>6, <1>7, SnapshotPartsNext

(* An order of the pinned ids.                                             *)
LEMMA PinnedInOrder ==
  ASSUME PlainTypes, NEW order \in SetToSeqs(pinnedIDs)
  PROVE  order \in Seq(Tabs)
<1>1. pinnedIDs \in SUBSET Tabs
  BY DEF PlainTypes
<1>2. IsFiniteSet(pinnedIDs)
  BY <1>1, SnapshotAssumption, FS_Subset
<1>3. order \in Seq(pinnedIDs)
  BY <1>2, SetToSeqsProperties
<1> QED
  BY <1>1, <1>3

(* A memory warning.                                                       *)
LEMMA HandleLowMemoryKeeps ==
  ASSUME SnapshotInv, HandleLowMemory
  PROVE  SnapshotInv'
<1>1. /\ lruCache \in Caches /\ posted \in Seq(Postings)
      /\ replies \in Seq(Asking \cup PinReads) /\ PlainTypes /\ MarkedAreSaved
      /\ FilesAreOf(Settled, open, saved, lastTaken, atRisk)
      /\ waiting = Callbacks(posted) + Callbacks(replies)
  BY SnapshotParts
<1>2. /\ replies' = replies /\ undos' = undos /\ waiting' = waiting
      /\ colorDisk' = colorDisk /\ greyDisk' = greyDisk /\ posted' = posted
      /\ open' = open /\ saved' = saved /\ atRisk' = atRisk /\ lastTaken' = lastTaken
  BY DEF HandleLowMemory
<1>3. PICK order \in SetToSeqs(pinnedIDs) : lruCache' = SetAgain(lruCache, order)
  BY DEF HandleLowMemory
<1>4. lruCache' \in Caches
  BY <1>1, <1>3, PinnedInOrder, SetAgainIsACache
<1>5. Settled' = Settled
  BY <1>2, NothingPosted
<1>6. FilesAreOf(Settled', open', saved', lastTaken', atRisk')
  BY <1>1, <1>2, <1>5
<1>7. PlainTypes' /\ MarkedAreSaved'
  BY <1>1 DEF PlainTypes, MarkedAreSaved, HandleLowMemory
<1> QED
  BY <1>1, <1>2, <1>4, <1>6, <1>7, SnapshotPartsNext

(* Leaving the foreground.                                                 *)
LEMMA WillResignActiveKeeps ==
  ASSUME SnapshotInv, NEW id \in Tabs, WillResignActive(id)
  PROVE  SnapshotInv'
<1>1. /\ lruCache \in Caches /\ posted \in Seq(Postings)
      /\ replies \in Seq(Asking \cup PinReads) /\ PlainTypes /\ MarkedAreSaved
      /\ FilesAreOf(Settled, open, saved, lastTaken, atRisk)
      /\ waiting = Callbacks(posted) + Callbacks(replies)
  BY SnapshotParts
<1>2. /\ Event /\ replies' = replies /\ undos' = undos /\ waiting' = waiting
      /\ colorDisk' = colorDisk /\ greyDisk' = greyDisk /\ posted' = posted
      /\ open' = open /\ saved' = saved /\ atRisk' = atRisk
      /\ lastTaken' = lastTaken /\ lruCache' = Touch(lruCache, id)
      /\ backgrounding' = <<id, Peek(lruCache, id)>>
  BY DEF WillResignActive
<1>3. lruCache' \in Caches
  BY <1>1, <1>2, TouchIsACache
<1>4. lruCache \in Seq(Entry)
  BY <1>1 DEF Caches
<1>5. Peek(lruCache, id) \in Images
  BY <1>4, PeekIsAnImage
<1>6. backgrounding' \in (Tabs \cup {NoTab}) \X Images
  BY <1>2, <1>5
<1>7. Settled' = Settled
  BY <1>2, NothingPosted
<1>8. FilesAreOf(Settled', open', saved', lastTaken', atRisk')
  BY <1>1, <1>2, <1>7
<1>9. waiting' \in Nat /\ events' \in 0 .. MaxEvents /\ waiting' + undos' <= events'
  BY <1>1, <1>2, OneMoreWaits
<1>10. PlainTypes'
  BY <1>1, <1>6, <1>9 DEF PlainTypes, WillResignActive
<1>11. MarkedAreSaved'
  BY <1>1 DEF MarkedAreSaved, WillResignActive
<1> QED
  BY <1>1, <1>2, <1>3, <1>8, <1>10, <1>11, SnapshotPartsNext

(* In the background.                                                      *)
LEMMA HandleEnterBackgroundKeeps ==
  ASSUME SnapshotInv, NEW id \in Tabs, HandleEnterBackground(id)
  PROVE  SnapshotInv'
<1> DEFINE t == FileTask("saveGrey", id, backgrounding'[2], "")
           c == Settled.color
           g == Settled.grey
<1>1. /\ posted \in Seq(Postings)
      /\ replies \in Seq(Asking \cup PinReads) /\ PlainTypes /\ MarkedAreSaved
      /\ FilesAreOf(Settled, open, saved, lastTaken, atRisk)
      /\ waiting = Callbacks(posted) + Callbacks(replies)
  BY SnapshotParts
<1>2. /\ replies' = replies /\ undos' = undos /\ waiting' = waiting /\ id \in open
      /\ colorDisk' = colorDisk /\ greyDisk' = greyDisk /\ Post(<<t>>)
      /\ open' = open /\ saved' = saved /\ atRisk' = atRisk
      /\ lastTaken' = lastTaken /\ lruCache' = <<>>
      /\ backgrounding' = BackgroundingFor(id)
  BY DEF HandleEnterBackground
<1>3. lruCache' \in Caches
  BY <1>2, EmptyIsACache
<1>4. backgrounding' \in (Tabs \cup {NoTab}) \X Images /\ backgrounding'[2] \in Images
  BY <1>1, <1>2, NilIsAnImage DEF PlainTypes, BackgroundingFor
<1>5. t \in Changes
  BY <1>1, <1>4, TaskTypes DEF PlainTypes
<1>6. t.kind = "saveGrey" /\ t.id = id
  BY DEF FileTask
<1>7. t \in Postings /\ t \in Changes \cup Purges
  BY <1>5 DEF Postings
<1> HIDE DEF t
<1>8. /\ posted' \in Seq(Postings) /\ Callbacks(posted') = Callbacks(posted)
      /\ c \in [Tabs -> Images] /\ g \in [Tabs -> Images]
      /\ Settled'.color = DiskAfter(c, t) /\ Settled'.grey = GreyAfter(g, c, t)
  BY <1>2, <1>7, ChangePosted
<1> HIDE DEF c, g
<1>9. c \in [Tabs -> Images] /\ g \in [Tabs -> Images]
  BY <1>8
<1>10. t.kind \in {"read", "readGrey", "saveGrey"} => DiskAfter(c, t) = c
  BY <1>7, <1>9, ColorSteps
<1>11. t.kind = "saveGrey" => \A x \in Tabs : x # t.id => GreyAfter(g, c, t)[x] = g[x]
  BY <1>7, <1>9, GreySteps
<1>12. /\ Settled'.color = Settled.color
       /\ \A x \in Tabs : x # id => Settled'.grey[x] = Settled.grey[x]
  BY <1>6, <1>8, <1>10, <1>11 DEF c, g
<1>13. FilesAreOf(Settled', open, saved, lastTaken, atRisk)
  BY <1>1, <1>2, <1>12 DEF FilesAreOf
<1>14. FilesAreOf(Settled', open', saved', lastTaken', atRisk')
  BY <1>2, <1>13
<1>15. PlainTypes'
  BY <1>1, <1>4 DEF PlainTypes, HandleEnterBackground
<1>16. MarkedAreSaved'
  BY <1>1 DEF MarkedAreSaved, HandleEnterBackground
<1> QED
  BY <1>1, <1>2, <1>3, <1>8, <1>14, <1>15, <1>16, SnapshotPartsNext

(* Back in the foreground.                                                 *)
LEMMA HandleBecomeActiveKeeps ==
  ASSUME SnapshotInv, HandleBecomeActive
  PROVE  SnapshotInv'
<1> DEFINE absent == {id \in pinnedIDs : Peek(lruCache, id) = Nil}
<1>1. /\ lruCache \in Caches /\ posted \in Seq(Postings)
      /\ replies \in Seq(Asking \cup PinReads) /\ PlainTypes /\ MarkedAreSaved
      /\ FilesAreOf(Settled, open, saved, lastTaken, atRisk)
      /\ waiting = Callbacks(posted) + Callbacks(replies)
  BY SnapshotParts
<1>2. /\ replies' = replies /\ undos' = undos /\ waiting' = waiting
      /\ colorDisk' = colorDisk /\ greyDisk' = greyDisk
      /\ open' = open /\ saved' = saved /\ atRisk' = atRisk /\ lastTaken' = lastTaken
  BY DEF HandleBecomeActive
<1>3. \E order \in SetToSeqs(pinnedIDs) :
        lruCache' = TouchAll(lruCache, order) /\ Post(ReadTasks(order, absent))
  BY DEF HandleBecomeActive
<1>4. PICK order \in SetToSeqs(pinnedIDs) :
        lruCache' = TouchAll(lruCache, order) /\ Post(ReadTasks(order, absent))
  BY <1>3
<1> DEFINE us == ReadTasks(order, absent)
<1> HIDE DEF absent
<1>5. order \in Seq(Tabs)
  BY <1>1, PinnedInOrder
<1>6. lruCache' \in Caches
  BY <1>1, <1>4, <1>5, TouchAllIsACache
<1>7. us \in Seq(PinReads) /\ Post(us)
  BY <1>4, <1>5, ReadTasksType
<1> HIDE DEF us
<1>8. Len(us) \in Nat /\ \A k \in 1..Len(us) : us[k] \in PinReads
  BY <1>7, LenProperties, ElementOfSeq
<1>9. us \in Seq(Asking \cup PinReads)
  BY <1>7
<1>10. \A k \in 1..Len(us) : us[k] \notin Asking
  BY <1>8 DEF PinReads, Asking
<1>11. Callbacks(us) = 0 /\ Callbacks(posted) \in Nat
  BY <1>1, <1>7, <1>10, CallbackCounts
<1>12. /\ posted' \in Seq(Postings) /\ Settled' = Settled
       /\ Callbacks(posted') = Callbacks(posted) + Callbacks(us)
  BY <1>2, <1>7, <1>9, ReadsPosted
<1>13. Callbacks(posted') = Callbacks(posted)
  BY <1>11, <1>12
<1>14. FilesAreOf(Settled', open', saved', lastTaken', atRisk')
  BY <1>1, <1>2, <1>12
<1>15. PlainTypes' /\ MarkedAreSaved'
  BY <1>1 DEF PlainTypes, MarkedAreSaved, HandleBecomeActive
<1> QED
  BY <1>1, <1>2, <1>6, <1>12, <1>13, <1>14, <1>15, SnapshotPartsNext

(* A task that runs does what was expected of it.                          *)
LEMMA HeadRuns ==
  ASSUME SnapshotInv, posted # <<>>, posted' = Tail(posted),
         colorDisk' = DiskAfter(colorDisk, Head(posted)),
         greyDisk' = GreyAfter(greyDisk, colorDisk, Head(posted))
  PROVE  /\ posted' \in Seq(Postings) /\ Settled' = Settled
         /\ colorDisk' \in [Tabs -> Images] /\ greyDisk' \in [Tabs -> Images]
         /\ Head(posted) \in Postings
<1> DEFINE fs == [color |-> colorDisk, grey |-> greyDisk]
           t == Head(posted)
           us == Tail(posted)
           one == <<t>>
<1>1. posted \in Seq(Postings) /\ fs \in Stores
  BY SnapshotParts DEF PlainTypes, Stores
<1>2. t \in Postings /\ us \in Seq(Postings) /\ posted = one \o us
  BY <1>1, HeadThenTail
<1>3. one \in Seq(Postings)
  BY <1>2
<1>4. fs' = FilesStep(fs, t)
  BY DEF FilesStep
<1>5. Settled = FilesAfter(fs, posted) /\ Settled' = FilesAfter(fs', posted')
  BY DEF Settled
<1> HIDE DEF t, us
<1>6. FilesAfter(fs, one) = FilesStep(fs, t)
  BY <1>1, <1>2, AfterOne
<1>7. FilesAfter(fs, one \o us) = FilesAfter(FilesAfter(fs, one), us)
  <2> HIDE DEF one, fs
  <2> QED
    BY <1>1, <1>2, <1>3, AfterConcat
<1>8. FilesStep(fs, t) \in Stores
  BY <1>1, <1>2, FilesStepType
<1>9. fs' \in Stores
  BY <1>4, <1>8
<1>10. colorDisk' \in [Tabs -> Images] /\ greyDisk' \in [Tabs -> Images]
  BY <1>9 DEF Stores
<1>11. Settled' = Settled /\ posted' = us
  <2>1. posted' = us
    BY DEF us
  <2> HIDE DEF one, fs
  <2> QED
    BY <1>2, <1>4, <1>5, <1>6, <1>7, <2>1
<1> QED
  BY <1>2, <1>10, <1>11 DEF t

(* The reply to a read asks when the read did.                             *)
LEMMA ReplyType ==
  ASSUME NEW t \in Asking \cup PinReads, NEW image \in Images
  PROVE  /\ Reply(t, image) \in Asking \cup PinReads
         /\ Reply(t, image) \in Asking <=> t \in Asking
<1>1. CASE t \in Asking
  BY <1>1 DEF Reply, Asking
<1>2. CASE t \in PinReads
  BY <1>2 DEF Reply, PinReads, Asking
<1> QED
  BY <1>1, <1>2

(* A task of the background sequence.                                      *)
LEMMA RunFileTaskKeeps ==
  ASSUME SnapshotInv, RunFileTask
  PROVE  SnapshotInv'
<1> DEFINE t == Head(posted)
           n == Callbacks(posted)
           m == Callbacks(replies)
           d == IF t \in Asking THEN 1 ELSE 0
<1>1. /\ lruCache \in Caches /\ posted \in Seq(Postings)
      /\ replies \in Seq(Asking \cup PinReads) /\ PlainTypes /\ MarkedAreSaved
      /\ FilesAreOf(Settled, open, saved, lastTaken, atRisk)
      /\ waiting = n + m
  BY SnapshotParts
<1>2. /\ waiting' = waiting /\ lruCache' = lruCache
      /\ open' = open /\ saved' = saved /\ atRisk' = atRisk /\ lastTaken' = lastTaken
      /\ posted # <<>> /\ posted' = Tail(posted)
      /\ colorDisk' = DiskAfter(colorDisk, t)
      /\ greyDisk' = GreyAfter(greyDisk, colorDisk, t)
      /\ replies' = CASE t.kind = "read" -> Append(replies, Reply(t, colorDisk[t.id]))
                      [] t.kind = "readGrey" -> Append(replies, Reply(t, greyDisk[t.id]))
                      [] OTHER -> replies
  BY DEF RunFileTask
<1>3. /\ posted' \in Seq(Postings) /\ Settled' = Settled
      /\ colorDisk' \in [Tabs -> Images] /\ greyDisk' \in [Tabs -> Images]
      /\ t \in Postings
  BY <1>2, HeadRuns
<1>4. FilesAreOf(Settled', open', saved', lastTaken', atRisk')
  BY <1>1, <1>2, <1>3
<1>5. PlainTypes'
  BY <1>1, <1>3 DEF PlainTypes, RunFileTask
<1>6. MarkedAreSaved'
  BY <1>1 DEF MarkedAreSaved, RunFileTask
<1>7. n = Callbacks(posted') + d /\ n \in Nat /\ m \in Nat /\ Callbacks(posted') \in Nat
  BY <1>1, <1>2, <1>3, CallbackCounts
<1>8. replies' \in Seq(Asking \cup PinReads) /\ Callbacks(replies') = m + d
  <2>1. /\ t.kind # "purge" => t.id \in Tabs
        /\ t.kind \in {"read", "readGrey"} <=> t \in Asking \cup PinReads
    BY <1>3, PostingKinds
  <2>2. ASSUME NEW image \in Images, t \in Asking \cup PinReads,
               replies' = Append(replies, Reply(t, image))
        PROVE  replies' \in Seq(Asking \cup PinReads) /\ Callbacks(replies') = m + d
    <3> DEFINE r == Reply(t, image)
    <3>1. r \in Asking \cup PinReads /\ (r \in Asking <=> t \in Asking)
      BY <2>2, ReplyType
    <3> HIDE DEF r, t
    <3>2. replies' \in Seq(Asking \cup PinReads)
      BY <1>1, <2>2, <3>1, AppendProperties DEF r
    <3>3. Callbacks(Append(replies, r)) = Callbacks(replies) + IF r \in Asking THEN 1 ELSE 0
      BY <1>1, <3>1, CallbackCounts
    <3>4. Callbacks(replies') = m + d
      BY <2>2, <3>1, <3>3 DEF r
    <3> QED
      BY <3>2, <3>4
  <2>3. CASE t.kind = "read"
    <3>1. colorDisk[t.id] \in Images /\ t \in Asking \cup PinReads
      BY <1>1, <2>1, <2>3 DEF PlainTypes
    <3>2. replies' = Append(replies, Reply(t, colorDisk[t.id]))
      BY <1>2, <2>3
    <3> QED
      BY <2>2, <3>1, <3>2
  <2>4. CASE t.kind = "readGrey"
    <3>1. greyDisk[t.id] \in Images /\ t \in Asking \cup PinReads
      BY <1>1, <2>1, <2>4 DEF PlainTypes
    <3>2. replies' = Append(replies, Reply(t, greyDisk[t.id]))
      BY <1>2, <2>4
    <3> QED
      BY <2>2, <3>1, <3>2
  <2>5. CASE t.kind \notin {"read", "readGrey"}
    <3>1. replies' = replies /\ t \notin Asking
      BY <1>2, <2>1, <2>5
    <3>2. d = 0 /\ m + 0 = m
      BY <1>7, <3>1
    <3> QED
      BY <1>1, <3>1, <3>2
  <2> QED
    BY <2>3, <2>4, <2>5
<1>9. waiting' = Callbacks(posted') + Callbacks(replies')
  <2> HIDE DEF n, m, t
  <2> QED
    BY <1>1, <1>2, <1>7, <1>8
<1> QED
  BY <1>1, <1>2, <1>3, <1>4, <1>5, <1>6, <1>8, <1>9, SnapshotPartsNext

(* The reply at the head of the queue.                                     *)
LEMMA HeadReply ==
  ASSUME SnapshotInv, replies # <<>>, replies' = Tail(replies)
  PROVE  /\ replies' \in Seq(Asking \cup PinReads)
         /\ Head(replies) \in Asking \cup PinReads
         /\ Head(replies).id \in Tabs /\ Head(replies).image \in Images
         /\ Head(replies).gen \in Nat
         /\ Head(replies) \in Asking <=> Head(replies).for # "pin"
         /\ Callbacks(posted) \in Nat /\ Callbacks(replies') \in Nat
         /\ waiting = Callbacks(posted) + Callbacks(replies')
                      + IF Head(replies).for # "pin" THEN 1 ELSE 0
<1> DEFINE r == Head(replies)
           k == IF r \in Asking THEN 1 ELSE 0
<1>1. /\ replies \in Seq(Asking \cup PinReads) /\ posted \in Seq(Postings)
      /\ waiting = Callbacks(posted) + Callbacks(replies)
  BY SnapshotParts
<1>2. r \in Asking \cup PinReads /\ replies' \in Seq(Asking \cup PinReads)
  BY <1>1, HeadThenTail
<1>3. Callbacks(replies) = Callbacks(replies') + k
  BY <1>1, CallbackCounts
<1>4. Callbacks(posted) \in Nat /\ Callbacks(replies') \in Nat
  BY <1>1, <1>2, CallbackCounts
<1> HIDE DEF r
<1>5. r.id \in Tabs /\ r.image \in Images /\ r.gen \in Nat /\ (r \in Asking <=> r.for # "pin")
  BY <1>2 DEF Asking, PinReads
<1>6. waiting = Callbacks(posted) + Callbacks(replies') + k
  BY <1>1, <1>3, <1>4
<1> QED
  BY <1>2, <1>4, <1>5, <1>6 DEF r

(* One callback less.                                                      *)
LEMMA OneLessWaits ==
  ASSUME PlainTypes, NEW n \in Nat, NEW m \in Nat, waiting = n + m + 1,
         waiting' = waiting - 1, undos' = undos, events' = events
  PROVE  /\ waiting' \in Nat /\ waiting' + undos' <= events'
         /\ waiting' = n + m
<1>1. waiting \in Nat /\ undos \in Nat /\ events \in Nat /\ waiting + undos <= events
  BY SnapshotAssumption DEF PlainTypes
<1> QED
  BY <1>1

(* The reply to the read of a colour file.                                 *)
LEMMA RunColorReplyKeeps ==
  ASSUME SnapshotInv, RunColorReply
  PROVE  SnapshotInv'
<1> DEFINE r == Head(replies)
           n == Callbacks(posted)
           m == Callbacks(replies')
<1>1. /\ lruCache \in Caches /\ posted \in Seq(Postings) /\ PlainTypes /\ MarkedAreSaved
      /\ FilesAreOf(Settled, open, saved, lastTaken, atRisk)
  BY SnapshotParts
<1>2. /\ replies # <<>> /\ replies' = Tail(replies)
      /\ posted' = posted /\ colorDisk' = colorDisk /\ greyDisk' = greyDisk
      /\ open' = open /\ saved' = saved /\ atRisk' = atRisk /\ lastTaken' = lastTaken
      /\ undos' = undos /\ events' = events
      /\ lruCache' = IF r.image # Nil THEN SetObject(lruCache, r.id, r.image) ELSE lruCache
      /\ waiting' = IF r.for = "pin" THEN waiting ELSE waiting - 1
  BY DEF RunColorReply
<1>3. /\ replies' \in Seq(Asking \cup PinReads)
      /\ r.id \in Tabs /\ r.image \in Images /\ n \in Nat /\ m \in Nat
      /\ waiting = n + m + IF r.for # "pin" THEN 1 ELSE 0
  BY <1>2, HeadReply
<1> HIDE DEF r, n, m
<1>4. lruCache' \in Caches
  BY <1>1, <1>2, <1>3, SetObjectIsACache
<1>5. Settled' = Settled
  BY <1>2, NothingPosted
<1>6. FilesAreOf(Settled', open', saved', lastTaken', atRisk')
  BY <1>1, <1>2, <1>5
<1>7. waiting' \in Nat /\ waiting' + undos' <= events' /\ waiting' = n + m
  <2>1. CASE r.for = "pin"
    <3>1. waiting' = waiting /\ waiting = n + m + 0
      BY <1>2, <1>3, <2>1
    <3>2. waiting \in Nat /\ waiting + undos <= events
      BY <1>1 DEF PlainTypes
    <3> QED
      BY <1>2, <1>3, <3>1, <3>2
  <2>2. CASE r.for # "pin"
    <3>1. waiting' = waiting - 1 /\ waiting = n + m + 1
      BY <1>2, <1>3, <2>2
    <3> QED
      BY <1>1, <1>2, <1>3, <3>1, OneLessWaits
  <2> QED
    BY <2>1, <2>2
<1>8. PlainTypes'
  BY <1>1, <1>7 DEF PlainTypes, RunColorReply
<1>9. MarkedAreSaved'
  BY <1>1 DEF MarkedAreSaved, RunColorReply
<1>10. waiting' = Callbacks(posted') + Callbacks(replies')
  BY <1>2, <1>7 DEF n, m
<1> QED
  BY <1>1, <1>2, <1>3, <1>4, <1>6, <1>8, <1>9, <1>10, SnapshotPartsNext

(* The reply when there is no image at all.                                *)
LEMMA RunEmptyReplyKeeps ==
  ASSUME SnapshotInv, RunEmptyReply
  PROVE  SnapshotInv'
<1> DEFINE r == Head(replies)
           n == Callbacks(posted)
           m == Callbacks(replies')
<1>1. /\ lruCache \in Caches /\ posted \in Seq(Postings) /\ PlainTypes /\ MarkedAreSaved
      /\ FilesAreOf(Settled, open, saved, lastTaken, atRisk)
  BY SnapshotParts
<1>2. /\ replies # <<>> /\ replies' = Tail(replies) /\ r.for = "grey"
      /\ colorDisk' = colorDisk /\ greyDisk' = greyDisk
      /\ open' = open /\ saved' = saved
      /\ undos' = undos /\ events' = events /\ waiting' = waiting - 1
  BY DEF RunEmptyReply
<1>3. /\ replies' \in Seq(Asking \cup PinReads)
      /\ r.id \in Tabs /\ r.image \in Images /\ n \in Nat /\ m \in Nat
      /\ waiting = n + m + IF r.for # "pin" THEN 1 ELSE 0
  BY <1>2, HeadReply
<1>4. waiting' \in Nat /\ waiting' + undos' <= events' /\ waiting' = n + m
  <2> HIDE DEF r, n, m
  <2>1. waiting = n + m + 1
    BY <1>2, <1>3
  <2> QED
    BY <1>1, <1>2, <1>3, <2>1, OneLessWaits
<1>5. /\ lruCache' \in Caches /\ posted' \in Seq(Postings)
      /\ Callbacks(posted') = n
      /\ FilesAreOf(Settled', open', saved', lastTaken', atRisk')
      /\ lastImage' \in Images /\ lastTaken' \in [Tabs -> Images]
  <2>1. CASE /\ GeneratorAlive(r) /\ lastImage < MaxImage
             /\ lastImage' = lastImage + 1
             /\ lruCache' = SetObject(lruCache, r.id, lastImage')
             /\ Post(<<FileTask("write", r.id, lastImage', "")>>)
             /\ lastTaken' = [lastTaken EXCEPT ![r.id] = lastImage']
             /\ atRisk' = atRisk \ {r.id}
    <3> HIDE DEF r
    <3>1. lastImage' \in Images
      BY <2>1, NextImage
    <3>2. r.id \in open
      BY <2>1 DEF GeneratorAlive
    <3>3. lruCache' \in Caches
      BY <1>1, <1>3, <2>1, <3>1, SetObjectIsACache
    <3>4. /\ posted' \in Seq(Postings) /\ Callbacks(posted') = Callbacks(posted)
          /\ FilesAreOf(Settled', open', saved', lastTaken', atRisk')
      BY <1>2, <2>1, <3>1, <3>2, ImageTaken
    <3>5. lastTaken' \in [Tabs -> Images]
      BY <1>1, <1>3, <2>1, <3>1 DEF PlainTypes
    <3> QED
      BY <3>1, <3>3, <3>4, <3>5
  <2>2. CASE /\ GeneratorAlive(r)
             /\ lruCache' = WithoutObjects(lruCache, {r.id})
             /\ Post(DeleteTasks(<<r.id>>))
             /\ lastTaken' = [lastTaken EXCEPT ![r.id] = Nil]
             /\ atRisk' = atRisk \ {r.id}
             /\ UNCHANGED lastImage
    <3> DEFINE x == r.id
               order == <<x>>
               gone == {x}
    <3>1. /\ x \in open /\ x \in Tabs /\ lruCache' = WithoutObjects(lruCache, gone)
          /\ Post(DeleteTasks(order)) /\ lastTaken' = [lastTaken EXCEPT ![x] = Nil]
          /\ lastImage' = lastImage /\ atRisk' = atRisk \ {x}
      BY <1>3, <2>2 DEF GeneratorAlive
    <3> HIDE DEF x, r
    <3>2. order \in Seq(Tabs) /\ Len(order) = 1 /\ order[1] = x /\ gone \in SUBSET Tabs
      BY <3>1
    <3> HIDE DEF order
    <3>3. /\ \A k \in 1..Len(order) : order[k] \in gone
          /\ \A id \in gone : \E k \in 1..Len(order) : order[k] = id
      <4>1. 1..Len(order) = {1}
        BY <3>2
      <4> QED
        BY <3>2, <4>1
    <3>4. lruCache' \in Caches
      BY <1>1, <3>1, WithoutObjectsIsACache
    <3> HIDE DEF gone
    <3>5. /\ posted' \in Seq(Postings) /\ Callbacks(posted') = Callbacks(posted)
          /\ \A id \in gone : Settled'.color[id] = Nil /\ Settled'.grey[id] = Nil
          /\ \A id \in Tabs \ gone :
               Settled'.color[id] = Settled.color[id] /\ Settled'.grey[id] = Settled.grey[id]
      BY <1>2, <3>1, <3>2, <3>3, ImagesRemoved
    <3>6. FilesAreOf(Settled', open, saved, lastTaken', atRisk \ {x})
      BY <1>1, <3>1, <3>5 DEF FilesAreOf, PlainTypes, gone
    <3>7. lastImage' \in Images /\ lastTaken' \in [Tabs -> Images]
      BY <1>1, <3>1, NilIsAnImage DEF PlainTypes
    <3> QED
      BY <1>2, <3>1, <3>4, <3>5, <3>6, <3>7
  <2>3. CASE ~GeneratorAlive(r) /\ UNCHANGED <<lastImage, lruCache, posted, lastTaken, atRisk>>
    <3>1. Settled' = Settled
      BY <1>2, <2>3, NothingPosted
    <3> QED
      BY <1>1, <1>2, <2>3, <3>1 DEF PlainTypes
  <2> QED
    BY <2>1, <2>2, <2>3 DEF RunEmptyReply
<1>6. PlainTypes'
  BY <1>1, <1>4, <1>5 DEF PlainTypes, RunEmptyReply
<1>7. MarkedAreSaved'
  BY <1>1 DEF MarkedAreSaved, RunEmptyReply
<1>8. waiting' = Callbacks(posted') + Callbacks(replies')
  BY <1>4, <1>5
<1> QED
  BY <1>3, <1>5, <1>6, <1>7, <1>8, SnapshotPartsNext

(* The reply to the read of a grey file.                                   *)
LEMMA RunGreyReplyKeeps ==
  ASSUME SnapshotInv, RunGreyReply
  PROVE  SnapshotInv'
<1> DEFINE r == Head(replies)
           n == Callbacks(posted)
           m == Callbacks(replies')
           t == [FileTask("read", r.id, Nil, "grey") EXCEPT !.gen = r.gen]
<1>1. /\ lruCache \in Caches /\ posted \in Seq(Postings) /\ PlainTypes /\ MarkedAreSaved
      /\ FilesAreOf(Settled, open, saved, lastTaken, atRisk)
      /\ replies \in Seq(Asking \cup PinReads)
  BY SnapshotParts
<1>2. /\ replies # <<>> /\ replies' = Tail(replies) /\ r.kind = "readGrey"
      /\ colorDisk' = colorDisk /\ greyDisk' = greyDisk /\ lastTaken' = lastTaken
      /\ open' = open /\ saved' = saved /\ atRisk' = atRisk
      /\ undos' = undos /\ events' = events
      /\ \/ lruCache' = Touch(lruCache, r.id) /\ waiting' = waiting - 1 /\ posted' = posted
         \/ lruCache' = Touch(lruCache, r.id) /\ waiting' = waiting /\ Post(<<t>>)
         \/ lruCache' = lruCache /\ waiting' = waiting - 1 /\ posted' = posted
  BY DEF RunGreyReply, FallsBack
<1>3. /\ replies' \in Seq(Asking \cup PinReads) /\ r \in Asking \cup PinReads
      /\ r.id \in Tabs /\ r.gen \in Nat /\ n \in Nat /\ m \in Nat
      /\ waiting = n + m + IF r.for # "pin" THEN 1 ELSE 0
  BY <1>2, HeadReply
<1>4. t \in Asking
  BY <1>3, NilIsAnImage DEF FileTask, Asking
<1> HIDE DEF r, n, m, t
<1>5. waiting = n + m + 1
  <2>1. r.for # "pin"
    BY <1>2, <1>3 DEF Asking, PinReads
  <2> QED
    BY <1>3, <2>1
<1>6. lruCache' \in Caches
  BY <1>1, <1>2, <1>3, TouchIsACache
<1>7. /\ posted' \in Seq(Postings) /\ Settled' = Settled
      /\ waiting' \in Nat /\ waiting' + undos' <= events'
      /\ waiting' = Callbacks(posted') + m
  <2>1. CASE waiting' = waiting - 1 /\ posted' = posted
    <3>1. waiting' \in Nat /\ waiting' + undos' <= events' /\ waiting' = n + m
      BY <1>1, <1>2, <1>3, <1>5, <2>1, OneLessWaits
    <3>2. Settled' = Settled
      BY <1>2, <2>1, NothingPosted
    <3> QED
      BY <1>1, <2>1, <3>1, <3>2 DEF n
  <2>2. CASE waiting' = waiting /\ Post(<<t>>)
    <3>1. t \in Asking \cup PinReads
      BY <1>4
    <3>2. /\ posted' \in Seq(Postings) /\ Settled' = Settled
          /\ Callbacks(posted') = n + IF t \in Asking THEN 1 ELSE 0
      BY <1>2, <2>2, <3>1, ReadPosted DEF n
    <3>3. Callbacks(posted') = n + 1
      BY <1>4, <3>2
    <3>4. waiting' = Callbacks(posted') + m
      BY <1>3, <1>5, <2>2, <3>3
    <3>5. waiting' \in Nat /\ waiting' + undos' <= events'
      BY <1>1, <1>2, <2>2 DEF PlainTypes
    <3> QED
      BY <3>2, <3>4, <3>5
  <2> QED
    BY <1>2, <2>1, <2>2
<1>8. FilesAreOf(Settled', open', saved', lastTaken', atRisk')
  BY <1>1, <1>2, <1>7
<1>9. PlainTypes'
  BY <1>1, <1>7 DEF PlainTypes, RunGreyReply
<1>10. MarkedAreSaved'
  BY <1>1 DEF MarkedAreSaved, RunGreyReply
<1>11. waiting' = Callbacks(posted') + Callbacks(replies')
  BY <1>7 DEF m
<1> QED
  BY <1>3, <1>6, <1>7, <1>8, <1>9, <1>10, <1>11, SnapshotPartsNext

(* At launch.                                                              *)
LEMMA SnapshotsAtLaunch ==
  SnapshotInit => SnapshotInv
<1> SUFFICES ASSUME SnapshotInit PROVE SnapshotInv
  OBVIOUS
<1> DEFINE none == <<>>
           fs == [color |-> colorDisk, grey |-> greyDisk]
<1>1. 1 \in Images /\ Nil \in Images /\ Nil = 0
  BY SnapshotAssumption DEF Images, Nil
<1>2. lruCache \in Caches
  BY EmptyIsACache DEF SnapshotInit
<1>3. posted = none /\ replies = none
  BY DEF SnapshotInit
<1>4. none \in Seq(Postings) /\ none \in Seq(Asking \cup PinReads) /\ Len(none) = 0
  BY EmptySeq
<1> HIDE DEF none
<1>5. 0 \in 0 .. MaxEvents
  BY SnapshotAssumption
<1>6. PlainTypes
  BY <1>1, <1>5 DEF PlainTypes, SnapshotInit
<1>7. MarkedAreSaved
  BY DEF MarkedAreSaved, SnapshotInit
<1>8. waiting = Callbacks(posted) + Callbacks(replies)
  <2>1. \A i \in 1..Len(none) : none[i] \notin Asking
    BY <1>4
  <2>2. Callbacks(none) = 0
    BY <1>4, <2>1, CallbackCounts
  <2>3. waiting = 0
    BY DEF SnapshotInit
  <2> QED
    BY <1>3, <2>2, <2>3
<1>9. Settled = fs
  <2>1. fs \in Stores
    BY <1>6 DEF PlainTypes, Stores
  <2> HIDE DEF fs
  <2>2. FilesAfter(fs, none) = fs
    BY <1>4, <2>1, AfterReads
  <2> QED
    BY <1>3, <2>2 DEF Settled, fs
<1>10. FilesAreOf(fs, open, saved, lastTaken, atRisk)
  BY DEF FilesAreOf, SnapshotInit
<1> QED
  BY <1>2, <1>3, <1>4, <1>6, <1>7, <1>8, <1>9, <1>10, SnapshotParts

(* A step that changes nothing.                                            *)
LEMMA SnapshotStutter ==
  ASSUME SnapshotInv, UNCHANGED snapshotVars
  PROVE  SnapshotInv'
<1>1. /\ lruCache' = lruCache /\ posted' = posted /\ replies' = replies
      /\ colorDisk' = colorDisk /\ greyDisk' = greyDisk /\ waiting' = waiting
      /\ open' = open /\ saved' = saved /\ lastTaken' = lastTaken /\ atRisk' = atRisk
  BY DEF snapshotVars, cacheVars
<1>2. Settled' = Settled
  BY <1>1, NothingPosted
<1>3. PlainTypes' /\ MarkedAreSaved'
  BY SnapshotParts DEF PlainTypes, MarkedAreSaved, snapshotVars, cacheVars
<1> QED
  BY <1>1, <1>2, <1>3, SnapshotParts, SnapshotPartsNext

(* The files of the snapshots are, once the posted tasks have run, the     *)
(* last snapshots of the tabs that are open or that undo can bring back,   *)
(* those a purge met closed excepted until their next snapshot, and no     *)
(* closed tab has a file; every callback not yet called is with a task or  *)
(* a reply: for any number of tabs, any capacity of the memory cache and   *)
(* any order of the marks, writes, removals, purges and reads of           *)
(* snapshot_cache.mm.                                                      *)
THEOREM SnapshotsSurvive == SnapshotSpec => []SnapshotInv
<1>1. SnapshotInit => SnapshotInv
  BY SnapshotsAtLaunch
<1>2. SnapshotInv /\ [SnapshotNext]_snapshotVars => SnapshotInv'
  <2> SUFFICES ASSUME SnapshotInv, [SnapshotNext]_snapshotVars PROVE SnapshotInv'
    OBVIOUS
  <2>1. ASSUME NEW id \in Tabs, SetImage(id) PROVE SnapshotInv'
    BY <2>1, SetImageKeeps
  <2>2. ASSUME NEW id \in Tabs, SnapshotFails(id) PROVE SnapshotInv'
    BY <2>2, SnapshotFailsKeeps
  <2>3. ASSUME NEW id \in Tabs, RetrieveColorSnapshot(id) PROVE SnapshotInv'
    BY <2>3, RetrieveColorSnapshotKeeps
  <2>4. ASSUME NEW id \in Tabs, RetrieveGreySnapshot(id) PROVE SnapshotInv'
    BY <2>4, RetrieveGreySnapshotKeeps
  <2>5. ASSUME NEW id \in Tabs, CloseTab(id) PROVE SnapshotInv'
    BY <2>5, CloseTabKeeps
  <2>6. ASSUME NEW id \in Tabs, WillResignActive(id) PROVE SnapshotInv'
    BY <2>6, WillResignActiveKeeps
  <2>7. ASSUME NEW id \in Tabs, HandleEnterBackground(id) PROVE SnapshotInv'
    BY <2>7, HandleEnterBackgroundKeeps
  <2>8. ASSUME NEW ids \in SUBSET open, PinNeighbours(ids) PROVE SnapshotInv'
    BY <2>8, PinNeighboursKeeps
  <2>9. CASE SaveAndCloseAllItems
    BY <2>9, SaveAndCloseAllItemsKeeps
  <2>10. CASE UndoCloseAllItems
    BY <2>10, UndoCloseAllItemsKeeps
  <2>11. CASE DiscardSavedClosedItems
    BY <2>11, DiscardSavedClosedItemsKeeps
  <2>12. CASE PurgeSnapshots
    BY <2>12, PurgeSnapshotsKeeps
  <2>13. CASE HandleLowMemory
    BY <2>13, HandleLowMemoryKeeps
  <2>14. CASE HandleBecomeActive
    BY <2>14, HandleBecomeActiveKeeps
  <2>15. CASE RunFileTask
    BY <2>15, RunFileTaskKeeps
  <2>16. CASE RunColorReply
    BY <2>16, RunColorReplyKeeps
  <2>17. CASE RunGreyReply
    BY <2>17, RunGreyReplyKeeps
  <2>18. CASE RunEmptyReply
    BY <2>18, RunEmptyReplyKeeps
  <2>19. CASE UNCHANGED snapshotVars
    BY <2>19, SnapshotStutter
  <2> QED
    BY <2>1, <2>2, <2>3, <2>4, <2>5, <2>6, <2>7, <2>8, <2>9, <2>10, <2>11, <2>12,
       <2>13, <2>14, <2>15, <2>16, <2>17, <2>18, <2>19 DEF SnapshotNext, RunReply
<1> QED
  BY <1>1, <1>2, PTL DEF SnapshotSpec

=============================================================================
