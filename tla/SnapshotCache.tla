---------------------------- MODULE SnapshotCache ----------------------------
(***************************************************************************)
(* SnapshotCache (chrome/browser/snapshots/snapshot_cache.mm): the images  *)
(* of the tabs, kept in a small LRU cache on the UI thread and in files    *)
(* that a sequenced background task runner reads and writes, and the tab   *)
(* operations that drive it: taking a snapshot, closing a tab, closing all *)
(* tabs with undo (tab_grid_mediator.mm), the purge of old files after     *)
(* launch (main_controller.mm), and the application's memory, background   *)
(* and foreground notifications.                                           *)
(*                                                                         *)
(* The image of a page is a number: the n-th snapshot taken is image n,    *)
(* and 0 is nil.  The grey copy of image n is n in greyDisk.  The          *)
(* dictionary of grey images of a tablet side swipe is left out.           *)
(***************************************************************************)
EXTENDS Naturals, Sequences, FiniteSets, SequencesExt

CONSTANTS
  Tabs,            \* the session ids of the tabs of the previous session
  Capacity,        \* kLRUCacheMaxCapacity
  MaxImage,        \* bound: images 2 .. MaxImage are taken in this session
  MaxPending,      \* bound: posted background tasks and their replies
  MaxEvents        \* bound: retrievals, undone close-alls, times the
                   \* application leaves the foreground, changes of the
                   \* pinned ids and purges, together

(* There are finitely many tabs, and the cache can hold an image.          *)
ASSUME SnapshotAssumption ==
  /\ IsFiniteSet(Tabs)
  /\ Capacity \in Nat \ {0}
  /\ MaxImage \in Nat \ {0} /\ MaxEvents \in Nat

VARIABLES
  lruCache,        \* lruCache_: <<id, image>> pairs, most recently used first
  colorDisk, greyDisk, \* the image file of every id, 0 when there is none
  posted,          \* what is posted to taskRunner_
  replies,         \* the replies the task runner posted back to the UI thread
  markedIDs, pinnedIDs,
  backgrounding,   \* <<backgroundingImageSessionId_, backgroundingColorImage_>>
  app,             \* the application: active, resigned (inactive) or background
  open,            \* the ids of the tabs of the WebStateList
  saved,           \* the ids in the mediator's closedSessionWindow
  lastImage,       \* the number of the last image taken
  waiting,         \* callbacks of retrievals not yet called
  undos,           \* undone close-alls
  events,
  lastTaken,       \* ghost: the last snapshot of every id, 0 when it failed
  atRisk           \* ghost: ids that a purge found closed with undo pending
                   \* and of which no snapshot was taken since

cacheVars == <<lruCache, colorDisk, greyDisk, posted, replies, markedIDs, pinnedIDs,
               backgrounding>>
snapshotVars == <<cacheVars, open, saved, lastImage, waiting, undos, events,
                  app, lastTaken, atRisk>>

Nil == 0
Images == 0 .. MaxImage
NoTab == "none"
-----------------------------------------------------------------------------
(* LRUCache (lru_cache.mm) over base::MRUCache.                            *)

Keys(cache) == {cache[i][1] : i \in DOMAIN cache}
Peek(cache, id) ==
  IF id \in Keys(cache) THEN (CHOOSE e \in Range(cache) : e[1] = id)[2] ELSE Nil
(* removeObjectForKey for a set of ids: the other entries stay in order.   *)
WithoutObjects(cache, ids) ==
  LET kept[n \in 0 .. Len(cache)] ==
        IF n = 0 THEN <<>>
        ELSE IF cache[n][1] \in ids THEN kept[n - 1] ELSE Append(kept[n - 1], cache[n])
  IN  kept[Len(cache)]
RemoveObject(cache, id) == WithoutObjects(cache, {id})
Evict(cache) == SubSeq(cache, 1, IF Len(cache) > Capacity THEN Capacity ELSE Len(cache))
SetObject(cache, id, image) == Evict(<< <<id, image>> >> \o RemoveObject(cache, id))
(* objectForKey: a found entry becomes the most recently used one.         *)
Touch(cache, id) ==
  IF id \in Keys(cache) THEN << <<id, Peek(cache, id)>> >> \o RemoveObject(cache, id)
  ELSE cache

(* objectForKey for the ids of a list, one after the other.                *)
TouchAll(cache, ids) ==
  LET touched[n \in 0 .. Len(ids)] ==
        IF n = 0 THEN cache ELSE Touch(touched[n - 1], ids[n])
  IN  touched[Len(ids)]

(* An empty cache in which the images that the ids have in cache are set.  *)
SetAgain(cache, ids) ==
  LET set[n \in 0 .. Len(ids)] ==
        IF n = 0 THEN <<>> ELSE SetObject(set[n - 1], ids[n], Peek(cache, ids[n]))
  IN  set[Len(ids)]
-----------------------------------------------------------------------------
(* The background tasks: what each does to the files.                      *)

(* "for" says who is called back, "gen" in which life of its tab it asked. *)
FileTask(kind, id, image, for) ==
  [kind |-> kind, id |-> id, image |-> image, for |-> for,
   gen |-> IF for = "grey" THEN undos ELSE 0]
PurgeTask(keep, aged) == [kind |-> "purge", keep |-> keep, aged |-> aged]

(* removeImageWithSessionID's task deletes the files of both kImageTypes.  *)
DeletedTypes == {"color", "grey"}

DiskAfter(files, t) ==
  CASE t.kind = "write" -> [files EXCEPT ![t.id] = t.image]
    [] t.kind = "delete" /\ "color" \in DeletedTypes -> [files EXCEPT ![t.id] = Nil]
    [] t.kind = "purge" ->
         [id \in Tabs |-> IF id \notin t.keep /\ <<"color", id, files[id]>> \in t.aged
                            THEN Nil ELSE files[id]]
    [] OTHER -> files

(* ConvertAndSaveGreyImage falls back on the colour file; without a colour *)
(* image it writes nothing.                                                *)
GreyAfter(files, color, t) ==
  CASE t.kind = "saveGrey" ->
         LET image == IF t.image # Nil THEN t.image ELSE color[t.id]
         IN  IF image = Nil THEN files ELSE [files EXCEPT ![t.id] = image]
    [] t.kind = "delete" /\ "grey" \in DeletedTypes -> [files EXCEPT ![t.id] = Nil]
    [] t.kind = "purge" ->
         [id \in Tabs |-> IF id \notin t.keep /\ <<"grey", id, files[id]>> \in t.aged
                            THEN Nil ELSE files[id]]
    [] OTHER -> files

(* The files after some tasks ...                                          *)
FilesStep(fs, t) ==
  [color |-> DiskAfter(fs.color, t), grey |-> GreyAfter(fs.grey, fs.color, t)]
FilesAfter(fs, ts) ==
  LET after[n \in 0 .. Len(ts)] ==
        IF n = 0 THEN fs ELSE FilesStep(after[n - 1], ts[n])
  IN  after[Len(ts)]

(* ... and once every posted task has run.                                 *)
Settled == FilesAfter([color |-> colorDisk, grey |-> greyDisk], posted)

Post(ts) == posted' = posted \o ts
MayPost(n) == Len(posted) + Len(replies) + n <= MaxPending
-----------------------------------------------------------------------------
(* Reads with somebody to call back, reads for the memory only, and the    *)
(* tasks without a reply.                                                   *)
Asking == [kind : {"read", "readGrey"}, id : Tabs, image : Images,
           for : {"color", "grey"}, gen : Nat]
PinReads == [kind : {"read"}, id : Tabs, image : Images, for : {"pin"}, gen : Nat]
Changes == [kind : {"write", "delete", "saveGrey"}, id : Tabs, image : Images,
            for : {""}, gen : Nat]
Purges == [kind : {"purge"}, keep : SUBSET Tabs,
           aged : SUBSET ({"color", "grey"} \X Tabs \X Images)]

SnapshotTypeOK ==
  /\ lruCache \in Seq(Tabs \X Images) /\ Len(lruCache) <= Capacity
  /\ \A i, j \in 1 .. Len(lruCache) : lruCache[i][1] = lruCache[j][1] => i = j
  /\ posted \in Seq(Asking \cup PinReads \cup Changes \cup Purges)
  /\ replies \in Seq(Asking \cup PinReads)
  /\ colorDisk \in [Tabs -> Images] /\ greyDisk \in [Tabs -> Images]
  /\ markedIDs \subseteq Tabs /\ pinnedIDs \subseteq Tabs
  /\ backgrounding \in (Tabs \cup {NoTab}) \X Images
  /\ open \subseteq Tabs /\ saved \subseteq Tabs
  /\ lastImage \in Images /\ lastTaken \in [Tabs -> Images]
  /\ waiting \in Nat /\ undos \in Nat /\ events \in 0 .. MaxEvents
  /\ waiting + undos <= events
  /\ app \in {"active", "resigned", "background"}

(* The previous session left a colour image (image 1) of every tab; a      *)
(* snapshot that fails deletes it.                                         *)
SnapshotInit ==
  /\ lruCache = <<>> /\ posted = <<>> /\ replies = <<>>
  /\ colorDisk = [id \in Tabs |-> 1] /\ greyDisk = [id \in Tabs |-> Nil]
  /\ markedIDs = {} /\ pinnedIDs = {} /\ backgrounding = <<NoTab, Nil>>
  /\ open = Tabs /\ saved = {}
  /\ lastImage = 1 /\ waiting = 0 /\ undos = 0 /\ events = 0
  /\ app = "active"
  /\ lastTaken = colorDisk /\ atRisk = {}
-----------------------------------------------------------------------------
Event == events < MaxEvents /\ events' = events + 1

(* Mutant: marked images are removed as well.                             *)
MayRemove_any(ids, marks) == ids

(* removeImageWithSessionID for a set of ids: the unmarked ones lose their *)
(* image in memory, and a task is posted to delete their files.            *)
MayRemove(ids, marks) == ids \ marks

DeleteTasks(ids) == [i \in 1 .. Len(ids) |-> FileTask("delete", ids[i], Nil, "")]

RemoveImages(ids, marks) ==
  LET gone == MayRemove(ids, marks)
  IN  /\ MayPost(Cardinality(gone))
      /\ lruCache' = WithoutObjects(lruCache, gone)
      /\ \E order \in SetToSeqs(gone) : Post(DeleteTasks(order))

(* -updateSnapshotCacheWithImage: with the image taken, through setImage.  *)
SetImage(id) ==
  /\ id \in open /\ lastImage < MaxImage /\ MayPost(1)
  /\ lastImage' = lastImage + 1
  /\ lruCache' = SetObject(lruCache, id, lastImage')
  /\ Post(<<FileTask("write", id, lastImage', "")>>)
  /\ lastTaken' = [lastTaken EXCEPT ![id] = lastImage']
  /\ atRisk' = atRisk \ {id}
  /\ UNCHANGED <<app, colorDisk, greyDisk, replies, markedIDs, pinnedIDs,
                 backgrounding, open, saved, waiting, undos, events>>

(* ... or, when the snapshot failed, by removing the stale one.            *)
SnapshotFails(id) ==
  /\ id \in open /\ lastTaken[id] # Nil
  /\ RemoveImages({id}, markedIDs)
  /\ lastTaken' = [lastTaken EXCEPT ![id] = Nil]
  /\ atRisk' = atRisk \ {id}
  /\ UNCHANGED <<app, colorDisk, greyDisk, replies, markedIDs, pinnedIDs,
                 backgrounding, open, saved, lastImage, waiting, undos, events>>

(* retrieveImageForSessionID: the image in memory, or a read of the file.  *)
RetrieveImage(id, for) ==
  IF Peek(lruCache, id) # Nil
  THEN /\ lruCache' = Touch(lruCache, id)
       /\ waiting' = waiting        \* called back synchronously
       /\ UNCHANGED posted
  ELSE /\ MayPost(1)
       /\ lruCache' = Touch(lruCache, id)
       /\ waiting' = IF for = "pin" THEN waiting ELSE waiting + 1
       /\ Post(<<FileTask("read", id, Nil, for)>>)

(* -retrieveSnapshot of the SnapshotGenerator of an open tab.              *)
RetrieveColorSnapshot(id) ==
  /\ id \in open /\ Event
  /\ RetrieveImage(id, "color")
  /\ UNCHANGED <<app, colorDisk, greyDisk, replies, markedIDs, pinnedIDs,
                 backgrounding, open, saved, lastImage, undos, lastTaken, atRisk>>

(* -retrieveGreySnapshot: the grey file first, see RunReply for the rest.  *)
RetrieveGreySnapshot(id) ==
  /\ id \in open /\ Event /\ MayPost(1)
  /\ waiting' = waiting + 1
  /\ Post(<<FileTask("readGrey", id, Nil, "grey")>>)
  /\ UNCHANGED <<app, lruCache, colorDisk, greyDisk, replies, markedIDs, pinnedIDs,
                 backgrounding, open, saved, lastImage, undos, lastTaken, atRisk>>
-----------------------------------------------------------------------------
(* Closing tabs.                                                           *)

(* A tab the user closes: willCloseWebState removes its snapshot.          *)
CloseTab(id) ==
  /\ id \in open
  /\ open' = open \ {id}
  /\ RemoveImages({id}, markedIDs)
  /\ UNCHANGED <<app, colorDisk, greyDisk, replies, markedIDs, pinnedIDs,
                 backgrounding, saved, lastImage, waiting, undos, events,
                 lastTaken, atRisk>>

(* -saveAndCloseAllItems, offered while no undo is pending: marks every    *)
(* image before the tabs are closed.                                       *)
SaveAndCloseAllItems ==
  /\ open # {} /\ saved = {}
  /\ markedIDs' = markedIDs \cup open
  /\ saved' = open /\ open' = {}
  /\ RemoveImages(open, markedIDs')
  /\ UNCHANGED <<app, colorDisk, greyDisk, replies, pinnedIDs, backgrounding,
                 lastImage, waiting, undos, events, lastTaken, atRisk>>

(* -undoCloseAllItems restores the tabs and unmarks every image.           *)
UnmarkAllImages == {}

UndoCloseAllItems ==
  /\ saved # {} /\ Event
  /\ undos' = undos + 1
  /\ open' = open \cup saved /\ saved' = {}
  /\ markedIDs' = UnmarkAllImages
  /\ UNCHANGED <<app, lruCache, colorDisk, greyDisk, posted, replies, pinnedIDs,
                 backgrounding, lastImage, waiting, lastTaken, atRisk>>

(* -discardSavedClosedItems when the tab grid disappears:                  *)
(* removeMarkedImages unmarks each image and then removes it.              *)
DiscardSavedClosedItems ==
  /\ saved # {}
  /\ saved' = {}
  /\ markedIDs' = {}
  /\ RemoveImages(markedIDs, markedIDs')
  /\ UNCHANGED <<app, colorDisk, greyDisk, replies, pinnedIDs, backgrounding, open,
                 lastImage, waiting, undos, events, lastTaken, atRisk>>

(* -purgeSnapshots, deferred after launch: the files of ids that are not   *)
(* open are deleted when they were last modified over a minute before.     *)
(* The files of that age are some of those that exist now.                 *)
Files == {<<"color", id, colorDisk[id]>> : id \in {i \in Tabs : colorDisk[i] # Nil}}
         \cup {<<"grey", id, greyDisk[id]>> : id \in {i \in Tabs : greyDisk[i] # Nil}}
LiveSessions == open

PurgeSnapshots ==
  /\ Event /\ MayPost(1)
  /\ \E aged \in SUBSET {f \in Files : f[2] \notin LiveSessions} : Post(<<PurgeTask(LiveSessions, aged)>>)
  /\ atRisk' = atRisk \cup saved
  /\ UNCHANGED <<app, lruCache, colorDisk, greyDisk, replies, markedIDs, pinnedIDs,
                 backgrounding, open, saved, lastImage, waiting, undos, lastTaken>>
-----------------------------------------------------------------------------
(* The application's notifications.                                        *)

(* The user activates a tab: its neighbours are pinned.                    *)
PinNeighbours(ids) ==
  /\ open # {} /\ Event /\ Cardinality(ids) < Cardinality(open)
  /\ ids # pinnedIDs /\ pinnedIDs' = ids
  /\ UNCHANGED <<app, lruCache, colorDisk, greyDisk, posted, replies, markedIDs,
                 backgrounding, open, saved, lastImage, waiting, undos,
                 lastTaken, atRisk>>

(* handleLowMemory keeps the pinned images; a pinned id without an image   *)
(* gets an entry that holds nil.                                           *)
HandleLowMemory ==
  /\ \E order \in SetToSeqs(pinnedIDs) : lruCache' = SetAgain(lruCache, order)
  /\ UNCHANGED <<app, colorDisk, greyDisk, posted, replies, markedIDs, pinnedIDs,
                 backgrounding, open, saved, lastImage, waiting, undos,
                 events, lastTaken, atRisk>>

(* willResignActive for the current tab: willBeSavedGreyWhenBackgrounding. *)
WillResignActive(id) ==
  /\ app = "active" /\ id \in open /\ Event
  /\ app' = "resigned"
  /\ backgrounding' = <<id, Peek(lruCache, id)>>
  /\ lruCache' = Touch(lruCache, id)
  /\ UNCHANGED <<colorDisk, greyDisk, posted, replies, markedIDs, pinnedIDs, open,
                 saved, lastImage, waiting, undos, lastTaken, atRisk>>

(* UIApplicationDidEnterBackgroundNotification: the cache empties its      *)
(* memory (handleEnterBackground) and the tab model has the grey copy of   *)
(* the current tab written (saveGreyInBackgroundForSessionID).             *)
BackgroundingFor(id) ==
  IF backgrounding[2] # Nil /\ backgrounding[1] # id THEN <<NoTab, Nil>> ELSE backgrounding

HandleEnterBackground(id) ==
  /\ app = "resigned" /\ id \in open /\ MayPost(1)
  /\ app' = "background"
  /\ lruCache' = <<>>
  /\ backgrounding' = BackgroundingFor(id)
  /\ Post(<<FileTask("saveGrey", id, backgrounding'[2], "")>>)
  /\ UNCHANGED <<colorDisk, greyDisk, replies, markedIDs, pinnedIDs, open, saved,
                 lastImage, waiting, undos, events, lastTaken, atRisk>>

(* handleBecomeActive reads back the pinned images.                        *)
ReadTasks(ids, absent) ==
  LET reads[n \in 0 .. Len(ids)] ==
        IF n = 0 THEN <<>>
        ELSE IF ids[n] \in absent THEN Append(reads[n - 1], FileTask("read", ids[n], Nil, "pin"))
        ELSE reads[n - 1]
  IN  reads[Len(ids)]

HandleBecomeActive ==
  /\ app # "active" /\ app' = "active"
  /\ \E order \in SetToSeqs(pinnedIDs) :
       LET reads == ReadTasks(order, {id \in pinnedIDs : Peek(lruCache, id) = Nil})
       IN  /\ MayPost(Len(reads))
           /\ lruCache' = TouchAll(lruCache, order)
           /\ Post(reads)
  /\ UNCHANGED <<colorDisk, greyDisk, replies, markedIDs, pinnedIDs,
                 backgrounding, open, saved, lastImage, waiting, undos,
                 events, lastTaken, atRisk>>
-----------------------------------------------------------------------------
(* The background sequence runs its oldest task; a read posts a reply.     *)
Reply(t, image) ==
  [id |-> t.id, image |-> image, kind |-> t.kind, for |-> t.for, gen |-> t.gen]

RunFileTask ==
  /\ posted # <<>>
  /\ LET t == Head(posted)
     IN  /\ posted' = Tail(posted)
         /\ colorDisk' = DiskAfter(colorDisk, t)
         /\ greyDisk' = GreyAfter(greyDisk, colorDisk, t)
         /\ replies' = CASE t.kind = "read" -> Append(replies, Reply(t, colorDisk[t.id]))
                         [] t.kind = "readGrey" -> Append(replies, Reply(t, greyDisk[t.id]))
                         [] OTHER -> replies
  /\ UNCHANGED <<app, lruCache, markedIDs, pinnedIDs, backgrounding, open,
                 saved, lastImage, waiting, undos, events, lastTaken, atRisk>>

(* The reply of a colour read puts the image in memory; the callback runs. *)
RunColorReply ==
  /\ replies # <<>> /\ Head(replies).kind = "read"
  /\ Head(replies).for = "grey" => Head(replies).image # Nil
  /\ LET r == Head(replies)
     IN  /\ lruCache' = IF r.image # Nil THEN SetObject(lruCache, r.id, r.image) ELSE lruCache
         /\ waiting' = IF r.for = "pin" THEN waiting ELSE waiting - 1
  /\ replies' = Tail(replies)
  /\ UNCHANGED <<app, colorDisk, greyDisk, posted, markedIDs, pinnedIDs,
                 backgrounding, open, saved, lastImage, undos, events,
                 lastTaken, atRisk>>

(* When there is neither a grey nor a colour image, the callback takes a   *)
(* new snapshot if the tab's generator is still alive: the tab was not     *)
(* closed since, not even to be restored by an undo.                       *)
GeneratorAlive(r) == r.id \in open /\ r.gen = undos

RunEmptyReply ==
  /\ replies # <<>> /\ Head(replies).kind = "read"
  /\ Head(replies).for = "grey" /\ Head(replies).image = Nil
  /\ waiting' = waiting - 1
  /\ replies' = Tail(replies)
  /\ LET r == Head(replies)
     IN  \/ /\ GeneratorAlive(r) /\ lastImage < MaxImage
            /\ lastImage' = lastImage + 1
            /\ lruCache' = SetObject(lruCache, r.id, lastImage')
            /\ Post(<<FileTask("write", r.id, lastImage', "")>>)
            /\ lastTaken' = [lastTaken EXCEPT ![r.id] = lastImage']
            /\ atRisk' = atRisk \ {r.id}
         \/ /\ GeneratorAlive(r)
            /\ lruCache' = WithoutObjects(lruCache, {r.id})
            /\ Post(DeleteTasks(<<r.id>>))
            /\ lastTaken' = [lastTaken EXCEPT ![r.id] = Nil]
            /\ atRisk' = atRisk \ {r.id}
            /\ UNCHANGED lastImage
         \/ /\ ~GeneratorAlive(r)
            /\ UNCHANGED <<lastImage, lruCache, posted, lastTaken, atRisk>>
  /\ UNCHANGED <<app, colorDisk, greyDisk, markedIDs, pinnedIDs, backgrounding,
                 open, saved, undos, events>>

(* Mutant: gives up without a grey file.                                  *)
FallsBack_drop(r) == FALSE

(* The reply of a grey read: without a file, the colour image is retrieved *)
(* and converted.                                                          *)
FallsBack(r) == r.image = Nil

RunGreyReply ==
  /\ replies # <<>> /\ Head(replies).kind = "readGrey"
  /\ LET r == Head(replies)
         image == Peek(lruCache, r.id)
     IN  IF FallsBack(r)
         THEN /\ lruCache' = Touch(lruCache, r.id)
              /\ IF image # Nil
                 THEN waiting' = waiting - 1 /\ UNCHANGED posted
                 ELSE waiting' = waiting /\ Post(<<[FileTask("read", r.id, Nil, "grey") EXCEPT !.gen = r.gen]>>)
         ELSE /\ waiting' = IF r.image # Nil THEN waiting - 1 ELSE waiting
              /\ UNCHANGED <<lruCache, posted>>
  /\ replies' = Tail(replies)
  /\ UNCHANGED <<app, colorDisk, greyDisk, markedIDs, pinnedIDs, backgrounding,
                 open, saved, lastImage, undos, events, lastTaken, atRisk>>
RunReply == RunColorReply \/ RunGreyReply \/ RunEmptyReply
-----------------------------------------------------------------------------
SnapshotNext ==
  \/ \E id \in Tabs : \/ SetImage(id) \/ SnapshotFails(id)
                      \/ RetrieveColorSnapshot(id) \/ RetrieveGreySnapshot(id)
                      \/ CloseTab(id) \/ WillResignActive(id) \/ HandleEnterBackground(id)
  \/ \E ids \in SUBSET open : PinNeighbours(ids)
  \/ SaveAndCloseAllItems \/ UndoCloseAllItems \/ DiscardSavedClosedItems
  \/ PurgeSnapshots \/ HandleLowMemory \/ HandleBecomeActive
  \/ RunFileTask \/ RunReply

SnapshotSpec == SnapshotInit /\ [][SnapshotNext]_snapshotVars

(* The task runner and the run loop of the UI thread keep running.         *)
SnapshotFairSpec == SnapshotSpec /\ WF_snapshotVars(RunFileTask) /\ WF_snapshotVars(RunReply)
-----------------------------------------------------------------------------
(* The file of an open tab, and of a tab that undo can bring back, holds   *)
(* the last snapshot of the tab once the posted tasks have run: no removal *)
(* of a marked image, late write, or purge gets between.  A purge deletes  *)
(* the files of tabs it finds closed although an undo is pending: those    *)
(* tabs are excepted until their next snapshot.                            *)
OpenTabsKeepSnapshots ==
  \A id \in (open \cup saved) \ atRisk : Settled.color[id] = lastTaken[id]

(* A tab that is closed for good leaves no colour or grey file behind,     *)
(* whatever order it was marked, undone, closed and written in.            *)
ClosedTabsLeaveNothing ==
  \A id \in Tabs \ (open \cup saved) : Settled.color[id] = Nil /\ Settled.grey[id] = Nil

(* The images that are marked are those an undo can bring back, and there   *)
(* are none while tabs are open.                                            *)
MarkedAreSaved == markedIDs = saved /\ (open = {} \/ saved = {})

(* A callback that has not been called is with a task or with a reply.      *)
CallbacksAreOnTheirWay ==
  waiting = Cardinality({i \in 1 .. Len(posted) : posted[i] \in Asking})
            + Cardinality({i \in 1 .. Len(replies) : replies[i] \in Asking})

(* Once the posted tasks have run, the files are the last snapshots of the  *)
(* tabs that are open or can come back, and nothing else; and every callback *)
(* given to a retrieve method is still to be called or has been.            *)
SnapshotInv ==
  /\ SnapshotTypeOK
  /\ MarkedAreSaved
  /\ OpenTabsKeepSnapshots
  /\ ClosedTabsLeaveNothing
  /\ CallbacksAreOnTheirWay

(* Every callback given to a retrieve method is called.                    *)
CallbacksAnswered == []<>(waiting = 0)

=============================================================================
