--------------------------- MODULE CookieStoreIOS ---------------------------
(***************************************************************************)
(* net/cookies: CookieStoreIOS keeps the system cookie store, the           *)
(* CookieMonster behind it and the cache of observed cookies in step.       *)
(*                                                                         *)
(* kind says which store it is.  "NSHTTP" and "WKHTTP" are the synchronized *)
(* store over NSHTTPSystemCookieStore, which reads at once and posts the    *)
(* reply, and over WKHTTPSystemCookieStore, whose reads, too, happen later, *)
(* on the UI thread and in WebKit.  "Persistent" is                         *)
(* CookieStoreIOSPersistent, which writes to the CookieMonster.             *)
(*                                                                         *)
(* A key (url, name) is the set of the cookies that a request for the url   *)
(* sends under the name; a jar gives each cookie its value.                 *)
(***************************************************************************)
EXTENDS Naturals, Sequences, FiniteSets, SequencesExt

CONSTANTS
  Ids,         \* identities of cookies: domain, path and name
  Values,
  Keys,        \* observed keys, each a set of Ids
  MaxChanges,  \* bound: calls that change a cookie
  MaxFlushes   \* bound: calls of FlushStore when the application goes to
               \* the background

None == "none"

ASSUME CookieAssumption ==
  /\ Keys \subseteq SUBSET Ids /\ IsFiniteSet(Keys)
  /\ None \notin Values
  /\ MaxChanges \in Nat /\ MaxFlushes \in Nat

VARIABLES
  kind,           \* the classes that were instantiated
  store,          \* the system store
  notifications,  \* cookiesChanged notifications of the system on their way
  io,             \* the tasks of the IO thread
  wk,             \* requests to WKHTTPCookieStore, in order
  completions,    \* their completion handlers, in order
  monster,        \* cookie_monster_
  monsterTasks,   \* what cookie_monster_ was asked to do, in order
  hook_map,
  cache,          \* cookie_cache_
  flush_closure,  \* whether flush_closure_ is set, that is not cancelled
  timer,          \* whether its delayed task is still to run
  changes, flushes,
  seen,           \* ghost: what a subscriber knows of its key: the cookies
                  \* when it subscribed and the callbacks since
  refreshed,      \* ghost: the keys that were updated since the first fill
  announced       \* ghost: whether the system store ever changed

systemVars == <<store, notifications, announced>>
wkVars == <<wk, completions>>
monsterVars == <<monster, monsterTasks>>
cacheVars == <<hook_map, cache, seen, refreshed>>
flushVars == <<flush_closure, timer>>
cookieStoreVars == <<systemVars, io, wkVars, monsterVars, cacheVars, flushVars, changes, flushes>>

Jar == [Ids -> Values \cup {None}]
Read(what, k, run) == [op |-> what, key |-> k, run_callbacks |-> run]
Write(i, v) == [op |-> "set", id |-> i, value |-> v]
Delete(i, v) == [op |-> "delete", id |-> i, value |-> v]
Notify == [task |-> [op |-> "notify"]]
Reply(task, cookies) == [task |-> task, cookies |-> cookies]

ReadTasks == {Read(what, k, run) : what \in {"cache", "flush"},
                               k \in Keys \cup {Ids}, run \in BOOLEAN}
WriteTasks == {Write(i, v) : i \in Ids, v \in Values \cup {None}}
DeleteTasks == {Delete(i, v) : i \in Ids, v \in Values}

Answers == [task : ReadTasks \cup DeleteTasks, cookies : Jar]
Requests == ReadTasks \cup WriteTasks \cup DeleteTasks

CookieTypeOK ==
  /\ kind \in {"NSHTTP", "WKHTTP", "Persistent"}
  /\ store \in Jar /\ monster \in Jar
  /\ notifications \in Nat /\ announced \in BOOLEAN
  /\ io \in Seq(Answers \cup {Notify}) /\ completions \in Seq(Answers)
  /\ wk \in Seq(Requests) /\ monsterTasks \in Seq(Requests)
  /\ hook_map \subseteq Keys /\ refreshed \subseteq hook_map
  /\ DOMAIN cache = Keys /\ DOMAIN seen = Keys
  /\ \A k \in Keys : cache[k] \in [k -> Values \cup {None}]
                     /\ seen[k] \in [k -> Values \cup {None}]
  /\ flush_closure \in BOOLEAN /\ timer \in BOOLEAN /\ (timer => flush_closure)
  /\ changes \in 0..MaxChanges /\ flushes \in 0..MaxFlushes

(* The cookies of a jar that a key selects, OnlyCookiesWithName and         *)
(* GetCookiesForURLAsync.                                                   *)
Of(k, jar) == [i \in k |-> jar[i]]

Empty(S) == [i \in S |-> None]

CookieInit ==
  /\ kind \in {"NSHTTP", "WKHTTP", "Persistent"}
  /\ store \in Jar /\ notifications = 0 /\ announced = FALSE
  /\ io = <<>> /\ wk = <<>> /\ completions = <<>>
  /\ monster \in IF kind = "Persistent" THEN Jar ELSE {Empty(Ids)}
  /\ monsterTasks = <<>>
  /\ hook_map = {} /\ refreshed = {}
  /\ cache = [k \in Keys |-> Empty(k)] /\ seen = cache
  /\ flush_closure = FALSE /\ timer = FALSE
  /\ changes = 0 /\ flushes = 0

-----------------------------------------------------------------------------
(* SystemCookieStore.                                                       *)

(* GetCookiesForURLAsync and GetAllCookiesAsync, for each task in turn.     *)
AskSystem(tasks) ==
  IF kind = "WKHTTP"
  THEN wk' = wk \o tasks /\ io' = Tail(io)
  ELSE io' = Tail(io) \o [n \in DOMAIN tasks |-> Reply(tasks[n], store)] /\ UNCHANGED wk

(* The same, when no task of the IO thread is consumed.                     *)
AskSystemNow(task) ==
  IF kind = "WKHTTP"
  THEN wk' = Append(wk, task) /\ UNCHANGED io
  ELSE io' = Append(io, Reply(task, store)) /\ UNCHANGED wk

(* A change of the system store, which announces it.                        *)
ChangeStore(jar) ==
  /\ store' = jar
  /\ notifications' = notifications + 1
  /\ announced' = TRUE

(* What the deletion of a cookie leaves: its identity decides.              *)
Without(jar, i) == [jar EXCEPT ![i] = None]

(* Another thread or process changes a cookie of the system store.          *)
SystemChange(i, v) ==
  /\ changes < MaxChanges /\ v # store[i]
  /\ changes' = changes + 1
  /\ ChangeStore([store EXCEPT ![i] = v])
  /\ UNCHANGED <<io, wkVars, monsterVars, cacheVars, flushVars, flushes>>

(* CookieNotificationBridge::OnNotificationReceived.                        *)
OnNotificationReceived ==
  /\ notifications > 0
  /\ notifications' = notifications - 1
  /\ io' = Append(io, Notify)
  /\ UNCHANGED <<store, announced, wkVars, monsterVars, cacheVars, flushVars, changes, flushes>>

(* WebKit does the next thing it was asked.                                 *)
WebKitServes ==
  /\ wk # <<>>
  /\ LET task == Head(wk) IN
     IF task.op = "set"
     THEN /\ ChangeStore([store EXCEPT ![task.id] = task.value])
          /\ UNCHANGED completions
     ELSE /\ completions' = Append(completions, Reply(task, store))
          /\ UNCHANGED systemVars
  /\ wk' = Tail(wk)
  /\ UNCHANGED <<io, monsterVars, cacheVars, flushVars, changes, flushes>>

(* RunSystemCookieCallbackForCookies, on the UI thread.                     *)
CompletionHandler ==
  /\ completions # <<>>
  /\ completions' = Tail(completions)
  /\ io' = Append(io, Head(completions))
  /\ UNCHANGED <<systemVars, wk, monsterVars, cacheVars, flushVars, changes, flushes>>

-----------------------------------------------------------------------------
(* Calls of the cookie store, on the IO thread.                             *)

Mutation == changes < MaxChanges /\ changes' = changes + 1

(* SetCookieWithOptionsAsync and SetCanonicalCookieAsync, of a cookie that  *)
(* is well formed and that the url may set.                                 *)
SetCookie(i, v) ==
  /\ Mutation
  /\ CASE kind = "NSHTTP" -> ChangeStore([store EXCEPT ![i] = v])
                             /\ UNCHANGED <<wk, monsterTasks>>
       [] kind = "WKHTTP" -> wk' = Append(wk, Write(i, v))
                             /\ UNCHANGED <<systemVars, monsterTasks>>
       [] kind = "Persistent" -> monsterTasks' = Append(monsterTasks, Write(i, v))
                                 /\ UNCHANGED <<systemVars, wk>>
  /\ UNCHANGED <<io, completions, monster, cacheVars, flushVars, flushes>>

(* DeleteCanonicalCookieAsync: the cookie, if it still has the value.       *)
DeleteCanonicalCookieAsync(i, v) ==
  /\ Mutation
  /\ IF kind = "Persistent"
     THEN monsterTasks' = Append(monsterTasks, Delete(i, v)) /\ UNCHANGED <<io, wk>>
     ELSE AskSystemNow(Delete(i, v)) /\ UNCHANGED monsterTasks
  /\ UNCHANGED <<systemVars, completions, monster, cacheVars, flushVars, flushes>>

(* FlushStore, called when the application goes to the background.          *)
FlushStore ==
  /\ flushes < MaxFlushes
  /\ flushes' = flushes + 1
  /\ AskSystemNow(Read("flush", Ids, FALSE))
  /\ UNCHANGED <<systemVars, completions, monsterVars, cacheVars, flushVars, changes>>

(* The delayed task of flush_closure_.                                      *)
FlushTimer ==
  /\ timer
  /\ timer' = FALSE
  /\ AskSystemNow(Read("flush", Ids, FALSE))
  /\ UNCHANGED <<systemVars, completions, monsterVars, cacheVars, flush_closure,
                 changes, flushes>>

(* The store that the cache is to track.                                    *)
Tracked == IF kind = "Persistent" THEN monster ELSE store

AddCallbackForCookie(k) ==
  /\ k \notin hook_map
  /\ hook_map' = hook_map \cup {k}
  /\ AskSystemNow(Read("cache", k, FALSE))
  /\ seen' = [seen EXCEPT ![k] = Of(k, Tracked)]
  /\ UNCHANGED <<systemVars, completions, monsterVars, cache, refreshed, flushVars,
                 changes, flushes>>

-----------------------------------------------------------------------------
(* The IO thread's tasks.                                                   *)

Runs(op) == io # <<>> /\ Head(io).task.op = op

SchedulesFlush == ~flush_closure

KeysToRead == SetToSeq(hook_map)

(* Mutant: a change updates the cache like the first fill, silently.        *)
ReadsOfChange_silent == [n \in DOMAIN KeysToRead |-> Read("cache", KeysToRead[n], FALSE)]

ReadsOfChange == [n \in DOMAIN KeysToRead |-> Read("cache", KeysToRead[n], TRUE)]

OnSystemCookiesChanged ==
  /\ Runs("notify")
  /\ IF kind = "Persistent"
     THEN io' = Tail(io) /\ UNCHANGED <<wk, flushVars>>
     ELSE /\ AskSystem(ReadsOfChange)
          /\ flush_closure' = (flush_closure \/ SchedulesFlush)
          /\ timer' = (timer \/ SchedulesFlush)
  /\ UNCHANGED <<systemVars, completions, monsterVars, cacheVars, changes, flushes>>

(* CookieCache::Update: the cookies that were removed or added; one whose   *)
(* value changed is both.                                                   *)
Differ(old, new) == {i \in DOMAIN new : new[i] # old[i]}

(* CookieCache::Update and RunCallbacksForCookies.                          *)
UpdateCache(k, cookies, run_callbacks) ==
  LET new == Of(k, cookies)
      changed == Differ(cache[k], new) IN
  /\ cache' = IF changed = {} THEN cache ELSE [cache EXCEPT ![k] = new]
  /\ seen' = IF ~run_callbacks THEN seen
             ELSE [seen EXCEPT ![k] = [i \in k |-> IF i \in changed THEN new[i] ELSE @[i]]]

UpdateCacheForCookies ==
  /\ Runs("cache")
  /\ LET reply == Head(io) IN
     /\ UpdateCache(reply.task.key, reply.cookies, reply.task.run_callbacks)
     /\ refreshed' = IF reply.task.run_callbacks THEN refreshed \cup {reply.task.key}
                     ELSE refreshed \ {reply.task.key}
  /\ io' = Tail(io)
  /\ UNCHANGED <<systemVars, wkVars, monsterVars, hook_map, flushVars, changes, flushes>>

(* Mutant: the closure stays set.                                           *)
CancelFlush_not == UNCHANGED flushVars

CancelFlush == flush_closure' = FALSE /\ timer' = FALSE

(* WriteToCookieMonster, which CookieStoreIOSPersistent makes empty, and    *)
(* the cancellation.                                                        *)
FlushStoreFromCookies ==
  /\ Runs("flush")
  /\ monster' = IF kind = "Persistent" THEN monster ELSE Head(io).cookies
  /\ CancelFlush
  /\ io' = Tail(io)
  /\ UNCHANGED <<systemVars, wkVars, monsterTasks, cacheVars, changes, flushes>>

Matches(cookies, i, v) == cookies[i] = v

(* The block of DeleteCookiesMatchingPredicateAsync: it deletes what it     *)
(* read, whatever the cookie is now.                                        *)
DeleteCookiesMatchingPredicate ==
  /\ Runs("delete")
  /\ io' = Tail(io)
  /\ LET reply == Head(io)
         i == reply.task.id IN
     IF ~Matches(reply.cookies, i, reply.task.value) THEN UNCHANGED <<systemVars, wk>>
     ELSE IF kind = "WKHTTP" THEN wk' = Append(wk, Write(i, None)) /\ UNCHANGED systemVars
     ELSE ChangeStore(Without(store, i)) /\ UNCHANGED wk
  /\ UNCHANGED <<completions, monsterVars, cacheVars, flushVars, changes, flushes>>

-----------------------------------------------------------------------------
(* cookie_monster_ of CookieStoreIOSPersistent: it does what it is asked in *)
(* order; after a change UpdateCachesAfterSet or UpdateCachesAfterDelete    *)
(* asks it for every observed key, and GotCookieListFor updates the cache.  *)

UpdatesCaches(task) == task.op \in {"set", "delete"}

MonsterServes ==
  /\ monsterTasks # <<>>
  /\ LET task == Head(monsterTasks) IN
     /\ monster' = CASE task.op = "set" -> [monster EXCEPT ![task.id] = task.value]
                     [] task.op = "delete" -> IF monster[task.id] = task.value
                                              THEN Without(monster, task.id) ELSE monster
                     [] OTHER -> monster
     /\ monsterTasks' = Tail(monsterTasks) \o (IF UpdatesCaches(task) THEN ReadsOfChange ELSE <<>>)
     /\ IF task.op = "cache"
        THEN UpdateCache(task.key, monster, TRUE) /\ refreshed' = refreshed \cup {task.key}
        ELSE UNCHANGED <<cache, seen, refreshed>>
  /\ UNCHANGED <<systemVars, io, wkVars, hook_map, flushVars, changes, flushes>>

RunCookieTask ==
  \/ OnSystemCookiesChanged \/ UpdateCacheForCookies \/ FlushStoreFromCookies
  \/ DeleteCookiesMatchingPredicate

Step ==
  \/ \E i \in Ids, v \in Values \cup {None} : SystemChange(i, v)
  \/ \E i \in Ids, v \in Values : SetCookie(i, v) \/ DeleteCanonicalCookieAsync(i, v)
  \/ \E k \in Keys : AddCallbackForCookie(k)
  \/ OnNotificationReceived \/ WebKitServes \/ CompletionHandler
  \/ FlushStore \/ FlushTimer \/ RunCookieTask \/ MonsterServes

CookieNext == Step /\ UNCHANGED kind

(* Notifications, posted tasks and the delayed flush run, and WebKit and    *)
(* the CookieMonster serve what they are asked.                             *)
CookieFairness ==
  /\ WF_cookieStoreVars(OnNotificationReceived) /\ WF_cookieStoreVars(WebKitServes)
  /\ WF_cookieStoreVars(CompletionHandler) /\ WF_cookieStoreVars(FlushTimer)
  /\ WF_cookieStoreVars(RunCookieTask) /\ WF_cookieStoreVars(MonsterServes)

CookieSpec == CookieInit /\ [][CookieNext]_<<cookieStoreVars, kind>>
CookieFairSpec == CookieSpec /\ CookieFairness

-----------------------------------------------------------------------------
(* Nothing is on its way.                                                   *)
Quiet ==
  notifications = 0 /\ io = <<>> /\ wk = <<>> /\ completions = <<>> /\ monsterTasks = <<>>

(* When everything has arrived the cache holds the observed cookies of the  *)
(* store it tracks, whatever the order of changes and replies was; of the   *)
(* persistent store from the first change after the first fill on.          *)
CacheIsFresh ==
  Quiet => \A k \in hook_map :
             (kind = "Persistent" => k \in refreshed) => cache[k] = Of(k, Tracked)

(* Over NSHTTPCookieStorage a subscriber that knows the cookies at the time *)
(* it subscribed knows them from the callbacks ever after: no change is     *)
(* swallowed, however the changes, their notifications and the replies of   *)
(* the reads are interleaved.                                               *)
SubscribersKnow ==
  kind = "NSHTTP" /\ Quiet => \A k \in hook_map : seen[k] = Of(k, store)

(* Once a change of NSHTTPCookieStorage was announced and no flush is left  *)
(* to come, the CookieMonster has what the store has.                       *)
BackingStoreKeepsUp ==
  kind = "NSHTTP" /\ Quiet /\ ~flush_closure /\ announced => monster = store

(* A flush that is scheduled takes place, and the next one can be.          *)
FlushCompletes == flush_closure ~> ~flush_closure

(* What the parts above rest on while something is on its way.             *)

ReadsKey(task, k) == task.op = "cache" /\ task.key = k
Noticed == notifications = 0 /\ \A n \in DOMAIN io : io[n].task.op # "notify"

(* WebKit is asked only by a WKHTTP store, and a CookieMonster that is      *)
(* written to only by a persistent one.                                     *)
TasksFollowKind ==
  /\ kind # "WKHTTP" => wk = <<>> /\ completions = <<>>
  /\ kind # "Persistent" => monsterTasks = <<>>

(* The cache is read for observed keys only.                               *)
ReadsAreHooked ==
  /\ \A n \in DOMAIN io : io[n].task.op = "cache" => io[n].task.key \in hook_map
  /\ \A n \in DOMAIN completions :
       completions[n].task.op = "cache" => completions[n].task.key \in hook_map
  /\ \A n \in DOMAIN wk : wk[n].op = "cache" => wk[n].key \in hook_map
  /\ \A n \in DOMAIN monsterTasks :
       monsterTasks[n].op = "cache" => monsterTasks[n].key \in hook_map

(* Over NSHTTPCookieStorage an answer is what the store holds, or the       *)
(* notice of a change comes after it.                                       *)
AnswersAreCurrent ==
  kind = "NSHTTP" /\ notifications = 0 => \A n \in DOMAIN io :
    \/ \E m \in DOMAIN io : m >= n /\ io[m].task.op = "notify"
    \/ io[n].cookies = store

(* When every change has been noticed, the last answer on its way about a   *)
(* key is what the store holds, and without one the cache is; or WebKit has *)
(* still to be asked.                                                       *)
ReadsCatchUp ==
  kind # "Persistent" /\ Noticed => \A k \in hook_map :
    \/ \E n \in DOMAIN wk : ReadsKey(wk[n], k)
    \/ LET q == io \o completions IN
       /\ \A n \in DOMAIN q : ReadsKey(q[n].task, k) =>
            \/ Of(k, q[n].cookies) = Of(k, store)
            \/ \E m \in DOMAIN q : m > n /\ ReadsKey(q[m].task, k)
       /\ (\A n \in DOMAIN q : ~ReadsKey(q[n].task, k)) => cache[k] = Of(k, store)

(* Over NSHTTPCookieStorage the first fill of a key is the first answer     *)
(* about it and brings what its subscriber knows; then the cache is that.   *)
SubscribersFollowCache ==
  kind = "NSHTTP" => \A k \in hook_map :
    /\ \A n \in DOMAIN io : ReadsKey(io[n].task, k) /\ ~io[n].task.run_callbacks =>
         /\ Of(k, io[n].cookies) = seen[k]
         /\ \A m \in DOMAIN io : m < n => ~ReadsKey(io[m].task, k)
    /\ \/ \E n \in DOMAIN io : ReadsKey(io[n].task, k) /\ ~io[n].task.run_callbacks
       \/ cache[k] = seen[k]

(* Over NSHTTPCookieStorage a closure that is set has its timer or its      *)
(* answer to come; and a change that was noticed has reached the            *)
(* CookieMonster or will.                                                   *)
FlushIsToCome ==
  kind = "NSHTTP" =>
    LET coming == timer \/ \E n \in DOMAIN io : io[n].task.op = "flush" IN
    /\ flush_closure => coming
    /\ announced /\ Noticed => coming \/ monster = store

(* In a persistent store only the CookieMonster updates a key after its     *)
(* first fill; a key whose last update came from it is up to date, or will  *)
(* be read again.                                                           *)
MonsterIsReadAgain ==
  kind = "Persistent" =>
    /\ \A n \in DOMAIN io : io[n].task.op = "cache" => ~io[n].task.run_callbacks
    /\ \A k \in refreshed :
         \/ \E n \in DOMAIN monsterTasks : ReadsKey(monsterTasks[n], k)
         \/ cache[k] = Of(k, monster)

(* When nothing is on its way the store, the cache, the subscribers and the *)
(* CookieMonster agree, however changes, notifications, reads and flushes   *)
(* were interleaved.                                                        *)
CookieInv ==
  /\ CookieTypeOK
  /\ CacheIsFresh
  /\ SubscribersKnow
  /\ BackingStoreKeepsUp
  /\ TasksFollowKind /\ ReadsAreHooked
  /\ AnswersAreCurrent /\ ReadsCatchUp /\ SubscribersFollowCache
  /\ FlushIsToCome /\ MonsterIsReadAgain

=============================================================================
