---------------------------- MODULE OmahaService -----------------------------
(***************************************************************************)
(* OmahaService (chrome/browser/omaha/omaha_service.mm): the pings of the  *)
(* update server.  One request is in flight or scheduled at a time; an     *)
(* install event is sent, and retried with the same request id, until the  *)
(* server has acknowledged it, then a usage ping every                     *)
(* kHoursBetweenRequests.  The schedule survives the process in the user   *)
(* defaults.  The process may die at any point, also between two writes of *)
(* the defaults, be updated, and start again with its clock set back.      *)
(*                                                                         *)
(* Times are hours.  Version 0 is kDefaultLastSentVersion.  The XML of the *)
(* messages is left out: a request is an install event or a usage ping,    *)
(* and its response is correct or not.                                     *)
(***************************************************************************)
EXTENDS Integers, FiniteSets

CONSTANTS
  kHoursBetweenRequests, \* hours between successful requests: 5
  PostRetryBase,         \* kPostRetryBaseSeconds, in hours: 1
  PostRetryMax,          \* kPostRetryMaxSeconds, in hours: 6
  TriesCap,              \* the cap of number_of_tries_: 30
  FirstLaunch,           \* the time of the first launch
  MaxNow,                \* bound: the last hour considered
  MaxAppVersion,            \* bound: the versions of the application
  MaxRestarts,           \* bound: the times the process dies
  MaxClockChanges,       \* bound: the times the clock is set back
  MaxDebug               \* bound: the times chrome://omaha is opened

ASSUME OmahaAssumption ==
  /\ kHoursBetweenRequests \in Nat \ {0}
  /\ PostRetryBase \in Nat \ {0} /\ PostRetryMax \in Nat
  /\ PostRetryBase <= PostRetryMax
  /\ TriesCap \in Nat \ {0} /\ MaxAppVersion \in Nat \ {0}
  /\ FirstLaunch \in Nat /\ MaxNow \in Nat /\ FirstLaunch <= MaxNow

VARIABLES
  now,            \* base::Time::Now()
  version,        \* version_info::GetVersion()
  pc,             \* where the process is, see PingTypeOK
  mem,            \* next_tries_time_, current_ping_time_, last_sent_time_,
                  \* last_sent_version_ and number_of_tries_
  defaults,       \* the same, as PersistStates wrote them
  retryId,        \* kRetryRequestIdKey in the defaults, 0 when absent
  sendingInstall, \* sending_install_event_
  urlLoader,      \* url_loader_: the kind of request in flight
  timer,          \* timer_ runs, until mem.next
  nextId,         \* GetRandomId: ids are numbered as they are drawn
  restarts, clockChanges, debugs,
  sent,           \* ghost: the install events sent, <<version, request id>>
  acked,          \* ghost: the versions whose install event was acknowledged
  lastAttempt     \* ghost: the last attempt of the pending ping, and whether
                  \* the process still is the one that made it

pingVars == <<now, version, pc, mem, defaults, retryId, sendingInstall, urlLoader,
              timer, nextId, restarts, clockChanges, debugs, sent, acked, lastAttempt>>
process == <<mem, sendingInstall, urlLoader, timer>>
bounds == <<restarts, clockChanges, debugs>>
ghosts == <<sent, acked, lastAttempt>>

NoId == 0
NoAttempt == [at |-> 0, here |-> FALSE]
AppVersions == 0 .. MaxAppVersion
Times == 0 .. MaxNow + PostRetryMax + kHoursBetweenRequests

States == [next : Times, ping : Times, sentTime : Times, sentVersion : AppVersions,
           tries : 0 .. TriesCap]

PingTypeOK ==
  /\ now \in 0 .. MaxNow /\ version \in AppVersions
  /\ pc \in {"stopped", "starting", "idle", "sending", "acknowledged"}
  /\ mem \in States /\ defaults \in States
  /\ retryId \in Nat /\ nextId \in Nat /\ sendingInstall \in BOOLEAN
  /\ urlLoader \in {"none", "install", "usage"} /\ timer \in BOOLEAN
-----------------------------------------------------------------------------
(* GetBackOff: net::BackoffEntry with a factor of 2, its jitter left out,   *)
(* after the n failures that the loop tells it of.                          *)
Smaller(a, b) == IF a < b THEN a ELSE b
PowerOfTwo[n \in Nat] == IF n = 0 THEN 1 ELSE 2 * PowerOfTwo[n - 1]
GetBackOff(n) == Smaller(PostRetryBase * PowerOfTwo[n - 1], PostRetryMax)

InstallDue(m) == m.sentVersion < version

(* Initialize: what the process reads back, mended when the clock seems to *)
(* have been tampered with, and made due at once for a new version.        *)
Untampered(m, t) == [m EXCEPT !.sentTime = Smaller(m.sentTime, t)]
Rescheduled(m, t) ==
  IF m.next - t > kHoursBetweenRequests
  THEN [m EXCEPT !.next = m.sentTime + kHoursBetweenRequests] ELSE m
DueIfNewVersion(m, t, v) ==
  IF m.sentVersion < v THEN [m EXCEPT !.next = t, !.tries = 0] ELSE m

Initialized(m, t, v) == DueIfNewVersion(Rescheduled(Untampered(m, t), t), t, v)
-----------------------------------------------------------------------------
NothingSent == [next |-> 0, ping |-> 0, sentTime |-> 0, sentVersion |-> 0, tries |-> 0]

PingInit ==
  /\ now = FirstLaunch /\ version = 1 /\ pc = "stopped"
  /\ mem = NothingSent /\ defaults = NothingSent /\ retryId = NoId
  /\ sendingInstall = FALSE /\ urlLoader = "none" /\ timer = FALSE
  /\ nextId = 1
  /\ restarts = 0 /\ clockChanges = 0 /\ debugs = 0
  /\ sent = {} /\ acked = {} /\ lastAttempt = NoAttempt

(* The application starts, perhaps as a new version: GetInstance runs      *)
(* Initialize, and Start posts SendOrScheduleNextPing to the IO thread.    *)
Launch(v) ==
  /\ pc = "stopped" /\ v >= version
  /\ pc' = "starting" /\ version' = v
  /\ mem' = Initialized(defaults, now, v)
  /\ defaults' = mem'   \* PersistStates when anything was changed
  /\ UNCHANGED <<now, retryId, sendingInstall, urlLoader, timer, nextId,
                 bounds, sent, acked, lastAttempt>>

(* SendPing up to PersistStates: the attempt counts as failed before it is *)
(* made.  Its X-RequestAge header is left out.                             *)
TriesAfter(m) == IF m.tries < TriesCap THEN m.tries + 1 ELSE m.tries

(* Mutant: does not wait.                                                 *)
AfterAttempt_now(m) == [m EXCEPT !.tries = TriesAfter(m), !.next = now]

AfterAttempt(m) ==
  [m EXCEPT !.tries = TriesAfter(m), !.next = now + GetBackOff(TriesAfter(m))]

SendPing(m) ==
  /\ mem' = AfterAttempt(m)
  /\ defaults' = mem'
  /\ timer' = FALSE
  /\ lastAttempt' = [at |-> now, here |-> TRUE]
  /\ pc' = "sending"

(* SendOrScheduleNextPing, from the state m.                               *)
SendOrScheduleNextPing(m) ==
  \/ m.next <= now /\ SendPing(m)
  \/ /\ m.next > now
     /\ timer' = TRUE /\ mem' = m /\ pc' = "idle"
     /\ UNCHANGED <<defaults, lastAttempt>>

StartTask ==
  /\ pc = "starting"
  /\ UNCHANGED <<now, version, retryId, sendingInstall, urlLoader, nextId, bounds, sent, acked>>
  /\ SendOrScheduleNextPing(mem)

TimerFires ==
  /\ pc = "idle" /\ timer /\ mem.next <= now
  /\ UNCHANGED <<now, version, retryId, sendingInstall, urlLoader, nextId, bounds, sent, acked>>
  /\ SendPing(mem)

(* Mutant: a retry gets an id of its own.                                 *)
DrawsId_always(install) == install

(* GetCurrentPingContent: decides again what is sent, and draws and stores *)
(* the request id of an install event unless one is stored.                *)
DrawsId(install) == install /\ retryId = NoId

CurrentPingContent ==
  /\ sendingInstall' = InstallDue(mem)
  /\ IF retryId = NoId \/ DrawsId(sendingInstall') THEN nextId' = nextId + 1 ELSE UNCHANGED nextId
  /\ retryId' = IF DrawsId(sendingInstall') THEN nextId ELSE retryId

(* The rest of SendPing: the request goes out.                             *)
SendRequest ==
  /\ pc = "sending"
  /\ CurrentPingContent
  /\ urlLoader' = IF sendingInstall' THEN "install" ELSE "usage"
  /\ sent' = IF sendingInstall' THEN sent \cup {<<version, retryId'>>} ELSE sent
  /\ pc' = "idle"
  /\ UNCHANGED <<now, version, mem, defaults, timer, bounds, acked, lastAttempt>>

(* GetDebugInformationOnIOThread for chrome://omaha computes the content   *)
(* of the next ping, side effects included.                                *)
GetDebugInformation ==
  /\ pc \in {"starting", "idle"} /\ debugs < MaxDebug
  /\ debugs' = debugs + 1
  /\ CurrentPingContent
  /\ UNCHANGED <<now, version, pc, mem, defaults, urlLoader, timer,
                 restarts, clockChanges, sent, acked, lastAttempt>>

(* OnURLLoadComplete without a correct response.                           *)
RequestFails ==
  /\ pc = "idle" /\ urlLoader # "none"
  /\ urlLoader' = "none"
  /\ UNCHANGED <<now, version, retryId, sendingInstall, nextId, bounds, sent, acked>>
  /\ SendOrScheduleNextPing(mem)

(* OnURLLoadComplete with a correct response: the new state in memory, and *)
(* the request id removed from the defaults.                               *)
Acknowledged(m) ==
  LET next == IF sendingInstall THEN now ELSE now + kHoursBetweenRequests
  IN  [next |-> next, ping |-> next, sentTime |-> now, sentVersion |-> version, tries |-> 0]

(* Mutant: the stored id is left.                                         *)
IdAfterAcknowledge_kept == retryId

IdAfterAcknowledge == NoId

RequestSucceeds ==
  /\ pc = "idle" /\ urlLoader # "none"
  /\ urlLoader' = "none"
  /\ mem' = Acknowledged(mem)
  /\ sendingInstall' = FALSE
  /\ retryId' = IdAfterAcknowledge
  /\ acked' = IF sendingInstall THEN acked \cup {version} ELSE acked
  /\ lastAttempt' = NoAttempt
  /\ pc' = "acknowledged"
  /\ UNCHANGED <<now, version, defaults, timer, nextId, bounds, sent>>

(* ... then PersistStates, and SendOrScheduleNextPing.                     *)
PersistAcknowledged ==
  /\ pc = "acknowledged"
  /\ UNCHANGED <<now, version, retryId, sendingInstall, urlLoader, nextId, bounds, sent, acked>>
  /\ \/ mem.next <= now /\ SendPing(mem)
     \/ /\ mem.next > now
        /\ timer' = TRUE /\ defaults' = mem /\ pc' = "idle"
        /\ UNCHANGED <<mem, lastAttempt>>

(* The process dies; only the defaults are left.                           *)
Dies ==
  /\ pc # "stopped" /\ restarts < MaxRestarts
  /\ restarts' = restarts + 1
  /\ pc' = "stopped"
  /\ mem' = NothingSent /\ sendingInstall' = FALSE /\ urlLoader' = "none" /\ timer' = FALSE
  /\ lastAttempt' = [lastAttempt EXCEPT !.here = FALSE]
  /\ UNCHANGED <<now, version, defaults, retryId, nextId, clockChanges, debugs, sent, acked>>

Tick ==
  /\ now < MaxNow /\ now' = now + 1
  /\ UNCHANGED <<version, pc, defaults, retryId, process, nextId, bounds, ghosts>>

(* The user sets the clock while the application is not running.           *)
SetClock ==
  /\ pc = "stopped" /\ clockChanges < MaxClockChanges
  /\ clockChanges' = clockChanges + 1
  /\ now' \in FirstLaunch .. now - 1
  /\ lastAttempt' = NoAttempt
  /\ UNCHANGED <<version, pc, defaults, retryId, process, nextId,
                 restarts, debugs, sent, acked>>

PingNext ==
  \/ \E v \in 1 .. MaxAppVersion : Launch(v)
  \/ StartTask \/ TimerFires \/ SendRequest \/ GetDebugInformation
  \/ RequestFails \/ RequestSucceeds \/ PersistAcknowledged
  \/ Dies \/ Tick \/ SetClock

PingSpec == PingInit /\ [][PingNext]_pingVars
-----------------------------------------------------------------------------
(* A request id is only stored while an install event is due, wherever the *)
(* process died: the id is removed before the version is written (the      *)
(* DCHECK of GetCurrentPingContent, for every later process).              *)
StoredIdMeansInstallDue ==
  /\ retryId # NoId => defaults.sentVersion < version
  /\ retryId # NoId /\ pc # "stopped" => InstallDue(mem)

(* sending_install_event_ describes the request in flight, although        *)
(* chrome://omaha computes it again in between: the response is credited   *)
(* to the right kind of ping.                                              *)
FlightMatchesFlag == urlLoader # "none" => sendingInstall = (urlLoader = "install")

(* The service never loses its loop: a started service that runs no code   *)
(* has exactly one of a request in flight and a running timer.             *)
OneRequestPending == pc = "idle" => (timer # (urlLoader # "none"))

(* Until it is acknowledged, the install event of a version is always sent *)
(* with the same request id, over failures, deaths and clock changes.      *)
RetriesKeepTheirId ==
  \A a, b \in sent : a[1] = b[1] /\ a[1] \notin acked => a[2] = b[2]

(* Within a process, a failed ping is not sent again before                *)
(* kPostRetryBaseSeconds have passed, a success starts afresh.             *)
RetriesWait ==
  [][pc' = "sending" /\ lastAttempt.here /\ pc # "sending"
       => now >= lastAttempt.at + PostRetryBase]_pingVars

(* Code that runs has neither a timer nor a request: SendPing stops the    *)
(* timer first, and OnURLLoadComplete takes the loader.                    *)
QuietUnlessIdle == pc # "idle" => ~timer /\ urlLoader = "none"

(* Whenever the process may die and does not hold an acknowledgement that   *)
(* is not yet written, the defaults are what it knows.                      *)
DefaultsFollowMemory ==
  /\ pc \in {"starting", "idle", "sending"} => defaults = mem
  /\ pc = "acknowledged" => mem.sentVersion = version /\ retryId = NoId

(* What is in flight is what is due: nothing changes that on the way.       *)
FlightIsDue == urlLoader # "none" => (urlLoader = "install" <=> InstallDue(mem))

(* An install event of this version that was sent and not acknowledged has  *)
(* its request id in the defaults.                                          *)
UnackedIdIsStored ==
  /\ nextId # NoId /\ 1 <= version
  /\ sent \subseteq (1 .. version) \X Nat
  /\ \A a \in sent : a[1] = version /\ version \notin acked
                      => retryId # NoId /\ a[2] = retryId

(* After an attempt the next one is scheduled kPostRetryBaseSeconds later   *)
(* or more.                                                                 *)
AttemptSchedulesRetry ==
  /\ lastAttempt \in [at : Nat, here : BOOLEAN]
  /\ lastAttempt.here => /\ pc \in {"idle", "sending"}
                         /\ mem.next >= lastAttempt.at + PostRetryBase

(* The stored state and the request in flight agree about what is sent,     *)
(* wherever the process died, and the loop of timer and request goes on.    *)
(* With RetriesKeepTheirId it is inductive.                                 *)
PingInv ==
  /\ PingTypeOK
  /\ StoredIdMeansInstallDue
  /\ FlightMatchesFlag
  /\ OneRequestPending
  /\ QuietUnlessIdle
  /\ DefaultsFollowMemory
  /\ FlightIsDue
  /\ UnackedIdIsStored
  /\ AttemptSchedulesRetry

=============================================================================
