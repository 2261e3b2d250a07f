------------------------- MODULE WebMainLoopProofs -------------------------
(***************************************************************************)
(* WebThreadImpl's lock protocol, with any number of posts and a connection *)
(* on top of the threads: PostTaskHelper may skip the lock when its target  *)
(* outlives the calling thread, and the shutdown loses no task that the     *)
(* well-known threads have posted.                                          *)
(*                                                                         *)
(* Skipping the lock is safe because of where the program makes its calls,  *)
(* not because of the lock: the threads' lives are nested, and only code    *)
(* outside the nested life writes the state.                                *)
(*                                                                         *)
(* Then the connection: the program runs it as ServiceManagerConnection     *)
(* says, and its observer, its context and its frames end in step whether   *)
(* the owner or the message loop goes first.                                *)
(***************************************************************************)
EXTENDS WebMainLoop, ListLemmas

-----------------------------------------------------------------------------
(* The calls.                                                              *)

(* A record of a call is never NoCall.                                     *)
LEMMA CallFacts ==
  /\ NoCall.op = "none" /\ NoCall \notin Calls
  /\ \A c \in Calls : /\ c.op \in {"register", "unregister", "post"} /\ c.id \in ID
                      /\ c.locks \in BOOLEAN /\ c.step \in {"acquire", "use", "push"}
<1>1. NoCall.op = "none" /\ \A c \in Calls : c.op # "none"
  BY DEF NoCall, Calls
<1>2. NoCall \notin Calls
  BY <1>1
<1> QED
  BY <1>1, <1>2 DEF Calls

(* The beginning of a call.                                                *)
LEMMA EnterFacts ==
  ASSUME call \in [Threads -> Calls \cup {NoCall}],
         NEW t \in Threads, NEW id \in ID, NEW locks \in BOOLEAN,
         NEW op \in {"register", "unregister", "post"},
         Enter(t, op, id, locks)
  PROVE  /\ call' \in [Threads -> Calls \cup {NoCall}]
         /\ call'[t] # NoCall /\ call'[t].op = op /\ call'[t].id = id
         /\ call'[t].locks = locks
         /\ call'[t].step = IF locks THEN "acquire" ELSE "use"
         /\ \A s \in Threads : s # t => call'[s] = call[s]
<1> DEFINE c == [op |-> op, id |-> id, locks |-> locks,
                 step |-> IF locks THEN "acquire" ELSE "use"]
<1>1. c \in Calls
  BY DEF Calls
<1>2. /\ c.op = op /\ c.id = id /\ c.locks = locks
      /\ c.step = IF locks THEN "acquire" ELSE "use"
  OBVIOUS
<1>3. call' = [call EXCEPT ![t] = c]
  BY DEF Enter
<1> HIDE DEF c
<1>4. call'[t] = c /\ \A s \in Threads : s # t => call'[s] = call[s]
  BY <1>3
<1>5. call' \in [Threads -> Calls \cup {NoCall}]
  BY <1>1, <1>3
<1> QED
  BY <1>1, <1>2, <1>4, <1>5, CallFacts

(* The next step of a call.                                                *)
LEMMA StepFacts ==
  ASSUME call \in [Threads -> Calls \cup {NoCall}],
         NEW t \in Threads, ~Idle(t), NEW step \in {"acquire", "use", "push"},
         call' = [call EXCEPT ![t].step = step]
  PROVE  /\ call' \in [Threads -> Calls \cup {NoCall}]
         /\ call'[t] # NoCall /\ call'[t].op = call[t].op /\ call'[t].id = call[t].id
         /\ call'[t].locks = call[t].locks /\ call'[t].step = step
         /\ \A s \in Threads : s # t => call'[s] = call[s]
<1> DEFINE c == [call[t] EXCEPT !.step = step]
<1>0. call[t] \in Calls
  BY DEF Idle
<1>1. c \in Calls
  BY <1>0 DEF Calls
<1>2. /\ c.op = call[t].op /\ c.id = call[t].id /\ c.locks = call[t].locks
      /\ c.step = step
  BY <1>0 DEF Calls
<1>3. call' = [call EXCEPT ![t] = c]
  OBVIOUS
<1> HIDE DEF c
<1>4. call'[t] = c /\ \A s \in Threads : s # t => call'[s] = call[s]
  BY <1>3
<1>5. call' \in [Threads -> Calls \cup {NoCall}]
  BY <1>1, <1>3
<1> QED
  BY <1>1, <1>2, <1>4, <1>5, CallFacts

(* The end of a call.                                                      *)
LEMMA LeaveFacts ==
  ASSUME call \in [Threads -> Calls \cup {NoCall}], NEW t \in Threads, Leave(t)
  PROVE  /\ call' \in [Threads -> Calls \cup {NoCall}]
         /\ call'[t] = NoCall
         /\ \A s \in Threads : s # t => call'[s] = call[s]
         /\ lock' = IF lock = t THEN "free" ELSE lock
  BY DEF Leave, Release

-----------------------------------------------------------------------------
(* The control state: all that the safety of the calls depends on.         *)

LockOK(t) ==
  /\ lock = t <=> ~Idle(t) /\ call[t].locks /\ call[t].step # "acquire"
  /\ ~Idle(t) /\ call[t].step = "acquire" => call[t].locks

PlaceOK(t) ==
  ~Idle(t) =>
    /\ call[t].op = "post" =>
         /\ t = "main" => mainStep \in {"running", "stopping"}
         /\ t = "io" => ioStep \in {"looping", "quitting", "cleaning"}
         /\ ~call[t].locks => \/ t = "main" /\ call[t].id = UI
                              \/ t = "io" /\ task_runners[IO] = "io"
    /\ call[t].op = "register" =>
         /\ t = "main" /\ call[t].locks
         /\ mainStep = IF call[t].id = UI THEN "early" ELSE "registering"
    /\ call[t].op = "unregister" =>
         /\ call[t].locks
         /\ IF call[t].id = UI THEN t = "main" /\ mainStep = "destroying"
                               ELSE t = "io" /\ ioStep = "cleaning"

PushOK(t) ==
  ~Idle(t) /\ call[t].step = "push" =>
    /\ call[t].op = "post"
    /\ states[call[t].id] = "RUNNING" /\ task_runners[call[t].id] # "none"

ControlTypes ==
  /\ states \in [ID -> {"UNINITIALIZED", "RUNNING", "SHUTDOWN"}]
  /\ task_runners \in [ID -> {"none", "main", "io"}]
  /\ lock \in Threads \cup {"free"}
  /\ call \in [Threads -> Calls \cup {NoCall}]
  /\ mainStep \in {"early", "started", "registering", "registered", "running",
                   "stopping", "joining", "joined", "destroying", "done"}
  /\ ioStep \in {"none", "looping", "quitting", "cleaning", "dead"}

LivesNested ==
  /\ task_runners[UI] \in {"none", "main"} /\ task_runners[IO] \in {"none", "io"}
  /\ \A id \in ID : states[id] = "RUNNING" => task_runners[id] # "none"
  /\ task_runners[IO] = "io" => mainStep \notin {"early", "started", "registering"}
  /\ ioStep = "none" <=> mainStep \in {"early", "started"}
  /\ ioStep \in {"quitting", "cleaning", "dead"} => IOStopping
  /\ mainStep \in {"joined", "destroying", "done"} => ioStep = "dead"

ControlInv ==
  /\ ControlTypes
  /\ LivesNested
  /\ \A t \in Threads : LockOK(t) /\ PlaceOK(t) /\ PushOK(t)

(* The queues, and what the rest of ThreadsInv says of them.               *)
HasQuit(q) == \E i \in DOMAIN q : q[i] = "quit"
LeftOver(q) == \A i \in DOMAIN q : q[i] \in {"worker", "cleanup"}

QueueInv ==
  /\ queue \in [ID -> Seq(LoopTask)]
  /\ HasQuit(queue[IO]) => IOStopping
  /\ ioStep \in {"cleaning", "dead"} => LeftOver(queue[IO])
  /\ delegate \in {"unset", "set", "initialized", "cleaned"}
  /\ posts \in 0..MaxPosts

(* The two together are ThreadsInv.                                        *)
LEMMA ThreadsInvParts == ThreadsInv <=> ControlInv /\ QueueInv
<1>1. ControlInv /\ QueueInv => ThreadsInv
  <2> SUFFICES ASSUME ControlInv, QueueInv PROVE ThreadsInv
    OBVIOUS
  <2>1. LockIsHeldByCalls
    BY DEF ControlInv, LockOK, LockIsHeldByCalls
  <2>2. CallsInPlace
    BY DEF ControlInv, PlaceOK, CallsInPlace
  <2>3. PushIsAccepted
    BY DEF ControlInv, PushOK, PushIsAccepted
  <2>4. ThreadsAreNested /\ WellKnownTasksRun
    BY DEF ControlInv, QueueInv, LivesNested, ThreadsAreNested, WellKnownTasksRun,
           HasQuit, LeftOver
  <2>5. TypeOK
    BY <2>1 DEF ControlInv, QueueInv, ControlTypes, TypeOK, LockIsHeldByCalls
  <2> QED
    BY <2>1, <2>2, <2>3, <2>4, <2>5 DEF ThreadsInv
<1>2. ThreadsInv => ControlInv /\ QueueInv
  <2> SUFFICES ASSUME ThreadsInv PROVE ControlInv /\ QueueInv
    OBVIOUS
  <2>1. \A t \in Threads : LockOK(t)
    BY DEF ThreadsInv, LockOK, LockIsHeldByCalls
  <2>2. \A t \in Threads : PlaceOK(t)
    BY DEF ThreadsInv, PlaceOK, CallsInPlace
  <2>3. \A t \in Threads : PushOK(t)
    BY DEF ThreadsInv, PushOK, PushIsAccepted
  <2>4. LivesNested /\ ControlTypes
    BY DEF ThreadsInv, LivesNested, ThreadsAreNested, ControlTypes, TypeOK
  <2>5. QueueInv
    BY DEF ThreadsInv, QueueInv, TypeOK, ThreadsAreNested, WellKnownTasksRun,
           HasQuit, LeftOver
  <2> QED
    BY <2>1, <2>2, <2>3, <2>4, <2>5 DEF ControlInv
<1> QED
  BY <1>1, <1>2

(* The lock has one holder, so a call that uses it is alone; and a post     *)
(* without it has nobody who could write what it reads.                     *)
LEMMA PostIsSafe ==
  ASSUME ControlInv, NEW t \in Threads, NEW s \in Threads, s # t,
         ~Idle(t), call[t].op = "post", call[t].step \in {"use", "push"}, lock = s
  PROVE  ~InCall(s, "register", call[t].id) /\ ~InCall(s, "unregister", call[t].id)
<1>0. /\ ControlTypes /\ LivesNested
      /\ LockOK(t) /\ PlaceOK(t) /\ PlaceOK(s)
  BY DEF ControlInv
<1>1. ~call[t].locks
  BY <1>0 DEF LockOK
<1>2. call[t].id \in ID
  BY <1>0, CallFacts DEF ControlTypes, Idle
<1>3. \/ t = "main" /\ call[t].id = UI /\ mainStep \in {"running", "stopping"}
      \/ /\ t = "io" /\ task_runners[IO] = "io"
         /\ ioStep \in {"looping", "quitting", "cleaning"}
  BY <1>0, <1>1 DEF PlaceOK
<1>4. ASSUME InCall(s, "register", call[t].id) PROVE FALSE
  <2>1. s = "main" /\ mainStep \in {"early", "registering"}
    BY <1>0, <1>4 DEF InCall, PlaceOK, Idle
  <2> QED
    BY <1>0, <1>3, <2>1 DEF LivesNested
<1>5. ASSUME InCall(s, "unregister", call[t].id) PROVE FALSE
  <2>1. IF call[t].id = UI THEN s = "main" /\ mainStep = "destroying" ELSE s = "io"
    BY <1>0, <1>5 DEF InCall, PlaceOK, Idle
  <2> QED
    BY <1>0, <1>3, <2>1 DEF LivesNested
<1> QED
  BY <1>4, <1>5

(* What the code relies on when PostTaskHelper skips the lock.             *)
LEMMA ThreadsInvImpliesSafe == ThreadsInv => UnlockedReadIsSafe
<1> SUFFICES ASSUME ThreadsInv, NEW t \in Threads,
                    ~Idle(t), call[t].op = "post", call[t].step \in {"use", "push"}
             PROVE  /\ \A s \in Threads \ {t} :
                         lock = s => ~InCall(s, "register", call[t].id)
                                       /\ ~InCall(s, "unregister", call[t].id)
                    /\ call[t].step = "push" =>
                         /\ states[call[t].id] = "RUNNING"
                         /\ task_runners[call[t].id] # "none"
  BY DEF UnlockedReadIsSafe
<1>1. ControlInv
  BY ThreadsInvParts
<1>2. PushOK(t)
  BY <1>1 DEF ControlInv
<1> QED
  BY <1>1, <1>2, PostIsSafe DEF PushOK

-----------------------------------------------------------------------------
(* The steps of the calls.                                                 *)

(* A thread takes the lock.                                                *)
LEMMA AcquireControl ==
  ASSUME ControlInv, NEW t \in Threads, Acquire(t)
  PROVE  ControlInv'
<1>0. /\ ControlTypes /\ LivesNested
      /\ \A s \in Threads : LockOK(s) /\ PlaceOK(s) /\ PushOK(s)
  BY DEF ControlInv
<1>1. /\ ~Idle(t) /\ call[t].step = "acquire" /\ lock = "free" /\ lock' = t
      /\ states' = states /\ task_runners' = task_runners
      /\ mainStep' = mainStep /\ ioStep' = ioStep
      /\ call' = [call EXCEPT ![t].step = "use"]
  BY DEF Acquire, globalVars
<1>2. /\ call' \in [Threads -> Calls \cup {NoCall}]
      /\ call'[t] # NoCall /\ call'[t].op = call[t].op /\ call'[t].id = call[t].id
      /\ call'[t].locks = call[t].locks /\ call'[t].step = "use"
      /\ \A s \in Threads : s # t => call'[s] = call[s]
  BY <1>0, <1>1, StepFacts DEF ControlTypes
<1>3. LockOK(t)' /\ PlaceOK(t)' /\ PushOK(t)'
  BY <1>0, <1>1, <1>2 DEF LockOK, PlaceOK, PushOK, Idle
<1>4. ASSUME NEW s \in Threads, s # t PROVE LockOK(s)' /\ PlaceOK(s)' /\ PushOK(s)'
  <2>1. lock # s
    BY <1>1 DEF Threads
  <2> QED
    BY <1>0, <1>1, <1>2, <1>4, <2>1 DEF LockOK, PlaceOK, PushOK, Idle
<1>5. ControlTypes' /\ LivesNested'
  BY <1>0, <1>1, <1>2 DEF ControlTypes, LivesNested, IOStopping
<1> QED
  BY <1>3, <1>4, <1>5 DEF ControlInv

(* A call ends: whoever waits for the lock can have it.                    *)
LEMMA LeaveLocks ==
  ASSUME ControlInv, NEW t \in Threads, Leave(t)
  PROVE  /\ call' \in [Threads -> Calls \cup {NoCall}]
         /\ lock' \in Threads \cup {"free"}
         /\ call'[t] = NoCall /\ \A s \in Threads : s # t => call'[s] = call[s]
         /\ \A s \in Threads : LockOK(s)'
         /\ \A s \in Threads : ~Idle(s)' => s # t
<1>0. ControlTypes /\ \A s \in Threads : LockOK(s)
  BY DEF ControlInv
<1>1. /\ call' \in [Threads -> Calls \cup {NoCall}]
      /\ call'[t] = NoCall
      /\ \A s \in Threads : s # t => call'[s] = call[s]
      /\ lock' = IF lock = t THEN "free" ELSE lock
  BY <1>0, LeaveFacts DEF ControlTypes
<1>2. "free" \notin Threads
  BY DEF Threads
<1>3. \A s \in Threads : LockOK(s)'
  BY <1>0, <1>1, <1>2 DEF LockOK, Idle
<1> QED
  BY <1>0, <1>1, <1>3 DEF ControlTypes, Idle

(* WebThreadImpl's constructor: the state and the runner are set.          *)
LEMMA RegisterControl ==
  ASSUME ControlInv, NEW t \in Threads, Register(t)
  PROVE  ControlInv'
<1> DEFINE id == call[t].id
<1>0. /\ ControlTypes /\ LivesNested
      /\ \A s \in Threads : LockOK(s) /\ PlaceOK(s) /\ PushOK(s)
  BY DEF ControlInv
<1>1. /\ ~Idle(t) /\ call[t].op = "register" /\ call[t].step = "use" /\ Leave(t)
      /\ states' = [states EXCEPT ![id] = "RUNNING"]
      /\ task_runners' = [task_runners EXCEPT ![id] = IF id = UI THEN "main" ELSE "io"]
      /\ mainStep' = IF id = UI THEN "started" ELSE "registered"
      /\ ioStep' = ioStep
  BY DEF Register
<1>2. /\ t = "main" /\ call[t].locks /\ id \in ID
      /\ mainStep = IF id = UI THEN "early" ELSE "registering"
  BY <1>0, <1>1, CallFacts DEF PlaceOK, ControlTypes, Idle
<1>3. /\ call' \in [Threads -> Calls \cup {NoCall}]
      /\ lock' \in Threads \cup {"free"}
      /\ call'[t] = NoCall /\ \A s \in Threads : s # t => call'[s] = call[s]
      /\ \A s \in Threads : LockOK(s)'
      /\ \A s \in Threads : ~Idle(s)' => s # t
  BY <1>1, LeaveLocks
<1> HIDE DEF id
<1>4. /\ states' \in [ID -> {"UNINITIALIZED", "RUNNING", "SHUTDOWN"}]
      /\ task_runners' \in [ID -> {"none", "main", "io"}]
      /\ states'[id] = "RUNNING" /\ task_runners'[id] = IF id = UI THEN "main" ELSE "io"
      /\ \A i \in ID : i # id => states'[i] = states[i]
                                   /\ task_runners'[i] = task_runners[i]
  BY <1>0, <1>1, <1>2 DEF ControlTypes
<1>5. ControlTypes' /\ LivesNested'
  <2>1. mainStep' \in {"started", "registered"} /\ ioStep' = ioStep
    BY <1>1
  <2>2. ControlTypes'
    BY <1>0, <1>3, <1>4, <2>1 DEF ControlTypes
  <2>3. LivesNested'
    <3>1. CASE id = UI
      BY <1>0, <1>1, <1>2, <1>4, <3>1 DEF LivesNested, IOStopping, ID, UI, IO
    <3>2. CASE id = IO
      BY <1>0, <1>1, <1>2, <1>4, <3>2 DEF LivesNested, IOStopping, ID, UI, IO
    <3> QED
      BY <1>2, <3>1, <3>2 DEF ID
  <2> QED
    BY <2>2, <2>3
<1>6. ASSUME NEW s \in Threads PROVE PlaceOK(s)' /\ PushOK(s)'
  <2>1. CASE s = t
    BY <1>3, <2>1 DEF PlaceOK, PushOK, Idle
  <2>2. CASE s # t
    <3>1. PlaceOK(s)'
      BY <1>0, <1>1, <1>2, <1>3, <1>4, <2>2 DEF PlaceOK, Idle, LivesNested, ID, UI, IO
    <3>2. PushOK(s)'
      <4>1. call[s] # NoCall => call[s].id \in ID
        BY <1>0, CallFacts DEF ControlTypes
      <4> QED
        BY <1>0, <1>3, <1>4, <2>2, <4>1 DEF PushOK, Idle
    <3> QED
      BY <3>1, <3>2
  <2> QED
    BY <2>1, <2>2
<1> QED
  BY <1>3, <1>5, <1>6 DEF ControlInv

(* WebThreadImpl's destructor: nobody is about to push to this thread.     *)
LEMMA UnregisterControl ==
  ASSUME ControlInv, NEW t \in Threads, Unregister(t)
  PROVE  ControlInv'
<1> DEFINE id == call[t].id
<1>0. /\ ControlTypes /\ LivesNested
      /\ \A s \in Threads : LockOK(s) /\ PlaceOK(s) /\ PushOK(s)
  BY DEF ControlInv
<1>1. /\ ~Idle(t) /\ call[t].op = "unregister" /\ call[t].step = "use" /\ Leave(t)
      /\ states' = [states EXCEPT ![id] = "SHUTDOWN"]
      /\ task_runners' = task_runners
      /\ mainStep' = IF id = UI THEN "done" ELSE mainStep
      /\ ioStep' = IF id = IO THEN "dead" ELSE ioStep
  BY DEF Unregister
<1>2. /\ call[t].locks /\ id \in ID
      /\ IF id = UI THEN t = "main" /\ mainStep = "destroying"
                    ELSE t = "io" /\ ioStep = "cleaning"
  BY <1>0, <1>1, CallFacts DEF PlaceOK, ControlTypes, Idle
<1>3. /\ call' \in [Threads -> Calls \cup {NoCall}]
      /\ lock' \in Threads \cup {"free"}
      /\ call'[t] = NoCall /\ \A s \in Threads : s # t => call'[s] = call[s]
      /\ \A s \in Threads : LockOK(s)'
      /\ \A s \in Threads : ~Idle(s)' => s # t
  BY <1>1, LeaveLocks
<1>4. lock = t
  BY <1>0, <1>1, <1>2 DEF LockOK
<1>5. ASSUME NEW s \in Threads, s # t, ~Idle(s), call[s].step = "push"
      PROVE  call[s].id # id /\ call[s].id \in ID
  <2>1. call[s].op = "post"
    BY <1>0, <1>5 DEF PushOK
  <2>2. ~InCall(t, "unregister", call[s].id)
    BY <1>4, <1>5, <2>1, PostIsSafe
  <2> QED
    BY <1>0, <1>1, <1>5, <2>2, CallFacts DEF InCall, Idle, ControlTypes
<1> HIDE DEF id
<1>6. /\ states' \in [ID -> {"UNINITIALIZED", "RUNNING", "SHUTDOWN"}]
      /\ states'[id] = "SHUTDOWN"
      /\ \A i \in ID : i # id => states'[i] = states[i]
  BY <1>0, <1>1, <1>2 DEF ControlTypes
<1>7. ControlTypes'
  BY <1>0, <1>1, <1>3, <1>6 DEF ControlTypes
<1>8. LivesNested'
  <2>1. \A i \in ID : states'[i] = "RUNNING" => states[i] = "RUNNING"
    BY <1>6
  <2>2. \/ /\ mainStep = "destroying" /\ mainStep' = "done" /\ ioStep' = ioStep
        \/ /\ mainStep' = mainStep /\ ioStep = "cleaning" /\ ioStep' = "dead"
    BY <1>1, <1>2 DEF ID, UI, IO
  <2> QED
    BY <1>0, <1>1, <2>1, <2>2 DEF LivesNested, IOStopping
<1>9. ASSUME NEW s \in Threads PROVE PlaceOK(s)' /\ PushOK(s)'
  <2>1. CASE s = t
    BY <1>3, <2>1 DEF PlaceOK, PushOK, Idle
  <2>2. CASE s # t
    <3>1. PlaceOK(s)'
      BY <1>0, <1>1, <1>2, <1>3, <2>2 DEF PlaceOK, Idle, LivesNested, ID, UI, IO
    <3>2. PushOK(s)'
      BY <1>0, <1>1, <1>3, <1>5, <1>6, <2>2 DEF PushOK, Idle
    <3> QED
      BY <3>1, <3>2
  <2> QED
    BY <2>1, <2>2
<1> QED
  BY <1>3, <1>7, <1>8, <1>9 DEF ControlInv

(* PostTaskHelper reads the state of its target.                           *)
LEMMA ReadStateControl ==
  ASSUME ControlInv, NEW t \in Threads, ReadState(t)
  PROVE  ControlInv'
<1>0. /\ ControlTypes /\ LivesNested
      /\ \A s \in Threads : LockOK(s) /\ PlaceOK(s) /\ PushOK(s)
  BY DEF ControlInv
<1>1. /\ ~Idle(t) /\ call[t].op = "post" /\ call[t].step = "use"
      /\ states' = states /\ task_runners' = task_runners
      /\ mainStep' = mainStep /\ ioStep' = ioStep
      /\ \/ /\ states[call[t].id] = "RUNNING" /\ lock' = lock
            /\ call' = [call EXCEPT ![t].step = "push"]
         \/ Leave(t)
  BY DEF ReadState, globalVars
<1>2. CASE Leave(t)
  <2>1. /\ call' \in [Threads -> Calls \cup {NoCall}]
        /\ lock' \in Threads \cup {"free"}
        /\ call'[t] = NoCall /\ \A s \in Threads : s # t => call'[s] = call[s]
        /\ \A s \in Threads : LockOK(s)'
        /\ \A s \in Threads : ~Idle(s)' => s # t
    BY <1>2, LeaveLocks
  <2>2. \A s \in Threads : PlaceOK(s)' /\ PushOK(s)'
    BY <1>0, <1>1, <2>1 DEF PlaceOK, PushOK, Idle
  <2>3. ControlTypes' /\ LivesNested'
    BY <1>0, <1>1, <2>1 DEF ControlTypes, LivesNested, IOStopping
  <2> QED
    BY <2>1, <2>2, <2>3 DEF ControlInv
<1>3. CASE /\ states[call[t].id] = "RUNNING" /\ lock' = lock
           /\ call' = [call EXCEPT ![t].step = "push"]
  <2>1. /\ call' \in [Threads -> Calls \cup {NoCall}]
        /\ call'[t] # NoCall /\ call'[t].op = call[t].op /\ call'[t].id = call[t].id
        /\ call'[t].locks = call[t].locks /\ call'[t].step = "push"
        /\ \A s \in Threads : s # t => call'[s] = call[s]
    BY <1>0, <1>1, <1>3, StepFacts DEF ControlTypes
  <2>2. call[t].id \in ID
    BY <1>0, <1>1, CallFacts DEF ControlTypes, Idle
  <2>3. LockOK(t)' /\ PlaceOK(t)' /\ PushOK(t)'
    BY <1>0, <1>1, <1>3, <2>1, <2>2 DEF LockOK, PlaceOK, PushOK, Idle, LivesNested
  <2>4. \A s \in Threads : s # t => LockOK(s)' /\ PlaceOK(s)' /\ PushOK(s)'
    BY <1>0, <1>1, <1>3, <2>1 DEF LockOK, PlaceOK, PushOK, Idle
  <2>5. ControlTypes' /\ LivesNested'
    BY <1>0, <1>1, <1>3, <2>1 DEF ControlTypes, LivesNested, IOStopping
  <2> QED
    BY <2>3, <2>4, <2>5 DEF ControlInv
<1> QED
  BY <1>1, <1>2, <1>3

(* PostTaskHelper pushes the task and returns.                             *)
LEMMA PushControl ==
  ASSUME ControlInv, NEW t \in Threads, Push(t)
  PROVE  ControlInv'
<1>0. /\ ControlTypes /\ LivesNested
      /\ \A s \in Threads : LockOK(s) /\ PlaceOK(s) /\ PushOK(s)
  BY DEF ControlInv
<1>1. /\ Leave(t) /\ states' = states /\ task_runners' = task_runners
      /\ mainStep' = mainStep /\ ioStep' = ioStep
  BY DEF Push, globalVars
<1>2. /\ call' \in [Threads -> Calls \cup {NoCall}]
      /\ lock' \in Threads \cup {"free"}
      /\ call'[t] = NoCall /\ \A s \in Threads : s # t => call'[s] = call[s]
      /\ \A s \in Threads : LockOK(s)'
      /\ \A s \in Threads : ~Idle(s)' => s # t
  BY <1>1, LeaveLocks
<1>3. \A s \in Threads : PlaceOK(s)' /\ PushOK(s)'
  BY <1>0, <1>1, <1>2 DEF PlaceOK, PushOK, Idle
<1>4. ControlTypes' /\ LivesNested'
  BY <1>0, <1>1, <1>2 DEF ControlTypes, LivesNested, IOStopping
<1> QED
  BY <1>2, <1>3, <1>4 DEF ControlInv

-----------------------------------------------------------------------------
(* The steps of the threads, which begin calls and move on.                *)

(* The IO thread makes no call before it is started.                       *)
LEMMA UnstartedIsIdle ==
  ASSUME ControlInv, ioStep = "none"
  PROVE  Idle("io")
<1>1. PlaceOK("io") /\ ControlTypes
  BY DEF ControlInv, Threads
<1>2. ~Idle("io") => call["io"].op \in {"register", "unregister", "post"}
  BY <1>1, CallFacts DEF ControlTypes, Idle, Threads
<1> QED
  BY <1>1, <1>2 DEF PlaceOK

(* A thread that is in no call goes on.                                    *)
LEMMA GoesControl ==
  ASSUME ControlInv, ControlTypes', LivesNested',
         call' = call, lock' = lock, states' = states, task_runners' = task_runners,
         mainStep' = mainStep \/ Idle("main"), ioStep' = ioStep \/ Idle("io")
  PROVE  ControlInv'
<1>0. \A s \in Threads : LockOK(s) /\ PlaceOK(s) /\ PushOK(s)
  BY DEF ControlInv
<1>1. \A s \in Threads : LockOK(s)' /\ PushOK(s)'
  BY <1>0 DEF LockOK, PushOK, Idle
<1>2. \A s \in Threads : PlaceOK(s)'
  BY <1>0 DEF PlaceOK, Idle
<1> QED
  BY <1>1, <1>2 DEF ControlInv

(* A thread begins a call, perhaps going on as well.                       *)
LEMMA EnterControl ==
  ASSUME ControlInv, NEW t \in Threads, Idle(t), NEW id \in ID, NEW locks \in BOOLEAN,
         NEW op \in {"register", "unregister", "post"}, Enter(t, op, id, locks),
         lock' = lock, states' = states, task_runners' = task_runners,
         mainStep' = mainStep \/ t = "main",
         ioStep' = ioStep \/ t = "io" \/ ioStep = "none",
         mainStep' \in {"early", "started", "registering", "registered", "running",
                        "stopping", "joining", "joined", "destroying", "done"},
         ioStep' \in {"none", "looping", "quitting", "cleaning", "dead"},
         LivesNested',
         op # "post" => locks,
         op = "post" =>
           /\ t = "main" => mainStep' \in {"running", "stopping"}
           /\ t = "io" => ioStep' \in {"looping", "quitting", "cleaning"}
           /\ ~locks => \/ t = "main" /\ id = UI
                        \/ t = "io" /\ task_runners[IO] = "io",
         op = "register" => t = "main" /\ mainStep' = IF id = UI THEN "early" ELSE "registering",
         op = "unregister" => IF id = UI THEN t = "main" /\ mainStep' = "destroying"
                                         ELSE t = "io" /\ ioStep' = "cleaning"
  PROVE  ControlInv'
<1>0. ControlTypes /\ \A s \in Threads : LockOK(s) /\ PlaceOK(s) /\ PushOK(s)
  BY DEF ControlInv
<1>1. /\ call' \in [Threads -> Calls \cup {NoCall}]
      /\ call'[t] # NoCall /\ call'[t].op = op /\ call'[t].id = id
      /\ call'[t].locks = locks
      /\ call'[t].step = IF locks THEN "acquire" ELSE "use"
      /\ \A s \in Threads : s # t => call'[s] = call[s]
  BY <1>0, EnterFacts DEF ControlTypes
<1>2. ControlTypes'
  BY <1>0, <1>1 DEF ControlTypes
<1>3. lock # t
  BY <1>0 DEF LockOK
<1>4. LockOK(t)'
  BY <1>1, <1>3 DEF LockOK, Idle
<1>5. PlaceOK(t)'
  BY <1>1 DEF PlaceOK, Idle
<1>6. PushOK(t)'
  BY <1>1 DEF PushOK, Idle
<1>7. ASSUME NEW s \in Threads, s # t PROVE LockOK(s)' /\ PlaceOK(s)' /\ PushOK(s)'
  <2>1. LockOK(s)' /\ PushOK(s)'
    BY <1>0, <1>1, <1>7 DEF LockOK, PushOK, Idle
  <2>2. PlaceOK(s)'
    <3>1. CASE ioStep' = ioStep \/ t = "io"
      BY <1>0, <1>1, <1>7, <3>1 DEF PlaceOK, Idle
    <3>2. CASE ioStep = "none"
      BY <1>0, <1>1, <1>7, <3>2, UnstartedIsIdle DEF PlaceOK, Idle
    <3> QED
      BY <3>1, <3>2
  <2> QED
    BY <2>1, <2>2
<1> QED
  BY <1>2, <1>4, <1>5, <1>6, <1>7 DEF ControlInv

(* Whom PostTaskHelper lets skip the lock.                                 *)
LEMMA UnlockedPosts ==
  ASSUME ControlInv, NEW t \in Threads, NEW id \in ID, TargetOutlives(t, id)
  PROVE  (t = "main" /\ id = UI) \/ (t = "io" /\ task_runners[IO] = "io")
<1>1. LivesNested
  BY DEF ControlInv
<1>2. PICK c \in ID : task_runners[c] = t /\ c >= id
  BY DEF TargetOutlives
<1>3. CASE c = UI
  <2>1. t = "main"
    BY <1>1, <1>2, <1>3 DEF LivesNested, Threads
  <2> QED
    BY <1>2, <1>3, <2>1 DEF ID, UI, IO
<1>4. CASE c = IO
  BY <1>1, <1>2, <1>4 DEF LivesNested, Threads
<1> QED
  BY <1>3, <1>4 DEF ID

(* PostTaskHelper begins.                                                  *)
LEMMA StartPostControl ==
  ASSUME ControlInv, NEW t \in Threads, Idle(t), NEW id \in ID, StartPost(t, id),
         lock' = lock, states' = states, task_runners' = task_runners,
         mainStep' = mainStep \/ t = "main", ioStep' = ioStep \/ t = "io",
         mainStep' \in {"early", "started", "registering", "registered", "running",
                        "stopping", "joining", "joined", "destroying", "done"},
         ioStep' \in {"none", "looping", "quitting", "cleaning", "dead"},
         LivesNested',
         t = "main" => mainStep' \in {"running", "stopping"},
         t = "io" => ioStep' \in {"looping", "quitting", "cleaning"}
  PROVE  ControlInv'
<1> DEFINE locks == ~TargetOutlives(t, id)
<1>1. locks \in BOOLEAN /\ Enter(t, "post", id, locks)
  BY DEF StartPost, TargetOutlives
<1>2. ~locks => (t = "main" /\ id = UI) \/ (t = "io" /\ task_runners[IO] = "io")
  BY UnlockedPosts
<1> HIDE DEF locks
<1> QED
  BY <1>1, <1>2, EnterControl

(* Tasks post tasks.                                                       *)
LEMMA PostTaskControl ==
  ASSUME ControlInv, NEW t \in Threads, NEW id \in ID, PostTask(t, id)
  PROVE  ControlInv'
<1>0. ControlTypes /\ LivesNested
  BY DEF ControlInv
<1>1. /\ Idle(t) /\ StartPost(t, id) /\ lock' = lock
      /\ states' = states /\ task_runners' = task_runners
      /\ mainStep' = mainStep /\ ioStep' = ioStep
      /\ t = "main" => mainStep \in {"running", "stopping"}
      /\ t # "io"
  BY DEF PostTask, CountedPost, CanPost, globalVars
<1>2. LivesNested'
  BY <1>0, <1>1 DEF LivesNested, IOStopping
<1> QED
  BY <1>0, <1>1, <1>2, StartPostControl DEF ControlTypes

(* WebMainLoop's steps.                                                    *)
LEMMA MainStepControl ==
  ASSUME ControlInv, MainStep \/ ShutdownThreadsAndCleanUp \/ JoinIO
  PROVE  ControlInv'
<1>0. /\ ControlTypes /\ LivesNested /\ UI \in ID /\ IO \in ID /\ UI # IO
      /\ "main" \in Threads
  BY DEF ControlInv, ID, UI, IO, Threads
<1>1. CASE InitializeMainThread
  <2>1. /\ mainStep = "early" /\ Idle("main") /\ Enter("main", "register", UI, TRUE)
        /\ lock' = lock /\ states' = states /\ task_runners' = task_runners
        /\ mainStep' = mainStep /\ ioStep' = ioStep
    BY <1>1 DEF InitializeMainThread, globalVars
  <2>2. LivesNested'
    BY <1>0, <2>1 DEF LivesNested, IOStopping
  <2> QED
    BY <1>0, <2>1, <2>2, EnterControl DEF ControlTypes
<1>2. CASE CreateThreads
  <2>1. /\ mainStep = "started" /\ Idle("main") /\ Enter("main", "register", IO, TRUE)
        /\ lock' = lock /\ states' = states /\ task_runners' = task_runners
        /\ mainStep' = "registering" /\ ioStep' = "looping"
    BY <1>2 DEF CreateThreads, MainGoes, globalVars
  <2>2. LivesNested' /\ ioStep = "none"
    BY <1>0, <2>1 DEF LivesNested, IOStopping
  <2> QED
    BY <1>0, <2>1, <2>2, EnterControl DEF ControlTypes
<1>3. CASE RegisterAsWebThread
  <2>1. /\ mainStep = "registered" /\ Idle("main") /\ call' = call
        /\ lock' = lock /\ states' = states /\ task_runners' = task_runners
        /\ mainStep' = "running" /\ ioStep' = ioStep
    BY <1>3 DEF RegisterAsWebThread, MainGoes, globalVars
  <2>2. LivesNested' /\ ControlTypes'
    BY <1>0, <2>1 DEF LivesNested, IOStopping, ControlTypes
  <2> QED
    BY <2>1, <2>2, GoesControl
<1>4. CASE UIRunTask
  <2>1. /\ call' = call /\ lock' = lock /\ states' = states
        /\ task_runners' = task_runners /\ mainStep' = mainStep /\ ioStep' = ioStep
    BY <1>4 DEF UIRunTask, globalVars
  <2>2. LivesNested' /\ ControlTypes'
    BY <1>0, <2>1 DEF LivesNested, IOStopping, ControlTypes
  <2> QED
    BY <2>1, <2>2, GoesControl
<1>5. CASE StopIO
  <2>1. /\ mainStep = "stopping" /\ Idle("main") /\ call' = call
        /\ lock' = lock /\ states' = states /\ task_runners' = task_runners
        /\ mainStep' = "joining" /\ ioStep' = ioStep
    BY <1>5 DEF StopIO, MainGoes, globalVars
  <2>2. LivesNested' /\ ControlTypes'
    BY <1>0, <2>1 DEF LivesNested, IOStopping, ControlTypes
  <2> QED
    BY <2>1, <2>2, GoesControl
<1>6. CASE DestroyMainLoop
  <2>1. /\ mainStep = "joined" /\ Idle("main") /\ Enter("main", "unregister", UI, TRUE)
        /\ lock' = lock /\ states' = states /\ task_runners' = task_runners
        /\ mainStep' = "destroying" /\ ioStep' = ioStep
    BY <1>6 DEF DestroyMainLoop, MainGoes, globalVars
  <2>2. LivesNested'
    BY <1>0, <2>1 DEF LivesNested, IOStopping
  <2> QED
    BY <1>0, <2>1, <2>2, EnterControl DEF ControlTypes
<1>7. CASE ShutdownThreadsAndCleanUp
  <2>1. /\ mainStep = "running" /\ Idle("main") /\ StartPost("main", IO)
        /\ lock' = lock /\ states' = states /\ task_runners' = task_runners
        /\ mainStep' = "stopping" /\ ioStep' = ioStep
    BY <1>7 DEF ShutdownThreadsAndCleanUp, MainGoes, globalVars
  <2>2. LivesNested'
    BY <1>0, <2>1 DEF LivesNested, IOStopping
  <2> QED
    BY <1>0, <2>1, <2>2, StartPostControl DEF ControlTypes
<1>8. CASE JoinIO
  <2>1. /\ ioStep = "dead" /\ mainStep = "joining" /\ Idle("main") /\ call' = call
        /\ lock' = lock /\ states' = states /\ task_runners' = task_runners
        /\ mainStep' = "joined" /\ ioStep' = ioStep
    BY <1>8 DEF JoinIO, MainGoes, globalVars
  <2>2. LivesNested' /\ ControlTypes'
    BY <1>0, <2>1 DEF LivesNested, IOStopping, ControlTypes
  <2> QED
    BY <2>1, <2>2, GoesControl
<1> QED
  BY <1>1, <1>2, <1>3, <1>4, <1>5, <1>6, <1>7, <1>8 DEF MainStep

(* The IO thread's steps; its loop ends only after "quit".                 *)
LEMMA IOThreadControl ==
  ASSUME ControlInv, QueueInv, IOThreadStep
  PROVE  ControlInv'
<1>0. ControlTypes /\ LivesNested /\ IO \in ID /\ "io" \in Threads /\ UI # IO
  BY DEF ControlInv, ID, UI, IO, Threads
<1>1. ASSUME NEW can, Idle("io"), MayPost(can), LivesNested', lock' = lock,
             states' = states, task_runners' = task_runners, mainStep' = mainStep,
             ioStep' \in {"looping", "quitting", "cleaning"}
      PROVE  ControlInv'
  <2>1. CASE call' = call
    <3>1. ControlTypes'
      BY <1>0, <1>1, <2>1 DEF ControlTypes
    <3> QED
      BY <1>1, <2>1, <3>1, GoesControl
  <2>2. CASE \E id \in ID : StartPost("io", id)
    BY <1>0, <1>1, <2>2, StartPostControl DEF ControlTypes
  <2> QED
    BY <1>1, <2>1, <2>2 DEF MayPost, CountedPost
<1>2. CASE IORunTask
  <2>1. /\ ioStep \in {"looping", "quitting"} /\ Idle("io") /\ queue[IO] # <<>>
        /\ ioStep' = IF Head(queue[IO]) = "quit" THEN "quitting" ELSE ioStep
        /\ MayPost(Head(queue[IO]) # "quit") /\ lock' = lock /\ states' = states
        /\ task_runners' = task_runners /\ mainStep' = mainStep
    BY <1>2 DEF IORunTask, globalVars
  <2>2. Head(queue[IO]) = "quit" => IOStopping
    <3>1. queue[IO] \in Seq(LoopTask)
      BY <1>0 DEF QueueInv
    <3>2. Head(queue[IO]) = queue[IO][1] /\ 1 \in DOMAIN queue[IO]
      BY <2>1, <3>1
    <3> QED
      BY <3>2 DEF QueueInv, HasQuit
  <2>3. LivesNested'
    BY <1>0, <2>1, <2>2 DEF LivesNested, IOStopping
  <2> QED
    BY <1>1, <2>1, <2>3
<1>3. CASE IOCleanUp
  <2>1. /\ ioStep = "quitting" /\ Idle("io") /\ ioStep' = "cleaning"
        /\ MayPost(TRUE) /\ lock' = lock /\ states' = states
        /\ task_runners' = task_runners /\ mainStep' = mainStep
    BY <1>3 DEF IOCleanUp, LoopEnds, globalVars
  <2>2. LivesNested'
    BY <1>0, <2>1 DEF LivesNested, IOStopping
  <2> QED
    BY <1>1, <2>1, <2>2
<1>4. CASE IOReset
  <2>1. /\ ioStep = "cleaning" /\ Idle("io") /\ Enter("io", "unregister", IO, TRUE)
        /\ lock' = lock /\ states' = states /\ task_runners' = task_runners
        /\ mainStep' = mainStep /\ ioStep' = ioStep
    BY <1>4 DEF IOReset, globalVars
  <2>2. LivesNested'
    BY <1>0, <2>1 DEF LivesNested, IOStopping
  <2> QED
    BY <1>0, <2>1, <2>2, EnterControl DEF ControlTypes
<1> QED
  BY <1>2, <1>3, <1>4 DEF IOThreadStep

-----------------------------------------------------------------------------
(* The queues of the message loops.                                        *)

(* Posting adds one task ...                                               *)
LEMMA AppendTask ==
  ASSUME NEW S, NEW q \in Seq(S), NEW e \in S
  PROVE  /\ Append(q, e) \in Seq(S)
         /\ HasQuit(Append(q, e)) => HasQuit(q) \/ e = "quit"
         /\ LeftOver(q) /\ e \in {"worker", "cleanup"} => LeftOver(Append(q, e))
<1> DEFINE p == Append(q, e)
<1>0. Len(q) \in Nat /\ DOMAIN q = 1..Len(q)
  BY LenProperties
<1>1. /\ p \in Seq(S) /\ Len(p) = Len(q) + 1 /\ p[Len(q) + 1] = e
      /\ \A i \in 1..Len(q) : p[i] = q[i]
  BY AppendProperties
<1> HIDE DEF p
<1>2. \A i \in DOMAIN p : (i \in DOMAIN q /\ p[i] = q[i]) \/ p[i] = e
  <2>1. DOMAIN p = 1..(Len(q) + 1)
    BY <1>1, LenProperties
  <2> QED
    BY <1>0, <1>1, <2>1
<1>3. /\ HasQuit(p) => HasQuit(q) \/ e = "quit"
      /\ LeftOver(q) /\ e \in {"worker", "cleanup"} => LeftOver(p)
  BY <1>2 DEF HasQuit, LeftOver
<1> QED
  BY <1>1, <1>3 DEF p

(* ... and running takes one away.                                         *)
LEMMA TailTask ==
  ASSUME NEW S, NEW q \in Seq(S), q # <<>>
  PROVE  /\ Tail(q) \in Seq(S)
         /\ HasQuit(Tail(q)) => HasQuit(q)
         /\ LeftOver(q) => LeftOver(Tail(q))
<1> DEFINE p == Tail(q)
<1>0. Len(q) \in Nat \ {0} /\ DOMAIN q = 1..Len(q)
  BY LenProperties, EmptySeq
<1>1. /\ p \in Seq(S) /\ Len(p) = Len(q) - 1
      /\ \A i \in 1..Len(p) : p[i] = q[i + 1]
  BY HeadTailProperties
<1> HIDE DEF p
<1>2. \A i \in DOMAIN p : i + 1 \in DOMAIN q /\ p[i] = q[i + 1]
  <2>1. DOMAIN p = 1..(Len(q) - 1)
    BY <1>1, LenProperties
  <2> QED
    BY <1>0, <1>1, <2>1
<1>3. /\ HasQuit(p) => HasQuit(q)
      /\ LeftOver(q) => LeftOver(p)
  BY <1>2 DEF HasQuit, LeftOver
<1> QED
  BY <1>1, <1>3 DEF p

(* A task is posted to a message loop: "quit" by the UI thread that stops,  *)
(* and to a loop that has ended only what CleanUp or a worker posts.        *)
LEMMA PostedKeepsQueues ==
  ASSUME QueueInv, NEW id \in ID, NEW e \in LoopTask,
         queue' = [queue EXCEPT ![id] = Append(@, e)],
         id = IO /\ e = "quit" => IOStopping',
         IOStopping => IOStopping',
         id = IO /\ ioStep' \in {"cleaning", "dead"} => e \in {"worker", "cleanup"},
         ioStep' \in {"cleaning", "dead"} => ioStep \in {"cleaning", "dead"},
         delegate' \in {"unset", "set", "initialized", "cleaned"}, posts' \in 0..MaxPosts
  PROVE  QueueInv'
<1> DEFINE q == queue[id]
<1>0. queue \in [ID -> Seq(LoopTask)] /\ IO \in ID /\ q \in Seq(LoopTask)
  BY DEF QueueInv, ID
<1>1. queue' = [queue EXCEPT ![id] = Append(q, e)]
  OBVIOUS
<1> HIDE DEF q
<1>2. /\ Append(q, e) \in Seq(LoopTask)
      /\ HasQuit(Append(q, e)) => HasQuit(q) \/ e = "quit"
      /\ LeftOver(q) /\ e \in {"worker", "cleanup"} => LeftOver(Append(q, e))
  BY <1>0, AppendTask
<1>3. queue' \in [ID -> Seq(LoopTask)]
  BY <1>0, <1>1, <1>2
<1>4. \/ id # IO /\ queue'[IO] = queue[IO]
      \/ id = IO /\ queue'[IO] = Append(q, e) /\ q = queue[IO]
  BY <1>0, <1>1 DEF q
<1>5. HasQuit(queue'[IO]) => IOStopping'
  BY <1>2, <1>4 DEF QueueInv
<1>6. ioStep' \in {"cleaning", "dead"} => LeftOver(queue'[IO])
  BY <1>2, <1>4 DEF QueueInv
<1> QED
  BY <1>3, <1>5, <1>6 DEF QueueInv

(* A message loop runs a task.                                             *)
LEMMA RunKeepsQueues ==
  ASSUME QueueInv, NEW id \in ID, queue[id] # <<>>,
         queue' = [queue EXCEPT ![id] = Tail(@)],
         IOStopping => IOStopping',
         ioStep' \in {"cleaning", "dead"} => ioStep \in {"cleaning", "dead"},
         delegate' \in {"unset", "set", "initialized", "cleaned"}, posts' \in 0..MaxPosts
  PROVE  QueueInv'
<1> DEFINE q == queue[id]
<1>0. /\ queue \in [ID -> Seq(LoopTask)] /\ IO \in ID /\ q \in Seq(LoopTask)
      /\ q # <<>>
  BY DEF QueueInv, ID
<1>1. queue' = [queue EXCEPT ![id] = Tail(q)]
  OBVIOUS
<1> HIDE DEF q
<1>2. /\ Tail(q) \in Seq(LoopTask)
      /\ HasQuit(Tail(q)) => HasQuit(q)
      /\ LeftOver(q) => LeftOver(Tail(q))
  BY <1>0, TailTask
<1>3. queue' \in [ID -> Seq(LoopTask)]
  BY <1>0, <1>1, <1>2
<1>4. \/ queue'[IO] = queue[IO]
      \/ queue'[IO] = Tail(q) /\ q = queue[IO]
  BY <1>0, <1>1 DEF q
<1>5. /\ HasQuit(queue'[IO]) => IOStopping'
      /\ ioStep' \in {"cleaning", "dead"} => LeftOver(queue'[IO])
  BY <1>2, <1>4 DEF QueueInv
<1> QED
  BY <1>3, <1>5 DEF QueueInv

(* The loops are left alone.                                               *)
LEMMA SameQueues ==
  ASSUME QueueInv, queue' = queue,
         IOStopping => IOStopping',
         ioStep' \in {"cleaning", "dead"} =>
           ioStep \in {"cleaning", "dead"} \/ queue[IO] = <<>>,
         delegate' \in {"unset", "set", "initialized", "cleaned"}, posts' \in 0..MaxPosts
  PROVE  QueueInv'
<1>1. queue[IO] = <<>> => LeftOver(queue[IO])
  BY DEF LeftOver
<1> QED
  BY <1>1 DEF QueueInv

-----------------------------------------------------------------------------
(* The steps of the threads and their queues.                              *)

(* A call pushes the task it posts: the UI thread none after "quit".        *)
LEMMA CallStepQueues ==
  ASSUME ControlInv, QueueInv, NEW t \in Threads, CallStep(t)
  PROVE  QueueInv'
<1>0. /\ ControlTypes /\ LivesNested /\ PlaceOK(t) /\ PushOK(t)
      /\ delegate \in {"unset", "set", "initialized", "cleaned"} /\ posts \in 0..MaxPosts
  BY DEF ControlInv, QueueInv
<1>1. CASE Acquire(t) \/ ReadState(t)
  BY <1>0, <1>1, SameQueues DEF Acquire, ReadState, IOStopping
<1>2. CASE Register(t)
  <2>1. /\ call[t].op = "register" /\ ~Idle(t) /\ queue' = queue /\ ioStep' = ioStep
        /\ delegate' = delegate /\ posts' = posts
    BY <1>2 DEF Register
  <2>2. ~IOStopping
    BY <1>0, <2>1 DEF PlaceOK, IOStopping
  <2> QED
    BY <1>0, <2>1, <2>2, SameQueues
<1>3. CASE Unregister(t)
  <2>1. /\ call[t].op = "unregister" /\ ~Idle(t) /\ queue' = queue
        /\ delegate' = delegate /\ posts' = posts
        /\ mainStep' = IF call[t].id = UI THEN "done" ELSE mainStep
        /\ ioStep' = IF call[t].id = IO THEN "dead" ELSE ioStep
    BY <1>3 DEF Unregister
  <2>2. call[t].id = IO => ioStep = "cleaning"
    BY <1>0, <2>1 DEF PlaceOK, UI, IO
  <2> QED
    BY <1>0, <2>1, <2>2, SameQueues DEF IOStopping
<1>4. CASE Push(t)
  <2> DEFINE e == IF t = "io" /\ ioStep = "cleaning" THEN "cleanup" ELSE t
             id == call[t].id
  <2>1. /\ ~Idle(t) /\ call[t].step = "push" /\ queue' = [queue EXCEPT ![id] = Append(@, e)]
        /\ mainStep' = mainStep /\ ioStep' = ioStep /\ delegate' = delegate
        /\ posts' = posts
    BY <1>4 DEF Push
  <2>2. e \in LoopTask /\ e # "quit"
    BY DEF LoopTask, Threads
  <2>3. id \in ID /\ call[t].op = "post"
    BY <1>0, <2>1, CallFacts DEF ControlTypes, Idle, PushOK
  <2>4. ioStep \in {"cleaning", "dead"} => e \in {"worker", "cleanup"}
    BY <1>0, <2>1, <2>3 DEF PlaceOK, LivesNested, IOStopping, Threads
  <2> HIDE DEF e, id
  <2> QED
    BY <1>0, <2>1, <2>2, <2>3, <2>4, PostedKeepsQueues DEF IOStopping
<1> QED
  BY <1>1, <1>2, <1>3, <1>4 DEF CallStep

(* WebMainLoop's steps: "init" and "quit" are posted by the thread itself. *)
LEMMA MainStepQueues ==
  ASSUME ControlInv, QueueInv, MainStep \/ ShutdownThreadsAndCleanUp \/ JoinIO
  PROVE  QueueInv'
<1>0. /\ ControlTypes /\ LivesNested /\ IO \in ID /\ UI \in ID
      /\ delegate \in {"unset", "set", "initialized", "cleaned"} /\ posts \in 0..MaxPosts
  BY DEF ControlInv, QueueInv, ID
<1>1. CASE InitializeMainThread
  BY <1>0, <1>1, SameQueues DEF InitializeMainThread, IOStopping
<1>2. CASE CreateThreads
  BY <1>0, <1>2, SameQueues DEF CreateThreads, MainGoes, IOStopping
<1>3. CASE RegisterAsWebThread
  <2>1. /\ queue' = [queue EXCEPT ![IO] = @ \o <<"init">>]
        /\ mainStep = "registered" /\ mainStep' = "running" /\ ioStep' = ioStep
        /\ delegate' = delegate /\ posts' = posts
    BY <1>3 DEF RegisterAsWebThread, MainGoes, InitTask
  <2>2. queue' = [queue EXCEPT ![IO] = Append(@, "init")]
    <3>1. queue[IO] \in Seq(LoopTask) /\ "init" \in LoopTask
      BY <1>0 DEF QueueInv, LoopTask
    <3>2. queue[IO] \o <<"init">> = Append(queue[IO], "init")
      BY <3>1
    <3> QED
      BY <2>1, <3>2
  <2>3. ioStep \notin {"cleaning", "dead"} /\ ~IOStopping /\ "init" \in LoopTask
    BY <1>0, <2>1 DEF LivesNested, IOStopping, LoopTask
  <2> QED
    BY <1>0, <2>1, <2>2, <2>3, PostedKeepsQueues
<1>4. CASE UIRunTask
  BY <1>0, <1>4, RunKeepsQueues DEF UIRunTask, IOStopping
<1>5. CASE StopIO
  <2>1. /\ queue' = [queue EXCEPT ![IO] = Append(@, "quit")]
        /\ mainStep = "stopping" /\ mainStep' = "joining" /\ ioStep' = ioStep
        /\ delegate' = delegate /\ posts' = posts
    BY <1>5 DEF StopIO, MainGoes
  <2>2. ioStep \notin {"cleaning", "dead"} /\ IOStopping' /\ "quit" \in LoopTask
    BY <1>0, <2>1 DEF LivesNested, IOStopping, LoopTask
  <2> QED
    BY <1>0, <2>1, <2>2, PostedKeepsQueues
<1>6. CASE DestroyMainLoop
  BY <1>0, <1>6, SameQueues DEF DestroyMainLoop, MainGoes, IOStopping
<1>7. CASE ShutdownThreadsAndCleanUp
  BY <1>0, <1>7, SameQueues DEF ShutdownThreadsAndCleanUp, MainGoes, IOStopping
<1>8. CASE JoinIO
  BY <1>0, <1>8, SameQueues DEF JoinIO, MainGoes, IOStopping
<1> QED
  BY <1>1, <1>2, <1>3, <1>4, <1>5, <1>6, <1>7, <1>8 DEF MainStep

(* A counted post is within its bound.                                     *)
LEMMA CountedPostFacts ==
  ASSUME QueueInv, NEW t, NEW id, CountedPost(t, id)
  PROVE  posts' \in 0..MaxPosts
  BY PostsAssumption DEF QueueInv, CountedPost

(* Tasks post tasks.                                                       *)
LEMMA PostTaskQueues ==
  ASSUME QueueInv, NEW t, NEW id, PostTask(t, id)
  PROVE  QueueInv'
<1>1. /\ CountedPost(t, id) /\ queue' = queue /\ mainStep' = mainStep
      /\ ioStep' = ioStep /\ delegate' = delegate
  BY DEF PostTask
<1>2. posts' \in 0..MaxPosts
  BY <1>1, CountedPostFacts
<1>3. delegate \in {"unset", "set", "initialized", "cleaned"}
  BY DEF QueueInv
<1> QED
  BY <1>1, <1>2, <1>3, SameQueues DEF IOStopping

(* The IO thread's steps: the loop ends when its queue is empty.           *)
LEMMA IOThreadQueues ==
  ASSUME QueueInv, IOThreadStep
  PROVE  QueueInv'
<1>0. /\ IO \in ID
      /\ delegate \in {"unset", "set", "initialized", "cleaned"} /\ posts \in 0..MaxPosts
  BY DEF QueueInv, ID
<1>1. ASSUME NEW can, MayPost(can) PROVE posts' \in 0..MaxPosts
  BY <1>0, <1>1, CountedPostFacts DEF MayPost
<1>2. CASE IORunTask
  <2>1. /\ ioStep \in {"looping", "quitting"} /\ queue[IO] # <<>>
        /\ queue' = [queue EXCEPT ![IO] = Tail(@)]
        /\ ioStep' \in {"looping", "quitting"} /\ mainStep' = mainStep
        /\ delegate' \in {"initialized", delegate}
        /\ MayPost(Head(queue[IO]) # "quit")
    BY <1>2 DEF IORunTask
  <2>2. posts' \in 0..MaxPosts
    BY <1>1, <2>1
  <2> QED
    BY <1>0, <2>1, <2>2, RunKeepsQueues DEF IOStopping
<1>3. CASE IOCleanUp
  <2>1. /\ queue[IO] = <<>> /\ queue' = queue /\ mainStep' = mainStep
        /\ delegate' \in {"cleaned", delegate} /\ MayPost(TRUE)
    BY <1>3 DEF IOCleanUp, LoopEnds
  <2>2. posts' \in 0..MaxPosts
    BY <1>1, <2>1
  <2> QED
    BY <1>0, <2>1, <2>2, SameQueues DEF IOStopping
<1>4. CASE IOReset
  BY <1>0, <1>4, SameQueues DEF IOReset, IOStopping
<1> QED
  BY <1>2, <1>3, <1>4 DEF IOThreadStep

-----------------------------------------------------------------------------
(* The steps of the connection, which use the queues and no call.          *)

(* The threads stay where they are.                                        *)
LEMMA OtherVarsControl ==
  ASSUME ControlInv, UNCHANGED otherVars
  PROVE  ControlInv'
<1>1. /\ call' = call /\ lock' = lock /\ states' = states
      /\ task_runners' = task_runners /\ mainStep' = mainStep /\ ioStep' = ioStep
  BY DEF otherVars, globalVars
<1>2. ControlTypes' /\ LivesNested'
  BY <1>1 DEF ControlInv, ControlTypes, LivesNested, IOStopping
<1> QED
  BY <1>1, <1>2, GoesControl

(* The connection is used by the UI thread while its loop runs, and by the  *)
(* IO thread.                                                               *)
LEMMA ConnectionSteps ==
  ASSUME ControlInv, QueueInv,
         \/ StartConnection \/ DestroyConnection \/ RunConnectionUITask
         \/ RunConnectionTask \/ DestroyIOLoop \/ ReceiveCreateService
         \/ LosesConnection
  PROVE  ControlInv' /\ QueueInv'
<1>0. /\ ControlTypes /\ LivesNested /\ UI \in ID /\ IO \in ID /\ UI # IO
      /\ delegate \in {"unset", "set", "initialized", "cleaned"} /\ posts \in 0..MaxPosts
      /\ queue \in [ID -> Seq(LoopTask)]
  BY DEF ControlInv, QueueInv, ID, UI, IO
<1>1. UNCHANGED otherVars
  BY DEF StartConnection, DestroyConnection, RunConnectionUITask, RunConnectionTask,
         DestroyIOLoop, ReceiveCreateService, LosesConnection
<1>2. /\ mainStep' = mainStep /\ ioStep' = ioStep /\ delegate' = delegate
      /\ posts' = posts /\ IOStopping' = IOStopping
  BY <1>1 DEF otherVars, IOStopping
<1>3. {"StartOnIOThread", "ShutDownOnIOThread", "stop_callback", "CreateService"}
        \subseteq LoopTask
  BY TasksAssumption DEF LoopTask, IOTasks, UITasks
<1>4. ASSUME OnUI PROVE ioStep \notin {"cleaning", "dead"}
  BY <1>0, <1>4 DEF OnUI, LivesNested, IOStopping
<1>5. CASE StartConnection
  <2>1. OnUI /\ queue' = [queue EXCEPT ![IO] = Append(@, "StartOnIOThread")]
    BY <1>5 DEF StartConnection, Posts
  <2> QED
    BY <1>0, <1>1, <1>2, <1>3, <1>4, <2>1, OtherVarsControl, PostedKeepsQueues
<1>6. CASE DestroyConnection
  <2>1. /\ OnUI
        /\ \/ queue' = [queue EXCEPT ![IO] = Append(@, "ShutDownOnIOThread")]
           \/ queue' = queue
    BY <1>6 DEF DestroyConnection, Posts
  <2>2. QueueInv'
    <3>1. CASE queue' = queue
      BY <1>0, <1>2, <3>1, SameQueues
    <3>2. CASE queue' = [queue EXCEPT ![IO] = Append(@, "ShutDownOnIOThread")]
      BY <1>0, <1>2, <1>3, <1>4, <2>1, <3>2, PostedKeepsQueues
    <3> QED
      BY <2>1, <3>1, <3>2
  <2> QED
    BY <1>1, <2>2, OtherVarsControl
<1>7. CASE RunConnectionUITask
  <2>1. queue[UI] # <<>> /\ queue' = [queue EXCEPT ![UI] = Tail(@)]
    BY <1>7 DEF RunConnectionUITask, Runs
  <2> QED
    BY <1>0, <1>1, <1>2, <2>1, OtherVarsControl, RunKeepsQueues
<1>8. CASE RunConnectionTask
  <2>1. queue[IO] # <<>> /\ queue' = [queue EXCEPT ![IO] = Tail(@)]
    BY <1>8 DEF RunConnectionTask, Runs
  <2> QED
    BY <1>0, <1>1, <1>2, <2>1, OtherVarsControl, RunKeepsQueues
<1>9. CASE DestroyIOLoop
  <2>1. queue' = [queue EXCEPT ![IO] = <<>>]
    BY <1>9 DEF DestroyIOLoop
  <2>2. queue' \in [ID -> Seq(LoopTask)] /\ queue'[IO] = <<>>
    <3>1. <<>> \in Seq(LoopTask)
      BY EmptySeq
    <3> QED
      BY <1>0, <2>1, <3>1
  <2>3. ~HasQuit(queue'[IO]) /\ LeftOver(queue'[IO])
    BY <2>2 DEF HasQuit, LeftOver
  <2>4. QueueInv'
    BY <1>0, <1>2, <2>2, <2>3 DEF QueueInv
  <2> QED
    BY <1>1, <2>4, OtherVarsControl
<1>10. CASE ReceiveCreateService
  <2>1. queue' = [queue EXCEPT ![UI] = Append(@, "CreateService")]
    BY <1>10 DEF ReceiveCreateService, Posts
  <2> QED
    BY <1>0, <1>1, <1>2, <1>3, <2>1, OtherVarsControl, PostedKeepsQueues
<1>11. CASE LosesConnection
  <2>1. queue' = [queue EXCEPT ![UI] = Append(@, "stop_callback")]
    BY <1>11 DEF LosesConnection, Posts, C!StopTask
  <2> QED
    BY <1>0, <1>1, <1>2, <1>3, <2>1, OtherVarsControl, PostedKeepsQueues
<1> QED
  BY <1>5, <1>6, <1>7, <1>8, <1>9, <1>10, <1>11

(* A step that leaves the threads and their queues alone.                  *)
LEMMA UnchangedKeepsThreads ==
  ASSUME ControlInv, QueueInv, UNCHANGED vars
  PROVE  ControlInv' /\ QueueInv'
<1>1. UNCHANGED otherVars /\ queue' = queue /\ ioStep' = ioStep /\ mainStep' = mainStep
        /\ delegate' = delegate /\ posts' = posts
  BY DEF vars, otherVars, globalVars
<1>2. delegate \in {"unset", "set", "initialized", "cleaned"} /\ posts \in 0..MaxPosts
  BY DEF QueueInv
<1> QED
  BY <1>1, <1>2, OtherVarsControl, SameQueues DEF IOStopping

-----------------------------------------------------------------------------
(* The start of the program: nobody is registered and nothing is queued.    *)
LEMMA InitEstablishesThreadsInv == AllInit => ThreadsInv
<1> SUFFICES ASSUME Init PROVE ControlInv /\ QueueInv
  BY ThreadsInvParts DEF AllInit
<1>0. UI \in ID /\ IO \in ID
  BY DEF ID
<1>1. \A t \in Threads : call[t] = NoCall /\ lock # t
  BY DEF Init, Threads
<1>2. \A t \in Threads : LockOK(t) /\ PlaceOK(t) /\ PushOK(t)
  BY <1>1 DEF LockOK, PlaceOK, PushOK, Idle
<1>3. ControlTypes
  BY DEF Init, ControlTypes
<1>4. LivesNested
  BY <1>0 DEF Init, LivesNested, IOStopping
<1>5. queue \in [ID -> Seq(LoopTask)] /\ queue[IO] = <<>>
  <2>1. <<>> \in Seq(LoopTask)
    BY EmptySeq
  <2> QED
    BY <1>0, <2>1 DEF Init
<1>6. QueueInv
  <2>1. ~HasQuit(queue[IO]) /\ LeftOver(queue[IO])
    BY <1>5 DEF HasQuit, LeftOver
  <2>2. delegate \in {"unset", "set"} /\ posts \in 0..MaxPosts
    BY PostsAssumption DEF Init
  <2> QED
    BY <1>5, <2>1, <2>2 DEF QueueInv
<1> QED
  BY <1>2, <1>3, <1>4, <1>6 DEF ControlInv

(* Every step of the threads and of the connection keeps the protocol.     *)
LEMMA NextKeepsThreadsInv == ThreadsInv /\ [AllNext]_allVars => ThreadsInv'
<1> SUFFICES ASSUME ControlInv, QueueInv, [AllNext]_allVars
             PROVE  ControlInv' /\ QueueInv'
  <2>1. ThreadsInv' <=> ControlInv' /\ QueueInv'
    BY ThreadsInvParts, PTL
  <2> QED
    BY <2>1, ThreadsInvParts
<1>1. CASE \E t \in Threads : ThreadCall(t)
  <2>1. PICK t \in Threads : CallStep(t)
    BY <1>1 DEF ThreadCall
  <2>2. ControlInv'
    BY <2>1, AcquireControl, RegisterControl, UnregisterControl, ReadStateControl,
       PushControl DEF CallStep
  <2> QED
    BY <2>1, <2>2, CallStepQueues
<1>2. CASE \E t \in Threads, id \in ID : ThreadPost(t, id)
  BY <1>2, PostTaskControl, PostTaskQueues DEF ThreadPost
<1>3. CASE MainThread \/ BeginShutdown \/ Join
  BY <1>3, MainStepControl, MainStepQueues DEF MainThread, BeginShutdown, Join
<1>4. CASE IOThread
  BY <1>4, IOThreadControl, IOThreadQueues DEF IOThread
<1>5. CASE \/ StartConnection \/ DestroyConnection \/ RunConnectionUITask
           \/ RunConnectionTask \/ DestroyIOLoop \/ ReceiveCreateService
           \/ LosesConnection
  BY <1>5, ConnectionSteps
<1>6. CASE RunFrame \/ ReceiveBindInterface \/ UNCHANGED allVars
  BY <1>6, UnchangedKeepsThreads DEF RunFrame, ReceiveBindInterface, allVars
<1> QED
  BY <1>1, <1>2, <1>3, <1>4, <1>5, <1>6 DEF AllNext

(* The threads keep the protocol of the lock and of the shutdown, whatever  *)
(* they post and whatever the connection does.                              *)
THEOREM ThreadsInvariance == Spec => []ThreadsInv
  BY InitEstablishesThreadsInv, NextKeepsThreadsInv, PTL DEF Spec

(* PostTaskHelper may skip the lock: what it reads without it is not        *)
(* written, and is still so when it uses it.                                *)
THEOREM UnlockedReadIsAlwaysSafe == Spec => []UnlockedReadIsSafe
  BY ThreadsInvariance, ThreadsInvImpliesSafe, PTL

(* A task that the UI thread, or the IO thread in its loop, has posted to   *)
(* the IO thread has run when that thread goes.                             *)
THEOREM WellKnownTasksAlwaysRun == Spec => []WellKnownTasksRun
<1>1. ThreadsInv => WellKnownTasksRun
  BY DEF ThreadsInv
<1> QED
  BY <1>1, ThreadsInvariance, PTL

-----------------------------------------------------------------------------
(* The connection.                                                         *)

(* The stacks are told apart by their frames.                              *)
LEMMA StacksDiffer ==
  /\ C!Empty \notin {C!Starting, C!TaskRuns, C!TaskShuts, C!TaskDeletes, C!TaskClears, C!TaskCloses,
                    C!LoopShuts, C!LoopRuns, C!LoopReturns, C!LoopClears, C!LoopCloses, C!LoopDeletes}
  /\ C!Starting \notin {C!TaskRuns, C!TaskShuts, C!TaskDeletes, C!TaskClears, C!TaskCloses, C!LoopShuts,
                    C!LoopRuns, C!LoopReturns, C!LoopClears, C!LoopCloses, C!LoopDeletes}
  /\ C!TaskRuns \notin {C!TaskShuts, C!TaskDeletes, C!TaskClears, C!TaskCloses, C!LoopShuts, C!LoopRuns,
                    C!LoopReturns, C!LoopClears, C!LoopCloses, C!LoopDeletes}
  /\ C!TaskShuts \notin {C!TaskDeletes, C!TaskClears, C!TaskCloses, C!LoopShuts, C!LoopRuns,
                    C!LoopReturns, C!LoopClears, C!LoopCloses, C!LoopDeletes}
  /\ C!TaskDeletes \notin {C!TaskClears, C!TaskCloses, C!LoopShuts, C!LoopRuns, C!LoopReturns,
                    C!LoopClears, C!LoopCloses, C!LoopDeletes}
  /\ C!TaskClears \notin {C!TaskCloses, C!LoopShuts, C!LoopRuns, C!LoopReturns, C!LoopClears,
                    C!LoopCloses, C!LoopDeletes}
  /\ C!TaskCloses \notin {C!LoopShuts, C!LoopRuns, C!LoopReturns, C!LoopClears, C!LoopCloses,
                    C!LoopDeletes}
  /\ C!LoopShuts \notin {C!LoopRuns, C!LoopReturns, C!LoopClears, C!LoopCloses, C!LoopDeletes}
  /\ C!LoopRuns \notin {C!LoopReturns, C!LoopClears, C!LoopCloses, C!LoopDeletes}
  /\ C!LoopReturns \notin {C!LoopClears, C!LoopCloses, C!LoopDeletes}
  /\ C!LoopClears \notin {C!LoopCloses, C!LoopDeletes}
  /\ C!LoopCloses \notin {C!LoopDeletes}
  BY DEF C!Empty, C!Starting, C!TaskRuns, C!TaskShuts, C!TaskDeletes, C!TaskClears,
     C!TaskCloses,
         C!LoopShuts, C!LoopRuns, C!LoopReturns, C!LoopClears, C!LoopCloses, C!LoopDeletes

(* A frame in front of another.                                            *)
LEMMA FrameInFront ==
  ASSUME NEW a, NEW b, NEW c
  PROVE  /\ <<a>> \o <<b>> = <<a, b>>
         /\ <<a, b>> \o <<c>> = <<a, b, c>>
<1> DEFINE S == {a, b, c}
           p == <<a>>
           q == <<b>>
           r == <<a, b>>
           s == <<c>>
           t == <<a, b, c>>
           u == p \o q
           v == r \o s
<1>1. /\ p \in Seq(S) /\ Len(p) = 1 /\ p[1] = a
      /\ q \in Seq(S) /\ Len(q) = 1 /\ q[1] = b
      /\ r \in Seq(S) /\ Len(r) = 2 /\ r[1] = a /\ r[2] = b
      /\ s \in Seq(S) /\ Len(s) = 1 /\ s[1] = c
      /\ t \in Seq(S) /\ Len(t) = 3 /\ t[1] = a /\ t[2] = b /\ t[3] = c
  OBVIOUS
<1> HIDE DEF S, p, q, r, s, t
<1>2. /\ u \in Seq(S) /\ Len(u) = Len(p) + Len(q)
      /\ \A i \in 1..(Len(p) + Len(q)) : u[i] = IF i <= Len(p) THEN p[i] ELSE q[i - Len(p)]
  BY <1>1, ConcatProperties
<1>3. /\ v \in Seq(S) /\ Len(v) = Len(r) + Len(s)
      /\ \A i \in 1..(Len(r) + Len(s)) : v[i] = IF i <= Len(r) THEN r[i] ELSE s[i - Len(r)]
  BY <1>1, ConcatProperties
<1> HIDE DEF u, v
<1>4. Len(u) = 2 /\ \A i \in 1..2 : u[i] = r[i]
  BY <1>1, <1>2
<1>5. Len(v) = 3 /\ \A i \in 1..3 : v[i] = t[i]
  BY <1>1, <1>3
<1>6. u = r
  BY <1>1, <1>2, <1>4, SeqEqual
<1>7. v = t
  BY <1>1, <1>3, <1>5, SeqEqual
<1> QED
  BY <1>6, <1>7 DEF u, v, p, q, r, s, t

(* A stack without its innermost frame.                                    *)
LEMMA FrameBehind ==
  ASSUME NEW a, NEW b
  PROVE  Tail(<<a, b>>) = <<b>>
OBVIOUS

(* A stack of three frames without its innermost one.                      *)
LEMMA FramesBehind ==
  ASSUME NEW a, NEW b, NEW c
  PROVE  Tail(<<a, b, c>>) = <<b, c>>
OBVIOUS

(* What a return leaves on the stack ...                                   *)
LEMMA Returns ==
  /\ Tail(C!Starting) = C!Empty /\ Tail(C!TaskRuns) = C!Empty /\ Tail(C!TaskShuts) = C!TaskClears
  /\ Tail(C!TaskDeletes) = C!TaskClears /\ Tail(C!TaskClears) = C!Empty /\ Tail(C!TaskCloses) = C!Empty
  /\ Tail(C!LoopShuts) = C!Empty /\ Tail(C!LoopRuns) = C!LoopDeletes /\ Tail(C!LoopReturns) = C!LoopClears
  /\ Tail(C!LoopClears) = C!LoopDeletes /\ Tail(C!LoopCloses) = C!LoopDeletes
  /\ Tail(C!LoopDeletes) = C!Empty
<1>1. Tail(C!Starting) = C!Empty /\ Tail(C!TaskRuns) = C!Empty /\ Tail(C!TaskClears) = C!Empty
  BY DEF C!Empty, C!Starting, C!TaskRuns, C!TaskClears
<1>2. Tail(C!TaskCloses) = C!Empty /\ Tail(C!LoopShuts) = C!Empty /\ Tail(C!LoopDeletes) = C!Empty
  BY DEF C!Empty, C!TaskCloses, C!LoopShuts, C!LoopDeletes
<1>3. Tail(C!TaskShuts) = C!TaskClears /\ Tail(C!TaskDeletes) = C!TaskClears
  BY FrameBehind, Zenon DEF C!TaskShuts, C!TaskDeletes, C!TaskClears
<1>4. /\ Tail(C!LoopRuns) = C!LoopDeletes /\ Tail(C!LoopClears) = C!LoopDeletes
      /\ Tail(C!LoopCloses) = C!LoopDeletes
  BY FrameBehind, Zenon DEF C!LoopRuns, C!LoopClears, C!LoopCloses, C!LoopDeletes
<1>5. Tail(C!LoopReturns) = C!LoopClears
  BY FramesBehind, Zenon DEF C!LoopReturns, C!LoopClears
<1> QED
  BY <1>1, <1>2, <1>3, <1>4, <1>5

(* ... and a call.                                                         *)
LEMMA CallsBelow ==
  /\ <<"ShutDown", "clear">> \o C!Empty = C!TaskShuts
  /\ <<"ShutDown", "clear">> \o C!LoopDeletes = C!LoopReturns
  /\ <<"close">> \o C!Empty = C!TaskCloses /\ <<"close">> \o C!LoopDeletes = C!LoopCloses
  /\ <<"delete this">> \o C!TaskClears = C!TaskDeletes /\ <<"delete this">> \o C!Empty = C!LoopDeletes
  /\ <<"ShutDownOnIOThread", "delete this">> \o C!Empty = C!LoopRuns
<1>1. /\ <<"ShutDown", "clear">> \o C!Empty = C!TaskShuts
      /\ <<"ShutDownOnIOThread", "delete this">> \o C!Empty = C!LoopRuns
  BY DEF C!Empty, C!TaskShuts, C!LoopRuns
<1>2. <<"close">> \o C!Empty = C!TaskCloses /\ <<"delete this">> \o C!Empty = C!LoopDeletes
  BY DEF C!Empty, C!TaskCloses, C!LoopDeletes
<1>3. /\ <<"ShutDown", "clear">> \o C!LoopDeletes = C!LoopReturns
      /\ <<"close">> \o C!LoopDeletes = C!LoopCloses
      /\ <<"delete this">> \o C!TaskClears = C!TaskDeletes
  BY FrameInFront, Zenon DEF C!LoopDeletes, C!LoopReturns, C!LoopCloses, C!TaskClears,
     C!TaskDeletes
<1> QED
  BY <1>1, <1>2, <1>3

(* The tasks of the connection.                                            *)
LEMMA TaskFacts ==
  /\ Len(C!StartTask) = 1 /\ C!StartTask[1] = "StartOnIOThread"
  /\ Len(C!ShutDownTask) = 1 /\ C!ShutDownTask[1] = "ShutDownOnIOThread"
  /\ Len(C!BothTasks) = 2 /\ C!BothTasks[1] = "StartOnIOThread"
  /\ Append(C!Empty, "StartOnIOThread") = C!StartTask
  /\ Append(C!Empty, "ShutDownOnIOThread") = C!ShutDownTask
  /\ Append(C!StartTask, "ShutDownOnIOThread") = C!BothTasks
  /\ Tail(C!StartTask) = C!Empty /\ Tail(C!ShutDownTask) = C!Empty /\ Tail(C!BothTasks) = C!ShutDownTask
  /\ Head(C!StartTask) = "StartOnIOThread" /\ Head(C!BothTasks) = "StartOnIOThread"
  /\ Head(C!ShutDownTask) = "ShutDownOnIOThread"
  /\ <<"StartOnIOThread">> = C!Starting /\ <<"ShutDownOnIOThread">> = C!TaskRuns
  /\ <<"ShutDown">> = C!LoopShuts
<1>1. /\ Len(C!StartTask) = 1 /\ C!StartTask[1] = "StartOnIOThread"
      /\ Len(C!ShutDownTask) = 1 /\ C!ShutDownTask[1] = "ShutDownOnIOThread"
      /\ Len(C!BothTasks) = 2 /\ C!BothTasks[1] = "StartOnIOThread"
  BY DEF C!StartTask, C!ShutDownTask, C!BothTasks
<1>2. /\ Append(C!Empty, "StartOnIOThread") = C!StartTask
      /\ Append(C!Empty, "ShutDownOnIOThread") = C!ShutDownTask
  BY DEF C!Empty, C!StartTask, C!ShutDownTask
<1>3. Append(C!StartTask, "ShutDownOnIOThread") = C!BothTasks
  <2> DEFINE S == {"StartOnIOThread", "ShutDownOnIOThread"}
  <2>0. "ShutDownOnIOThread" \in S
    OBVIOUS
  <2>1. C!StartTask \in Seq(S)
    BY DEF C!StartTask
  <2> HIDE DEF S
  <2>2. Append(C!StartTask, "ShutDownOnIOThread") = C!StartTask \o <<"ShutDownOnIOThread">>
    BY <2>0, <2>1, AppendIsConcat
  <2> QED
    BY <2>2, FrameInFront, Zenon DEF C!StartTask, C!BothTasks
<1>4. Tail(C!StartTask) = C!Empty /\ Tail(C!ShutDownTask) = C!Empty
  BY DEF C!StartTask, C!ShutDownTask, C!Empty
<1>t. Tail(C!BothTasks) = C!ShutDownTask
  BY FrameBehind, Zenon DEF C!ShutDownTask, C!BothTasks
<1>5. /\ Head(C!StartTask) = "StartOnIOThread" /\ Head(C!BothTasks) = "StartOnIOThread"
      /\ Head(C!ShutDownTask) = "ShutDownOnIOThread"
  BY <1>1, SMT
<1>6. /\ <<"StartOnIOThread">> = C!Starting /\ <<"ShutDownOnIOThread">> = C!TaskRuns
      /\ <<"ShutDown">> = C!LoopShuts
  BY DEF C!Starting, C!TaskRuns, C!LoopShuts
<1> QED
  BY <1>1, <1>2, <1>3, <1>4, <1>t, <1>5, <1>6


(* All of them.                                                            *)
AnyStack ==
  {C!Empty, C!Starting, C!TaskRuns, C!TaskShuts, C!TaskDeletes, C!TaskClears, C!TaskCloses,
   C!LoopShuts, C!LoopRuns, C!LoopReturns, C!LoopClears, C!LoopCloses, C!LoopDeletes}

(* Which stacks have which frame on top.                                    *)
LEMMA TopFrames ==
  /\ C!Empty = <<>> /\ Head(C!Starting) = "StartOnIOThread"
  /\ Head(C!TaskRuns) = "ShutDownOnIOThread" /\ Head(C!LoopRuns) = "ShutDownOnIOThread"
  /\ Head(C!TaskShuts) = "ShutDown" /\ Head(C!LoopShuts) = "ShutDown"
  /\ Head(C!LoopReturns) = "ShutDown"
  /\ Head(C!TaskDeletes) = "delete this" /\ Head(C!LoopDeletes) = "delete this"
  /\ Head(C!TaskClears) = "clear" /\ Head(C!LoopClears) = "clear"
  /\ Head(C!TaskCloses) = "close" /\ Head(C!LoopCloses) = "close"
  BY DEF C!Empty, C!Starting, C!TaskRuns, C!TaskShuts, C!TaskDeletes, C!TaskClears,
     C!TaskCloses,
         C!LoopShuts, C!LoopRuns, C!LoopReturns, C!LoopClears, C!LoopCloses, C!LoopDeletes

(* The types of the flags, and the life cycle: an invariant by itself.      *)
FlagsOK ==
  /\ connection \in {"created", "started", "destroyed"}
  /\ context \in {"alive", "freed"}
  /\ weak \in BOOLEAN /\ observerPtr \in BOOLEAN
  /\ observer \in {"none", "alive", "deleted"}
  /\ is_active \in BOOLEAN
  /\ binding \in {"none", "bound", "closed"}
  /\ factories \in 0..1
  /\ stop_callback \in BOOLEAN
  /\ loop \in {"running", "destroyed"}

LifeInv == FlagsOK /\ C!Life

(* The stack is one of them; the frame on top tells the rows of the life    *)
(* cycle that it can be in ...                                              *)
LEMMA StackIsKnown ==
  ASSUME LifeInv
  PROVE  stack \in AnyStack
  BY DEF LifeInv, FlagsOK, C!Life, C!LifeInLoop, C!LifeAfterLoop, AnyStack

(* ... first that of the task that starts it ...                            *)
LEMMA AtStarting ==
  ASSUME LifeInv, C!Top("StartOnIOThread")
  PROVE  /\ stack = C!Starting /\ loop = "running" /\ connection # "created"
         /\ io = IF connection = "started" THEN C!Empty ELSE C!ShutDownTask
         /\ context = "alive" /\ C!Know("none", TRUE, FALSE, TRUE)
<1>1. stack = C!Starting
  BY StackIsKnown, TopFrames DEF AnyStack, C!Top
<1> QED
  BY <1>1, StacksDiffer DEF LifeInv, FlagsOK, C!Life, C!LifeAfterLoop, C!LifeInLoop

(* ... then those of the context's shutdown ...                             *)
LEMMA AtShutDownOnIOThread ==
  ASSUME LifeInv, C!Top("ShutDownOnIOThread")
  PROVE  /\ context = "alive" /\ io = C!Empty
         /\ \/ /\ stack = C!TaskRuns /\ loop = "running" /\ connection = "destroyed"
               /\ C!Know("alive", TRUE, TRUE, TRUE)
            \/ /\ stack = C!LoopRuns /\ loop = "destroyed" /\ connection = "started"
               /\ C!Know("alive", TRUE, TRUE, FALSE)
<1>1. stack = C!TaskRuns \/ stack = C!LoopRuns
  BY StackIsKnown, TopFrames DEF AnyStack, C!Top
<1> QED
  BY <1>1, StacksDiffer DEF LifeInv, FlagsOK, C!Life, C!LifeAfterLoop, C!LifeInLoop

(* ... its way back from the observer ...                                   *)
LEMMA AtClear ==
  ASSUME LifeInv, C!Top("clear")
  PROVE  /\ context = "alive" /\ io = C!Empty
         /\ \/ /\ stack = C!TaskClears /\ loop = "running" /\ connection = "destroyed"
               /\ C!Know("deleted", FALSE, TRUE, FALSE)
            \/ /\ stack = C!LoopClears /\ loop = "destroyed" /\ connection = "started"
               /\ C!Know("alive", FALSE, TRUE, FALSE)
<1>1. stack = C!TaskClears \/ stack = C!LoopClears
  BY StackIsKnown, TopFrames DEF AnyStack, C!Top
<1> QED
  BY <1>1, StacksDiffer DEF LifeInv, FlagsOK, C!Life, C!LifeAfterLoop, C!LifeInLoop

(* ... to its end ...                                                       *)
LEMMA AtClose ==
  ASSUME LifeInv, C!Top("close")
  PROVE  /\ context = "alive" /\ io = C!Empty
         /\ \/ /\ stack = C!TaskCloses /\ loop = "running" /\ connection = "destroyed"
               /\ C!Know("deleted", FALSE, FALSE, FALSE)
            \/ /\ stack = C!LoopCloses /\ loop = "destroyed" /\ connection = "started"
               /\ C!Know("alive", FALSE, FALSE, FALSE)
<1>1. stack = C!TaskCloses \/ stack = C!LoopCloses
  BY StackIsKnown, TopFrames DEF AnyStack, C!Top
<1> QED
  BY <1>1, StacksDiffer DEF LifeInv, FlagsOK, C!Life, C!LifeAfterLoop, C!LifeInLoop

(* ... and those of the observer's shutdown ...                             *)
LEMMA AtShutDown ==
  ASSUME LifeInv, C!Top("ShutDown")
  PROVE  /\ io = C!Empty /\ observer = "alive"
         /\ \/ /\ stack = C!TaskShuts /\ loop = "running" /\ connection = "destroyed"
               /\ context = "alive" /\ C!Know("alive", FALSE, TRUE, TRUE)
            \/ /\ stack = C!LoopShuts /\ loop = "destroyed" /\ connection = "started"
               /\ context = "alive" /\ C!Know("alive", TRUE, TRUE, TRUE)
            \/ /\ stack = C!LoopShuts /\ loop = "destroyed" /\ connection = "destroyed"
               /\ context = "freed" /\ weak = FALSE /\ is_active = TRUE
            \/ /\ stack = C!LoopReturns /\ loop = "destroyed" /\ connection = "started"
               /\ context = "alive" /\ C!Know("alive", FALSE, TRUE, FALSE)
<1>1. stack = C!TaskShuts \/ stack = C!LoopShuts \/ stack = C!LoopReturns
  BY StackIsKnown, TopFrames DEF AnyStack, C!Top
<1> QED
  BY <1>1, StacksDiffer DEF LifeInv, FlagsOK, C!Life, C!LifeAfterLoop, C!LifeInLoop,
     C!Know

(* ... and deletion.                                                        *)
LEMMA AtDelete ==
  ASSUME LifeInv, C!Top("delete this")
  PROVE  /\ io = C!Empty
         /\ \/ /\ stack = C!TaskDeletes /\ loop = "running" /\ connection = "destroyed"
               /\ context = "alive" /\ C!Know("alive", FALSE, TRUE, FALSE)
            \/ /\ stack = C!LoopDeletes /\ loop = "destroyed" /\ connection = "started"
               /\ context = "alive" /\ C!Know("alive", FALSE, FALSE, FALSE)
            \/ /\ stack = C!LoopDeletes /\ loop = "destroyed" /\ connection = "destroyed"
               /\ context = "freed" /\ weak = FALSE
<1>1. stack = C!TaskDeletes \/ stack = C!LoopDeletes
  BY StackIsKnown, TopFrames DEF AnyStack, C!Top
<1> QED
  BY <1>1, StacksDiffer DEF LifeInv, FlagsOK, C!Life, C!LifeAfterLoop, C!LifeInLoop

(* The frames follow the life cycle.                                       *)
LEMMA StartOnIOThreadKeepsLife ==
  ASSUME LifeInv, C!StartOnIOThread
  PROVE  LifeInv'
<1>1. /\ stack = C!Starting /\ loop = "running" /\ connection # "created"
      /\ io = IF connection = "started" THEN C!Empty ELSE C!ShutDownTask
      /\ context = "alive" /\ C!Know("none", TRUE, FALSE, TRUE)
  BY AtStarting DEF C!StartOnIOThread
<1>2. C!ShutDownTask # <<>>
  BY DEF C!ShutDownTask
<1>3. /\ stack' = C!Empty /\ loop' = loop /\ connection' = connection /\ io' = io
      /\ context' = context /\ weak' = weak
      /\ observer' = "alive" /\ observerPtr' = TRUE /\ is_active' = TRUE
  BY <1>1, <1>2, Returns DEF C!StartOnIOThread, C!Return, C!Freed, C!LastReference,
     LifeInv, FlagsOK
<1>4. FlagsOK'
  BY <1>3 DEF C!StartOnIOThread, LifeInv, FlagsOK
<1>5. C!Know("alive", TRUE, TRUE, TRUE)'
  BY <1>1, <1>3 DEF C!Know
<1>6. C!LifeInLoop'
  BY <1>1, <1>3, <1>5 DEF C!LifeInLoop
<1> QED
  BY <1>1, <1>2, <1>3, <1>4, <1>6 DEF LifeInv, C!Life, FlagsOK, C!Empty

(* The context calls the observer.                                         *)
LEMMA ShutDownOnIOThreadKeepsLife ==
  ASSUME LifeInv, C!ShutDownOnIOThread
  PROVE  LifeInv'
<1>0. /\ observerPtr = TRUE /\ context = "alive" /\ io = C!Empty
      /\ \/ /\ stack = C!TaskRuns /\ loop = "running" /\ connection = "destroyed"
            /\ C!Know("alive", TRUE, TRUE, TRUE)
         \/ /\ stack = C!LoopRuns /\ loop = "destroyed" /\ connection = "started"
            /\ C!Know("alive", TRUE, TRUE, FALSE)
  BY AtShutDownOnIOThread DEF C!ShutDownOnIOThread, C!Know
<1>1. stack' = <<"ShutDown", "clear">> \o Tail(stack)
  BY <1>0 DEF C!ShutDownOnIOThread, C!CallThen
<1>2. /\ loop' = loop /\ connection' = connection /\ io' = io /\ context' = context
      /\ weak' = FALSE /\ observer' = observer /\ observerPtr' = observerPtr
      /\ is_active' = is_active
  BY DEF C!ShutDownOnIOThread, C!observerVars
<1>3. FlagsOK'
  BY <1>2 DEF C!ShutDownOnIOThread, LifeInv, FlagsOK
<1>4. CASE stack = C!TaskRuns
  <2>1. loop = "running" /\ connection = "destroyed" /\ C!Know("alive", TRUE, TRUE, TRUE)
    BY <1>0, <1>4, StacksDiffer
  <2>2. stack' = C!TaskShuts /\ C!Know("alive", FALSE, TRUE, TRUE)'
    BY <1>1, <1>2, <1>4, <2>1, Returns, CallsBelow DEF C!Know
  <2>3. C!LifeInLoop'
    BY <1>0, <1>2, <2>1, <2>2 DEF C!LifeInLoop
  <2> QED
    BY <1>0, <1>2, <1>3, <2>1, <2>2, <2>3, StacksDiffer DEF LifeInv, C!Life
<1>5. CASE stack = C!LoopRuns
  <2>1. loop = "destroyed" /\ connection = "started" /\ C!Know("alive", TRUE, TRUE, FALSE)
    BY <1>0, <1>5, StacksDiffer
  <2>2. stack' = C!LoopReturns /\ C!Know("alive", FALSE, TRUE, FALSE)'
    BY <1>1, <1>2, <1>5, <2>1, Returns, CallsBelow DEF C!Know
  <2>3. C!LifeAfterLoop'
    BY <1>0, <1>2, <2>1, <2>2 DEF C!LifeAfterLoop
  <2> QED
    BY <1>0, <1>2, <1>3, <2>1, <2>2, <2>3 DEF LifeInv, C!Life
<1> QED
  BY <1>0, <1>4, <1>5

(* It forgets the observer.                                                *)
LEMMA ClearObserverKeepsLife ==
  ASSUME LifeInv, C!ClearObserver
  PROVE  LifeInv'
<1>0. /\ context = "alive" /\ io = C!Empty
      /\ \/ /\ stack = C!TaskClears /\ loop = "running" /\ connection = "destroyed"
            /\ C!Know("deleted", FALSE, TRUE, FALSE)
         \/ /\ stack = C!LoopClears /\ loop = "destroyed" /\ connection = "started"
            /\ C!Know("alive", FALSE, TRUE, FALSE)
  BY AtClear DEF C!ClearObserver
<1>1. stack' = <<"close">> \o Tail(stack) /\ observerPtr' = FALSE
  BY DEF C!ClearObserver, C!GoTo, C!ResetObserver
<1>2. /\ loop' = loop /\ connection' = connection /\ io' = io /\ context' = context
      /\ weak' = weak /\ observer' = observer /\ is_active' = is_active
  BY DEF C!ClearObserver, C!observerVars
<1>3. FlagsOK'
  BY <1>1, <1>2 DEF C!ClearObserver, LifeInv, FlagsOK
<1>4. CASE stack = C!TaskClears
  <2>1. loop = "running" /\ connection = "destroyed" /\ C!Know("deleted", FALSE, TRUE, FALSE)
    BY <1>0, <1>4, StacksDiffer
  <2>2. stack' = C!TaskCloses /\ C!Know("deleted", FALSE, FALSE, FALSE)'
    BY <1>1, <1>2, <1>4, <2>1, Returns, CallsBelow DEF C!Know
  <2>3. C!LifeInLoop'
    BY <1>0, <1>2, <2>1, <2>2 DEF C!LifeInLoop
  <2> QED
    BY <1>0, <1>2, <1>3, <2>1, <2>2, <2>3, StacksDiffer DEF LifeInv, C!Life
<1>5. CASE stack = C!LoopClears
  <2>1. loop = "destroyed" /\ connection = "started" /\ C!Know("alive", FALSE, TRUE, FALSE)
    BY <1>0, <1>5, StacksDiffer
  <2>2. stack' = C!LoopCloses /\ C!Know("alive", FALSE, FALSE, FALSE)'
    BY <1>1, <1>2, <1>5, <2>1, Returns, CallsBelow DEF C!Know
  <2>3. C!LifeAfterLoop'
    BY <1>0, <1>2, <2>1, <2>2 DEF C!LifeAfterLoop
  <2> QED
    BY <1>0, <1>2, <1>3, <2>1, <2>2, <2>3 DEF LifeInv, C!Life
<1> QED
  BY <1>0, <1>4, <1>5

(* The task that shuts the context down holds its last reference.          *)
LEMMA CloseBindingsKeepsLife ==
  ASSUME LifeInv, C!CloseBindings
  PROVE  LifeInv'
<1>0. /\ context = "alive" /\ io = C!Empty
      /\ \/ /\ stack = C!TaskCloses /\ loop = "running" /\ connection = "destroyed"
            /\ C!Know("deleted", FALSE, FALSE, FALSE)
         \/ /\ stack = C!LoopCloses /\ loop = "destroyed" /\ connection = "started"
            /\ C!Know("alive", FALSE, FALSE, FALSE)
  BY AtClose DEF C!CloseBindings
<1>1. stack' = Tail(stack) /\ C!Freed(connection, io, stack')
  BY DEF C!CloseBindings, C!Return
<1>2. /\ loop' = loop /\ connection' = connection /\ io' = io
      /\ observerPtr' = observerPtr /\ observer' = observer /\ is_active' = is_active
      /\ binding' = "closed" /\ factories' = 0 /\ stop_callback' = stop_callback
  BY DEF C!CloseBindings, C!observerVars, C!ResetBindings
<1>4. CASE stack = C!TaskCloses
  <2>1. loop = "running" /\ connection = "destroyed" /\ C!Know("deleted", FALSE, FALSE, FALSE)
    BY <1>0, <1>4, StacksDiffer
  <2>2. stack' = C!Empty /\ context' = "freed" /\ weak' = FALSE
    BY <1>0, <1>1, <1>4, <2>1, Returns DEF C!Freed, C!LastReference, C!Empty
  <2>3. FlagsOK'
    <3>1. weak' \in BOOLEAN /\ context' \in {"alive", "freed"}
      BY <2>2
    <3>2. factories' \in 0..1
      BY <1>2
    <3> QED
      BY <1>2, <3>1, <3>2 DEF LifeInv, FlagsOK
  <2>4. C!LifeInLoop'
    BY <1>0, <1>2, <2>1, <2>2 DEF C!LifeInLoop, C!Know
  <2> QED
    BY <1>0, <1>2, <2>1, <2>2, <2>3, <2>4 DEF LifeInv, C!Life
<1>5. CASE stack = C!LoopCloses
  <2>1. loop = "destroyed" /\ connection = "started" /\ C!Know("alive", FALSE, FALSE, FALSE)
    BY <1>0, <1>5, StacksDiffer
  <2>2. stack' = C!LoopDeletes /\ context' = context /\ weak' = weak
    <3>1. ~C!LastReference(connection, io, stack')
      BY <2>1 DEF C!LastReference
    <3> QED
      BY <1>1, <1>5, <3>1, Returns DEF C!Freed
  <2>3. FlagsOK'
    BY <1>2, <2>2 DEF LifeInv, FlagsOK
  <2>4. C!Know("alive", FALSE, FALSE, FALSE)'
    BY <1>2, <2>1, <2>2 DEF C!Know
  <2>5. C!LifeAfterLoop'
    BY <1>0, <1>2, <2>1, <2>2, <2>4 DEF C!LifeAfterLoop
  <2> QED
    BY <1>0, <1>2, <2>1, <2>2, <2>3, <2>5 DEF LifeInv, C!Life
<1> QED
  BY <1>0, <1>4, <1>5

(* The observer calls the context, unless that has called it.              *)
LEMMA ObserverShutDownKeepsLife ==
  ASSUME LifeInv, C!ObserverShutDown
  PROVE  LifeInv'
<1>0. C!Top("ShutDown") /\ is_active' = FALSE
  BY DEF C!ObserverShutDown
<1>1. /\ io = C!Empty /\ observer = "alive"
      /\ \/ /\ stack = C!TaskShuts /\ loop = "running" /\ connection = "destroyed"
            /\ context = "alive" /\ C!Know("alive", FALSE, TRUE, TRUE)
         \/ /\ stack = C!LoopShuts /\ loop = "destroyed" /\ connection = "started"
            /\ context = "alive" /\ C!Know("alive", TRUE, TRUE, TRUE)
         \/ /\ stack = C!LoopShuts /\ loop = "destroyed" /\ connection = "destroyed"
            /\ context = "freed" /\ weak = FALSE /\ is_active = TRUE
         \/ /\ stack = C!LoopReturns /\ loop = "destroyed" /\ connection = "started"
            /\ context = "alive" /\ C!Know("alive", FALSE, TRUE, FALSE)
  BY <1>0, AtShutDown
<1>2. /\ loop' = loop /\ connection' = connection /\ io' = io /\ context' = context
      /\ weak' = weak /\ observer' = observer /\ observerPtr' = observerPtr
      /\ binding' = binding /\ factories' = factories /\ stop_callback' = stop_callback
  BY DEF C!ObserverShutDown, C!contextVars
<1>3. FlagsOK'
  BY <1>0, <1>2 DEF LifeInv, FlagsOK
<1>4. CASE stack = C!TaskShuts /\ C!Know("alive", FALSE, TRUE, TRUE)
                /\ loop = "running" /\ connection = "destroyed" /\ context = "alive"
  <2>1. stack' = <<"delete this">> \o Tail(stack)
    BY <1>4 DEF C!ObserverShutDown, C!ShutsDown, C!GoTo, C!Know
  <2>2. stack' = C!TaskDeletes /\ C!Know("alive", FALSE, TRUE, FALSE)'
    BY <1>0, <1>2, <1>4, <2>1, Returns, CallsBelow DEF C!Know
  <2>3. C!LifeInLoop'
    BY <1>1, <1>2, <1>4, <2>2 DEF C!LifeInLoop
  <2> QED
    BY <1>2, <1>3, <1>4, <2>2, <2>3, StacksDiffer DEF LifeInv, C!Life
<1>5. CASE stack = C!LoopShuts /\ C!Know("alive", TRUE, TRUE, TRUE)
                /\ loop = "destroyed" /\ connection = "started" /\ context = "alive"
  <2>1. stack' = <<"ShutDownOnIOThread", "delete this">> \o Tail(stack)
    BY <1>5 DEF C!ObserverShutDown, C!ShutsDown, C!CallThen, C!Know
  <2>2. stack' = C!LoopRuns /\ C!Know("alive", TRUE, TRUE, FALSE)'
    BY <1>0, <1>2, <1>5, <2>1, Returns, CallsBelow DEF C!Know
  <2>3. C!LifeAfterLoop'
    BY <1>1, <1>2, <1>5, <2>2 DEF C!LifeAfterLoop
  <2> QED
    BY <1>2, <1>3, <1>5, <2>2, <2>3 DEF LifeInv, C!Life
<1>6. CASE stack = C!LoopShuts /\ weak = FALSE /\ is_active = TRUE
                /\ loop = "destroyed" /\ connection = "destroyed" /\ context = "freed"
  <2>1. stack' = <<"delete this">> \o Tail(stack)
    BY <1>6 DEF C!ObserverShutDown, C!ShutsDown, C!GoTo
  <2>2. stack' = C!LoopDeletes
    BY <1>6, <2>1, Returns, CallsBelow
  <2>3. C!LifeAfterLoop'
    BY <1>1, <1>2, <1>6, <2>2 DEF C!LifeAfterLoop
  <2> QED
    BY <1>1, <1>2, <1>3, <1>6, <2>2, <2>3 DEF LifeInv, C!Life
<1>7. CASE stack = C!LoopReturns /\ C!Know("alive", FALSE, TRUE, FALSE)
                /\ loop = "destroyed" /\ connection = "started" /\ context = "alive"
  <2>1. stack' = Tail(stack)
    BY <1>7 DEF C!ObserverShutDown, C!ShutsDown, C!Return, C!Know
  <2>2. stack' = C!LoopClears /\ C!Know("alive", FALSE, TRUE, FALSE)'
    BY <1>0, <1>2, <1>7, <2>1, Returns DEF C!Know
  <2>3. C!LifeAfterLoop'
    BY <1>1, <1>2, <1>7, <2>2 DEF C!LifeAfterLoop
  <2> QED
    BY <1>2, <1>3, <1>7, <2>2, <2>3 DEF LifeInv, C!Life
<1> QED
  BY <1>1, <1>4, <1>5, <1>6, <1>7

(* It deletes itself.                                                      *)
LEMMA DeleteObserverKeepsLife ==
  ASSUME LifeInv, C!DeleteObserver
  PROVE  LifeInv'
<1>0. C!Top("delete this") /\ stack' = Tail(stack) /\ observer' = "deleted"
  BY DEF C!DeleteObserver, C!Return
<1>1. /\ io = C!Empty
      /\ \/ /\ stack = C!TaskDeletes /\ loop = "running" /\ connection = "destroyed"
            /\ context = "alive" /\ C!Know("alive", FALSE, TRUE, FALSE)
         \/ /\ stack = C!LoopDeletes /\ loop = "destroyed" /\ connection = "started"
            /\ context = "alive" /\ C!Know("alive", FALSE, FALSE, FALSE)
         \/ /\ stack = C!LoopDeletes /\ loop = "destroyed" /\ connection = "destroyed"
            /\ context = "freed" /\ weak = FALSE
  BY <1>0, AtDelete
<1>2. /\ loop' = loop /\ connection' = connection /\ io' = io /\ context' = context
      /\ weak' = weak /\ observerPtr' = observerPtr /\ is_active' = is_active
      /\ binding' = binding /\ factories' = factories /\ stop_callback' = stop_callback
  BY DEF C!DeleteObserver, C!contextVars
<1>3. FlagsOK'
  BY <1>0, <1>2 DEF LifeInv, FlagsOK
<1>4. CASE stack = C!TaskDeletes /\ C!Know("alive", FALSE, TRUE, FALSE)
                /\ loop = "running" /\ connection = "destroyed" /\ context = "alive"
  <2>1. stack' = C!TaskClears /\ C!Know("deleted", FALSE, TRUE, FALSE)'
    BY <1>0, <1>2, <1>4, Returns DEF C!Know
  <2>2. C!LifeInLoop'
    BY <1>1, <1>2, <1>4, <2>1 DEF C!LifeInLoop
  <2> QED
    BY <1>2, <1>3, <1>4, <2>1, <2>2, StacksDiffer DEF LifeInv, C!Life
<1>5. CASE stack = C!LoopDeletes /\ C!Know("alive", FALSE, FALSE, FALSE)
                /\ loop = "destroyed" /\ connection = "started" /\ context = "alive"
  <2>1. stack' = C!Empty /\ C!Know("deleted", FALSE, FALSE, FALSE)'
    BY <1>0, <1>2, <1>5, Returns DEF C!Know
  <2>2. C!LifeAfterLoop'
    BY <1>1, <1>2, <1>5, <2>1 DEF C!LifeAfterLoop
  <2> QED
    BY <1>2, <1>3, <1>5, <2>1, <2>2 DEF LifeInv, C!Life
<1>6. CASE stack = C!LoopDeletes /\ weak = FALSE
                /\ loop = "destroyed" /\ connection = "destroyed" /\ context = "freed"
  <2>1. stack' = C!Empty
    BY <1>0, <1>6, Returns
  <2>2. C!LifeAfterLoop'
    BY <1>0, <1>1, <1>2, <1>6, <2>1 DEF C!LifeAfterLoop
  <2> QED
    BY <1>1, <1>2, <1>3, <1>6, <2>1, <2>2 DEF LifeInv, C!Life
<1> QED
  BY <1>1, <1>4, <1>5, <1>6

(* The steps of the UI thread and of the message loop.                     *)
LEMMA StartKeepsLife ==
  ASSUME LifeInv, C!Start
  PROVE  LifeInv'
<1>1. /\ connection = "created" /\ loop = "running" /\ connection' = "started"
      /\ io' = Append(io, "StartOnIOThread") /\ loop' = loop /\ stack' = stack
      /\ context' = context /\ weak' = weak /\ observerPtr' = observerPtr
      /\ observer' = observer /\ is_active' = is_active
      /\ binding' = binding /\ factories' = factories /\ stop_callback' = TRUE
  BY DEF C!Start, C!observerVars
<1>2. io = C!Empty /\ stack = C!Empty /\ C!Know("none", TRUE, FALSE, TRUE) /\ context = "alive"
  BY <1>1 DEF LifeInv, FlagsOK, C!Life, C!LifeInLoop
<1>3. FlagsOK'
  BY <1>1 DEF LifeInv, FlagsOK
<1>4. io' = C!StartTask /\ C!Know("none", TRUE, FALSE, TRUE)'
  BY <1>1, <1>2, TaskFacts DEF C!Know
<1>5. C!LifeInLoop'
  BY <1>1, <1>2, <1>4 DEF C!LifeInLoop
<1> QED
  BY <1>1, <1>2, <1>3, <1>5 DEF LifeInv, C!Life

(* The owner destroys the connection, started or not.                      *)
LEMMA DestroyKeepsLife ==
  ASSUME LifeInv, C!Destroy
  PROVE  LifeInv'
<1>1. /\ connection # "destroyed" /\ loop = "running" /\ connection' = "destroyed"
      /\ io' = IF connection = "started" THEN Append(io, "ShutDownOnIOThread") ELSE io
      /\ C!Freed("destroyed", io', stack)
      /\ loop' = loop /\ stack' = stack /\ observerPtr' = observerPtr
      /\ observer' = observer /\ is_active' = is_active
      /\ binding' = binding /\ factories' = factories /\ stop_callback' = stop_callback
  BY DEF C!Destroy, C!observerVars
<1>2. CASE connection = "created"
  <2>1. io = C!Empty /\ stack = C!Empty /\ C!Know("none", TRUE, FALSE, TRUE)
    BY <1>1, <1>2 DEF LifeInv, C!Life, C!LifeInLoop
  <2>2. io' = C!Empty /\ stack' = C!Empty /\ observer' = "none"
    BY <1>1, <1>2, <2>1 DEF C!Know
  <2>3. context' = "freed" /\ weak' = FALSE
    BY <1>1, <2>1, <2>2 DEF C!Freed, C!LastReference, C!Empty
  <2>4. FlagsOK'
    <3>1. weak' \in BOOLEAN /\ context' \in {"alive", "freed"}
      BY <2>3
    <3> QED
      BY <1>1, <3>1 DEF LifeInv, FlagsOK
  <2>5. C!LifeInLoop'
    BY <1>1, <2>2, <2>3 DEF C!LifeInLoop
  <2> QED
    BY <1>1, <2>2, <2>3, <2>4, <2>5 DEF LifeInv, C!Life
<1>3. CASE connection = "started"
  <2>0. io' = Append(io, "ShutDownOnIOThread")
    BY <1>1, <1>3
  <2>1. /\ context = "alive"
        /\ \/ io = C!StartTask /\ stack = C!Empty /\ C!Know("none", TRUE, FALSE, TRUE)
           \/ io = C!Empty /\ stack = C!Starting /\ C!Know("none", TRUE, FALSE, TRUE)
           \/ io = C!Empty /\ stack = C!Empty /\ C!Know("alive", TRUE, TRUE, TRUE)
    BY <1>1, <1>3 DEF LifeInv, FlagsOK, C!Life, C!LifeInLoop
  <2>2. io' = C!BothTasks \/ io' = C!ShutDownTask
    BY <2>0, <2>1, TaskFacts
  <2>3. io' # <<>> /\ io' # C!Empty
    BY <2>2 DEF C!BothTasks, C!ShutDownTask, C!Empty
  <2>4. context' = context /\ weak' = weak
    BY <1>1, <2>3 DEF C!Freed, C!LastReference
  <2>5. FlagsOK'
    BY <1>1, <2>4 DEF LifeInv, FlagsOK
  <2>6. \/ io' = C!BothTasks /\ stack' = C!Empty /\ C!Know("none", TRUE, FALSE, TRUE)'
        \/ io' = C!ShutDownTask /\ stack' = C!Starting /\ C!Know("none", TRUE, FALSE, TRUE)'
        \/ io' = C!ShutDownTask /\ stack' = C!Empty /\ C!Know("alive", TRUE, TRUE, TRUE)'
    BY <1>1, <2>0, <2>1, <2>4, TaskFacts DEF C!Know
  <2>7. C!LifeInLoop'
    BY <1>1, <2>6 DEF C!LifeInLoop
  <2> QED
    BY <1>1, <2>1, <2>3, <2>4, <2>5, <2>7 DEF LifeInv, C!Life
<1> QED
  BY <1>1, <1>2, <1>3 DEF LifeInv, FlagsOK

(* A task comes to run.                                                    *)
LEMMA IORunTaskKeepsLife ==
  ASSUME LifeInv, C!IORunTask
  PROVE  LifeInv'
<1>1. /\ loop = "running" /\ stack = C!Empty /\ io # C!Empty
      /\ stack' = <<Head(io)>> /\ io' = Tail(io)
      /\ connection' = connection /\ loop' = loop
      /\ context' = context /\ weak' = weak /\ observerPtr' = observerPtr
      /\ observer' = observer /\ is_active' = is_active
      /\ binding' = binding /\ factories' = factories /\ stop_callback' = stop_callback
  BY DEF C!IORunTask, C!observerVars, C!contextVars, C!Empty
<1>2. FlagsOK'
  BY <1>1 DEF LifeInv, FlagsOK
<1>3. /\ connection # "created" /\ context = "alive"
      /\ \/ /\ io = IF connection = "started" THEN C!StartTask ELSE C!BothTasks
            /\ C!Know("none", TRUE, FALSE, TRUE)
         \/ /\ connection = "destroyed" /\ io = C!ShutDownTask
            /\ C!Know("alive", TRUE, TRUE, TRUE)
  BY <1>1, StacksDiffer DEF LifeInv, FlagsOK, C!Life, C!LifeInLoop
<1>4. \/ /\ stack' = C!Starting
         /\ io' = IF connection = "started" THEN C!Empty ELSE C!ShutDownTask
         /\ C!Know("none", TRUE, FALSE, TRUE)'
      \/ /\ connection = "destroyed" /\ stack' = C!TaskRuns /\ io' = C!Empty
         /\ C!Know("alive", TRUE, TRUE, TRUE)'
  BY <1>1, <1>3, TaskFacts DEF C!Know
<1>5. C!LifeInLoop'
  BY <1>1, <1>3, <1>4 DEF C!LifeInLoop
<1>6. stack' # C!Empty
  BY <1>4, StacksDiffer
<1> QED
  BY <1>1, <1>2, <1>3, <1>5, <1>6 DEF LifeInv, C!Life, FlagsOK

(* The loop goes with the tasks that it still holds.                       *)
LEMMA DestroyLoopKeepsLife ==
  ASSUME LifeInv, C!DestroyLoop
  PROVE  LifeInv'
<1>1. /\ loop = "running" /\ stack = C!Empty /\ loop' = "destroyed" /\ io' = C!Empty
      /\ stack' = IF observer = "alive" THEN C!LoopShuts ELSE C!Empty
      /\ C!Freed(connection, <<>>, <<>>)
      /\ connection' = connection /\ observerPtr' = observerPtr
      /\ observer' = observer /\ is_active' = is_active
      /\ binding' = binding /\ factories' = factories /\ stop_callback' = stop_callback
  BY DEF C!DestroyLoop, C!observerVars, C!Empty, C!LoopShuts
<1>2. CASE connection = "destroyed"
  <2>1. context' = "freed" /\ weak' = FALSE
    BY <1>1, <1>2 DEF C!Freed, C!LastReference
  <2>2. FlagsOK'
    <3>1. weak' \in BOOLEAN /\ context' \in {"alive", "freed"}
      BY <2>1
    <3> QED
      BY <1>1, <3>1 DEF LifeInv, FlagsOK
  <2>3. observer = "alive" => is_active = TRUE
    BY <1>1, <1>2, StacksDiffer DEF LifeInv, C!Life, C!LifeInLoop, C!Know
  <2>4. C!LifeAfterLoop'
    BY <1>1, <1>2, <2>1, <2>3 DEF C!LifeAfterLoop
  <2> QED
    BY <1>1, <1>2, <2>1, <2>2, <2>4 DEF LifeInv, C!Life
<1>3. CASE connection # "destroyed"
  <2>1. context' = context /\ weak' = weak
    BY <1>1, <1>3 DEF C!Freed, C!LastReference
  <2>2. FlagsOK'
    BY <1>1, <2>1 DEF LifeInv, FlagsOK
  <2>3. /\ context = "alive"
        /\ \/ C!Know("none", TRUE, FALSE, TRUE)
           \/ connection = "started" /\ C!Know("alive", TRUE, TRUE, TRUE)
    BY <1>1, <1>3 DEF LifeInv, FlagsOK, C!Life, C!LifeInLoop
  <2>4. \/ stack' = C!Empty /\ C!Know("none", TRUE, FALSE, TRUE)'
        \/ connection = "started" /\ stack' = C!LoopShuts /\ C!Know("alive", TRUE, TRUE, TRUE)'
    BY <1>1, <2>1, <2>3 DEF C!Know
  <2>5. C!LifeAfterLoop'
    BY <1>1, <1>3, <2>4 DEF C!LifeAfterLoop
  <2> QED
    BY <1>1, <1>3, <2>1, <2>2, <2>3, <2>5 DEF LifeInv, C!Life
<1> QED
  BY <1>2, <1>3

(* Messages change nothing of it.                                          *)
LEMMA MessagesKeepLife ==
  ASSUME LifeInv, C!UIRunTask \/ C!OnBindInterface \/ C!CreateService \/ C!OnDisconnected
  PROVE  LifeInv'
<1>1. /\ connection' = connection /\ context' = context /\ weak' = weak
      /\ observerPtr' = observerPtr /\ observer' = observer /\ is_active' = is_active
      /\ io' = io /\ stack' = stack /\ loop' = loop
      /\ binding' = binding /\ factories' \in 0..1 /\ stop_callback' \in BOOLEAN
  <2>0. factories \in 0..1 /\ stop_callback \in BOOLEAN
    BY DEF LifeInv, FlagsOK
  <2>1. CASE C!UIRunTask
    BY <2>0, <2>1 DEF C!UIRunTask, C!contextVars, C!observerVars
  <2>2. CASE C!OnBindInterface
    BY <2>0, <2>2 DEF C!OnBindInterface, C!observerVars
  <2>3. CASE C!CreateService
    BY <2>0, <2>3 DEF C!CreateService, C!contextVars, C!observerVars
  <2>4. CASE C!OnDisconnected
    BY <2>0, <2>4 DEF C!OnDisconnected, C!observerVars
  <2> QED
    BY <2>1, <2>2, <2>3, <2>4
<1>2. FlagsOK'
  BY <1>1 DEF LifeInv, FlagsOK
<1>3. C!Life'
  BY <1>1 DEF LifeInv, C!Life, C!LifeInLoop, C!LifeAfterLoop, C!Know
<1> QED
  BY <1>2, <1>3 DEF LifeInv

(* A stack of one frame.                                                   *)
LEMMA OneFrame ==
  ASSUME NEW a
  PROVE  \A i \in DOMAIN <<a>> : <<a>>[i] = a
  OBVIOUS

(* In every row of the life cycle the frames have their objects, and no     *)
(* pointer dangles.                                                         *)
LEMMA LifeImplies ==
  ASSUME LifeInv
  PROVE  C!FramesHaveObjects /\ C!NoDanglingObserver
         /\ io \in Seq({"StartOnIOThread", "ShutDownOnIOThread"})
         /\ stack \in Seq(C!ContextFrames \cup C!ObserverFrames)
<1>1. io \in {C!Empty, C!StartTask, C!ShutDownTask, C!BothTasks}
  BY DEF LifeInv, FlagsOK, C!Life, C!LifeInLoop, C!LifeAfterLoop
<1>2. io \in Seq({"StartOnIOThread", "ShutDownOnIOThread"})
  <2> DEFINE T == {"StartOnIOThread", "ShutDownOnIOThread"}
  <2>1. C!Empty \in Seq(T) /\ C!StartTask \in Seq(T)
    BY DEF C!Empty, C!StartTask
  <2>2. C!ShutDownTask \in Seq(T) /\ C!BothTasks \in Seq(T)
    BY DEF C!ShutDownTask, C!BothTasks
  <2>3. io \in Seq(T)
    <3> HIDE DEF T
    <3> QED
      BY <1>1, <2>1, <2>2
  <2> QED
    BY <2>3
<1>3. stack \in Seq(C!ContextFrames \cup C!ObserverFrames)
  <2> DEFINE F == {"StartOnIOThread", "ShutDownOnIOThread", "clear", "close",
                   "ShutDown", "delete this"}
  <2>1. C!ContextFrames \cup C!ObserverFrames = F
    BY DEF C!ContextFrames, C!ObserverFrames
  <2>2. C!Empty \in Seq(F) /\ C!Starting \in Seq(F) /\ C!TaskRuns \in Seq(F)
    BY DEF C!Empty, C!Starting, C!TaskRuns
  <2>3. C!TaskShuts \in Seq(F) /\ C!TaskDeletes \in Seq(F) /\ C!TaskClears \in Seq(F)
    BY DEF C!TaskShuts, C!TaskDeletes, C!TaskClears
  <2>4. C!TaskCloses \in Seq(F) /\ C!LoopShuts \in Seq(F) /\ C!LoopRuns \in Seq(F)
    BY DEF C!TaskCloses, C!LoopShuts, C!LoopRuns
  <2>5. C!LoopReturns \in Seq(F) /\ C!LoopClears \in Seq(F) /\ C!LoopCloses \in Seq(F)
    BY DEF C!LoopReturns, C!LoopClears, C!LoopCloses
  <2>6. C!LoopDeletes \in Seq(F)
    BY DEF C!LoopDeletes
  <2> HIDE DEF F
  <2> QED
    BY <2>1, <2>2, <2>3, <2>4, <2>5, <2>6, StackIsKnown DEF AnyStack
<1>4. C!NoDanglingObserver
  <2> SUFFICES ASSUME stack = C!Empty, io = C!Empty
               PROVE  /\ context = "alive" /\ observerPtr => observer = "alive"
                      /\ loop = "destroyed" => observer # "alive"
                      /\ context = "freed" /\ loop = "running" => observer # "alive"
    BY DEF C!NoDanglingObserver, C!Empty
  <2>1. C!StartTask # C!Empty /\ C!BothTasks # C!Empty /\ C!ShutDownTask # C!Empty
    BY DEF C!StartTask, C!BothTasks, C!ShutDownTask, C!Empty
  <2>2. CASE loop = "running"
    <3>1. \/ connection # "destroyed"
          \/ observer # "alive" /\ context = "freed"
      BY <2>1, <2>2, StacksDiffer DEF LifeInv, FlagsOK, C!Life, C!LifeInLoop
    <3>2. connection # "destroyed" =>
            context = "alive" /\ (observerPtr = FALSE \/ observer = "alive")
      BY <2>1, <2>2, StacksDiffer DEF LifeInv, FlagsOK, C!Life, C!LifeInLoop, C!Know
    <3> QED
      BY <2>2, <3>1, <3>2
  <2>3. CASE loop = "destroyed"
    <3>1. observer # "alive" /\ (context = "freed" \/ observerPtr = FALSE)
      BY <2>3, StacksDiffer DEF LifeInv, FlagsOK, C!Life, C!LifeAfterLoop, C!Know
    <3> QED
      BY <2>3, <3>1
  <2> QED
    BY <2>2, <2>3 DEF LifeInv, FlagsOK
<1>5. C!FramesHaveObjects
  <2>1. stack # C!Empty /\ stack \notin {C!Starting, C!TaskClears, C!TaskCloses} => observer = "alive"
    BY StacksDiffer DEF LifeInv, FlagsOK, C!Life, C!LifeInLoop, C!LifeAfterLoop, C!Know
  <2>2. stack # C!Empty /\ stack \notin {C!LoopShuts, C!LoopDeletes} => context = "alive"
    BY StacksDiffer DEF LifeInv, FlagsOK, C!Life, C!LifeInLoop, C!LifeAfterLoop, C!Know
  <2>3. CASE stack = C!Empty
    BY <2>3 DEF C!FramesHaveObjects, C!Empty
  <2>4. CASE stack \in {C!Starting, C!TaskClears, C!TaskCloses}
    <3>1. context = "alive"
      BY <2>2, <2>4, StacksDiffer
    <3>2. \A i \in DOMAIN stack : stack[i] \notin C!ObserverFrames
      <4>1. CASE stack = C!Starting
        <5>1. \A i \in DOMAIN stack : stack[i] = "StartOnIOThread"
          BY <4>1, OneFrame, Zenon DEF C!Starting
        <5> QED
          BY <5>1 DEF C!ObserverFrames
      <4>2. CASE stack = C!TaskClears
        <5>1. \A i \in DOMAIN stack : stack[i] = "clear"
          BY <4>2, OneFrame, Zenon DEF C!TaskClears
        <5> QED
          BY <5>1 DEF C!ObserverFrames
      <4>3. CASE stack = C!TaskCloses
        <5>1. \A i \in DOMAIN stack : stack[i] = "close"
          BY <4>3, OneFrame, Zenon DEF C!TaskCloses
        <5> QED
          BY <5>1 DEF C!ObserverFrames
      <4> QED
        BY <2>4, <4>1, <4>2, <4>3
    <3> QED
      BY <3>1, <3>2 DEF C!FramesHaveObjects
  <2>5. CASE stack \in {C!LoopShuts, C!LoopDeletes}
    <3>1. observer = "alive"
      BY <2>1, <2>5, StacksDiffer
    <3>2. \A i \in DOMAIN stack : stack[i] \notin C!ContextFrames
      <4>1. CASE stack = C!LoopShuts
        <5>1. \A i \in DOMAIN stack : stack[i] = "ShutDown"
          BY <4>1, OneFrame, Zenon DEF C!LoopShuts
        <5> QED
          BY <5>1 DEF C!ContextFrames
      <4>2. CASE stack = C!LoopDeletes
        <5>1. \A i \in DOMAIN stack : stack[i] = "delete this"
          BY <4>2, OneFrame, Zenon DEF C!LoopDeletes
        <5> QED
          BY <5>1 DEF C!ContextFrames
      <4> QED
        BY <2>5, <4>1, <4>2
    <3> QED
      BY <3>1, <3>2 DEF C!FramesHaveObjects
  <2>6. CASE /\ stack # C!Empty /\ stack \notin {C!Starting, C!TaskClears, C!TaskCloses}
             /\ stack \notin {C!LoopShuts, C!LoopDeletes}
    BY <2>1, <2>2, <2>6 DEF C!FramesHaveObjects
  <2> QED
    BY <2>3, <2>4, <2>5, <2>6
<1> QED
  BY <1>2, <1>3, <1>4, <1>5

(* Every step of a connection follows its life cycle.                      *)
LEMMA ConnectionKeepsLife ==
  ASSUME LifeInv, [C!Next]_C!vars
  PROVE  LifeInv'
<1>1. CASE C!FrameStep
  BY <1>1, StartOnIOThreadKeepsLife, ShutDownOnIOThreadKeepsLife, ClearObserverKeepsLife,
     CloseBindingsKeepsLife, ObserverShutDownKeepsLife, DeleteObserverKeepsLife
  DEF C!FrameStep
<1>2. CASE C!Start \/ C!Destroy \/ C!IORunTask \/ C!DestroyLoop
  BY <1>2, StartKeepsLife, DestroyKeepsLife, IORunTaskKeepsLife, DestroyLoopKeepsLife
<1>3. CASE C!UIRunTask \/ C!OnBindInterface \/ C!CreateService \/ C!OnDisconnected
  BY <1>3, MessagesKeepLife
<1>4. CASE UNCHANGED C!vars
  <2>1. /\ connection' = connection /\ context' = context /\ weak' = weak
        /\ observerPtr' = observerPtr /\ observer' = observer /\ is_active' = is_active
        /\ io' = io /\ stack' = stack /\ loop' = loop
        /\ binding' = binding /\ factories' = factories /\ stop_callback' = stop_callback
    BY <1>4 DEF C!vars, C!contextVars, C!observerVars
  <2>2. FlagsOK'
    BY <2>1 DEF LifeInv, FlagsOK
  <2>3. C!Life'
    BY <2>1 DEF LifeInv, C!Life, C!LifeInLoop, C!LifeAfterLoop, C!Know
  <2> QED
    BY <2>2, <2>3 DEF LifeInv
<1> QED
  BY <1>1, <1>2, <1>3, <1>4 DEF C!Next

(* The requests and the tasks that bring them: the other part of the        *)
(* invariant.                                                               *)
UITask == {"stop_callback", "CreateService"}
RequestsInv ==
  /\ ui \in Seq(UITask)
  /\ requests \in 0..MaxRequests
  /\ handled \in Nat
  /\ handled + Cardinality(Places(ui, {"CreateService"})) <= requests

(* A request is brought to the UI thread once and handled there once.      *)
LEMMA ConnectionKeepsRequests ==
  ASSUME RequestsInv, [C!Next]_C!vars
  PROVE  RequestsInv'
<1> DEFINE request == "CreateService"
           n(q) == Cardinality(Places(q, {request}))
<1>0. /\ ui \in Seq(UITask) /\ requests \in Nat /\ requests <= MaxRequests
      /\ handled \in Nat /\ handled + n(ui) <= requests /\ n(ui) \in Nat
  <2>1. n(ui) \in Nat
    BY PlacesAreFinite DEF RequestsInv
  <2> QED
    BY <2>1 DEF RequestsInv
<1>1. CASE C!UIRunTask
  <2> DEFINE one == IF Head(ui) = request THEN 1 ELSE 0
  <2>1. /\ ui # <<>> /\ ui' = Tail(ui) /\ requests' = requests
        /\ handled' = handled \/ (handled' = handled + 1 /\ Head(ui) = request)
    BY <1>1 DEF C!UIRunTask
  <2>2. ui' \in Seq(UITask) /\ n(ui') + one <= n(ui)
    <3>1. n(Tail(ui)) + one <= n(ui)
      BY <1>0, <2>1, PlacesOfTail
    <3> QED
      BY <1>0, <2>1, <3>1, HeadTailProperties
  <2>3. n(ui') \in Nat
    BY <2>2, PlacesAreFinite
  <2>4. handled' \in Nat /\ handled' <= handled + one /\ one \in Nat
    BY <1>0, <2>1
  <2> HIDE DEF n, one
  <2>5. handled' + n(ui') <= requests'
    BY <1>0, <2>1, <2>2, <2>3, <2>4
  <2> QED
    BY <1>0, <2>1, <2>2, <2>4, <2>5 DEF RequestsInv, n
<1>2. ASSUME NEW e \in UITask, ui' = Append(ui, e), handled' = handled,
             requests' = requests + (IF e = request THEN 1 ELSE 0),
             requests' <= MaxRequests
      PROVE  RequestsInv'
  <2> DEFINE one == IF e = request THEN 1 ELSE 0
  <2>1. ui' \in Seq(UITask) /\ n(ui') <= n(ui) + one
    <3>1. n(Append(ui, e)) <= n(ui) + one
      BY <1>0, PlacesOfAppend
    <3> QED
      BY <1>0, <1>2, <3>1, AppendProperties
  <2>2. n(ui') \in Nat
    BY <2>1, PlacesAreFinite
  <2>3. requests' = requests + one /\ one \in Nat
    BY <1>2
  <2> HIDE DEF n, one
  <2>4. handled' + n(ui') <= requests' /\ requests' \in 0..MaxRequests
    BY <1>0, <1>2, <2>1, <2>2, <2>3, RequestsAssumption
  <2> QED
    BY <1>0, <1>2, <2>1, <2>4 DEF RequestsInv, n
<1>3. CASE C!CreateService
  <2>1. /\ requests < MaxRequests /\ requests' = requests + 1 /\ handled' = handled
        /\ ui' = Append(ui, "CreateService")
    BY <1>3 DEF C!CreateService
  <2>2. "CreateService" \in UITask /\ requests' <= MaxRequests
    BY <1>0, <2>1, RequestsAssumption DEF UITask
  <2> QED
    BY <1>2, <2>1, <2>2
<1>4. CASE C!OnDisconnected
  <2>1. requests' = requests /\ handled' = handled /\ ui' = Append(ui, "stop_callback")
    BY <1>4 DEF C!OnDisconnected, C!StopTask
  <2>2. "stop_callback" \in UITask /\ "stop_callback" # request
    BY DEF UITask
  <2>3. requests' <= MaxRequests /\ requests' = requests + 0
    BY <1>0, <2>1
  <2> QED
    BY <1>2, <2>1, <2>2, <2>3
<1>5. CASE \/ C!Start \/ C!Destroy \/ C!IORunTask \/ C!FrameStep \/ C!DestroyLoop
           \/ C!OnBindInterface \/ UNCHANGED C!vars
  <2>1. ui' = ui /\ requests' = requests /\ handled' = handled
    BY <1>5 DEF C!Start, C!Destroy, C!IORunTask, C!FrameStep, C!DestroyLoop,
                C!OnBindInterface, C!StartOnIOThread, C!ShutDownOnIOThread,
                C!ClearObserver, C!CloseBindings, C!ObserverShutDown, C!DeleteObserver,
                C!vars
  <2> QED
    BY <2>1 DEF RequestsInv
<1> QED
  BY <1>1, <1>3, <1>4, <1>5 DEF C!Next

(* Together they are the invariant of the connection.                      *)
LEMMA ConnectionInvParts == LifeInv /\ RequestsInv => C!ConnectionInv
<1> SUFFICES ASSUME LifeInv, RequestsInv
             PROVE  C!ConnectionInv
  OBVIOUS
<1>1. Cardinality(Places(ui, {"CreateService"})) \in Nat
  BY PlacesAreFinite DEF RequestsInv
<1>2. handled \in 0..requests
  BY <1>1 DEF RequestsInv
<1>3. C!TypeOK
  BY <1>2, LifeImplies DEF LifeInv, FlagsOK, RequestsInv, UITask, C!TypeOK
<1>4. C!HandledOnce
  <2> DEFINE P == {i \in 1..Len(ui) : ui[i] = "CreateService"}
  <2>1. C!Cardinality(P) = Cardinality(P)
    BY DEF C!Cardinality, Cardinality
  <2>2. handled + Cardinality(P) <= requests
    BY DEF RequestsInv, Places
  <2> QED
    BY <2>1, <2>2 DEF C!HandledOnce
<1> QED
  BY <1>3, <1>4, LifeImplies DEF LifeInv, C!ConnectionInv

(* It holds at first.                                                      *)
LEMMA ConnectionInit == C!Init => LifeInv /\ RequestsInv
<1> SUFFICES ASSUME C!Init
             PROVE  LifeInv /\ RequestsInv
  OBVIOUS
<1>1. FlagsOK
  <2>1. /\ weak \in BOOLEAN /\ observerPtr \in BOOLEAN /\ is_active \in BOOLEAN
        /\ stop_callback \in BOOLEAN
    BY Zenon DEF C!Init
  <2>2. factories \in 0..1
    BY DEF C!Init
  <2> QED
    BY <2>1, <2>2 DEF C!Init, FlagsOK
<1>2. C!Know("none", TRUE, FALSE, TRUE) /\ io = C!Empty /\ stack = C!Empty
        /\ connection = "created" /\ loop = "running" /\ context = "alive"
  BY DEF C!Init, C!Know, C!Empty
<1>3. C!Life
  BY <1>2 DEF C!Life, C!LifeInLoop
<1>4. Places(ui, {"CreateService"}) = {} /\ ui = <<>>
  BY DEF C!Init, Places
<1>5. Cardinality(Places(ui, {"CreateService"})) = 0
  BY <1>4, FS_EmptySet
<1>6. RequestsInv
  BY <1>4, <1>5, RequestsAssumption DEF C!Init, RequestsInv, UITask
<1> QED
  BY <1>1, <1>3, <1>6 DEF LifeInv

(* A step of the program is a step of the connection or leaves it alone.   *)
LEMMA StepsOfConnection == [AllNext]_allVars => [C!Next]_C!vars
<1> SUFFICES ASSUME [AllNext]_allVars
             PROVE  [C!Next]_C!vars
  OBVIOUS
<1>1. UNCHANGED connectionVars => UNCHANGED C!vars
  BY DEF connectionVars, C!vars, C!contextVars, C!observerVars
<1>2. CASE \/ \E t \in Threads : ThreadCall(t) \/ \E id \in ID : ThreadPost(t, id)
           \/ MainThread \/ BeginShutdown \/ Join \/ IOThread
  BY <1>1, <1>2 DEF ThreadCall, ThreadPost, MainThread, BeginShutdown, Join, IOThread
<1>3. CASE StartConnection \/ DestroyConnection \/ RunConnectionUITask
  BY <1>3 DEF StartConnection, DestroyConnection, RunConnectionUITask, C!Next
<1>4. CASE RunConnectionTask \/ RunFrame \/ DestroyIOLoop
  BY <1>4 DEF RunConnectionTask, RunFrame, DestroyIOLoop, C!Next
<1>5. CASE ReceiveBindInterface \/ ReceiveCreateService \/ LosesConnection
  BY <1>5 DEF ReceiveBindInterface, ReceiveCreateService, LosesConnection, C!Next
<1>6. CASE UNCHANGED allVars
  BY <1>1, <1>6 DEF allVars
<1> QED
  BY <1>2, <1>3, <1>4, <1>5, <1>6 DEF AllNext

(* The connection on the threads of the program behaves as a connection by  *)
(* itself: the threads only choose among the orders of its steps.           *)
THEOREM ProgramRunsConnection == Spec => C!Spec
  BY StepsOfConnection, PTL DEF Spec, AllInit, C!Spec

(* A connection's context and observer end in step, whichever of the owner  *)
(* and the message loop goes first: no frame runs on an object that is      *)
(* gone, no pointer dangles, and a request is handled once at most.         *)
THEOREM ConnectionInvariance == C!Spec => []C!ConnectionInv
<1>1. LifeInv /\ RequestsInv /\ [C!Next]_C!vars => LifeInv' /\ RequestsInv'
  BY ConnectionKeepsLife, ConnectionKeepsRequests
<1> QED
  BY <1>1, ConnectionInit, ConnectionInvParts, PTL DEF C!Spec

(* Through start and shutdown of the program the threads keep their         *)
(* protocol, and the connection on them its life cycle.                     *)
THEOREM WebLoopInvariance == Spec => []WebLoopInv
<1>1. ThreadsInv /\ C!ConnectionInv => WebLoopInv
  BY DEF WebLoopInv
<1> QED
  BY <1>1, ThreadsInvariance, ProgramRunsConnection, ConnectionInvariance, PTL

(* The handler of a connection is not called after its destruction, however *)
(* late the task that would call it comes.                                  *)
THEOREM SilentAfterDestroy == Spec => NoCallAfterDestroy
<1>1. [C!Next]_C!vars => [connection = "destroyed" => handled' = handled]_C!vars
  <2> SUFFICES ASSUME C!Next, connection = "destroyed"
               PROVE  handled' = handled
    OBVIOUS
  <2>1. CASE C!UIRunTask
    BY <2>1 DEF C!UIRunTask, C!Calls
  <2>2. CASE ~C!UIRunTask
    BY <2>2 DEF C!Next, C!Start, C!Destroy, C!IORunTask, C!FrameStep, C!DestroyLoop,
                C!OnBindInterface, C!CreateService, C!OnDisconnected,
                C!StartOnIOThread, C!ShutDownOnIOThread, C!ClearObserver,
                C!CloseBindings, C!ObserverShutDown, C!DeleteObserver
  <2> QED
    BY <2>1, <2>2
<1> QED
  BY <1>1, ProgramRunsConnection, PTL DEF C!Spec, NoCallAfterDestroy, C!NoCallAfterDestroy

=============================================================================
