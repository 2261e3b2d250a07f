--------------------- MODULE BrowsingDataRemoverProofs ---------------------
(***************************************************************************)
(* BrowsingDataRemoverImpl removes one thing at a time, with any number of  *)
(* calls and any masks: the count of pending tasks is that of the closures  *)
(* that are still to come, a removal that calls back has nothing under way, *)
(* and the callbacks come in the order of the calls.                        *)
(***************************************************************************)
EXTENDS BrowsingDataRemover, ListLemmas

USE MaxRemovalsAssumption

-----------------------------------------------------------------------------
(* The tasks of the sequence.                                              *)

(* The closures of jobs, the tasks that start a removal, the callbacks.    *)
Closures  == [op : {"OnTaskComplete", "BookmarksCleared"}, id : Nat]
NextTasks == [op : {"RunNextTask"}, id : Nat]
Callbacks(u) == {u[n].id : n \in {m \in 1..Len(u) : u[m].op = "callback"}}

AllCleared(u) == \A n \in 1..Len(u) : u[n].op # "BookmarksNotCleared"

ClosureCount(u) == Cardinality(Places(u, Closures))
NextCount(u)    == Cardinality(Places(u, NextTasks))

(* A task has its operation and the id of its removal.                     *)
LEMMA TaskFacts ==
  ASSUME NEW t \in Task
  PROVE  /\ t.op \in UITasks /\ t.id \in Nat
         /\ t \in Closures <=> t.op \in {"OnTaskComplete", "BookmarksCleared"}
         /\ t \in NextTasks <=> t.op = "RunNextTask"
  BY DEF Task, Closures, NextTasks

(* The counts are those of the invariants.                                 *)
LEMMA CountsOfTasks ==
  ASSUME NEW u \in Seq(Task)
  PROVE  /\ ClosureCount(u) \in Nat /\ NextCount(u) \in Nat
         /\ ClosureCount(u) = Cardinality({n \in DOMAIN u :
              u[n].op \in {"OnTaskComplete", "BookmarksCleared"}})
         /\ NextCount(u) = Cardinality({n \in DOMAIN u : u[n].op = "RunNextTask"})
         /\ ClosureCount(u) = 0 <=>
              \A n \in 1..Len(u) : u[n].op \notin {"OnTaskComplete", "BookmarksCleared"}
         /\ NextCount(u) = 0 <=> \A n \in 1..Len(u) : u[n].op # "RunNextTask"
<1>1. DOMAIN u = 1..Len(u) /\ \A n \in 1..Len(u) : u[n] \in Task
  BY LenProperties, ElementOfSeq
<1>2. /\ Places(u, Closures) =
           {n \in DOMAIN u : u[n].op \in {"OnTaskComplete", "BookmarksCleared"}}
      /\ Places(u, NextTasks) = {n \in DOMAIN u : u[n].op = "RunNextTask"}
  BY <1>1, TaskFacts DEF Places
<1>3. /\ ClosureCount(u) = 0 <=> \A n \in 1..Len(u) : u[n] \notin Closures
      /\ NextCount(u) = 0 <=> \A n \in 1..Len(u) : u[n] \notin NextTasks
  BY NoPlaces DEF ClosureCount, NextCount
<1>4. ClosureCount(u) \in Nat /\ NextCount(u) \in Nat
  BY PlacesAreFinite DEF ClosureCount, NextCount
<1> QED
  BY <1>1, <1>2, <1>3, <1>4, TaskFacts DEF ClosureCount, NextCount

(* One task.                                                               *)
LEMMA PostFacts ==
  ASSUME NEW op \in UITasks, NEW id \in Nat
  PROVE  /\ Post(op, id) \in Seq(Task) /\ Len(Post(op, id)) = 1
         /\ Post(op, id)[1] = [op |-> op, id |-> id]
         /\ ClosureCount(Post(op, id)) =
              IF op \in {"OnTaskComplete", "BookmarksCleared"} THEN 1 ELSE 0
         /\ NextCount(Post(op, id)) = IF op = "RunNextTask" THEN 1 ELSE 0
         /\ Callbacks(Post(op, id)) = IF op = "callback" THEN {id} ELSE {}
<1> DEFINE t == [op |-> op, id |-> id]
           p == Post(op, id)
<1>1. t \in Task /\ t.op = op /\ t.id = id
  BY DEF Task
<1> HIDE DEF t
<1>2. p = <<t>>
  BY DEF Post, t
<1>3. p \in Seq(Task) /\ Len(p) = 1 /\ p[1] = t
  BY <1>1, <1>2
<1> HIDE DEF p
<1>4. /\ Places(p, Closures) = IF t \in Closures THEN {1} ELSE {}
      /\ Places(p, NextTasks) = IF t \in NextTasks THEN {1} ELSE {}
  BY <1>3 DEF Places
<1>5. Cardinality({1}) = 1 /\ Cardinality({}) = 0
  BY FS_Singleton, FS_EmptySet
<1>6. Callbacks(p) = IF op = "callback" THEN {id} ELSE {}
  BY <1>1, <1>3 DEF Callbacks
<1> QED
  BY <1>1, <1>3, <1>4, <1>5, <1>6, TaskFacts DEF ClosureCount, NextCount, p, t

(* Tasks posted behind others.                                             *)
LEMMA TasksInLine ==
  ASSUME NEW s \in Seq(Task), NEW t \in Seq(Task)
  PROVE  /\ s \o t \in Seq(Task) /\ Len(s \o t) = Len(s) + Len(t)
         /\ ClosureCount(s \o t) = ClosureCount(s) + ClosureCount(t)
         /\ NextCount(s \o t) = NextCount(s) + NextCount(t)
         /\ Callbacks(s \o t) = Callbacks(s) \cup Callbacks(t)
         /\ \A n \in 1..Len(s \o t) : \/ \E m \in 1..Len(s) : (s \o t)[n] = s[m]
                                      \/ \E m \in 1..Len(t) : (s \o t)[n] = t[m]
<1> DEFINE u == s \o t
<1>1. /\ Len(s) \in Nat /\ Len(t) \in Nat /\ u \in Seq(Task) /\ Len(u) = Len(s) + Len(t)
      /\ \A i \in 1..Len(s) : u[i] = s[i]
      /\ \A i \in 1..Len(t) : u[Len(s) + i] = t[i]
  BY ConcatProperties, LenProperties
<1>2. /\ ClosureCount(u) = ClosureCount(s) + ClosureCount(t)
      /\ NextCount(u) = NextCount(s) + NextCount(t)
  BY PlacesOfConcat DEF ClosureCount, NextCount
<1> HIDE DEF u
<1>3. ASSUME NEW n \in 1..Len(u)
      PROVE  (n \in 1..Len(s) /\ u[n] = s[n]) \/ (n - Len(s) \in 1..Len(t) /\ u[n] = t[n - Len(s)])
  <2>1. CASE n <= Len(s)
    BY <1>1, <2>1
  <2>2. CASE n > Len(s)
    <3>1. n - Len(s) \in 1..Len(t) /\ Len(s) + (n - Len(s)) = n
      BY <1>1, <2>2
    <3> QED
      BY <1>1, <3>1
  <2> QED
    BY <1>1, <2>1, <2>2
<1>4. Callbacks(u) \subseteq Callbacks(s) \cup Callbacks(t)
  BY <1>3 DEF Callbacks
<1>5. Callbacks(s) \subseteq Callbacks(u)
  BY <1>1 DEF Callbacks
<1>6. Callbacks(t) \subseteq Callbacks(u)
  <2>1. \A i \in 1..Len(t) : Len(s) + i \in 1..Len(u)
    BY <1>1
  <2> QED
    BY <1>1, <2>1 DEF Callbacks
<1> QED
  BY <1>1, <1>2, <1>3, <1>4, <1>5, <1>6 DEF u

(* The first task goes.                                                    *)
LEMMA TasksBehind ==
  ASSUME NEW u \in Seq(Task), u # <<>>
  PROVE  /\ Head(u) \in Task /\ Tail(u) \in Seq(Task)
         /\ ClosureCount(u) = ClosureCount(Tail(u)) + IF Head(u) \in Closures THEN 1 ELSE 0
         /\ NextCount(u) = NextCount(Tail(u)) + IF Head(u) \in NextTasks THEN 1 ELSE 0
         /\ Callbacks(Tail(u)) \subseteq Callbacks(u)
         /\ \A n \in 1..Len(Tail(u)) : \E m \in 1..Len(u) : Tail(u)[n] = u[m]
<1> DEFINE t == Tail(u)
<1>1. /\ Len(u) \in Nat \ {0} /\ t \in Seq(Task) /\ Len(t) = Len(u) - 1
      /\ Head(u) \in Task /\ \A i \in 1..Len(t) : t[i] = u[i + 1]
  BY HeadTailProperties, EmptySeq, LenProperties
<1>2. /\ ClosureCount(u) = ClosureCount(t) + IF Head(u) \in Closures THEN 1 ELSE 0
      /\ NextCount(u) = NextCount(t) + IF Head(u) \in NextTasks THEN 1 ELSE 0
  BY PlacesOfTail DEF ClosureCount, NextCount
<1> HIDE DEF t
<1>3. \A n \in 1..Len(t) : n + 1 \in 1..Len(u) /\ t[n] = u[n + 1]
  BY <1>1
<1>4. Callbacks(t) \subseteq Callbacks(u)
  BY <1>3 DEF Callbacks
<1> QED
  BY <1>1, <1>2, <1>3, <1>4 DEF t

-----------------------------------------------------------------------------
(* The callbacks take their turns.                                         *)

(* A callback waits for a removal that has left the queue.                 *)
LEMMA TurnBound ==
  ASSUME NEW u \in Seq(Task), NEW c \in Seq(Nat), NEW left \in Nat, InTurn(u, c, left)
  PROVE  \A id \in Callbacks(u) : id \in Nat /\ id <= left
<1>1. DOMAIN u = 1..Len(u) /\ \A n \in 1..Len(u) : u[n] \in Task
  BY LenProperties, ElementOfSeq
<1> QED
  BY <1>1, TaskFacts DEF InTurn, Callbacks

(* Tasks behind others, when the callbacks among them are those of the      *)
(* removals that leave the queue next.                                      *)
LEMMA TurnInLine ==
  ASSUME NEW u \in Seq(Task), NEW t \in Seq(Task), NEW c \in Seq(Nat),
         NEW left \in Nat, NEW next \in Nat, left <= next, InTurn(u, c, left),
         \A n \in 1..Len(t) : t[n].op = "callback" =>
           /\ left < t[n].id /\ t[n].id <= next
           /\ \A m \in 1..Len(t) : t[m].op = "callback" /\ m < n => t[m].id < t[n].id
  PROVE  InTurn(u \o t, c, next)
<1> DEFINE w == u \o t
<1>1. /\ Len(u) \in Nat /\ Len(t) \in Nat /\ w \in Seq(Task) /\ Len(w) = Len(u) + Len(t)
      /\ \A i \in 1..Len(u) : w[i] = u[i]
      /\ \A i \in 1..Len(t) : w[Len(u) + i] = t[i]
      /\ DOMAIN u = 1..Len(u) /\ DOMAIN w = 1..Len(w) /\ DOMAIN c = 1..Len(c)
  BY ConcatProperties, LenProperties
<1>2. /\ \A n \in 1..Len(u) : u[n].id \in Nat
      /\ \A n \in 1..Len(t) : t[n].id \in Nat
      /\ \A m \in 1..Len(c) : c[m] \in Nat
  <2>1. \A n \in 1..Len(u) : u[n] \in Task
    BY ElementOfSeq
  <2>2. \A n \in 1..Len(t) : t[n] \in Task
    BY ElementOfSeq
  <2>3. \A m \in 1..Len(c) : c[m] \in Nat
    BY ElementOfSeq
  <2> QED
    BY <2>1, <2>2, <2>3, TaskFacts
<1> HIDE DEF w
<1>3. /\ \A n \in 1..Len(u) : u[n].op = "callback" =>
           /\ u[n].id <= left
           /\ \A m \in 1..Len(c) : c[m] < u[n].id
           /\ \A m \in 1..Len(u) : u[m].op = "callback" /\ m < n => u[m].id < u[n].id
      /\ \A m \in 1..Len(c) : c[m] <= left
  BY <1>1 DEF InTurn
<1>4. ASSUME NEW n \in 1..Len(w)
      PROVE  (n \in 1..Len(u) /\ w[n] = u[n]) \/ (n > Len(u) /\ n - Len(u) \in 1..Len(t) /\ w[n] = t[n - Len(u)])
  <2>1. CASE n <= Len(u)
    BY <1>1, <2>1
  <2>2. CASE n > Len(u)
    <3>1. n - Len(u) \in 1..Len(t) /\ Len(u) + (n - Len(u)) = n
      BY <1>1, <2>2
    <3> QED
      BY <1>1, <2>2, <3>1
  <2> QED
    BY <1>1, <2>1, <2>2
<1>5. ASSUME NEW n \in 1..Len(w), w[n].op = "callback"
      PROVE  /\ w[n].id <= next
             /\ \A m \in 1..Len(c) : c[m] < w[n].id
             /\ \A m \in 1..Len(w) : w[m].op = "callback" /\ m < n => w[m].id < w[n].id
  <2>1. CASE n \in 1..Len(u) /\ w[n] = u[n]
    <3>1. w[n].id <= next /\ \A m \in 1..Len(c) : c[m] < w[n].id
      BY <1>2, <1>3, <1>5, <2>1
    <3>2. \A m \in 1..Len(w) : m < n => m \in 1..Len(u) /\ w[m] = u[m]
      BY <1>1, <2>1
    <3> QED
      BY <1>3, <1>5, <2>1, <3>1, <3>2
  <2>2. CASE n > Len(u) /\ n - Len(u) \in 1..Len(t) /\ w[n] = t[n - Len(u)]
    <3> DEFINE k == n - Len(u)
    <3>1. k \in 1..Len(t) /\ w[n] = t[k] /\ t[k].op = "callback"
      BY <1>5, <2>2
    <3>2. left < t[k].id /\ t[k].id <= next /\ t[k].id \in Nat
      BY <1>2, <3>1
    <3> HIDE DEF k
    <3>3. \A m \in 1..Len(c) : c[m] < w[n].id
      <4> TAKE m \in 1..Len(c)
      <4>1. c[m] \in Nat /\ c[m] <= left
        BY <1>2, <1>3
      <4>2. c[m] < t[k].id
        BY <3>2, <4>1
      <4> QED
        BY <3>1, <4>2, Zenon
    <3>4. ASSUME NEW m \in 1..Len(w), w[m].op = "callback", m < n
          PROVE  w[m].id < w[n].id
      <4>1. CASE m \in 1..Len(u) /\ w[m] = u[m]
        <5>1. u[m].id \in Nat /\ u[m].id <= left
          BY <1>2, <1>3, <3>4, <4>1
        <5> QED
          BY <3>1, <3>2, <4>1, <5>1
      <4>2. CASE m > Len(u) /\ m - Len(u) \in 1..Len(t) /\ w[m] = t[m - Len(u)]
        <5>1. m - Len(u) < k
          BY <1>1, <3>4 DEF k
        <5> QED
          BY <3>1, <3>4, <4>2, <5>1
      <4> QED
        BY <1>4, <4>1, <4>2
    <3> QED
      BY <3>1, <3>2, <3>3, <3>4
  <2> QED
    BY <1>4, <2>1, <2>2
<1>6. \A m \in 1..Len(c) : c[m] <= next
  BY <1>2, <1>3
<1> QED
  BY <1>1, <1>5, <1>6 DEF InTurn, w

(* Other tasks do not disturb them.                                        *)
LEMMA TurnOfOthers ==
  ASSUME NEW u \in Seq(Task), NEW t \in Seq(Task), NEW c \in Seq(Nat), NEW left \in Nat,
         InTurn(u, c, left), Callbacks(t) = {}
  PROVE  InTurn(u \o t, c, left)
<1>1. \A n \in 1..Len(t) : t[n].op # "callback"
  BY DEF Callbacks
<1>2. \A n \in 1..Len(t) : t[n].op = "callback" =>
        /\ left < t[n].id /\ t[n].id <= left
        /\ \A m \in 1..Len(t) : t[m].op = "callback" /\ m < n => t[m].id < t[n].id
  BY <1>1, Zenon
<1>3. left <= left
  OBVIOUS
<1> QED
  BY <1>2, <1>3, TurnInLine

Behind(t, op, id) == t \o Post(op, id)

(* One task more.                                                          *)
LEMMA BehindFacts ==
  ASSUME NEW t \in Seq(Task), NEW op \in UITasks, NEW id \in Nat
  PROVE  /\ Behind(t, op, id) \in Seq(Task)
         /\ ClosureCount(Behind(t, op, id)) = ClosureCount(t) + ClosureCount(Post(op, id))
         /\ NextCount(Behind(t, op, id)) = NextCount(t) + NextCount(Post(op, id))
         /\ Callbacks(Behind(t, op, id)) = Callbacks(t) \cup Callbacks(Post(op, id))
         /\ AllCleared(t) /\ op # "BookmarksNotCleared" => AllCleared(Behind(t, op, id))
<1> DEFINE p == Post(op, id)
           u == t \o p
<1>1. /\ p \in Seq(Task) /\ Len(p) = 1 /\ p[1] = [op |-> op, id |-> id]
      /\ ClosureCount(p) = IF op \in {"OnTaskComplete", "BookmarksCleared"} THEN 1 ELSE 0
      /\ NextCount(p) = IF op = "RunNextTask" THEN 1 ELSE 0
      /\ Callbacks(p) = IF op = "callback" THEN {id} ELSE {}
  BY PostFacts
<1>2. \A k \in 1..Len(p) : k = 1 /\ p[k].op = op /\ p[k].id = id
  BY <1>1
<1> HIDE DEF p
<1>3. /\ u \in Seq(Task) /\ ClosureCount(u) = ClosureCount(t) + ClosureCount(p)
      /\ NextCount(u) = NextCount(t) + NextCount(p)
      /\ Callbacks(u) = Callbacks(t) \cup Callbacks(p)
  BY <1>1, TasksInLine
<1>4. ASSUME AllCleared(t), op # "BookmarksNotCleared"
      PROVE  AllCleared(u)
  <2>1. \A n \in 1..Len(u) : \/ \E m \in 1..Len(t) : u[n] = t[m]
                             \/ \E m \in 1..Len(p) : u[n] = p[m]
    BY <1>1, TasksInLine
  <2> QED
    BY <1>2, <1>4, <2>1 DEF AllCleared
<1>5. Behind(t, op, id) = u
  BY DEF Behind, p
<1> HIDE DEF u
<1> QED
  BY <1>3, <1>4, <1>5 DEF p

(* A task that neither completes nor starts anything ...                   *)
LEMMA BehindOther ==
  ASSUME NEW t \in Seq(Task), NEW id \in Nat,
         NEW op \in {"callback", "NotifyBrowsingDataRemoved"}
  PROVE  /\ Behind(t, op, id) \in Seq(Task)
         /\ ClosureCount(Behind(t, op, id)) = ClosureCount(t)
         /\ NextCount(Behind(t, op, id)) = NextCount(t)
         /\ AllCleared(t) => AllCleared(Behind(t, op, id))
<1>1. /\ op \in UITasks /\ op # "BookmarksNotCleared" /\ op # "RunNextTask"
      /\ op \notin {"OnTaskComplete", "BookmarksCleared"}
  BY DEF UITasks
<1>2. ClosureCount(t) \in Nat /\ NextCount(t) \in Nat
  BY CountsOfTasks
<1>3. ClosureCount(Post(op, id)) = 0 /\ NextCount(Post(op, id)) = 0
  BY <1>1, PostFacts
<1> QED
  BY <1>1, <1>2, <1>3, BehindFacts

(* ... the one that starts the next removal ...                            *)
LEMMA BehindNext ==
  ASSUME NEW t \in Seq(Task), NEW id \in Nat
  PROVE  /\ Behind(t, "RunNextTask", id) \in Seq(Task)
         /\ ClosureCount(Behind(t, "RunNextTask", id)) = ClosureCount(t)
         /\ NextCount(Behind(t, "RunNextTask", id)) = NextCount(t) + 1
         /\ AllCleared(t) => AllCleared(Behind(t, "RunNextTask", id))
<1>1. "RunNextTask" \in UITasks
  BY DEF UITasks
<1>2. ClosureCount(t) \in Nat /\ NextCount(t) \in Nat
  BY CountsOfTasks
<1>3. ClosureCount(Post("RunNextTask", id)) = 0 /\ NextCount(Post("RunNextTask", id)) = 1
  BY <1>1, PostFacts
<1> QED
  BY <1>1, <1>2, <1>3, BehindFacts

(* ... and the closure of a job.                                           *)
LEMMA BehindClosure ==
  ASSUME NEW t \in Seq(Task), NEW id \in Nat,
         NEW op \in {"OnTaskComplete", "BookmarksCleared"}
  PROVE  /\ Behind(t, op, id) \in Seq(Task)
         /\ ClosureCount(Behind(t, op, id)) = ClosureCount(t) + 1
         /\ NextCount(Behind(t, op, id)) = NextCount(t)
         /\ Callbacks(Behind(t, op, id)) = Callbacks(t)
         /\ AllCleared(t) => AllCleared(Behind(t, op, id))
<1>1. op \in UITasks /\ op # "BookmarksNotCleared" /\ op # "RunNextTask" /\ op # "callback"
  BY DEF UITasks
<1>2. ClosureCount(t) \in Nat /\ NextCount(t) \in Nat
  BY CountsOfTasks
<1>3. ClosureCount(Post(op, id)) = 1 /\ NextCount(Post(op, id)) = 0 /\ Callbacks(Post(op, id)) = {}
  BY <1>1, PostFacts
<1>4. Callbacks(Behind(t, op, id)) = Callbacks(t)
  <2>1. Callbacks(Behind(t, op, id)) = Callbacks(t) \cup Callbacks(Post(op, id))
    BY <1>1, BehindFacts
  <2> QED
    BY <1>3, <2>1
<1> QED
  BY <1>1, <1>2, <1>3, <1>4, BehindFacts

(* A callback comes behind the others when it is its removal's turn ...     *)
LEMMA TurnOfCallback ==
  ASSUME NEW t \in Seq(Task), NEW c \in Seq(Nat), NEW left \in Nat, InTurn(t, c, left)
  PROVE  InTurn(Behind(t, "callback", left + 1), c, left + 1)
<1> DEFINE p == Post("callback", left + 1)
<1>1. "callback" \in UITasks /\ left + 1 \in Nat
  BY DEF UITasks
<1>2. p \in Seq(Task) /\ Len(p) = 1 /\ p[1] = [op |-> "callback", id |-> left + 1]
  BY <1>1, PostFacts
<1> HIDE DEF p
<1>3. \A k \in 1..Len(p) : /\ left < p[k].id /\ p[k].id <= left + 1
                           /\ \A m \in 1..Len(p) : ~(m < k)
  BY <1>2
<1>4. left + 1 \in Nat /\ left <= left + 1
  OBVIOUS
<1>5. InTurn(t \o p, c, left + 1)
  BY <1>2, <1>3, <1>4, TurnInLine
<1> QED
  BY <1>5 DEF Behind, p

(* ... and another task at any time.                                       *)
LEMMA TurnOfOther ==
  ASSUME NEW t \in Seq(Task), NEW c \in Seq(Nat), NEW left \in Nat, InTurn(t, c, left),
         NEW op \in UITasks \ {"callback"}, NEW id \in Nat
  PROVE  InTurn(Behind(t, op, id), c, left)
<1>1. Post(op, id) \in Seq(Task) /\ Callbacks(Post(op, id)) = {}
  BY PostFacts
<1> QED
  BY <1>1, TurnOfOthers DEF Behind

(* The first task goes; if it is a callback it joins those that ran, after  *)
(* all of them.                                                             *)
LEMMA TurnOfTail ==
  ASSUME NEW u \in Seq(Task), u # <<>>, NEW c \in Seq(Nat), NEW left \in Nat,
         InTurn(u, c, left)
  PROVE  /\ InTurn(Tail(u), c, left)
         /\ Head(u).op = "callback" =>
              /\ InTurn(Tail(u), Append(c, Head(u).id), left)
              /\ \A m \in DOMAIN c : c[m] < Head(u).id
<1> DEFINE t == Tail(u)
           h == Head(u)
           d == Append(c, h.id)
<1>1. /\ Len(u) \in Nat \ {0} /\ t \in Seq(Task) /\ Len(t) = Len(u) - 1
      /\ h \in Task /\ h = u[1] /\ \A i \in 1..Len(t) : t[i] = u[i + 1]
      /\ DOMAIN u = 1..Len(u) /\ DOMAIN t = 1..Len(t) /\ DOMAIN c = 1..Len(c)
  BY HeadTailProperties, EmptySeq, LenProperties
<1>2. h.id \in Nat
  BY <1>1, TaskFacts
<1>3. Len(c) \in Nat /\ DOMAIN d = 1..(Len(c) + 1) /\ d[Len(c) + 1] = h.id
        /\ \A m \in 1..Len(c) : d[m] = c[m]
  BY <1>2, AppendProperties, LenProperties
<1> HIDE DEF t, h, d
<1>4. \A n \in 1..Len(t) : n + 1 \in 1..Len(u) /\ t[n] = u[n + 1] /\ 1 < n + 1
        /\ \A m \in 1..Len(t) : m < n => m + 1 < n + 1
  BY <1>1
<1>5. 1 \in 1..Len(u)
  BY <1>1
<1>6. InTurn(t, c, left)
  BY <1>1, <1>4 DEF InTurn
<1>7. ASSUME h.op = "callback"
      PROVE  InTurn(t, d, left) /\ \A m \in DOMAIN c : c[m] < h.id
  <2>1. h.id <= left /\ \A m \in DOMAIN c : c[m] < h.id
    BY <1>1, <1>5, <1>7 DEF InTurn
  <2>2. \A n \in 1..Len(t) : t[n].op = "callback" => h.id < t[n].id
    BY <1>1, <1>4, <1>5, <1>7 DEF InTurn
  <2>3. \A m \in DOMAIN d : d[m] = h.id \/ (m \in DOMAIN c /\ d[m] = c[m])
    BY <1>1, <1>3
  <2> QED
    BY <1>1, <1>6, <2>1, <2>2, <2>3 DEF InTurn
<1> QED
  BY <1>6, <1>7 DEF t, h, d

-----------------------------------------------------------------------------
(* The jobs.                                                               *)

CountedOf(js) == {job \in js : job.step # "unwaited"}

JobRecords == [id : Nat, kind : Kinds, step : {"posted", "backend", "doom", "unwaited"}]

JobsOK(js) ==
  /\ IsFiniteSet(js)
  /\ \A job \in js : /\ job \in JobRecords
                     /\ job.step # "posted" => job.kind \in {"cache", "website_data"}

OneOfAKind(js) ==
  \A job, other \in CountedOf(js) : job.id = other.id /\ job.kind = other.kind => job = other

(* There are finitely many kinds of jobs.                                  *)
LEMMA KindsAreFinite == IsFiniteSet(Kinds)
<1> DEFINE A == {"session", "snapshots", "cookies", "history"}
           B == {"host_cache", "origins", "keywords", "passwords"}
           C == {"cache", "downloads", "bookmarks", "reading_list"}
           D == {"form_data", "strikes", "networking", "website_data"}
<1>1. \A w, x, y, z : IsFiniteSet({w, x, y, z})
  <2> TAKE w, x, y, z
  <2>1. IsFiniteSet({w})
    BY FS_Singleton
  <2>2. IsFiniteSet({w} \cup {x})
    BY <2>1, FS_AddElement
  <2>3. IsFiniteSet(({w} \cup {x}) \cup {y})
    BY <2>2, FS_AddElement
  <2>4. IsFiniteSet((({w} \cup {x}) \cup {y}) \cup {z})
    BY <2>3, FS_AddElement
  <2>5. (({w} \cup {x}) \cup {y}) \cup {z} = {w, x, y, z}
    OBVIOUS
  <2> QED
    BY <2>4, <2>5
<1>2. IsFiniteSet(A) /\ IsFiniteSet(B) /\ IsFiniteSet(C) /\ IsFiniteSet(D)
  BY <1>1, Zenon
<1>3. Kinds = (A \cup B) \cup (C \cup D)
  BY DEF Kinds
<1> HIDE DEF A, B, C, D
<1>4. IsFiniteSet(A \cup B) /\ IsFiniteSet(C \cup D)
  BY <1>2, FS_Union
<1>5. IsFiniteSet((A \cup B) \cup (C \cup D))
  BY <1>4, FS_Union
<1> QED
  BY <1>3, <1>5

(* So a removal starts finitely many.                                      *)
LEMMA JobsOfFacts ==
  ASSUME NEW mask, NEW loaded
  PROVE  JobsOf(mask, loaded) \in SUBSET Kinds /\ IsFiniteSet(JobsOf(mask, loaded))
<1>1. JobsOf(mask, loaded) \in SUBSET Kinds
  BY DEF JobsOf, WebsiteDataJob, Kinds
<1> QED
  BY <1>1, KindsAreFinite, FS_Subset

NewJobs(id, K) == {Job(id, kind) : kind \in K}
NewUnwaited(id, K) == {[Job(id, kind) EXCEPT !.step = "unwaited"] : kind \in K}

Started(js, id, K, U) == (js \cup NewJobs(id, K)) \cup NewUnwaited(id, U)

(* The jobs that are started for some kinds are as many.                   *)
LEMMA StartedJobs ==
  ASSUME NEW id \in Nat, NEW K \in SUBSET Kinds
  PROVE  /\ JobsOK(NewJobs(id, K)) /\ Cardinality(NewJobs(id, K)) = Cardinality(K)
         /\ \A job \in NewJobs(id, K) :
              job.id = id /\ job.kind \in K /\ job.step = "posted"
         /\ OneOfAKind(NewJobs(id, K))
<1> DEFINE js == {Job(id, kind) : kind \in K}
           f == [kind \in K |-> Job(id, kind)]
<1>1. IsFiniteSet(K)
  BY KindsAreFinite, FS_Subset
<1>2. \A kind \in K : /\ Job(id, kind) \in JobRecords /\ Job(id, kind).kind = kind
                      /\ Job(id, kind).id = id /\ Job(id, kind).step = "posted"
  BY DEF Job, JobRecords
<1>3. f \in Bijection(K, js)
  <2>1. f \in [K -> js] /\ \A x, y \in K : f[x] = f[y] => x = y
    BY <1>2
  <2>2. \A j \in js : \E x \in K : f[x] = j
    OBVIOUS
  <2> QED
    BY <2>1, <2>2 DEF Bijection, Injection, Surjection, IsInjective
<1>4. IsFiniteSet(js) /\ Cardinality(js) = Cardinality(K)
  <2> HIDE DEF js, f
  <2> QED
    BY <1>1, <1>3, FS_Bijection DEF ExistsBijection
<1>5. \A job \in js : job \in JobRecords /\ job.id = id /\ job.kind \in K /\ job.step = "posted"
  BY <1>2
<1>6. \A job, other \in js : job.kind = other.kind => job = other
  BY <1>2
<1> HIDE DEF js
<1>7. JobsOK(js)
  BY <1>4, <1>5 DEF JobsOK
<1>8. OneOfAKind(js)
  BY <1>6 DEF OneOfAKind, CountedOf
<1> QED
  BY <1>4, <1>5, <1>7, <1>8 DEF js, NewJobs

(* Those that are waited for.                                              *)
LEMMA CountedFacts ==
  ASSUME NEW js, JobsOK(js)
  PROVE  /\ CountedOf(js) \subseteq js /\ IsFiniteSet(CountedOf(js))
         /\ Cardinality(CountedOf(js)) \in Nat
         /\ Cardinality(CountedOf(js)) = 0 <=> CountedOf(js) = {}
<1>1. CountedOf(js) \in SUBSET js
  BY DEF CountedOf
<1>2. IsFiniteSet(CountedOf(js))
  BY <1>1, FS_Subset DEF JobsOK
<1> QED
  BY <1>1, <1>2, FS_CardinalityType, FS_EmptySet

-----------------------------------------------------------------------------
(* The invariant.                                                          *)

Removal == [id : Nat, mask : Masks]

Types ==
  /\ removal_queue \in Seq(Removal) /\ pending_tasks_count \in Nat
  /\ JobsOK(jobs) /\ ui \in Seq(Task)
  /\ bookmark_model \in {"loading", "loaded", "deleted"}
  /\ called \in Seq(Nat) /\ aborted \subseteq Nat /\ calls \in 0..MaxRemovals

Flags ==
  /\ is_removing = (removal_queue # <<>>)
  /\ browser_state \in BOOLEAN /\ crashed \in BOOLEAN
  /\ OffTheRecord \in BOOLEAN /\ WebClearBrowsingData \in BOOLEAN

(* Until the shutdown: the first removal of the queue waits for its         *)
(* closures, or a task is posted to start it.                               *)
Running(queue, count, js, tasks) ==
  /\ \A job \in CountedOf(js) : queue # <<>> /\ job.id = Head(queue).id
  /\ count = Cardinality(CountedOf(js)) + ClosureCount(tasks)
  /\ NextCount(tasks) = IF queue # <<>> /\ count = 0 THEN 1 ELSE 0
  /\ queue = <<>> => count = 0
  /\ AllCleared(tasks)

Ordered(queue, tasks, ran, n) ==
  /\ Len(queue) <= n
  /\ \A k \in 1..Len(queue) : queue[k].id = (n - Len(queue)) + k
  /\ InTurn(tasks, ran, n - Len(queue))

(* A callback that is posted has nothing under way.                        *)
Removed(tasks, js) == \A id \in Callbacks(tasks) : \A job \in CountedOf(js) : job.id # id

IndInv ==
  /\ Types /\ Flags
  /\ browser_state => Running(removal_queue, pending_tasks_count, jobs, ui) /\ aborted = {}
  /\ Ordered(removal_queue, ui, called, calls)
  /\ CallbacksInOrder
  /\ OneOfAKind(jobs)
  /\ \A id \in Callbacks(ui) : id \in aborted \/ \A job \in CountedOf(jobs) : job.id # id

(* It implies what is said of the remover.                                 *)
LEMMA IndInvImplies == IndInv => RemoverInv /\ DoneMeansRemoved
<1> SUFFICES ASSUME IndInv
             PROVE  RemoverInv /\ DoneMeansRemoved
  OBVIOUS
<1>1. /\ DOMAIN ui = 1..Len(ui) /\ DOMAIN removal_queue = 1..Len(removal_queue)
      /\ ui \in Seq(Task) /\ Counted = CountedOf(jobs)
  BY LenProperties DEF IndInv, Types, Counted, CountedOf
<1>2. TypeOK
  <2>1. /\ is_removing = (removal_queue # <<>>)
        /\ browser_state \in BOOLEAN /\ crashed \in BOOLEAN
        /\ OffTheRecord \in BOOLEAN /\ WebClearBrowsingData \in BOOLEAN
    BY Zenon DEF IndInv, Flags
  <2>2. Types
    BY DEF IndInv
  <2>3. /\ IsFiniteSet(jobs)
        /\ \A job \in jobs :
             /\ job \in [id : Nat, kind : Kinds, step : {"posted", "backend", "doom", "unwaited"}]
             /\ job.step # "posted" => job.kind \in {"cache", "website_data"}
    BY <2>2 DEF Types, JobsOK, JobRecords
  <2> QED
    BY <2>1, <2>2, <2>3, Zenon DEF Types, TypeOK, Removal
<1>3. OneRemovalAtATime
  BY <1>1, CountsOfTasks DEF IndInv, Running, OneRemovalAtATime
<1>4. QueueMovesOn
  BY <1>1, CountsOfTasks DEF IndInv, Running, AllCleared, QueueMovesOn
<1>5. QueueInOrder /\ InTurn(ui, called, calls - Len(removal_queue))
  BY <1>1 DEF IndInv, Ordered, QueueInOrder
<1>6. DoneMeansRemoved
  BY <1>1 DEF IndInv, Callbacks, DoneMeansRemoved
<1>7. OneJobOfAKind
  BY <1>1 DEF IndInv, OneOfAKind, OneJobOfAKind
<1> QED
  BY <1>2, <1>3, <1>4, <1>5, <1>6, <1>7 DEF RemoverInv, IndInv

(* It holds at first.                                                      *)
LEMMA InitIndInv == Init => IndInv
<1> SUFFICES ASSUME Init
             PROVE  IndInv
  OBVIOUS
<1>1. /\ removal_queue = <<>> /\ pending_tasks_count = 0 /\ jobs = {} /\ ui = <<>>
      /\ called = <<>> /\ aborted = {} /\ calls = 0
  BY DEF Init
<1>2. CountedOf(jobs) = {} /\ Cardinality(CountedOf(jobs)) = 0 /\ IsFiniteSet(jobs)
  BY <1>1, FS_EmptySet DEF CountedOf
<1>3. ui \in Seq(Task) /\ called \in Seq(Nat) /\ removal_queue \in Seq(Removal)
        /\ Len(ui) = 0 /\ Len(removal_queue) = 0 /\ DOMAIN ui = {} /\ DOMAIN called = {}
  BY <1>1
<1>4. ClosureCount(ui) = 0 /\ NextCount(ui) = 0 /\ Callbacks(ui) = {}
  <2>1. 1..Len(ui) = {}
    BY <1>3
  <2>2. Callbacks(ui) = {}
    BY <2>1 DEF Callbacks
  <2> QED
    BY <1>3, <2>1, <2>2, CountsOfTasks
<1>5. Types
  BY <1>1, <1>2, <1>3 DEF Init, Types, JobsOK
<1>6. Flags
  BY Zenon DEF Init, Flags
<1>7. Running(removal_queue, pending_tasks_count, jobs, ui)
  BY <1>1, <1>2, <1>3, <1>4 DEF Running, AllCleared
<1>8. Ordered(removal_queue, ui, called, calls)
  BY <1>1, <1>3 DEF Ordered, InTurn
<1>9. CallbacksInOrder /\ OneOfAKind(jobs)
  BY <1>2, <1>3 DEF CallbacksInOrder, OneOfAKind
<1> QED
  BY <1>1, <1>4, <1>5, <1>6, <1>7, <1>8, <1>9 DEF IndInv

-----------------------------------------------------------------------------
(* A removal completes, or the next one starts.                            *)

(* The first of an ordered queue is the next to call back.                 *)
LEMMA FirstOfQueue ==
  ASSUME NEW queue \in Seq(Removal), queue # <<>>, NEW tasks, NEW ran, NEW n \in Nat,
         Ordered(queue, tasks, ran, n)
  PROVE  /\ Head(queue) \in Removal /\ Head(queue).id \in Nat
         /\ n - Len(queue) \in Nat /\ Head(queue).id = (n - Len(queue)) + 1
         /\ Tail(queue) \in Seq(Removal) /\ Len(Tail(queue)) = Len(queue) - 1
         /\ n - Len(Tail(queue)) = (n - Len(queue)) + 1
         /\ \A k \in 1..Len(Tail(queue)) :
              Tail(queue)[k].id = (n - Len(Tail(queue))) + k
<1>1. /\ Len(queue) \in Nat \ {0} /\ Head(queue) \in Removal /\ Head(queue) = queue[1]
      /\ Tail(queue) \in Seq(Removal) /\ Len(Tail(queue)) = Len(queue) - 1
      /\ \A k \in 1..Len(Tail(queue)) : Tail(queue)[k] = queue[k + 1]
  BY HeadTailProperties, EmptySeq, LenProperties
<1>2. Len(queue) <= n /\ \A k \in 1..Len(queue) : queue[k].id = (n - Len(queue)) + k
  BY DEF Ordered
<1>3. Head(queue).id \in Nat
  BY <1>1 DEF Removal
<1>4. \A k \in 1..(Len(queue) - 1) : queue[k + 1].id = (n - Len(queue)) + (k + 1)
  BY <1>1, <1>2
<1> QED
  BY <1>1, <1>2, <1>3, <1>4

(* NotifyRemovalComplete posts the callback, and RunNextTask if there is    *)
(* somebody to run.                                                         *)
LEMMA CompletionFacts ==
  ASSUME NEW queue \in Seq(Removal), queue # <<>>, NEW tasks \in Seq(Task), NEW n \in Nat,
         called \in Seq(Nat), Ordered(queue, tasks, called, n),
         ClosureCount(tasks) = 0, NextCount(tasks) = 0, AllCleared(tasks),
         NotifyRemovalComplete(queue, tasks)
  PROVE  /\ removal_queue' = Tail(queue) /\ removal_queue' \in Seq(Removal)
         /\ is_removing' = (removal_queue' # <<>>)
         /\ ui' \in Seq(Task) /\ ClosureCount(ui') = 0
         /\ NextCount(ui') = IF removal_queue' # <<>> THEN 1 ELSE 0
         /\ AllCleared(ui')
         /\ Ordered(removal_queue', ui', called, n)
<1> DEFINE id == Head(queue).id
           left == n - Len(queue)
           rest == Tail(queue)
           a == Behind(tasks, "callback", id)
           b == Behind(a, "NotifyBrowsingDataRemoved", id)
<1>1. removal_queue' = rest /\ ui' = IF rest = <<>> THEN b \o <<>> ELSE Behind(b, "RunNextTask", id)
  BY DEF NotifyRemovalComplete, CallbackOf, Behind
<1>2. is_removing' = (removal_queue' # <<>>)
  BY Zenon DEF NotifyRemovalComplete, RemovingAfter
<1>3. id \in Nat /\ left \in Nat /\ id = left + 1 /\ rest \in Seq(Removal)
  BY FirstOfQueue
<1>4. /\ Len(rest) \in Nat /\ n - Len(rest) = left + 1
      /\ \A k \in 1..Len(rest) : rest[k].id = (n - Len(rest)) + k
  BY FirstOfQueue, LenProperties
<1>5. InTurn(tasks, called, left)
  BY DEF Ordered
<1>6. /\ "callback" \in UITasks /\ "NotifyBrowsingDataRemoved" \in UITasks \ {"callback"}
      /\ "RunNextTask" \in UITasks \ {"callback"} /\ left + 1 \in Nat
  BY <1>3 DEF UITasks
<1> HIDE DEF id, left, rest
<1>7. /\ a \in Seq(Task) /\ ClosureCount(a) = 0 /\ NextCount(a) = 0 /\ AllCleared(a)
      /\ InTurn(a, called, left + 1)
  <2>1. InTurn(Behind(tasks, "callback", left + 1), called, left + 1)
    BY <1>3, <1>5, TurnOfCallback
  <2> QED
    BY <1>3, <2>1, BehindOther
<1> HIDE DEF a
<1>8. /\ b \in Seq(Task) /\ ClosureCount(b) = 0 /\ NextCount(b) = 0 /\ AllCleared(b)
      /\ InTurn(b, called, left + 1)
  <2>1. InTurn(b, called, left + 1)
    BY <1>3, <1>6, <1>7, TurnOfOther
  <2> QED
    BY <1>3, <1>7, <2>1, BehindOther
<1> HIDE DEF b
<1>9. /\ ui' \in Seq(Task) /\ ClosureCount(ui') = 0
      /\ NextCount(ui') = (IF rest = <<>> THEN 0 ELSE 1)
      /\ AllCleared(ui') /\ InTurn(ui', called, left + 1)
  <2>1. CASE rest = <<>>
    <3>1. ui' = b
      BY <1>1, <1>8, <2>1
    <3> QED
      BY <1>8, <2>1, <3>1
  <2>2. CASE rest # <<>>
    <3>1. ui' = Behind(b, "RunNextTask", id)
      BY <1>1, <2>2
    <3>2. InTurn(Behind(b, "RunNextTask", id), called, left + 1)
      BY <1>3, <1>6, <1>8, TurnOfOther
    <3>3. /\ Behind(b, "RunNextTask", id) \in Seq(Task)
          /\ ClosureCount(Behind(b, "RunNextTask", id)) = 0
          /\ NextCount(Behind(b, "RunNextTask", id)) = 1
          /\ AllCleared(Behind(b, "RunNextTask", id))
      BY <1>3, <1>8, BehindNext
    <3> QED
      BY <2>2, <3>1, <3>2, <3>3
  <2> QED
    BY <2>1, <2>2
<1>10. Len(rest) <= n /\ InTurn(ui', called, n - Len(rest))
  BY <1>3, <1>4, <1>9
<1>11. Ordered(rest, ui', called, n)
  BY <1>4, <1>10 DEF Ordered
<1> QED
  BY <1>1, <1>2, <1>3, <1>9, <1>11 DEF rest

(* The jobs of the first removal of a queue, when no other has any.        *)
LEMMA JobsStart ==
  ASSUME NEW js, JobsOK(js), Cardinality(CountedOf(js)) = 0, NEW id \in Nat,
         NEW K \in SUBSET Kinds, NEW mask
  PROVE  /\ JobsOK(Started(js, id, K, Unwaited(mask)))
         /\ OneOfAKind(Started(js, id, K, Unwaited(mask)))
         /\ CountedOf(Started(js, id, K, Unwaited(mask))) = NewJobs(id, K)
<1> DEFINE U == Unwaited(mask)
<1>0. CountedOf(js) = {} /\ U \in SUBSET {"website_data"}
  BY CountedFacts DEF Unwaited
<1> HIDE DEF U
<1> DEFINE new == NewJobs(id, K)
           un(kind) == [Job(id, kind) EXCEPT !.step = "unwaited"]
           more == {un(kind) : kind \in U}
           all == (js \cup new) \cup more
<1>1. /\ JobsOK(new) /\ Cardinality(new) = Cardinality(K) /\ OneOfAKind(new)
      /\ \A job \in new : job.id = id /\ job.step = "posted"
  BY StartedJobs
<1>2. \A job \in more : /\ job \in JobRecords /\ job.step = "unwaited"
                        /\ job.kind = "website_data"
  BY <1>0 DEF Job, JobRecords, Kinds
<1>3. IsFiniteSet(more)
  <2>1. U = {} \/ U = {"website_data"}
    BY <1>0
  <2>2. CASE U = {}
    <3>1. more = {}
      BY <2>2
    <3> QED
      BY <3>1, FS_EmptySet
  <2>3. CASE U = {"website_data"}
    <3>1. more = {un("website_data")}
      BY <2>3
    <3> HIDE DEF un, more
    <3> QED
      BY <3>1, FS_Singleton
  <2> QED
    BY <2>1, <2>2, <2>3
<1> HIDE DEF new, more
<1>4. IsFiniteSet(js \cup new)
  BY <1>1, FS_Union DEF JobsOK
<1>5. IsFiniteSet(all)
  BY <1>3, <1>4, FS_Union
<1>6. JobsOK(all)
  BY <1>1, <1>2, <1>5 DEF JobsOK
<1>7. CountedOf(all) = new
  BY <1>0, <1>1, <1>2 DEF CountedOf
<1>8. OneOfAKind(all)
  <2>1. CountedOf(new) = new
    BY <1>1 DEF CountedOf
  <2> QED
    BY <1>1, <1>7, <2>1 DEF OneOfAKind
<1> QED
  BY <1>1, <1>6, <1>7, <1>8 DEF new, more, U, NewUnwaited, Started

(* StartRemoval, when nothing is under way: the first removal of the queue  *)
(* waits for its jobs, or it has none and completes at once.                *)
LEMMA StartFacts ==
  ASSUME NEW queue \in Seq(Removal), queue # <<>>, NEW tasks \in Seq(Task), NEW n \in Nat,
         Types, Ordered(queue, tasks, called, n),
         ClosureCount(tasks) = 0, NextCount(tasks) = 0, AllCleared(tasks),
         CountedOf(jobs) = {}, pending_tasks_count = 0,
         StartRemoval(queue, tasks)
  PROVE  /\ removal_queue' \in Seq(Removal) /\ pending_tasks_count' \in Nat
         /\ JobsOK(jobs') /\ ui' \in Seq(Task)
         /\ is_removing' = (removal_queue' # <<>>)
         /\ Running(removal_queue', pending_tasks_count', jobs', ui')
         /\ Ordered(removal_queue', ui', called, n)
         /\ OneOfAKind(jobs') /\ Removed(ui', jobs')
<1> DEFINE id == Head(queue).id
           mask == Head(queue).mask
           left == n - Len(queue)
<1>1. PICK loaded \in BOOLEAN :
        LET kinds == JobsOf(mask, loaded)
            now == IF "bookmarks" \in kinds /\ bookmark_model = "loaded"
                   THEN {"bookmarks"} ELSE {}
            posted == tasks \o (IF now # {} THEN Post("BookmarksCleared", id) ELSE <<>>) IN
        /\ jobs' = jobs \cup {Job(id, kind) : kind \in kinds \ now}
                        \cup {[Job(id, kind) EXCEPT !.step = "unwaited"] :
                                kind \in Unwaited(mask)}
        /\ pending_tasks_count' = pending_tasks_count + Cardinality(kinds)
        /\ IF pending_tasks_count' = 0
           THEN NotifyRemovalComplete(queue, posted)
           ELSE removal_queue' = queue /\ is_removing' = TRUE /\ ui' = posted
  BY DEF StartRemoval, Synchronous
<1> DEFINE kinds == JobsOf(mask, loaded)
           now == IF "bookmarks" \in kinds /\ bookmark_model = "loaded" THEN {"bookmarks"} ELSE {}
           posted == tasks \o (IF now # {} THEN Post("BookmarksCleared", id) ELSE <<>>)
           new == NewJobs(id, kinds \ now)
<1>2. /\ jobs' = Started(jobs, id, kinds \ now, Unwaited(mask))
      /\ pending_tasks_count' = pending_tasks_count + Cardinality(kinds)
  BY <1>1, Zenon DEF NewJobs, NewUnwaited, Started
<1>3. IF pending_tasks_count' = 0
      THEN NotifyRemovalComplete(queue, posted)
      ELSE removal_queue' = queue /\ is_removing' = TRUE /\ ui' = posted
  BY <1>1, Zenon
<1>4. /\ id \in Nat /\ left \in Nat /\ id = left + 1 /\ InTurn(tasks, called, left)
      /\ called \in Seq(Nat)
  BY FirstOfQueue DEF Ordered, Types
<1>5. /\ kinds \in SUBSET Kinds /\ IsFiniteSet(kinds) /\ now \in SUBSET kinds
      /\ Cardinality(kinds) \in Nat /\ Cardinality(now) \in Nat
      /\ Cardinality(kinds \ now) = Cardinality(kinds) - Cardinality(now)
      /\ Cardinality(kinds) = 0 => kinds = {}
  <2>1. kinds \in SUBSET Kinds /\ IsFiniteSet(kinds)
    BY JobsOfFacts
  <2> HIDE DEF kinds
  <2>2. now \in SUBSET kinds
    OBVIOUS
  <2> HIDE DEF now
  <2>3. IsFiniteSet(now)
    BY <2>1, <2>2, FS_Subset
  <2>4. Cardinality(kinds \ now) = Cardinality(kinds) - Cardinality(kinds \cap now)
    BY <2>1, FS_Difference
  <2>5. kinds \cap now = now
    BY <2>2
  <2> QED
    BY <2>1, <2>2, <2>3, <2>4, <2>5, FS_CardinalityType, FS_EmptySet
<1> HIDE DEF kinds
<1>6. Cardinality(now) = (IF now # {} THEN 1 ELSE 0)
  BY FS_Singleton, FS_EmptySet
<1> HIDE DEF now, id, mask, left
<1>7. /\ posted \in Seq(Task) /\ ClosureCount(posted) = Cardinality(now)
      /\ NextCount(posted) = 0 /\ AllCleared(posted) /\ Callbacks(posted) = Callbacks(tasks)
      /\ InTurn(posted, called, left)
  <2>1. CASE now = {}
    <3>1. posted = tasks
      BY <2>1
    <3> QED
      BY <1>4, <1>6, <2>1, <3>1
  <2>2. CASE now # {}
    <3>1. posted = Behind(tasks, "BookmarksCleared", id)
      BY <2>2 DEF Behind
    <3>2. "BookmarksCleared" \in UITasks \ {"callback"}
      BY DEF UITasks
    <3>3. InTurn(posted, called, left)
      BY <1>4, <3>1, <3>2, TurnOfOther
    <3> HIDE DEF posted
    <3> QED
      BY <1>4, <1>6, <2>2, <3>1, <3>3, BehindClosure
  <2> QED
    BY <2>1, <2>2
<1> HIDE DEF posted
<1>8. /\ JobsOK(jobs') /\ CountedOf(jobs') = new /\ OneOfAKind(jobs')
      /\ Cardinality(new) = Cardinality(kinds \ now) /\ \A job \in new : job.id = id
  <2>1. JobsOK(jobs) /\ kinds \ now \in SUBSET Kinds
    BY <1>5 DEF Types
  <2>2. Cardinality(CountedOf(jobs)) = 0
    BY FS_EmptySet
  <2>3. JobsOK(jobs') /\ CountedOf(jobs') = new /\ OneOfAKind(jobs')
    <3> DEFINE K == kinds \ now
    <3>1. jobs' = Started(jobs, id, K, Unwaited(mask)) /\ K \in SUBSET Kinds
      BY <1>2, <2>1
    <3> HIDE DEF K
    <3>2. JobsOK(Started(jobs, id, K, Unwaited(mask)))
      BY <1>4, <2>1, <2>2, <3>1, JobsStart
    <3>3. OneOfAKind(Started(jobs, id, K, Unwaited(mask)))
      BY <1>4, <2>1, <2>2, <3>1, JobsStart
    <3>4. CountedOf(Started(jobs, id, K, Unwaited(mask))) = NewJobs(id, K)
      <4>1. id \in Nat /\ JobsOK(jobs)
        BY <1>4, <2>1
      <4> QED
        BY <2>2, <3>1, <4>1, JobsStart, ZenonT(60)
    <3> QED
      BY <3>1, <3>2, <3>3, <3>4 DEF K
  <2>4. Cardinality(new) = Cardinality(kinds \ now) /\ \A job \in new : job.id = id
    BY <1>4, <2>1, StartedJobs
  <2> HIDE DEF new
  <2> QED
    BY <1>2, <2>3, <2>4
<1> HIDE DEF new
<1>9. /\ pending_tasks_count' = Cardinality(new) + Cardinality(now)
      /\ pending_tasks_count' = Cardinality(kinds) /\ pending_tasks_count' \in Nat
  BY <1>2, <1>5, <1>8
<1>10. CASE pending_tasks_count' = 0
  <2>1. kinds = {} /\ now = {} /\ ClosureCount(posted) = 0
    BY <1>5, <1>6, <1>7, <1>9, <1>10
  <2>2. NotifyRemovalComplete(queue, posted)
    BY <1>3, <1>10
  <2>3. Ordered(queue, posted, called, n)
    BY <1>7 DEF Ordered, left
  <2>4. /\ removal_queue' \in Seq(Removal)
        /\ ui' \in Seq(Task) /\ ClosureCount(ui') = 0
        /\ NextCount(ui') = IF removal_queue' # <<>> THEN 1 ELSE 0
        /\ AllCleared(ui') /\ Ordered(removal_queue', ui', called, n)
    BY <1>4, <1>7, <2>1, <2>2, <2>3, CompletionFacts
  <2>5. is_removing' = (removal_queue' # <<>>)
    BY <2>2, Zenon DEF NotifyRemovalComplete, RemovingAfter
  <2>6. CountedOf(jobs') = {} /\ Cardinality(CountedOf(jobs')) = 0
    <3>1. IsFiniteSet(new)
      BY <1>8, CountedFacts
    <3>2. Cardinality(new) = 0
      BY <1>5, <1>8, <2>1, FS_EmptySet
    <3> QED
      BY <1>8, <3>1, <3>2, FS_EmptySet
  <2>7. Running(removal_queue', pending_tasks_count', jobs', ui')
    BY <1>10, <2>4, <2>6 DEF Running
  <2>8. Removed(ui', jobs')
    BY <2>6 DEF Removed
  <2> QED
    BY <1>8, <1>9, <2>4, <2>5, <2>7, <2>8
<1>11. CASE pending_tasks_count' # 0
  <2>1. removal_queue' = queue /\ ui' = posted
    BY <1>3, <1>11
  <2>2. is_removing' = (removal_queue' # <<>>)
    <3>1. is_removing' = TRUE /\ removal_queue' # <<>>
      BY <1>3, <1>11, Zenon
    <3> QED
      BY <3>1, Zenon
  <2>3. Ordered(removal_queue', ui', called, n)
    BY <1>7, <2>1 DEF Ordered, left
  <2>4. Running(removal_queue', pending_tasks_count', jobs', ui')
    BY <1>7, <1>8, <1>9, <1>11, <2>1 DEF Running, id
  <2>5. Removed(ui', jobs')
    <3>1. \A x \in Callbacks(tasks) : x \in Nat /\ x <= left
      BY <1>4, TurnBound
    <3>2. \A x \in Callbacks(tasks) : x # id
      BY <1>4, <3>1
    <3> QED
      BY <1>7, <1>8, <2>1, <3>2 DEF Removed
  <2> QED
    BY <1>7, <1>8, <1>9, <2>1, <2>2, <2>3, <2>4, <2>5
<1> QED
  BY <1>10, <1>11

-----------------------------------------------------------------------------
(* The actions.                                                            *)

(* The parts of the invariant, before a step ...                           *)
LEMMA Before ==
  ASSUME IndInv
  PROVE  /\ removal_queue \in Seq(Removal) /\ pending_tasks_count \in Nat
         /\ JobsOK(jobs) /\ ui \in Seq(Task)
         /\ bookmark_model \in {"loading", "loaded", "deleted"}
         /\ called \in Seq(Nat) /\ aborted \subseteq Nat
         /\ calls \in Nat /\ calls <= MaxRemovals /\ Len(removal_queue) \in Nat
         /\ calls - Len(removal_queue) \in Nat
         /\ Ordered(removal_queue, ui, called, calls)
         /\ InTurn(ui, called, calls - Len(removal_queue))
         /\ CallbacksInOrder /\ OneOfAKind(jobs)
         /\ browser_state => Running(removal_queue, pending_tasks_count, jobs, ui)
         /\ browser_state => aborted = {}
         /\ \A id \in Callbacks(ui) : id \in aborted \/ \A job \in CountedOf(jobs) : job.id # id
<1>1. Len(removal_queue) \in Nat
  BY LenProperties DEF IndInv, Types
<1> QED
  BY <1>1 DEF IndInv, Types, Ordered

(* ... and after it.                                                       *)
LEMMA After ==
  ASSUME IndInv, UNCHANGED setUp,
         removal_queue' \in Seq(Removal), pending_tasks_count' \in Nat,
         JobsOK(jobs'), ui' \in Seq(Task), bookmark_model' \in {"loading", "loaded", "deleted"},
         called' \in Seq(Nat), aborted' \subseteq Nat, calls' \in 0..MaxRemovals,
         is_removing' = (removal_queue' # <<>>),
         browser_state' \in BOOLEAN, crashed' \in BOOLEAN,
         browser_state' => Running(removal_queue', pending_tasks_count', jobs', ui'),
         browser_state' => aborted' = {},
         Ordered(removal_queue', ui', called', calls'),
         CallbacksInOrder', OneOfAKind(jobs'),
         \A id \in Callbacks(ui') : id \in aborted' \/ \A job \in CountedOf(jobs') : job.id # id
  PROVE  IndInv'
<1>1. Types'
  BY DEF Types
<1>2. Flags'
  <2>1. OffTheRecord \in BOOLEAN /\ WebClearBrowsingData \in BOOLEAN
    BY Zenon DEF IndInv, Flags
  <2>2. OffTheRecord' \in BOOLEAN /\ WebClearBrowsingData' \in BOOLEAN
    BY <2>1, Zenon DEF setUp
  <2> QED
    BY <2>2, Zenon DEF Flags
<1> QED
  BY <1>1, <1>2, Zenon DEF IndInv

(* A queue at rest has nothing under way.                                  *)
LEMMA AtRest ==
  ASSUME NEW q, NEW js, JobsOK(js), NEW u \in Seq(Task), Running(q, 0, js, u)
  PROVE  CountedOf(js) = {} /\ ClosureCount(u) = 0
<1>1. /\ Cardinality(CountedOf(js)) \in Nat /\ ClosureCount(u) \in Nat
      /\ Cardinality(CountedOf(js)) = 0 <=> CountedOf(js) = {}
  BY CountedFacts, CountsOfTasks
<1> QED
  BY <1>1 DEF Running

(* The browser state, its variables as the actions leave them.             *)
LEMMA FlagFacts ==
  ASSUME IndInv
  PROVE  /\ is_removing = (removal_queue # <<>>)
         /\ browser_state \in BOOLEAN /\ crashed \in BOOLEAN
  BY Zenon DEF IndInv, Flags

(* Remove puts its call at the end of the queue, and starts it when it is   *)
(* alone there.                                                             *)
LEMMA RemoveKeeps ==
  ASSUME IndInv, NEW mask \in Masks, RemoveData(mask), UNCHANGED setUp
  PROVE  IndInv'
<1> DEFINE q == removal_queue
           r == [id |-> calls + 1, mask |-> mask]
           queue == Append(q, r)
<1>0. /\ browser_state /\ calls < MaxRemovals /\ calls' = calls + 1
      /\ bookmark_model' = bookmark_model /\ called' = called /\ aborted' = aborted
      /\ IF IsFirst(queue) THEN StartRemoval(queue, ui)
         ELSE /\ removal_queue' = queue /\ pending_tasks_count' = pending_tasks_count
              /\ jobs' = jobs /\ ui' = ui
  BY DEF RemoveData
<1>1. browser_state' \in BOOLEAN /\ crashed' \in BOOLEAN
  BY FlagFacts, Zenon DEF RemoveData
<1>2. /\ q \in Seq(Removal) /\ pending_tasks_count \in Nat /\ JobsOK(jobs) /\ ui \in Seq(Task)
      /\ called \in Seq(Nat) /\ calls \in Nat /\ Len(q) \in Nat /\ aborted = {}
      /\ Ordered(q, ui, called, calls) /\ Running(q, pending_tasks_count, jobs, ui)
      /\ calls' \in 0..MaxRemovals /\ bookmark_model \in {"loading", "loaded", "deleted"}
      /\ CallbacksInOrder /\ OneOfAKind(jobs)
      /\ \A id \in Callbacks(ui) : id \in aborted \/ \A job \in CountedOf(jobs) : job.id # id
  BY <1>0, Before
<1>3. /\ r \in Removal /\ r.id = calls + 1 /\ queue \in Seq(Removal) /\ Len(queue) = Len(q) + 1
      /\ queue # <<>> /\ queue[Len(q) + 1] = r /\ \A k \in 1..Len(q) : queue[k] = q[k]
  <2>1. r \in Removal /\ r.id = calls + 1
    BY <1>2 DEF Removal
  <2> HIDE DEF r
  <2>2. /\ queue \in Seq(Removal) /\ Len(queue) = Len(q) + 1
        /\ queue[Len(q) + 1] = r /\ \A k \in 1..Len(q) : queue[k] = q[k]
    BY <1>2, <2>1, AppendProperties
  <2> HIDE DEF queue
  <2>3. queue # <<>>
    BY <1>2, <2>2, EmptySeq
  <2> QED
    BY <2>1, <2>2, <2>3
<1> HIDE DEF r, queue
<1>4. Ordered(queue, ui, called, calls + 1)
  <2>1. /\ Len(q) <= calls /\ InTurn(ui, called, calls - Len(q))
        /\ \A k \in 1..Len(q) : q[k].id = (calls - Len(q)) + k
    BY <1>2 DEF Ordered
  <2>2. (calls + 1) - Len(queue) = calls - Len(q) /\ Len(queue) <= calls + 1
    BY <1>2, <1>3, <2>1
  <2>3. \A k \in 1..Len(queue) : queue[k].id = (calls - Len(q)) + k
    <3> TAKE k \in 1..Len(queue)
    <3>1. CASE k \in 1..Len(q)
      BY <1>3, <2>1, <3>1
    <3>2. CASE k = Len(q) + 1
      BY <1>2, <1>3, <3>2
    <3> QED
      BY <1>2, <1>3, <3>1, <3>2
  <2> QED
    BY <2>1, <2>2, <2>3 DEF Ordered
<1>5. CallbacksInOrder'
  BY <1>0, <1>2 DEF CallbacksInOrder
<1>6. CASE IsFirst(queue)
  <2>1. q = <<>> /\ StartRemoval(queue, ui)
    BY <1>0, <1>2, <1>3, <1>6, EmptySeq DEF IsFirst
  <2>2. pending_tasks_count = 0 /\ NextCount(ui) = 0 /\ AllCleared(ui)
    BY <1>2, <2>1 DEF Running
  <2>3. CountedOf(jobs) = {} /\ ClosureCount(ui) = 0
    BY <1>2, <2>2, AtRest
  <2>4. calls + 1 \in Nat /\ Types
    BY <1>2 DEF IndInv
  <2>5. /\ removal_queue' \in Seq(Removal) /\ pending_tasks_count' \in Nat
        /\ JobsOK(jobs') /\ ui' \in Seq(Task)
        /\ is_removing' = (removal_queue' # <<>>)
        /\ Running(removal_queue', pending_tasks_count', jobs', ui')
        /\ Ordered(removal_queue', ui', called, calls + 1)
        /\ OneOfAKind(jobs') /\ Removed(ui', jobs')
    BY <1>2, <1>3, <1>4, <2>1, <2>2, <2>3, <2>4, StartFacts, Zenon
  <2>6. \A id \in Callbacks(ui') : id \in aborted' \/ \A job \in CountedOf(jobs') : job.id # id
    BY <2>5 DEF Removed
  <2>7. called' \in Seq(Nat) /\ aborted' = {} /\ aborted' \subseteq Nat
    BY <1>0, <1>2
  <2>8. Ordered(removal_queue', ui', called', calls')
    BY <1>0, <2>5, Zenon
  <2>9. bookmark_model' \in {"loading", "loaded", "deleted"}
    BY <1>0, <1>2
  <2> QED
    BY <1>1, <1>2, <1>5, <2>5, <2>6, <2>7, <2>8, <2>9, After, Zenon
<1>7. CASE ~IsFirst(queue)
  <2>1. /\ removal_queue' = queue /\ pending_tasks_count' = pending_tasks_count
        /\ jobs' = jobs /\ ui' = ui
    BY <1>0, <1>7, Zenon
  <2>2. q # <<>> /\ Head(queue) = Head(q)
    <3>1. Len(q) # 0
      BY <1>2, <1>3, <1>7 DEF IsFirst
    <3>2. q # <<>> /\ 1 \in 1..Len(q)
      BY <1>2, <3>1, EmptySeq
    <3>3. Head(queue) = queue[1] /\ Head(q) = q[1]
      BY <1>2, <1>3, <3>2, HeadTailProperties
    <3> QED
      BY <1>3, <3>2, <3>3
  <2>3. is_removing' = (removal_queue' # <<>>)
    <3>1. is_removing' = is_removing
      BY <1>7, Zenon DEF RemoveData, queue, r
    <3> QED
      BY <1>3, <2>1, <2>2, <3>1, FlagFacts, Zenon
  <2>4. Running(queue, pending_tasks_count, jobs, ui)
    BY <1>2, <1>3, <2>2 DEF Running
  <2>5. Running(removal_queue', pending_tasks_count', jobs', ui')
        /\ Ordered(removal_queue', ui', called', calls')
    BY <1>0, <1>4, <2>1, <2>4, Zenon
  <2>6. /\ removal_queue' \in Seq(Removal) /\ pending_tasks_count' \in Nat
        /\ JobsOK(jobs') /\ ui' \in Seq(Task) /\ called' \in Seq(Nat) /\ OneOfAKind(jobs')
        /\ bookmark_model' \in {"loading", "loaded", "deleted"}
    BY <1>0, <1>2, <1>3, <2>1
  <2>7. aborted' = {} /\ aborted' \subseteq Nat
    BY <1>0, <1>2
  <2>8. \A id \in Callbacks(ui') : id \in aborted' \/ \A job \in CountedOf(jobs') : job.id # id
    BY <1>0, <1>2, <2>1
  <2> QED
    BY <1>1, <1>2, <1>5, <2>3, <2>5, <2>6, <2>7, <2>8, After, Zenon
<1> QED
  BY <1>6, <1>7

(* A job ends ...                                                          *)
LEMMA JobEnds ==
  ASSUME NEW js, JobsOK(js), OneOfAKind(js), NEW job \in js
  PROVE  /\ JobsOK(js \ {job}) /\ OneOfAKind(js \ {job})
         /\ CountedOf(js \ {job}) \subseteq CountedOf(js)
         /\ Cardinality(CountedOf(js \ {job})) =
              Cardinality(CountedOf(js)) - IF job.step = "unwaited" THEN 0 ELSE 1
<1> DEFINE C == CountedOf(js)
<1>1. IsFiniteSet(C) /\ Cardinality(C) \in Nat
  BY CountedFacts
<1>2. IsFiniteSet(js \ {job})
  BY FS_RemoveElement DEF JobsOK
<1>3. CountedOf(js \ {job}) = C \ {job} /\ (job \in C <=> job.step # "unwaited")
  BY DEF CountedOf
<1>4. JobsOK(js \ {job})
  BY <1>2 DEF JobsOK
<1>5. OneOfAKind(js \ {job})
  BY <1>3 DEF OneOfAKind
<1> HIDE DEF C
<1>6. Cardinality(C \ {job}) = IF job \in C THEN Cardinality(C) - 1 ELSE Cardinality(C)
  BY <1>1, FS_RemoveElement
<1> QED
  BY <1>1, <1>3, <1>4, <1>5, <1>6 DEF C

(* ... or goes on.                                                         *)
LEMMA JobGoesOn ==
  ASSUME NEW js, JobsOK(js), OneOfAKind(js), NEW job \in js, NEW step \in {"backend", "doom"},
         job.kind = "cache", job.step # "unwaited"
  PROVE  LET after == (js \ {job}) \cup {[job EXCEPT !.step = step]} IN
         /\ JobsOK(after) /\ OneOfAKind(after)
         /\ \A j \in CountedOf(after) : \E k \in CountedOf(js) : k.id = j.id
         /\ Cardinality(CountedOf(after)) = Cardinality(CountedOf(js))
<1> DEFINE C == CountedOf(js)
           x == [job EXCEPT !.step = step]
           after == (js \ {job}) \cup {x}
<1>1. IsFiniteSet(C) /\ Cardinality(C) \in Nat /\ job \in C
  BY CountedFacts DEF CountedOf
<1>2. /\ x \in JobRecords /\ x.step = step /\ x.id = job.id /\ x.kind = "cache"
      /\ x.step # "unwaited"
  BY DEF JobsOK, JobRecords
<1> HIDE DEF x
<1>3. CountedOf(after) = (C \ {job}) \cup {x}
  BY <1>2 DEF CountedOf
<1>4. x \notin C \ {job}
  <2>1. ASSUME x \in C
        PROVE  x = job
    BY <1>1, <1>2, <2>1 DEF OneOfAKind
  <2> QED
    BY <2>1
<1>5. IsFiniteSet(js \ {job})
  BY FS_RemoveElement DEF JobsOK
<1>6. IsFiniteSet(after)
  BY <1>5, FS_AddElement
<1>7. JobsOK(after)
  BY <1>2, <1>6 DEF JobsOK
<1>8. OneOfAKind(after)
  <2> SUFFICES ASSUME NEW j \in (C \ {job}) \cup {x}, NEW k \in (C \ {job}) \cup {x},
                      j.id = k.id, j.kind = k.kind
               PROVE  j = k
    BY <1>3 DEF OneOfAKind
  <2>1. \A y \in C \ {job} : ~(y.id = job.id /\ y.kind = job.kind)
    BY <1>1 DEF OneOfAKind
  <2>2. \A y, z \in C : y.id = z.id /\ y.kind = z.kind => y = z
    BY DEF OneOfAKind
  <2> QED
    BY <1>2, <2>1, <2>2
<1>9. \A j \in CountedOf(after) : \E k \in C : k.id = j.id
  BY <1>1, <1>2, <1>3
<1>10. Cardinality((C \ {job}) \cup {x}) = Cardinality(C)
  <2> HIDE DEF C
  <2>1. IsFiniteSet(C \ {job}) /\ Cardinality(C \ {job}) = Cardinality(C) - 1
    BY <1>1, FS_RemoveElement
  <2>2. Cardinality((C \ {job}) \cup {x}) = Cardinality(C \ {job}) + 1
    BY <1>4, <2>1, FS_AddElement
  <2> QED
    BY <1>1, <2>1, <2>2
<1> QED
  BY <1>3, <1>7, <1>8, <1>9, <1>10 DEF x

(* A step that leaves the queue alone: what a job was to the count is among *)
(* the tasks when it is gone.                                               *)
LEMMA SameQueueKeeps ==
  ASSUME IndInv, UNCHANGED <<queueVars, aborted, calls>>, UNCHANGED setUp,
         bookmark_model' \in {"loading", "loaded", "deleted"}, crashed' \in BOOLEAN,
         JobsOK(jobs'), OneOfAKind(jobs'), ui' \in Seq(Task), called' \in Seq(Nat),
         CallbacksInOrder', Callbacks(ui') \subseteq Callbacks(ui),
         InTurn(ui', called', calls - Len(removal_queue)),
         \A j \in CountedOf(jobs') : \E k \in CountedOf(jobs) : k.id = j.id,
         browser_state =>
           /\ Cardinality(CountedOf(jobs')) + ClosureCount(ui') =
                Cardinality(CountedOf(jobs)) + ClosureCount(ui)
           /\ NextCount(ui') = NextCount(ui)
           /\ AllCleared(ui) => AllCleared(ui')
  PROVE  IndInv'
<1>1. /\ removal_queue' = removal_queue /\ pending_tasks_count' = pending_tasks_count
      /\ aborted' = aborted /\ calls' = calls
  BY DEF queueVars
<1>2. browser_state' = browser_state /\ is_removing' = is_removing
  BY Zenon DEF queueVars
<1>3. is_removing' = (removal_queue' # <<>>) /\ browser_state' \in BOOLEAN
  BY <1>1, <1>2, FlagFacts, Zenon
<1>4. /\ removal_queue \in Seq(Removal) /\ pending_tasks_count \in Nat
      /\ aborted \subseteq Nat /\ calls \in 0..MaxRemovals
      /\ Ordered(removal_queue, ui, called, calls)
  BY Before
<1>5. ASSUME browser_state
      PROVE  Running(removal_queue, pending_tasks_count, jobs', ui') /\ aborted = {}
  <2>1. Running(removal_queue, pending_tasks_count, jobs, ui) /\ aborted = {}
    BY <1>5, Before
  <2> QED
    BY <1>5, <2>1 DEF Running
<1>6. /\ browser_state' => Running(removal_queue', pending_tasks_count', jobs', ui')
      /\ browser_state' => aborted' = {}
  BY <1>1, <1>2, <1>5, Zenon
<1>7. Ordered(removal_queue', ui', called', calls')
  BY <1>1, <1>4 DEF Ordered
<1>8. \A id \in Callbacks(ui') : id \in aborted' \/ \A job \in CountedOf(jobs') : job.id # id
  <2>1. \A id \in Callbacks(ui) : id \in aborted \/ \A job \in CountedOf(jobs) : job.id # id
    BY Before
  <2> QED
    BY <1>1, <2>1
<1>9. /\ removal_queue' \in Seq(Removal) /\ pending_tasks_count' \in Nat
      /\ aborted' \subseteq Nat /\ calls' \in 0..MaxRemovals
  BY <1>1, <1>4
<1> QED
  BY <1>3, <1>6, <1>7, <1>8, <1>9, After, Zenon

(* Jobs that change, with or without a closure posted.                     *)
LEMMA JobsKeep ==
  ASSUME IndInv, OnlyJobs, UNCHANGED setUp, JobsOK(jobs'), OneOfAKind(jobs'),
         ui' \in Seq(Task), NextCount(ui') = NextCount(ui), AllCleared(ui) => AllCleared(ui'),
         Callbacks(ui') = Callbacks(ui),
         InTurn(ui', called, calls - Len(removal_queue)),
         \A j \in CountedOf(jobs') : \E k \in CountedOf(jobs) : k.id = j.id,
         Cardinality(CountedOf(jobs')) + ClosureCount(ui') =
           Cardinality(CountedOf(jobs)) + ClosureCount(ui)
  PROVE  IndInv'
<1>1. bookmark_model' = bookmark_model /\ called' = called
  BY DEF OnlyJobs
<1>2. UNCHANGED <<queueVars, aborted, calls>> /\ crashed' = crashed
  BY Zenon DEF OnlyJobs
<1>3. crashed' \in BOOLEAN
  BY <1>2, FlagFacts, Zenon
<1>4. /\ bookmark_model' \in {"loading", "loaded", "deleted"} /\ called' \in Seq(Nat)
      /\ CallbacksInOrder' /\ InTurn(ui', called', calls - Len(removal_queue))
  BY <1>1, Before DEF CallbacksInOrder
<1>5. Callbacks(ui') \subseteq Callbacks(ui)
  OBVIOUS
<1> QED
  BY <1>2, <1>3, <1>4, <1>5, SameQueueKeeps, Zenon

(* A job that finishes posts its closure, if it has one.                   *)
LEMMA FinishKeeps ==
  ASSUME IndInv, NEW job \in jobs, Finish(job), OnlyJobs, UNCHANGED setUp
  PROVE  IndInv'
<1>1. /\ JobsOK(jobs) /\ OneOfAKind(jobs) /\ ui \in Seq(Task) /\ called \in Seq(Nat)
      /\ calls - Len(removal_queue) \in Nat /\ InTurn(ui, called, calls - Len(removal_queue))
  BY Before
<1>2. /\ jobs' = jobs \ {job}
      /\ ui' = IF job.step = "unwaited" THEN ui ELSE Behind(ui, "OnTaskComplete", job.id)
  BY DEF Finish, Behind
<1>3. /\ JobsOK(jobs') /\ OneOfAKind(jobs') /\ CountedOf(jobs') \subseteq CountedOf(jobs)
      /\ Cardinality(CountedOf(jobs')) =
           Cardinality(CountedOf(jobs)) - IF job.step = "unwaited" THEN 0 ELSE 1
  <2>1. JobsOK(jobs \ {job}) /\ OneOfAKind(jobs \ {job})
    BY <1>1, JobEnds
  <2>2. CountedOf(jobs \ {job}) \subseteq CountedOf(jobs)
    BY DEF CountedOf
  <2>3. Cardinality(CountedOf(jobs \ {job})) =
          Cardinality(CountedOf(jobs)) - IF job.step = "unwaited" THEN 0 ELSE 1
    BY <1>1, JobEnds
  <2> QED
    BY <1>2, <2>1, <2>2, <2>3
<1>4. job.id \in Nat
  BY <1>1 DEF JobsOK, JobRecords
<1>5. Cardinality(CountedOf(jobs)) \in Nat /\ ClosureCount(ui) \in Nat
  BY <1>1, CountedFacts, CountsOfTasks
<1>6. CASE job.step = "unwaited"
  <2>1. ui' = ui
    BY <1>2, <1>6
  <2> QED
    BY <1>1, <1>3, <1>5, <1>6, <2>1, JobsKeep
<1>7. CASE job.step # "unwaited"
  <2>1. ui' = Behind(ui, "OnTaskComplete", job.id)
    BY <1>2, <1>7
  <2>2. /\ ui' \in Seq(Task) /\ ClosureCount(ui') = ClosureCount(ui) + 1
        /\ NextCount(ui') = NextCount(ui) /\ Callbacks(ui') = Callbacks(ui)
        /\ AllCleared(ui) => AllCleared(ui')
    BY <1>1, <1>4, <2>1, BehindClosure
  <2>3. InTurn(ui', called, calls - Len(removal_queue))
    <3>1. "OnTaskComplete" \in UITasks \ {"callback"}
      BY DEF UITasks
    <3> QED
      BY <1>1, <1>4, <2>1, <3>1, TurnOfOther
  <2>4. Cardinality(CountedOf(jobs')) + ClosureCount(ui') =
          Cardinality(CountedOf(jobs)) + ClosureCount(ui)
    BY <1>3, <1>5, <1>7, <2>2
  <2>5. \A j \in CountedOf(jobs') : \E k \in CountedOf(jobs) : k.id = j.id
    BY <1>3
  <2> QED
    BY <1>3, <2>2, <2>3, <2>4, <2>5, JobsKeep
<1> QED
  BY <1>6, <1>7

(* So do the steps of the job for the HTTP cache.                          *)
LEMMA JobStepKeeps ==
  ASSUME IndInv, JobStep, UNCHANGED setUp
  PROVE  IndInv'
<1>1. PICK job \in jobs : \/ FinishJob(job) \/ ClearHttpCacheOnIOThread(job)
                          \/ BackendAvailable(job) \/ EntriesDoomed(job)
  BY DEF JobStep
<1>2. OnlyJobs
  BY <1>1 DEF FinishJob, ClearHttpCacheOnIOThread, BackendAvailable, EntriesDoomed
<1>3. CASE Finish(job)
  BY <1>2, <1>3, FinishKeeps
<1>4. CASE ~Finish(job)
  <2>1. PICK step \in {"backend", "doom"} : GoOn(job, step)
    BY <1>1, <1>4 DEF FinishJob, ClearHttpCacheOnIOThread, BackendAvailable, EntriesDoomed,
                      DoomHttpCache
  <2>2. job.kind = "cache" /\ job.step # "unwaited"
    BY <1>1, <1>4 DEF FinishJob, ClearHttpCacheOnIOThread, BackendAvailable, EntriesDoomed
  <2>3. jobs' = (jobs \ {job}) \cup {[job EXCEPT !.step = step]} /\ ui' = ui
    BY <2>1 DEF GoOn
  <2>4. /\ JobsOK(jobs) /\ OneOfAKind(jobs) /\ ui \in Seq(Task)
        /\ InTurn(ui, called, calls - Len(removal_queue))
    BY Before
  <2>5. /\ JobsOK(jobs') /\ OneOfAKind(jobs')
        /\ \A j \in CountedOf(jobs') : \E k \in CountedOf(jobs) : k.id = j.id
        /\ Cardinality(CountedOf(jobs')) = Cardinality(CountedOf(jobs))
    <3> DEFINE after == (jobs \ {job}) \cup {[job EXCEPT !.step = step]}
    <3>1. /\ JobsOK(after) /\ OneOfAKind(after)
          /\ \A j \in CountedOf(after) : \E k \in CountedOf(jobs) : k.id = j.id
          /\ Cardinality(CountedOf(after)) = Cardinality(CountedOf(jobs))
      BY <2>2, <2>4, JobGoesOn, Zenon
    <3> QED
      BY <2>3, <3>1, Zenon
  <2> QED
    BY <1>2, <2>3, <2>4, <2>5, JobsKeep
<1> QED
  BY <1>3, <1>4

-----------------------------------------------------------------------------
(* The tasks of the sequence run.                                          *)

(* The first task goes, and counts no more.                                *)
LEMMA FirstTask ==
  ASSUME IndInv, NEW op \in UITasks, RunTask(op)
  PROVE  /\ ui # <<>> /\ Head(ui).op = op /\ Head(ui).id \in Nat
         /\ Tail(ui) \in Seq(Task) /\ Callbacks(Tail(ui)) \subseteq Callbacks(ui)
         /\ InTurn(Tail(ui), called, calls - Len(removal_queue))
         /\ Ordered(removal_queue, Tail(ui), called, calls)
         /\ AllCleared(ui) => AllCleared(Tail(ui)) /\ op # "BookmarksNotCleared"
         /\ ClosureCount(ui) \in Nat /\ ClosureCount(Tail(ui)) \in Nat
         /\ NextCount(ui) \in Nat /\ NextCount(Tail(ui)) \in Nat
         /\ op \in {"OnTaskComplete", "BookmarksCleared"} =>
              ClosureCount(ui) = ClosureCount(Tail(ui)) + 1
         /\ op \notin {"OnTaskComplete", "BookmarksCleared"} =>
              ClosureCount(Tail(ui)) = ClosureCount(ui)
         /\ op = "RunNextTask" => NextCount(ui) = NextCount(Tail(ui)) + 1
         /\ op # "RunNextTask" => NextCount(Tail(ui)) = NextCount(ui)
<1>1. /\ ui \in Seq(Task) /\ called \in Seq(Nat) /\ calls - Len(removal_queue) \in Nat
      /\ InTurn(ui, called, calls - Len(removal_queue))
      /\ Ordered(removal_queue, ui, called, calls)
  BY Before
<1>2. ui # <<>> /\ Head(ui).op = op
  BY DEF RunTask
<1>3. /\ Head(ui) \in Task /\ Tail(ui) \in Seq(Task)
      /\ ClosureCount(ui) = ClosureCount(Tail(ui)) + IF Head(ui) \in Closures THEN 1 ELSE 0
      /\ NextCount(ui) = NextCount(Tail(ui)) + IF Head(ui) \in NextTasks THEN 1 ELSE 0
      /\ \A n \in 1..Len(Tail(ui)) : \E m \in 1..Len(ui) : Tail(ui)[n] = ui[m]
  BY <1>1, <1>2, TasksBehind
<1>4. /\ Head(ui).id \in Nat
      /\ Head(ui) \in Closures <=> op \in {"OnTaskComplete", "BookmarksCleared"}
      /\ Head(ui) \in NextTasks <=> op = "RunNextTask"
  BY <1>2, <1>3, TaskFacts
<1>5. /\ ClosureCount(ui) \in Nat /\ ClosureCount(Tail(ui)) \in Nat
      /\ NextCount(ui) \in Nat /\ NextCount(Tail(ui)) \in Nat
  BY <1>1, <1>3, CountsOfTasks
<1>6. Callbacks(Tail(ui)) \subseteq Callbacks(ui)
  BY <1>1, <1>2, TasksBehind
<1>7. InTurn(Tail(ui), called, calls - Len(removal_queue))
  BY <1>1, <1>2, TurnOfTail
<1>8. Ordered(removal_queue, Tail(ui), called, calls)
  BY <1>1, <1>7 DEF Ordered
<1>9. ASSUME AllCleared(ui)
      PROVE  AllCleared(Tail(ui)) /\ op # "BookmarksNotCleared"
  <2>1. 1 \in 1..Len(ui) /\ Head(ui) = ui[1]
    BY <1>1, <1>2, HeadTailProperties, EmptySeq, LenProperties
  <2> QED
    BY <1>2, <1>3, <1>9, <2>1 DEF AllCleared
<1> QED
  BY <1>2, <1>3, <1>4, <1>5, <1>6, <1>7, <1>8, <1>9

(* A task that only goes: a notification, or one whose weak pointer is gone.*)
LEMMA TaskGoes ==
  ASSUME IndInv, NEW op \in UITasks, RunTask(op), ui' = Tail(ui),
         UNCHANGED <<queueVars, jobs, bookmark_model, called, aborted, calls>>,
         UNCHANGED setUp, crashed' \in BOOLEAN,
         browser_state => op = "NotifyBrowsingDataRemoved"
  PROVE  IndInv'
<1>1. /\ ui' \in Seq(Task) /\ Callbacks(ui') \subseteq Callbacks(ui)
      /\ InTurn(ui', called, calls - Len(removal_queue))
      /\ AllCleared(ui) => AllCleared(ui')
      /\ op = "NotifyBrowsingDataRemoved" =>
           ClosureCount(ui') = ClosureCount(ui) /\ NextCount(ui') = NextCount(ui)
  BY FirstTask
<1>2. jobs' = jobs /\ bookmark_model' = bookmark_model /\ called' = called
  OBVIOUS
<1>3. /\ JobsOK(jobs') /\ OneOfAKind(jobs') /\ called' \in Seq(Nat)
      /\ bookmark_model' \in {"loading", "loaded", "deleted"} /\ CallbacksInOrder'
  BY <1>2, Before DEF CallbacksInOrder
<1>4. UNCHANGED <<queueVars, aborted, calls>>
  BY Zenon
<1>5. /\ InTurn(ui', called', calls - Len(removal_queue))
      /\ \A j \in CountedOf(jobs') : \E k \in CountedOf(jobs) : k.id = j.id
  BY <1>1, <1>2
<1>6. browser_state =>
        /\ Cardinality(CountedOf(jobs')) + ClosureCount(ui') =
             Cardinality(CountedOf(jobs)) + ClosureCount(ui)
        /\ NextCount(ui') = NextCount(ui)
        /\ AllCleared(ui) => AllCleared(ui')
  BY <1>1, <1>2
<1> QED
  BY <1>1, <1>3, <1>4, <1>5, <1>6, SameQueueKeeps, Zenon

(* NotifyBrowsingDataRemoved tells the observers.                          *)
LEMMA RunNotifyKeeps ==
  ASSUME IndInv, RunNotify, UNCHANGED setUp
  PROVE  IndInv'
<1>1. /\ RunTask("NotifyBrowsingDataRemoved") /\ ui' = Tail(ui)
      /\ UNCHANGED <<queueVars, jobs, bookmark_model, called, aborted, calls>>
      /\ crashed' = crashed
  BY Zenon DEF RunNotify, ghostVars
<1>2. "NotifyBrowsingDataRemoved" \in UITasks
  BY DEF UITasks
<1>3. crashed' \in BOOLEAN
  BY <1>1, FlagFacts, Zenon
<1> QED
  BY <1>1, <1>2, <1>3, TaskGoes, Zenon

(* The CHECK only fails when the bookmarks went with the browser state.    *)
LEMMA RunNotClearedKeeps ==
  ASSUME IndInv, RunNotCleared, UNCHANGED setUp
  PROVE  IndInv'
<1>1. /\ RunTask("BookmarksNotCleared") /\ ui' = Tail(ui)
      /\ UNCHANGED <<queueVars, jobs, bookmark_model, called, aborted, calls>>
      /\ crashed' \in BOOLEAN
  BY Zenon DEF RunNotCleared
<1>2. "BookmarksNotCleared" \in UITasks
  BY DEF UITasks
<1>3. ~browser_state
  <2>1. browser_state => AllCleared(ui)
    BY Before DEF Running
  <2> QED
    BY <1>1, <1>2, <2>1, FirstTask
<1> QED
  BY <1>1, <1>2, <1>3, TaskGoes, Zenon

(* A callback runs after those of earlier calls.                           *)
LEMMA RunCallbackKeeps ==
  ASSUME IndInv, RunCallback, UNCHANGED setUp
  PROVE  IndInv'
<1> DEFINE h == Head(ui).id
           left == calls - Len(removal_queue)
<1>1. /\ RunTask("callback") /\ ui' = Tail(ui) /\ called' = Append(called, h)
      /\ jobs' = jobs /\ bookmark_model' = bookmark_model
  BY DEF RunCallback
<1>2. UNCHANGED <<queueVars, aborted, calls>> /\ crashed' = crashed
  BY Zenon DEF RunCallback
<1>3. crashed' \in BOOLEAN
  BY <1>2, FlagFacts, Zenon
<1>4. "callback" \in UITasks
  BY DEF UITasks
<1>5. /\ ui # <<>> /\ Head(ui).op = "callback" /\ h \in Nat
      /\ ui' \in Seq(Task) /\ Callbacks(ui') \subseteq Callbacks(ui)
      /\ AllCleared(ui) => AllCleared(ui')
      /\ ClosureCount(ui') = ClosureCount(ui) /\ NextCount(ui') = NextCount(ui)
  BY <1>1, <1>4, FirstTask
<1>6. /\ JobsOK(jobs) /\ OneOfAKind(jobs) /\ called \in Seq(Nat) /\ ui \in Seq(Task)
      /\ bookmark_model \in {"loading", "loaded", "deleted"} /\ CallbacksInOrder
      /\ left \in Nat /\ InTurn(ui, called, left)
  BY Before
<1>7. InTurn(ui', called', left) /\ \A m \in DOMAIN called : called[m] < h
  BY <1>1, <1>5, <1>6, TurnOfTail
<1>8. called' \in Seq(Nat) /\ CallbacksInOrder'
  <2>1. /\ called' \in Seq(Nat) /\ DOMAIN called' = 1..(Len(called) + 1) /\ Len(called) \in Nat
        /\ called'[Len(called) + 1] = h /\ \A m \in 1..Len(called) : called'[m] = called[m]
        /\ DOMAIN called = 1..Len(called)
    BY <1>1, <1>5, <1>6, AppendProperties, LenProperties
  <2>2. \A m, n \in 1..(Len(called) + 1) : m < n =>
          \/ m \in 1..Len(called) /\ n \in 1..Len(called)
          \/ m \in 1..Len(called) /\ n = Len(called) + 1
    <3> DEFINE L == Len(called)
    <3>1. L \in Nat
      BY <2>1
    <3> HIDE DEF L
    <3>2. \A m, n \in 1..(L + 1) : m < n => m \in 1..L /\ (n \in 1..L \/ n = L + 1)
      BY <3>1
    <3> QED
      BY <3>2 DEF L
  <2> QED
    BY <1>6, <1>7, <2>1, <2>2 DEF CallbacksInOrder
<1>9. JobsOK(jobs') /\ OneOfAKind(jobs') /\ bookmark_model' \in {"loading", "loaded", "deleted"}
      /\ \A j \in CountedOf(jobs') : \E k \in CountedOf(jobs) : k.id = j.id
  BY <1>1, <1>6
<1>10. browser_state =>
         /\ Cardinality(CountedOf(jobs')) + ClosureCount(ui') =
              Cardinality(CountedOf(jobs)) + ClosureCount(ui)
         /\ NextCount(ui') = NextCount(ui)
         /\ AllCleared(ui) => AllCleared(ui')
  BY <1>1, <1>5
<1> QED
  BY <1>2, <1>3, <1>5, <1>7, <1>8, <1>9, <1>10, SameQueueKeeps, Zenon

(* OnTaskComplete: the last closure of a removal completes it; a closure    *)
(* that comes after the shutdown does nothing.                              *)
LEMMA RunClosureKeeps ==
  ASSUME IndInv, RunClosure, UNCHANGED setUp
  PROVE  IndInv'
<1> DEFINE q == removal_queue
           rest == Tail(ui)
<1>1. PICK op \in {"OnTaskComplete", "BookmarksCleared"} : RunTask(op)
  BY DEF RunClosure
<1>2. /\ OnTaskComplete(rest) /\ jobs' = jobs /\ bookmark_model' = bookmark_model
      /\ called' = called /\ aborted' = aborted /\ calls' = calls
  BY DEF RunClosure, ghostVars
<1>3. browser_state' = browser_state /\ crashed' = crashed
  BY Zenon DEF RunClosure, ghostVars
<1>4. crashed' \in BOOLEAN /\ browser_state' \in BOOLEAN
  BY <1>3, FlagFacts, Zenon
<1>5. op \in UITasks /\ op # "RunNextTask"
  BY <1>1 DEF UITasks
<1>6. CASE ~browser_state
  <2>1. UNCHANGED <<queueVars, jobs, bookmark_model, called, aborted, calls>> /\ ui' = rest
    BY <1>2, <1>3, <1>6, Zenon DEF OnTaskComplete, queueVars
  <2> QED
    BY <1>1, <1>4, <1>5, <1>6, <2>1, TaskGoes, Zenon
<1>7. CASE browser_state
  <2>1. /\ q \in Seq(Removal) /\ pending_tasks_count \in Nat /\ JobsOK(jobs) /\ ui \in Seq(Task)
        /\ bookmark_model \in {"loading", "loaded", "deleted"}
        /\ called \in Seq(Nat) /\ calls \in Nat /\ calls \in 0..MaxRemovals /\ aborted = {}
        /\ Running(q, pending_tasks_count, jobs, ui) /\ CallbacksInOrder /\ OneOfAKind(jobs)
        /\ \A id \in Callbacks(ui) : id \in aborted \/ \A job \in CountedOf(jobs) : job.id # id
    BY <1>7, Before
  <2>2. /\ rest \in Seq(Task) /\ Callbacks(rest) \subseteq Callbacks(ui)
        /\ Ordered(q, rest, called, calls)
        /\ AllCleared(ui) => AllCleared(rest)
        /\ ClosureCount(rest) \in Nat /\ ClosureCount(ui) = ClosureCount(rest) + 1
        /\ NextCount(rest) = NextCount(ui)
    BY <1>1, <1>5, FirstTask
  <2> HIDE DEF rest
  <2>3. /\ Cardinality(CountedOf(jobs)) \in Nat
        /\ Cardinality(CountedOf(jobs)) = 0 <=> CountedOf(jobs) = {}
    BY <2>1, CountedFacts
  <2>4. /\ pending_tasks_count = Cardinality(CountedOf(jobs)) + ClosureCount(ui)
        /\ pending_tasks_count # 0 /\ q # <<>> /\ NextCount(rest) = 0 /\ AllCleared(rest)
        /\ \A job \in CountedOf(jobs) : job.id = Head(q).id
    BY <2>1, <2>2, <2>3 DEF Running
  <2>5. /\ pending_tasks_count' = pending_tasks_count - 1 /\ pending_tasks_count' \in Nat
        /\ pending_tasks_count' = Cardinality(CountedOf(jobs)) + ClosureCount(rest)
    BY <1>2, <1>7, <2>1, <2>2, <2>3, <2>4 DEF OnTaskComplete
  <2>6. CallbacksInOrder' /\ called' \in Seq(Nat) /\ JobsOK(jobs') /\ OneOfAKind(jobs')
        /\ bookmark_model' \in {"loading", "loaded", "deleted"} /\ aborted' = {}
        /\ aborted' \subseteq Nat /\ calls' \in 0..MaxRemovals
    BY <1>2, <2>1 DEF CallbacksInOrder
  <2>7. CASE pending_tasks_count' = 0
    <3>1. NotifyRemovalComplete(q, rest)
      BY <1>2, <1>7, <2>7 DEF OnTaskComplete, Completes
    <3>2. ClosureCount(rest) = 0 /\ CountedOf(jobs) = {} /\ Cardinality(CountedOf(jobs)) = 0
      BY <2>2, <2>3, <2>5, <2>7
    <3>3. /\ removal_queue' \in Seq(Removal) /\ ui' \in Seq(Task) /\ ClosureCount(ui') = 0
          /\ NextCount(ui') = IF removal_queue' # <<>> THEN 1 ELSE 0
          /\ AllCleared(ui') /\ Ordered(removal_queue', ui', called, calls)
      BY <2>1, <2>2, <2>4, <3>1, <3>2, CompletionFacts
    <3>4. is_removing' = (removal_queue' # <<>>)
      BY <3>1, Zenon DEF NotifyRemovalComplete, RemovingAfter
    <3>5. Running(removal_queue', pending_tasks_count', jobs', ui')
      BY <1>2, <2>7, <3>2, <3>3 DEF Running
    <3>6. Ordered(removal_queue', ui', called', calls')
      BY <1>2, <3>3, Zenon
    <3>7. \A id \in Callbacks(ui') : id \in aborted' \/ \A job \in CountedOf(jobs') : job.id # id
      BY <1>2, <3>2
    <3> QED
      BY <1>4, <2>5, <2>6, <3>3, <3>4, <3>5, <3>6, <3>7, After, Zenon
  <2>8. CASE pending_tasks_count' # 0
    <3>1. ui' = rest /\ removal_queue' = q
      BY <1>2, <1>7, <2>8 DEF OnTaskComplete, Completes
    <3>2. is_removing' = is_removing
      BY <1>2, <1>7, <2>8, Zenon DEF OnTaskComplete, Completes
    <3>3. is_removing' = (removal_queue' # <<>>)
      BY <3>1, <3>2, FlagFacts, Zenon
    <3>4. Running(removal_queue', pending_tasks_count', jobs', ui')
      BY <1>2, <2>1, <2>4, <2>5, <2>8, <3>1 DEF Running
    <3>5. Ordered(removal_queue', ui', called', calls') /\ removal_queue' \in Seq(Removal)
          /\ ui' \in Seq(Task)
      BY <1>2, <2>1, <2>2, <3>1
    <3>6. \A id \in Callbacks(ui') : id \in aborted' \/ \A job \in CountedOf(jobs') : job.id # id
      BY <1>2, <2>1, <2>2, <3>1
    <3> QED
      BY <1>4, <2>5, <2>6, <3>3, <3>4, <3>5, <3>6, After, Zenon
  <2> QED
    BY <2>7, <2>8
<1> QED
  BY <1>6, <1>7

(* RunNextTask starts the first of the removals that waited.               *)
LEMMA RunNextTaskKeeps ==
  ASSUME IndInv, RunNextTask, UNCHANGED setUp
  PROVE  IndInv'
<1> DEFINE q == removal_queue
           rest == Tail(ui)
<1>1. /\ RunTask("RunNextTask") /\ bookmark_model' = bookmark_model
      /\ called' = called /\ aborted' = aborted /\ calls' = calls
  BY DEF RunNextTask
<1>2. browser_state' = browser_state /\ crashed' = crashed
  BY Zenon DEF RunNextTask
<1>3. crashed' \in BOOLEAN /\ browser_state' \in BOOLEAN
  BY <1>2, FlagFacts, Zenon
<1>4. "RunNextTask" \in UITasks
  BY DEF UITasks
<1>5. CASE ~browser_state
  <2>1. UNCHANGED <<queueVars, jobs, bookmark_model, called, aborted, calls>> /\ ui' = rest
    BY <1>2, <1>5, Zenon DEF RunNextTask, queueVars
  <2> QED
    BY <1>1, <1>3, <1>4, <1>5, <2>1, TaskGoes, Zenon
<1>6. CASE browser_state
  <2>1. /\ q \in Seq(Removal) /\ pending_tasks_count \in Nat /\ JobsOK(jobs) /\ ui \in Seq(Task)
        /\ bookmark_model \in {"loading", "loaded", "deleted"}
        /\ called \in Seq(Nat) /\ calls \in Nat /\ calls \in 0..MaxRemovals /\ aborted = {}
        /\ Running(q, pending_tasks_count, jobs, ui) /\ CallbacksInOrder
    BY <1>6, Before
  <2>2. /\ rest \in Seq(Task) /\ Ordered(q, rest, called, calls)
        /\ AllCleared(ui) => AllCleared(rest)
        /\ ClosureCount(rest) = ClosureCount(ui) /\ NextCount(rest) \in Nat
        /\ NextCount(ui) = NextCount(rest) + 1
    BY <1>1, <1>4, FirstTask
  <2>3. /\ StartRemoval(q, rest)
    BY <1>6 DEF RunNextTask
  <2> HIDE DEF rest
  <2>4. NextCount(rest) = 0 /\ pending_tasks_count = 0 /\ q # <<>> /\ AllCleared(rest)
    BY <2>1, <2>2 DEF Running
  <2>5. CountedOf(jobs) = {} /\ ClosureCount(rest) = 0
    BY <2>1, <2>2, <2>4, AtRest
  <2>6. Types
    BY DEF IndInv
  <2>7. /\ removal_queue' \in Seq(Removal) /\ pending_tasks_count' \in Nat
        /\ JobsOK(jobs') /\ ui' \in Seq(Task)
        /\ is_removing' = (removal_queue' # <<>>)
        /\ Running(removal_queue', pending_tasks_count', jobs', ui')
        /\ Ordered(removal_queue', ui', called, calls)
        /\ OneOfAKind(jobs') /\ Removed(ui', jobs')
    BY <2>1, <2>2, <2>3, <2>4, <2>5, <2>6, StartFacts, Zenon
  <2>8. CallbacksInOrder' /\ called' \in Seq(Nat) /\ aborted' = {} /\ aborted' \subseteq Nat
        /\ bookmark_model' \in {"loading", "loaded", "deleted"} /\ calls' \in 0..MaxRemovals
    BY <1>1, <2>1 DEF CallbacksInOrder
  <2>9. \A id \in Callbacks(ui') : id \in aborted' \/ \A job \in CountedOf(jobs') : job.id # id
    BY <2>7 DEF Removed
  <2>10. Ordered(removal_queue', ui', called', calls')
    BY <1>1, <2>7, Zenon
  <2> QED
    BY <1>3, <2>7, <2>8, <2>9, <2>10, After, Zenon
<1> QED
  BY <1>5, <1>6

-----------------------------------------------------------------------------
(* Several tasks are posted at once.                                       *)

(* Tasks of one kind.                                                      *)
LEMMA ManyTasks ==
  ASSUME NEW N \in Nat, NEW t \in [1..N -> Task], NEW op \in UITasks,
         \A n \in 1..N : t[n].op = op
  PROVE  /\ t \in Seq(Task) /\ Len(t) = N
         /\ op \in {"OnTaskComplete", "BookmarksCleared"} => ClosureCount(t) = N
         /\ op # "RunNextTask" => NextCount(t) = 0
         /\ op # "callback" => Callbacks(t) = {}
<1>1. t \in Seq(Task) /\ Len(t) = N
  <2>1. t \in Seq(Task)
    BY SeqDef
  <2>2. DOMAIN t = 1..N /\ DOMAIN t = 1..Len(t) /\ Len(t) \in Nat
    BY <2>1, LenProperties
  <2> QED
    BY <2>1, <2>2
<1>2. \A n \in 1..N : t[n] \in Task
  OBVIOUS
<1>3. ASSUME op \in {"OnTaskComplete", "BookmarksCleared"}
      PROVE  ClosureCount(t) = N
  <2>1. Places(t, Closures) = 1..N
    BY <1>1, <1>2, <1>3, TaskFacts DEF Places
  <2>2. Cardinality(1..N) = N
    BY FS_Interval
  <2> QED
    BY <2>1, <2>2 DEF ClosureCount
<1>4. ASSUME op # "RunNextTask"
      PROVE  NextCount(t) = 0
  BY <1>1, <1>4, CountsOfTasks
<1>5. ASSUME op # "callback"
      PROVE  Callbacks(t) = {}
  BY <1>1, <1>5 DEF Callbacks
<1> QED
  BY <1>1, <1>3, <1>4, <1>5

(* The helpers that waited for the bookmarks go, each with its callback.    *)
LEMMA BookmarksKeep ==
  ASSUME IndInv, NEW op \in {"BookmarksCleared", "BookmarksNotCleared"}, BookmarksRemoved(op),
         bookmark_model' \in {"loading", "loaded", "deleted"},
         UNCHANGED <<queueVars, called, aborted, crashed, calls>>, UNCHANGED setUp,
         browser_state => op = "BookmarksCleared"
  PROVE  IndInv'
<1> DEFINE N == Cardinality(Waiting)
           C == CountedOf(jobs)
           left == calls - Len(removal_queue)
<1>1. /\ JobsOK(jobs) /\ OneOfAKind(jobs) /\ ui \in Seq(Task) /\ called \in Seq(Nat)
      /\ left \in Nat /\ InTurn(ui, called, left) /\ CallbacksInOrder
  BY Before
<1>2. /\ Waiting \in SUBSET jobs /\ IsFiniteSet(Waiting) /\ N \in Nat
      /\ \A job \in Waiting : job.id \in Nat
  <2>1. Waiting \in SUBSET jobs
    BY DEF Waiting
  <2>2. IsFiniteSet(Waiting)
    BY <1>1, <2>1, FS_Subset DEF JobsOK
  <2> QED
    BY <1>1, <2>1, <2>2, FS_CardinalityType DEF JobsOK, JobRecords
<1>3. Waiting \subseteq C
  BY <1>1 DEF Waiting, CountedOf, JobsOK
<1>4. jobs' = jobs \ Waiting
  BY DEF BookmarksRemoved
<1>5. PICK order \in [1..N -> Waiting] :
        ui' = ui \o [n \in DOMAIN order |-> [op |-> op, id |-> order[n].id]]
  BY DEF BookmarksRemoved
<1> DEFINE t == [n \in DOMAIN order |-> [op |-> op, id |-> order[n].id]]
<1>6. op \in UITasks /\ op # "callback" /\ op # "RunNextTask"
  BY DEF UITasks
<1> HIDE DEF N
<1>7. t \in [1..N -> Task] /\ \A n \in 1..N : t[n].op = op
  <2>1. DOMAIN order = 1..N /\ \A n \in 1..N : order[n] \in Waiting
    OBVIOUS
  <2>2. \A n \in 1..N : [op |-> op, id |-> order[n].id] \in Task
    BY <1>2, <1>6, <2>1 DEF Task
  <2> QED
    BY <2>1, <2>2
<1> HIDE DEF t
<1>8. /\ t \in Seq(Task) /\ Len(t) = N /\ NextCount(t) = 0 /\ Callbacks(t) = {}
      /\ op = "BookmarksCleared" => ClosureCount(t) = N
  BY <1>2, <1>6, <1>7, ManyTasks
<1>9. ui' = ui \o t
  BY <1>5 DEF t
<1>10. /\ ui' \in Seq(Task) /\ ClosureCount(ui') = ClosureCount(ui) + ClosureCount(t)
       /\ NextCount(ui') = NextCount(ui) + NextCount(t)
       /\ Callbacks(ui') = Callbacks(ui) \cup Callbacks(t)
  BY <1>1, <1>8, <1>9, TasksInLine
<1>11. NextCount(ui') = NextCount(ui) /\ Callbacks(ui') \subseteq Callbacks(ui)
  <2>1. NextCount(ui) \in Nat
    BY <1>1, CountsOfTasks
  <2> QED
    BY <1>8, <1>10, <2>1
<1>12. InTurn(ui', called, left)
  BY <1>1, <1>8, <1>9, TurnOfOthers
<1>13. ASSUME op = "BookmarksCleared", AllCleared(ui)
       PROVE  AllCleared(ui')
  <2>1. \A n \in 1..Len(ui') : \/ \E m \in 1..Len(ui) : ui'[n] = ui[m]
                               \/ \E m \in 1..Len(t) : ui'[n] = t[m]
    BY <1>1, <1>8, <1>9, TasksInLine
  <2> QED
    BY <1>7, <1>8, <1>13, <2>1 DEF AllCleared
<1>14. /\ CountedOf(jobs') = C \ Waiting /\ JobsOK(jobs') /\ OneOfAKind(jobs')
       /\ \A j \in CountedOf(jobs') : \E k \in CountedOf(jobs) : k.id = j.id
  <2>1. CountedOf(jobs') = C \ Waiting
    BY <1>4 DEF CountedOf
  <2>2. IsFiniteSet(jobs')
    BY <1>1, <1>4, FS_Difference DEF JobsOK
  <2> QED
    BY <1>1, <1>4, <2>1, <2>2 DEF JobsOK, OneOfAKind
<1>15. Cardinality(CountedOf(jobs')) = Cardinality(C) - N
  <2>1. IsFiniteSet(C)
    BY <1>1, CountedFacts
  <2> HIDE DEF C
  <2>2. Cardinality(C \ Waiting) = Cardinality(C) - Cardinality(C \cap Waiting)
    BY <2>1, FS_Difference
  <2>3. C \cap Waiting = Waiting
    BY <1>3
  <2> QED
    BY <1>14, <2>2, <2>3 DEF N
<1>16. browser_state =>
         /\ Cardinality(CountedOf(jobs')) + ClosureCount(ui') =
              Cardinality(CountedOf(jobs)) + ClosureCount(ui)
         /\ NextCount(ui') = NextCount(ui)
         /\ AllCleared(ui) => AllCleared(ui')
  <2>1. Cardinality(CountedOf(jobs)) \in Nat /\ ClosureCount(ui) \in Nat
    BY <1>1, CountedFacts, CountsOfTasks
  <2>2. op = "BookmarksCleared" =>
          Cardinality(CountedOf(jobs')) + ClosureCount(ui') =
            Cardinality(CountedOf(jobs)) + ClosureCount(ui)
    BY <1>2, <1>8, <1>10, <1>15, <2>1
  <2> QED
    BY <1>11, <1>13, <2>2
<1>17. UNCHANGED <<queueVars, aborted, calls>> /\ crashed' = crashed
  BY Zenon
<1>18. crashed' \in BOOLEAN
  BY <1>17, FlagFacts, Zenon
<1>19. called' \in Seq(Nat) /\ CallbacksInOrder' /\ InTurn(ui', called', left)
  BY <1>1, <1>12 DEF CallbacksInOrder
<1> QED
  BY <1>10, <1>11, <1>14, <1>16, <1>17, <1>18, <1>19, SameQueueKeeps, Zenon

(* Shutdown posts the callbacks of all removals that are queued, the one    *)
(* under way among them.                                                    *)
LEMMA ShutdownKeeps ==
  ASSUME IndInv, Shutdown, UNCHANGED setUp
  PROVE  IndInv'
<1> DEFINE q == removal_queue
           left == calls - Len(q)
           t == [n \in DOMAIN q |-> [op |-> "callback", id |-> q[n].id]]
<1>1. /\ browser_state /\ removal_queue' = <<>> /\ ui' = ui \o t
      /\ aborted' = {q[n].id : n \in DOMAIN q}
      /\ pending_tasks_count' = pending_tasks_count /\ jobs' = jobs
      /\ bookmark_model' = bookmark_model /\ called' = called /\ calls' = calls
  BY DEF Shutdown, Pending
<1>2. is_removing' = FALSE /\ browser_state' = FALSE /\ crashed' = crashed
  BY Zenon DEF Shutdown
<1>3. /\ q \in Seq(Removal) /\ pending_tasks_count \in Nat /\ JobsOK(jobs) /\ ui \in Seq(Task)
      /\ bookmark_model \in {"loading", "loaded", "deleted"}
      /\ called \in Seq(Nat) /\ calls \in Nat /\ calls \in 0..MaxRemovals /\ aborted = {}
      /\ Len(q) \in Nat /\ left \in Nat /\ CallbacksInOrder /\ OneOfAKind(jobs)
      /\ InTurn(ui, called, left) /\ \A k \in 1..Len(q) : q[k].id = left + k
      /\ \A id \in Callbacks(ui) : id \in aborted \/ \A job \in CountedOf(jobs) : job.id # id
  BY <1>1, Before DEF Ordered
<1>4. /\ DOMAIN q = 1..Len(q) /\ left <= calls
      /\ \A k \in 1..Len(q) : q[k].id \in Nat /\ left < q[k].id /\ q[k].id <= calls
      /\ \A k, m \in 1..Len(q) : m < k => q[m].id < q[k].id
  <2>1. DOMAIN q = 1..Len(q)
    BY <1>3, LenProperties
  <2>2. left <= calls /\ left + Len(q) = calls
    BY <1>3
  <2> HIDE DEF q, left
  <2>3. \A k \in 1..Len(q) : q[k].id \in Nat /\ left < q[k].id /\ q[k].id <= calls
    <3> TAKE k \in 1..Len(q)
    <3>1. q[k].id = left + k /\ k >= 1 /\ k <= Len(q)
      BY <1>3
    <3> QED
      BY <1>3, <2>2, <3>1
  <2>4. \A k, m \in 1..Len(q) : m < k => q[m].id < q[k].id
    BY <1>3
  <2> QED
    BY <2>1, <2>2, <2>3, <2>4
<1>5. t \in [1..Len(q) -> Task] /\ \A k \in 1..Len(q) : t[k].op = "callback" /\ t[k].id = q[k].id
  BY <1>3, <1>4 DEF Task, UITasks
<1> HIDE DEF t, q, left
<1>6. t \in Seq(Task) /\ Len(t) = Len(q)
  <2>1. "callback" \in UITasks
    BY DEF UITasks
  <2> QED
    BY <1>3, <1>5, <2>1, ManyTasks
<1>7. InTurn(ui', called, calls)
  <2>1. \A n \in 1..Len(t) : t[n].op = "callback" =>
           /\ left < t[n].id /\ t[n].id <= calls
           /\ \A m \in 1..Len(t) : t[m].op = "callback" /\ m < n => t[m].id < t[n].id
    BY <1>4, <1>5, <1>6
  <2> QED
    BY <1>1, <1>3, <1>4, <1>6, <2>1, TurnInLine
<1>8. ui' \in Seq(Task) /\ Callbacks(ui') = Callbacks(ui) \cup Callbacks(t)
  BY <1>1, <1>3, <1>6, TasksInLine
<1>9. Callbacks(t) = aborted' /\ aborted' \subseteq Nat
  BY <1>1, <1>4, <1>5, <1>6 DEF Callbacks
<1>10. \A id \in Callbacks(ui') : id \in aborted' \/ \A job \in CountedOf(jobs') : job.id # id
  BY <1>1, <1>3, <1>8, <1>9
<1>11. Ordered(removal_queue', ui', called', calls')
  <2>1. Len(<<>>) = 0 /\ calls - 0 = calls /\ 1..0 = {}
    BY <1>3
  <2> QED
    BY <1>1, <1>3, <1>7, <2>1 DEF Ordered
<1>12. is_removing' = (removal_queue' # <<>>)
  BY <1>1, <1>2, Zenon
<1>13. browser_state' \in BOOLEAN /\ crashed' \in BOOLEAN
  BY <1>2, FlagFacts, Zenon
<1>14. /\ removal_queue' \in Seq(Removal) /\ pending_tasks_count' \in Nat /\ JobsOK(jobs')
       /\ bookmark_model' \in {"loading", "loaded", "deleted"} /\ called' \in Seq(Nat)
       /\ calls' \in 0..MaxRemovals /\ CallbacksInOrder' /\ OneOfAKind(jobs')
  BY <1>1, <1>3 DEF CallbacksInOrder
<1> QED
  BY <1>2, <1>8, <1>9, <1>10, <1>11, <1>12, <1>13, <1>14, After, Zenon

-----------------------------------------------------------------------------
(* The invariant is kept by every step.                                    *)
LEMMA NextKeeps == IndInv /\ [Next]_<<vars, setUp>> => IndInv'
<1> SUFFICES ASSUME IndInv, [Next]_<<vars, setUp>>
             PROVE  IndInv'
  OBVIOUS
<1>1. CASE UNCHANGED <<vars, setUp>>
  <2>1. UNCHANGED setUp /\ OnlyJobs /\ jobs' = jobs /\ ui' = ui
    BY <1>1, Zenon DEF vars, ghostVars, OnlyJobs
  <2>2. /\ JobsOK(jobs) /\ OneOfAKind(jobs) /\ ui \in Seq(Task)
        /\ InTurn(ui, called, calls - Len(removal_queue))
    BY Before
  <2> QED
    BY <2>1, <2>2, JobsKeep
<1>2. CASE Next
  <2>1. UNCHANGED setUp /\ Step
    BY <1>2 DEF Next
  <2>2. ASSUME NEW mask \in Masks, RemoveData(mask)
        PROVE  IndInv'
    BY <2>1, <2>2, RemoveKeeps
  <2>3. CASE JobStep
    BY <2>1, <2>3, JobStepKeeps
  <2>4. CASE BookmarkModelLoaded
    <3>1. /\ BookmarksRemoved("BookmarksCleared")
          /\ bookmark_model' \in {"loading", "loaded", "deleted"}
      BY <2>4 DEF BookmarkModelLoaded
    <3>2. UNCHANGED <<queueVars, called, aborted, crashed, calls>>
      BY <2>4, Zenon DEF BookmarkModelLoaded
    <3> QED
      BY <2>1, <3>1, <3>2, BookmarksKeep
  <2>5. CASE BookmarkModelBeingDeleted
    <3>1. /\ BookmarksRemoved("BookmarksNotCleared") /\ ~browser_state
          /\ bookmark_model' \in {"loading", "loaded", "deleted"}
      BY <2>5 DEF BookmarkModelBeingDeleted
    <3>2. UNCHANGED <<queueVars, called, aborted, crashed, calls>>
      BY <2>5, Zenon DEF BookmarkModelBeingDeleted
    <3> QED
      BY <2>1, <3>1, <3>2, BookmarksKeep
  <2>6. CASE SequenceStep
    BY <2>1, <2>6, RunClosureKeeps, RunNotClearedKeeps, RunNextTaskKeeps, RunCallbackKeeps,
       RunNotifyKeeps DEF SequenceStep
  <2>7. CASE Shutdown
    BY <2>1, <2>7, ShutdownKeeps
  <2> QED
    BY <2>1, <2>2, <2>3, <2>4, <2>5, <2>6, <2>7 DEF Step
<1> QED
  BY <1>1, <1>2

(* It holds always.                                                        *)
LEMMA AlwaysIndInv == Spec => []IndInv
  BY InitIndInv, NextKeeps, PTL DEF Spec

(* Removals take their turns with any number of calls and whatever their    *)
(* masks ask for: the count of pending tasks is that of the jobs and of the *)
(* closures still to come, only the first removal of the queue has jobs, the*)
(* next one is started exactly once, and the callbacks run once each in the *)
(* order of the calls of Remove.                                            *)
THEOREM RemoverInvariance == Spec => []RemoverInv
  BY AlwaysIndInv, IndInvImplies, PTL

(* The callback of Remove is posted when everything that was waited for has *)
(* been removed, or by Shutdown.                                            *)
THEOREM DoneAlwaysMeansRemoved == Spec => []DoneMeansRemoved
  BY AlwaysIndInv, IndInvImplies, PTL

=============================================================================
