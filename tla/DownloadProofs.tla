--------------------------- MODULE DownloadProofs ---------------------------
(***************************************************************************)
(* What is kept of a page or of a download, for any number of pages,        *)
(* chunks, attempts and restarts: the offline copies of the reading list    *)
(* (DownloadsInv, NoOrphanFiles of ReadingListDownload) and the files of    *)
(* download tasks (TaskInv of DownloadTask).                                *)
(***************************************************************************)
EXTENDS ReadingListDownload, DownloadTask, ListLemmas

-----------------------------------------------------------------------------
(* Erase.  Induction goes over the set of the counterexamples, whose        *)
(* smallest element would not be one.                                       *)

(* What is left of the first n tasks.                                      *)
LeftOf(g, n, ts, S) ==
  IF n = 0 THEN <<>>
  ELSE IF ts[n] \in S THEN g[n - 1] ELSE Append(g[n - 1], ts[n])

(* The function that Erase defines by recursion exists.                    *)
LEMMA LeftExists ==
  ASSUME NEW ts, Len(ts) \in Nat, NEW S
  PROVE  \E g : g = [n \in 0 .. Len(ts) |-> LeftOf(g, n, ts, S)]
<1> DEFINE L == Len(ts)
           Upto(g, n) == /\ g = [k \in 0 .. L |-> g[k]]
                         /\ \A k \in 0 .. n : g[k] = LeftOf(g, k, ts, S)
           Bad == {n \in 0 .. L : ~ \E g : Upto(g, n)}
<1>1. Bad = {}
  <2> SUFFICES ASSUME Bad # {} PROVE FALSE
    OBVIOUS
  <2>1. PICK m \in Bad : \A y \in Bad : m <= y
    <3>1. Bad \subseteq Nat
      OBVIOUS
    <3> HIDE DEF Bad
    <3> QED
      BY <3>1, MinOfNaturals
  <2>2. CASE m = 0
    <3> DEFINE h == [k \in 0 .. L |-> <<>>]
    <3>1. h = [k \in 0 .. L |-> h[k]]
      OBVIOUS
    <3>2. \A k \in 0 .. 0 : h[k] = LeftOf(h, k, ts, S)
      BY DEF LeftOf
    <3>3. Upto(h, 0)
      BY <3>1, <3>2
    <3> QED
      BY <2>2, <3>3
  <2>3. CASE m # 0
    <3>1. m \in 1 .. L /\ m - 1 \in 0 .. L /\ ~(m <= m - 1)
      BY <2>3
    <3>2. m - 1 \notin Bad
      <4> HIDE DEF Bad
      <4> QED
        BY <2>1, <3>1
    <3>3. PICK g : Upto(g, m - 1)
      BY <3>1, <3>2
    <3> DEFINE h == [k \in 0 .. L |-> IF k = m THEN LeftOf(g, m, ts, S) ELSE g[k]]
    <3>4. h = [k \in 0 .. L |-> h[k]]
      OBVIOUS
    <3>5. \A k \in 0 .. L : k # m => h[k] = g[k]
      OBVIOUS
    <3>6. h[m] = LeftOf(g, m, ts, S)
      BY <3>1
    <3> HIDE DEF h
    <3>7. ASSUME NEW k \in 0 .. m PROVE h[k] = LeftOf(h, k, ts, S)
      <4>1. k \in 0 .. L /\ (k # 0 => k - 1 \in 0 .. L /\ k - 1 # m)
        BY <3>1
      <4>2. k # 0 => h[k - 1] = g[k - 1]
        BY <3>5, <4>1
      <4>3. LeftOf(h, k, ts, S) = LeftOf(g, k, ts, S)
        BY <4>2 DEF LeftOf
      <4>4. CASE k = m
        BY <3>6, <4>3, <4>4
      <4>5. CASE k # m
        <5>1. k \in 0 .. m - 1
          BY <3>1, <4>5
        <5> QED
          BY <3>3, <3>5, <4>1, <4>3, <4>5, <5>1
      <4> QED
        BY <4>4, <4>5
    <3>8. Upto(h, m)
      BY <3>4, <3>7
    <3> QED
      BY <3>8
  <2> QED
    BY <2>2, <2>3
<1>2. L \in 0 .. L
  OBVIOUS
<1>3. PICK g : Upto(g, L)
  BY <1>1, <1>2
<1>4. \A k \in 0 .. L : g[k] = LeftOf(g, k, ts, S)
  BY <1>3
<1>5. g = [k \in 0 .. L |-> g[k]]
  BY <1>3
<1>6. g = [n \in 0 .. L |-> LeftOf(g, n, ts, S)]
  BY <1>4, <1>5
<1> QED
  BY <1>6

(* Erase takes the last value of that function.                            *)
LEMMA EraseIsLeft ==
  ASSUME NEW ts, Len(ts) \in Nat, NEW S
  PROVE  \E g : /\ \A n \in 0 .. Len(ts) : g[n] = LeftOf(g, n, ts, S)
                /\ Erase(ts, S) = g[Len(ts)]
<1> DEFINE F(g) == [n \in 0 .. Len(ts) |->
                      IF n = 0 THEN <<>>
                      ELSE IF ts[n] \in S THEN g[n - 1] ELSE Append(g[n - 1], ts[n])]
           left == CHOOSE g : g = F(g)
<1>1. \E g : g = F(g)
  <2>1. PICK g : g = [n \in 0 .. Len(ts) |-> LeftOf(g, n, ts, S)]
    BY LeftExists, ZenonT(40)
  <2>2. g = F(g)
    BY <2>1, Zenon DEF LeftOf
  <2> QED
    BY <2>2, Zenon
<1>2. left = F(left)
  BY <1>1, Zenon
<1>3. \A n \in 0 .. Len(ts) : left[n] = LeftOf(left, n, ts, S)
  <2> HIDE DEF left
  <2> QED
    BY <1>2 DEF LeftOf
<1>4. Erase(ts, S) = left[Len(ts)]
  BY Zenon DEF Erase
<1> QED
  BY <1>3, <1>4, Zenon

(* What a sequence holds after one more element is appended.               *)
LEMMA AppendHolds ==
  ASSUME NEW T, NEW q \in Seq(T), NEW e \in T
  PROVE  /\ Append(q, e) \in Seq(T)
         /\ Len(Append(q, e)) = Len(q) + 1
         /\ Append(q, e)[Len(q) + 1] = e
         /\ \A i \in 1 .. Len(q) : Append(q, e)[i] = q[i]
         /\ \A i \in 1 .. Len(Append(q, e)) : i \in 1 .. Len(q) \/ i = Len(q) + 1
OBVIOUS

(* Erase removes the tasks of S and only them, and keeps the order of the   *)
(* others.                                                                  *)
LEMMA EraseProperties ==
  ASSUME NEW T, NEW ts \in Seq(T), NEW S
  PROVE  /\ Erase(ts, S) \in Seq(T)
         /\ \A t : Contains(Erase(ts, S), t) <=> t \notin S /\ Contains(ts, t)
         /\ \A i, j \in 1 .. Len(Erase(ts, S)) : i < j =>
              \E a, b \in 1 .. Len(ts) :
                /\ a < b
                /\ ts[a] = Erase(ts, S)[i]
                /\ ts[b] = Erase(ts, S)[j]
<1>1. Len(ts) \in Nat
  OBVIOUS
<1>2. PICK g : /\ \A n \in 0 .. Len(ts) : g[n] = LeftOf(g, n, ts, S)
               /\ Erase(ts, S) = g[Len(ts)]
  BY <1>1, EraseIsLeft, Zenon
<1> DEFINE L == Len(ts)
           In(n, t) == \E i \in 1 .. Len(g[n]) : g[n][i] = t
           From(n, t) == t \notin S /\ \E i \in 1 .. n : ts[i] = t
           Order(q, n) == \A i, j \in 1 .. Len(q) : i < j =>
                            \E a, b \in 1 .. n :
                              a < b /\ ts[a] = q[i] /\ ts[b] = q[j]
           Good(n) == /\ g[n] \in Seq(T)
                      /\ \A t : In(n, t) <=> From(n, t)
                      /\ Order(g[n], n)
           Bad == {n \in 0 .. L : ~Good(n)}
<1>3. g[0] = <<>>
  BY <1>1, <1>2 DEF LeftOf
<1>4. Good(0)
  <2>1. g[0] \in Seq(T)
    BY <1>3, EmptySeq
  <2>2. Len(g[0]) = 0
    BY <1>3, EmptySeq
  <2>3. 1 .. Len(g[0]) = {} /\ 1 .. 0 = {}
    BY <2>2
  <2>4. \A t : In(0, t) <=> From(0, t)
    BY <2>3, Zenon
  <2>5. Order(g[0], 0)
    BY <2>3, Zenon
  <2> QED
    BY <2>1, <2>4, <2>5, Zenon
<1>5. ASSUME NEW n \in 1 .. L, Good(n - 1) PROVE Good(n)
  <2>1. n \in 0 .. L /\ n # 0 /\ ts[n] \in T
    BY <1>1
  <2> DEFINE h == g[n - 1]
             x == ts[n]
  <2>2. h \in Seq(T)
    BY <1>5
  <2>3. g[n] = IF x \in S THEN h ELSE Append(h, x)
    BY <1>2, <2>1 DEF LeftOf
  <2>4. \A t : (\E i \in 1 .. Len(h) : h[i] = t) <=> From(n - 1, t)
    BY <1>5, Zenon
  <2>5. Order(h, n - 1)
    BY <1>5, Zenon
  <2>6. 1 .. n - 1 \subseteq 1 .. n /\ n \in 1 .. n
        /\ (\A i \in 1 .. n : i \in 1 .. n - 1 \/ i = n)
        /\ \A a \in 1 .. n - 1 : a < n
    BY <1>1
  <2>7. \A t : (\E i \in 1 .. n : ts[i] = t) <=> (\E i \in 1 .. n - 1 : ts[i] = t) \/ t = x
    BY <2>6, Zenon
  <2> HIDE DEF h, x
  <2>8. CASE x \in S
    <3>1. g[n] = h
      BY <2>3, <2>8
    <3>2. \A t : In(n, t) <=> From(n, t)
      BY <2>4, <2>7, <2>8, <3>1, Zenon
    <3>3. ASSUME NEW i \in 1 .. Len(h), NEW j \in 1 .. Len(h), i < j
          PROVE  \E a, b \in 1 .. n : a < b /\ ts[a] = h[i] /\ ts[b] = h[j]
      <4>1. PICK a \in 1 .. n - 1, b \in 1 .. n - 1 :
              a < b /\ ts[a] = h[i] /\ ts[b] = h[j]
        BY <2>5, <3>3
      <4> QED
        BY <2>6, <4>1
    <3>4. Order(h, n)
      BY <3>3, Zenon
    <3>5. Order(g[n], n)
      <4> HIDE DEF Order
      <4> QED
        BY <3>1, <3>4
    <3> QED
      BY <2>2, <3>1, <3>2, <3>5, Zenon
  <2>9. CASE x \notin S
    <3>1. x \in T
      BY <2>1 DEF x
    <3>2. g[n] = Append(h, x)
      BY <2>3, <2>9
    <3> DEFINE q == Append(h, x)
    <3>3. /\ q \in Seq(T)
          /\ Len(q) = Len(h) + 1
          /\ q[Len(h) + 1] = x
          /\ \A i \in 1 .. Len(h) : q[i] = h[i]
          /\ \A i \in 1 .. Len(q) : i \in 1 .. Len(h) \/ i = Len(h) + 1
      BY <2>2, <3>1, AppendHolds, Zenon
    <3>4. g[n] = q
      BY <3>2
    <3> HIDE DEF q
    <3>5. /\ Len(h) + 1 \in 1 .. Len(q) /\ 1 .. Len(h) \subseteq 1 .. Len(q)
          /\ \A j \in 1 .. Len(q) : ~(Len(h) + 1 < j)
      BY <2>2, <3>3
    <3>6. \A t : (\E i \in 1 .. Len(q) : q[i] = t) <=> (\E i \in 1 .. Len(h) : h[i] = t) \/ t = x
      BY <3>3, <3>5, Zenon
    <3>7. \A t : In(n, t) <=> From(n, t)
      BY <2>4, <2>7, <2>9, <3>4, <3>6, Zenon
    <3>8. ASSUME NEW i \in 1 .. Len(q), NEW j \in 1 .. Len(q), i < j
          PROVE  \E a, b \in 1 .. n : a < b /\ ts[a] = q[i] /\ ts[b] = q[j]
      <4>1. i \in 1 .. Len(h)
        BY <3>3, <3>5, <3>8, Zenon
      <4>2. CASE j \in 1 .. Len(h)
        <5>1. PICK a \in 1 .. n - 1, b \in 1 .. n - 1 :
                a < b /\ ts[a] = h[i] /\ ts[b] = h[j]
          BY <2>5, <3>8, <4>1, <4>2
        <5> QED
          BY <2>6, <3>3, <4>1, <4>2, <5>1
      <4>3. CASE j = Len(h) + 1
        <5>1. q[j] = ts[n]
          BY <3>3, <4>3 DEF x
        <5>2. PICK a \in 1 .. n - 1 : ts[a] = h[i]
          BY <2>4, <4>1, Zenon
        <5> QED
          BY <2>6, <3>3, <4>1, <5>1, <5>2, Zenon
      <4> QED
        BY <3>3, <4>2, <4>3, Zenon
    <3>9. Order(q, n)
      BY <3>8, Zenon
    <3>10. Order(g[n], n)
      <4> HIDE DEF Order
      <4> QED
        BY <3>4, <3>9
    <3> QED
      BY <3>3, <3>4, <3>7, <3>10, Zenon
  <2> QED
    BY <2>8, <2>9
<1>6. Bad = {}
  <2> SUFFICES ASSUME Bad # {} PROVE FALSE
    OBVIOUS
  <2>1. PICK m \in Bad : \A y \in Bad : m <= y
    <3>1. Bad \subseteq Nat
      <4> HIDE DEF Good
      <4> QED
        OBVIOUS
    <3> HIDE DEF Bad
    <3> QED
      BY <3>1, MinOfNaturals
  <2> HIDE DEF Good
  <2>2. m \in 0 .. L /\ ~Good(m)
    BY Zenon
  <2>3. m # 0
    BY <1>4, <2>2
  <2>4. m \in 1 .. L /\ m - 1 \in 0 .. L /\ ~(m <= m - 1)
    BY <2>2, <2>3
  <2>5. m - 1 \notin Bad
    <3> HIDE DEF Bad
    <3> QED
      BY <2>1, <2>4
  <2>6. Good(m - 1)
    BY <2>4, <2>5, Zenon
  <2> QED
    BY <1>5, <2>2, <2>4, <2>6, Zenon
<1>7. L \in 0 .. L
  BY <1>1
<1>8. Good(L)
  <2> HIDE DEF Good
  <2> QED
    BY <1>6, <1>7, Zenon
<1> DEFINE e == Erase(ts, S)
<1>9. e = g[L]
  BY <1>2
<1>10. e \in Seq(T)
  BY <1>8, <1>9
<1>11. \A t : (\E i \in 1 .. Len(e) : e[i] = t) <=> t \notin S /\ \E i \in 1 .. L : ts[i] = t
  BY <1>8, <1>9, Zenon
<1>12. Order(e, L)
  BY <1>8, <1>9
<1>13. \A t : Contains(e, t) <=> t \notin S /\ Contains(ts, t)
  BY <1>11, Zenon DEF Contains
<1> QED
  BY <1>10, <1>12, <1>13, ZenonT(40)

-----------------------------------------------------------------------------
(* The queue of the URLDownloader.                                         *)

(* No deletion comes after a download of its URL.                          *)
Orderly(q) ==
  \A u \in Urls : \A i, j \in 1 .. Len(q) :
    i < j /\ q[i] = DOWNLOAD(u) => q[j] # DELETE(u)

(* The tasks of a URL.                                                     *)
LEMMA TasksDiffer ==
  ASSUME NEW u \in Urls
  PROVE  /\ DELETE(u) \in Task /\ DOWNLOAD(u) \in Task
         /\ \A v : DELETE(u) # DOWNLOAD(v)
         /\ \A v : (DELETE(u) = DELETE(v) => u = v) /\ (DOWNLOAD(u) = DOWNLOAD(v) => u = v)
BY DEF DELETE, DOWNLOAD, Task

(* Every task is one of them.                                              *)
LEMMA TaskIsOfUrl ==
  ASSUME NEW t \in Task
  PROVE  \E u \in Urls : t = DELETE(u) \/ t = DOWNLOAD(u)
<1>1. t.url \in Urls /\ t.type \in {"DELETE", "DOWNLOAD"}
  BY DEF Task
<1>2. t = DELETE(t.url) \/ t = DOWNLOAD(t.url)
  BY <1>1 DEF Task, DELETE, DOWNLOAD
<1> QED
  BY <1>1, <1>2

(* The jobs that the downloader posts.                                     *)
LEMMA PostedIsAJob ==
  ASSUME NEW u \in Urls,
         NEW step \in {"delete", "cleanup", "exists", "save", "distill", "fetch"}
  PROVE  /\ Posted(step, u) \in Job
         /\ Posted(step, u) # NoJob
         /\ Posted(step, u).step = step
         /\ Posted(step, u).url = u
         /\ Posted(step, u).done = FALSE
<1>1. Posted(step, u) \in Job
  BY SMT DEF Posted, Job, JobsOf
<1>2. /\ Posted(step, u).step = step
      /\ Posted(step, u).url = u
      /\ Posted(step, u).done = FALSE
  BY DEF Posted
<1>3. Posted(step, u) # NoJob
  BY <1>2 DEF NoJob
<1> QED
  BY <1>1, <1>2, <1>3, Zenon

(* The jobs by their step.                                                 *)
LEMMA JobCases ==
  ASSUME NEW j \in Job
  PROVE  \/ j \in JobsOf({"delete", "cleanup"}, BOOLEAN, {""})
         \/ j \in JobsOf({"exists", "save", "distill", "fetch"}, {FALSE}, {""})
         \/ j \in JobsOf({"exists"}, {TRUE}, {"path", "missing"})
         \/ j \in JobsOf({"save"}, {TRUE}, {"DOWNLOAD_SUCCESS", "ERROR"})
BY Zenon DEF Job

(* The steps of a job, and what the reply to it may carry.                 *)
JobSteps == {"delete", "cleanup", "exists", "save", "distill", "fetch"}
JobResults == {"", "path", "missing", "DOWNLOAD_SUCCESS", "ERROR"}

(* A wider kind of jobs, and the fields of its records.                    *)
LEMMA JobsOfWider ==
  ASSUME NEW steps, NEW done, NEW results,
         NEW S, NEW D, NEW R, steps \subseteq S, done \subseteq D, results \subseteq R
  PROVE  \A j \in JobsOf(steps, done, results) :
           /\ j \in JobsOf(S, D, R)
           /\ j.url \in Urls /\ j.done \in done /\ j.step \in steps
BY DEF JobsOf

(* The fields of a job.                                                    *)
LEMMA JobFields ==
  ASSUME NEW j \in Job
  PROVE  /\ j \in JobsOf(JobSteps, BOOLEAN, JobResults)
         /\ j.url \in Urls
         /\ j.done \in BOOLEAN
         /\ j.step \in JobSteps
         /\ j.step \in {"delete", "cleanup"} => j \in JobsOf(JobSteps, BOOLEAN, {""})
         /\ j # NoJob
<1> DEFINE Fields == /\ j \in JobsOf(JobSteps, BOOLEAN, JobResults)
                     /\ j.url \in Urls
                     /\ j.done \in BOOLEAN
                     /\ j.step \in JobSteps
                     /\ j.step \in {"delete", "cleanup"} =>
                          j \in JobsOf(JobSteps, BOOLEAN, {""})
<1>1. ASSUME j \in JobsOf({"delete", "cleanup"}, BOOLEAN, {""})
      PROVE  Fields
  <2>1. /\ {"delete", "cleanup"} \subseteq JobSteps /\ {""} \subseteq JobResults
        /\ {""} \subseteq {""} /\ BOOLEAN \subseteq BOOLEAN
    BY Zenon DEF JobSteps, JobResults
  <2>2. /\ j \in JobsOf(JobSteps, BOOLEAN, JobResults)
        /\ j.url \in Urls /\ j.done \in BOOLEAN /\ j.step \in {"delete", "cleanup"}
    BY <1>1, <2>1, JobsOfWider, Zenon
  <2>3. j \in JobsOf(JobSteps, BOOLEAN, {""})
    BY <1>1, <2>1, JobsOfWider, Zenon
  <2> QED
    BY <2>1, <2>2, <2>3, Zenon
<1>2. ASSUME j \in JobsOf({"exists", "save", "distill", "fetch"}, {FALSE}, {""})
      PROVE  Fields
  <2>1. /\ {"exists", "save", "distill", "fetch"} \subseteq JobSteps
        /\ {""} \subseteq JobResults /\ {FALSE} \subseteq BOOLEAN
    BY Zenon DEF JobSteps, JobResults
  <2>2. /\ j \in JobsOf(JobSteps, BOOLEAN, JobResults)
        /\ j.url \in Urls /\ j.done \in {FALSE}
        /\ j.step \in {"exists", "save", "distill", "fetch"}
    <3> DEFINE S == {"exists", "save", "distill", "fetch"}
    <3>1. S \subseteq JobSteps /\ j \in JobsOf(S, {FALSE}, {""})
      BY <1>2, <2>1
    <3> HIDE DEF S
    <3>2. /\ j \in JobsOf(JobSteps, BOOLEAN, JobResults)
          /\ j.url \in Urls /\ j.done \in {FALSE} /\ j.step \in S
      BY <2>1, <3>1, JobsOfWider, Zenon
    <3> QED
      BY <3>2, Zenon DEF S
  <2>3. j.done \in BOOLEAN /\ j.step \in JobSteps
    BY <2>1, <2>2, Zenon
  <2>4. j.step \notin {"delete", "cleanup"}
    BY <2>2
  <2> QED
    BY <2>2, <2>3, <2>4, Zenon
<1>3. ASSUME j \in JobsOf({"exists"}, {TRUE}, {"path", "missing"})
      PROVE  Fields
  <2>1. /\ {"exists"} \subseteq JobSteps
        /\ {"path", "missing"} \subseteq JobResults /\ {TRUE} \subseteq BOOLEAN
    BY Zenon DEF JobSteps, JobResults
  <2>2. /\ j \in JobsOf(JobSteps, BOOLEAN, JobResults)
        /\ j.url \in Urls /\ j.done \in {TRUE} /\ j.step \in {"exists"}
    BY <1>3, <2>1, JobsOfWider, Zenon
  <2>3. j.step = "exists" /\ j.done \in BOOLEAN /\ j.step \in JobSteps
    BY <2>1, <2>2, Zenon
  <2> QED
    BY <2>2, <2>3
<1>4. ASSUME j \in JobsOf({"save"}, {TRUE}, {"DOWNLOAD_SUCCESS", "ERROR"})
      PROVE  Fields
  <2>1. /\ {"save"} \subseteq JobSteps
        /\ {"DOWNLOAD_SUCCESS", "ERROR"} \subseteq JobResults /\ {TRUE} \subseteq BOOLEAN
    BY Zenon DEF JobSteps, JobResults
  <2>2. /\ j \in JobsOf(JobSteps, BOOLEAN, JobResults)
        /\ j.url \in Urls /\ j.done \in {TRUE} /\ j.step \in {"save"}
    BY <1>4, <2>1, JobsOfWider, Zenon
  <2>3. j.step = "save" /\ j.done \in BOOLEAN /\ j.step \in JobSteps
    BY <2>1, <2>2, Zenon
  <2> QED
    BY <2>2, <2>3
<1>5. Fields
  BY <1>1, <1>2, <1>3, <1>4, JobCases, Zenon
<1>6. j # NoJob
  <2>1. NoJob.step = "none"
    BY DEF NoJob
  <2> QED
    BY <1>5, <2>1 DEF JobSteps
<1> QED
  BY <1>5, <1>6, Zenon

(* The fields of a job that is done.                                       *)
LEMMA JobEdits ==
  ASSUME NEW steps, NEW done, NEW results
  PROVE  \A j \in JobsOf(steps, done, results) :
           /\ \A S, D : \A d \in D : j.step \in S =>
                [j EXCEPT !.done = d] \in JobsOf(S, D, results)
           /\ \A S, D, E : \A d \in D, r \in E : j.step \in S =>
                [j EXCEPT !.done = d, !.result = r] \in JobsOf(S, D, E)
           /\ [j EXCEPT !.done = TRUE].step = j.step
           /\ [j EXCEPT !.done = TRUE].url = j.url
           /\ \A r : /\ [j EXCEPT !.done = TRUE, !.result = r].step = j.step
                     /\ [j EXCEPT !.done = TRUE, !.result = r].url = j.url
                     /\ [j EXCEPT !.done = TRUE, !.result = r].result = r
BY DEF JobsOf

(* A file operation that is done is a job.                                 *)
LEMMA DoneJobs ==
  ASSUME NEW j \in Job
  PROVE  /\ j.step \in {"delete", "cleanup"} => [j EXCEPT !.done = TRUE] \in Job
         /\ j.step = "exists" => \A r \in {"path", "missing"} :
              [j EXCEPT !.done = TRUE, !.result = r] \in Job
         /\ j.step = "save" => \A r \in {"DOWNLOAD_SUCCESS", "ERROR"} :
              [j EXCEPT !.done = TRUE, !.result = r] \in Job
         /\ /\ [j EXCEPT !.done = TRUE].step = j.step
            /\ [j EXCEPT !.done = TRUE].url = j.url
         /\ \A r : /\ [j EXCEPT !.done = TRUE, !.result = r].step = j.step
                   /\ [j EXCEPT !.done = TRUE, !.result = r].url = j.url
                   /\ [j EXCEPT !.done = TRUE, !.result = r].result = r
<1>1. /\ j \in JobsOf(JobSteps, BOOLEAN, JobResults)
      /\ j.step \in {"delete", "cleanup"} => j \in JobsOf(JobSteps, BOOLEAN, {""})
  BY JobFields, Zenon
<1>2. /\ "exists" \in {"exists"} /\ "save" \in {"save"} /\ TRUE \in {TRUE}
      /\ TRUE \in BOOLEAN
  BY Zenon
<1>3. ASSUME j.step \in {"delete", "cleanup"} PROVE [j EXCEPT !.done = TRUE] \in Job
  <2>1. [j EXCEPT !.done = TRUE] \in JobsOf({"delete", "cleanup"}, BOOLEAN, {""})
    BY <1>1, <1>2, <1>3, JobEdits, Zenon
  <2> QED
    BY <2>1, Zenon DEF Job
<1>4. ASSUME j.step = "exists", NEW r \in {"path", "missing"}
      PROVE  [j EXCEPT !.done = TRUE, !.result = r] \in Job
  <2>1. [j EXCEPT !.done = TRUE, !.result = r]
          \in JobsOf({"exists"}, {TRUE}, {"path", "missing"})
    BY <1>1, <1>2, <1>4, JobEdits, Zenon
  <2> QED
    BY <2>1, Zenon DEF Job
<1>5. ASSUME j.step = "save", NEW r \in {"DOWNLOAD_SUCCESS", "ERROR"}
      PROVE  [j EXCEPT !.done = TRUE, !.result = r] \in Job
  <2>1. [j EXCEPT !.done = TRUE, !.result = r]
          \in JobsOf({"save"}, {TRUE}, {"DOWNLOAD_SUCCESS", "ERROR"})
    BY <1>1, <1>2, <1>5, JobEdits, Zenon
  <2> QED
    BY <2>1, Zenon DEF Job
<1>6. /\ [j EXCEPT !.done = TRUE].step = j.step
      /\ [j EXCEPT !.done = TRUE].url = j.url
      /\ \A r : /\ [j EXCEPT !.done = TRUE, !.result = r].step = j.step
                /\ [j EXCEPT !.done = TRUE, !.result = r].url = j.url
                /\ [j EXCEPT !.done = TRUE, !.result = r].result = r
  BY <1>1 DEF JobsOf
<1> QED
  BY <1>3, <1>4, <1>5, <1>6, Zenon

(* The queue keeps its order when its first task is taken, which was queued *)
(* like those that stay.                                                    *)
LEMMA TakeFirst ==
  ASSUME NEW q \in Seq(Task), q # <<>>
  PROVE  /\ Head(q) \in Task
         /\ Tail(q) \in Seq(Task)
         /\ \A t : Contains(q, t) <=> t = Head(q) \/ Contains(Tail(q), t)
         /\ Orderly(q) => Orderly(Tail(q))
<1>1. /\ Head(q) \in Task /\ Tail(q) \in Seq(Task)
      /\ Len(Tail(q)) = Len(q) - 1 /\ Len(q) \in Nat \ {0} /\ Head(q) = q[1]
      /\ \A i \in 1 .. Len(Tail(q)) : Tail(q)[i] = q[i + 1]
  OBVIOUS
<1> DEFINE r == Tail(q)
<1>2. /\ \A i \in 1 .. Len(r) : i + 1 \in 1 .. Len(q) /\ r[i] = q[i + 1]
      /\ \A i \in 1 .. Len(q) : i = 1 \/ (i - 1 \in 1 .. Len(r) /\ r[i - 1] = q[i])
      /\ 1 \in 1 .. Len(q)
      /\ \A i, j \in 1 .. Len(r) : i < j => i + 1 < j + 1
  <2> HIDE DEF r
  <2>1. /\ Len(r) = Len(q) - 1 /\ Len(q) \in Nat \ {0}
        /\ \A i \in 1 .. Len(r) : r[i] = q[i + 1]
    BY <1>1 DEF r
  <2> QED
    BY <2>1
<1> HIDE DEF r
<1>3. \A t : Contains(q, t) <=> t = Head(q) \/ Contains(r, t)
  BY <1>1, <1>2, ZenonT(40) DEF Contains
<1>4. ASSUME Orderly(q) PROVE Orderly(r)
  <2> SUFFICES ASSUME NEW u \in Urls, NEW i \in 1 .. Len(r), NEW j \in 1 .. Len(r),
                      i < j, r[i] = DOWNLOAD(u)
               PROVE  r[j] # DELETE(u)
    BY DEF Orderly
  <2>1. /\ i + 1 \in 1 .. Len(q) /\ j + 1 \in 1 .. Len(q) /\ i + 1 < j + 1
        /\ q[i + 1] = DOWNLOAD(u) /\ q[j + 1] = r[j]
    BY <1>2, Zenon
  <2> QED
    BY <1>4, <2>1, Zenon DEF Orderly
<1> QED
  BY <1>1, <1>3, <1>4, Zenon DEF r

(* A task is queued last: any download, and a deletion whose URL has no     *)
(* download in the queue.                                                   *)
LEMMA QueueLast ==
  ASSUME NEW q \in Seq(Task), NEW t \in Task
  PROVE  /\ Append(q, t) \in Seq(Task)
         /\ \A x : Contains(Append(q, t), x) <=> x = t \/ Contains(q, x)
         /\ (/\ Orderly(q)
             /\ \A u \in Urls : t = DELETE(u) => ~Contains(q, DOWNLOAD(u)))
              => Orderly(Append(q, t))
<1> DEFINE r == Append(q, t)
<1>1. /\ r \in Seq(Task)
      /\ Len(r) = Len(q) + 1
      /\ r[Len(q) + 1] = t
      /\ \A i \in 1 .. Len(q) : r[i] = q[i]
      /\ \A i \in 1 .. Len(r) : i \in 1 .. Len(q) \/ i = Len(q) + 1
  BY AppendHolds, Zenon
<1> HIDE DEF r
<1>2. /\ Len(q) + 1 \in 1 .. Len(r) /\ 1 .. Len(q) \subseteq 1 .. Len(r)
      /\ \A j \in 1 .. Len(r) : ~(Len(q) + 1 < j)
  BY <1>1
<1>3. \A x : Contains(r, x) <=> x = t \/ Contains(q, x)
  BY <1>1, <1>2, Zenon DEF Contains
<1>4. ASSUME Orderly(q), \A u \in Urls : t = DELETE(u) => ~Contains(q, DOWNLOAD(u)),
             NEW u \in Urls, NEW i \in 1 .. Len(r), NEW j \in 1 .. Len(r),
             i < j, r[i] = DOWNLOAD(u)
      PROVE  r[j] # DELETE(u)
  <2>1. i \in 1 .. Len(q)
    BY <1>1, <1>2, <1>4, Zenon
  <2>2. CASE j \in 1 .. Len(q)
    BY <1>1, <1>4, <2>1, <2>2, Zenon DEF Orderly
  <2>3. CASE j = Len(q) + 1
    BY <1>1, <1>4, <2>1, <2>3, Zenon DEF Contains
  <2> QED
    BY <1>1, <2>2, <2>3, Zenon
<1>5. (/\ Orderly(q)
       /\ \A u \in Urls : t = DELETE(u) => ~Contains(q, DOWNLOAD(u))) => Orderly(r)
  BY <1>4, Zenon DEF Orderly
<1> QED
  BY <1>1, <1>3, <1>5, Zenon DEF r

(* What is left by Erase keeps its order, and nothing is left of nothing.  *)
LEMMA EraseKeepsOrder ==
  ASSUME NEW q \in Seq(Task), NEW S
  PROVE  /\ Erase(q, S) \in Seq(Task)
         /\ \A t : Contains(Erase(q, S), t) <=> t \notin S /\ Contains(q, t)
         /\ Orderly(q) => Orderly(Erase(q, S))
         /\ q = <<>> => Erase(q, S) = <<>>
<1>1. /\ Erase(q, S) \in Seq(Task)
      /\ \A t : Contains(Erase(q, S), t) <=> t \notin S /\ Contains(q, t)
      /\ \A i, j \in 1 .. Len(Erase(q, S)) : i < j =>
           \E a, b \in 1 .. Len(q) :
             /\ a < b
             /\ q[a] = Erase(q, S)[i]
             /\ q[b] = Erase(q, S)[j]
  BY EraseProperties, Zenon
<1> DEFINE e == Erase(q, S)
<1> HIDE DEF e
<1>2. Orderly(q) => Orderly(e)
  <2> SUFFICES ASSUME Orderly(q), NEW u \in Urls,
                      NEW i \in 1 .. Len(e), NEW j \in 1 .. Len(e),
                      i < j, e[i] = DOWNLOAD(u)
               PROVE  e[j] # DELETE(u)
    BY Zenon DEF Orderly
  <2>1. PICK a \in 1 .. Len(q), b \in 1 .. Len(q) : a < b /\ q[a] = e[i] /\ q[b] = e[j]
    BY <1>1 DEF e
  <2> QED
    BY <2>1, Zenon DEF Orderly
<1>3. ASSUME q = <<>> PROVE e = <<>>
  <2>1. Len(q) = 0
    BY <1>3, EmptySeq
  <2>2. \A t : ~Contains(q, t)
    BY <2>1 DEF Contains
  <2>3. e \in Seq(Task) /\ \A t : ~Contains(e, t)
    BY <1>1, <2>2, Zenon DEF e
  <2>4. Len(e) \in Nat
    BY <2>3
  <2>5. Len(e) = 0
    <3> SUFFICES ASSUME Len(e) # 0 PROVE FALSE
      OBVIOUS
    <3>1. 1 \in 1 .. Len(e)
      BY <2>4
    <3> QED
      BY <2>3, <3>1, Zenon DEF Contains
  <2> QED
    BY <2>3, <2>5, EmptySeq
<1> QED
  BY <1>1, <1>2, <1>3, Zenon DEF e

(* HandleNextTask with the queue q: the tasks that are left, and the first  *)
(* job of the task that it takes.                                           *)
LEMMA NextTask ==
  ASSUME NEW q \in Seq(Task), Orderly(q), NEW busy \in BOOLEAN,
         busy => job \in Job, HandleNextTask(q, busy)
  PROVE  /\ tasks' \in Seq(Task) /\ working' \in BOOLEAN /\ job' \in Job \cup {NoJob}
         /\ Orderly(tasks')
         /\ working' <=> job' # NoJob
         /\ ~working' => tasks' = <<>>
         /\ \A t : Contains(tasks', t) => Contains(q, t)
         /\ \A u \in Urls : Contains(q, DELETE(u)) =>
              \/ Contains(tasks', DELETE(u))
              \/ ~busy /\ job' # NoJob /\ job'.step = "delete" /\ job'.url = u
         /\ busy => job' = job /\ tasks' = q
         /\ ~busy /\ job' # NoJob =>
              /\ ~job'.done
              /\ \/ job'.step = "delete"
                 \/ job'.step = "exists" /\ Contains(q, DOWNLOAD(job'.url))
<1>1. CASE busy
  <2>1. tasks' = q /\ working' = busy /\ job' = job
    BY <1>1, Zenon DEF HandleNextTask
  <2>2. job' \in Job /\ job' # NoJob
    BY <1>1, <2>1, JobFields, Zenon
  <2>3. working' \in BOOLEAN /\ working'
    BY <1>1, <2>1, Zenon
  <2> QED
    BY <1>1, <2>1, <2>2, <2>3, Zenon
<1>2. CASE ~busy /\ q = <<>>
  <2>1. tasks' = q /\ working' = busy /\ job' = NoJob
    BY <1>2, Zenon DEF HandleNextTask
  <2>2. \A t : ~Contains(q, t)
    <3>1. Len(q) = 0
      BY <1>2, EmptySeq
    <3> QED
      BY <3>1 DEF Contains
  <2>3. working' \in BOOLEAN /\ ~working'
    BY <1>2, <2>1, Zenon
  <2> QED
    BY <1>2, <2>1, <2>2, <2>3, Zenon
<1>3. CASE ~busy /\ q # <<>>
  <2>1. working' = TRUE /\ tasks' = Tail(q) /\ job' = FirstJob(Head(q))
    BY <1>3, Zenon DEF HandleNextTask
  <2>2. /\ Head(q) \in Task
        /\ Tail(q) \in Seq(Task)
        /\ \A t : Contains(q, t) <=> t = Head(q) \/ Contains(Tail(q), t)
        /\ Orderly(q) => Orderly(Tail(q))
    BY <1>3, TakeFirst, Zenon
  <2>3. PICK u \in Urls : Head(q) = DELETE(u) \/ Head(q) = DOWNLOAD(u)
    BY <2>2, TaskIsOfUrl, Zenon
  <2> DEFINE first == IF Head(q) = DELETE(u) THEN "delete" ELSE "exists"
  <2>4. FirstJob(Head(q)) = Posted(first, u)
    <3>1. DELETE(u).type = "DELETE" /\ DELETE(u).url = u
          /\ DOWNLOAD(u).type = "DOWNLOAD" /\ DOWNLOAD(u).url = u
      BY DEF DELETE, DOWNLOAD
    <3> QED
      BY <2>3, <3>1 DEF FirstJob
  <2>5. /\ job' \in Job /\ job' # NoJob
        /\ job'.step = first /\ job'.url = u /\ job'.done = FALSE
    <3>1. first \in {"delete", "cleanup", "exists", "save", "distill", "fetch"}
      BY Zenon
    <3> HIDE DEF first
    <3>2. job' = Posted(first, u)
      BY <2>1, <2>4
    <3>3. /\ Posted(first, u) \in Job /\ Posted(first, u) # NoJob
          /\ Posted(first, u).step = first /\ Posted(first, u).url = u
          /\ Posted(first, u).done = FALSE
      BY <3>1, PostedIsAJob, ZenonT(40)
    <3> QED
      BY <3>2, <3>3, Zenon
  <2>6. \A v \in Urls : Contains(q, DELETE(v)) =>
          Contains(tasks', DELETE(v)) \/ (job'.step = "delete" /\ job'.url = v)
    <3> SUFFICES ASSUME NEW v \in Urls, Contains(q, DELETE(v)),
                        ~Contains(tasks', DELETE(v))
                 PROVE  job'.step = "delete" /\ job'.url = v
      OBVIOUS
    <3>1. DELETE(v) = Head(q)
      BY <2>1, <2>2, Zenon
    <3>2. u = v
      BY <2>3, <3>1, TasksDiffer, Zenon
    <3> QED
      BY <2>5, <3>1, <3>2, Zenon
  <2>7. job'.step = "delete" \/ (job'.step = "exists" /\ Contains(q, DOWNLOAD(job'.url)))
    BY <2>2, <2>3, <2>5, Zenon
  <2>8. working' \in BOOLEAN /\ working' /\ ~job'.done
    BY <2>1, <2>5, Zenon
  <2>9. tasks' \in Seq(Task) /\ Orderly(tasks') /\ \A t : Contains(tasks', t) => Contains(q, t)
    BY <2>1, <2>2, Zenon
  <2> QED
    BY <1>3, <2>5, <2>6, <2>7, <2>8, <2>9, Zenon
<1> QED
  BY <1>1, <1>2, <1>3, Zenon

-----------------------------------------------------------------------------
(* The inductive invariant of the ReadingListDownloadService.              *)

Queued(t) == Contains(tasks, t)
Present(u) == entries[u] # Absent
Processed(u) == entries[u].state = "PROCESSED"

(* What RemovedIsDeletedLast, NoOrphanFiles and NoDownloadOverPartialCopy   *)
(* say of a URL.                                                            *)
UrlOK(u) ==
  loaded =>
    /\ ~Present(u) =>
         /\ ~Queued(DOWNLOAD(u))
         /\ Handled(u) /\ job.step # "delete" => Queued(DELETE(u))
         /\ disk[u] # "none" =>
              Queued(DELETE(u)) \/ (Handled(u) /\ job.step = "delete") \/ CleanedUpAtStart(u)
    /\ disk[u] = "partial" =>
         \/ Queued(DELETE(u)) \/ CleanedUpAtStart(u)
         \/ Handled(u) /\ job.step # "exists"
         \/ Processed(u) /\ ~Queued(DOWNLOAD(u)) /\ ~Handled(u)

DownloadsIndInv ==
  /\ TypeOK
  /\ OneTaskAtATime /\ DeletionsComeFirst /\ FilesOfDoneJob
  /\ NothingBeforeLoad /\ FailuresAreCounted
  /\ \A u \in Urls : UrlOK(u)

(* It implies the invariants of the specification.                         *)
LEMMA DownloadsIndInvImplies ==
  ASSUME DownloadsIndInv
  PROVE  DownloadsInv /\ NoOrphanFiles
<1>1. /\ TypeOK /\ OneTaskAtATime /\ DeletionsComeFirst /\ FilesOfDoneJob
      /\ NothingBeforeLoad /\ FailuresAreCounted /\ \A u \in Urls : UrlOK(u)
  BY Zenon DEF DownloadsIndInv
<1>2. DistillerIsFree
  <2>1. distiller => job.step \in {"distill", "fetch", "save", "cleanup"}
    BY <1>1, Zenon DEF OneTaskAtATime
  <2> QED
    BY <2>1, Zenon DEF DistillerIsFree
<1>3. RemovedIsDeletedLast
  BY <1>1, Zenon DEF RemovedIsDeletedLast, UrlOK, Has, Present, Queued
<1>4. NoDownloadOverPartialCopy
  BY <1>1, Zenon DEF NoDownloadOverPartialCopy, UrlOK, Processed, Queued
<1>5. PartialCopyIsCleanedUp
  BY <1>4, Zenon DEF NoDownloadOverPartialCopy, PartialCopyIsCleanedUp
<1>6. NoOrphanFiles
  BY <1>1, Zenon DEF NoOrphanFiles, UrlOK, Has, Present, Queued, Deleting, Handled
<1> QED
  BY <1>1, <1>2, <1>3, <1>4, <1>5, <1>6, Zenon DEF DownloadsInv

(* A URL whose files, tasks and entry a step leaves alone.                 *)
LEMMA UrlStays ==
  ASSUME NEW u \in Urls, UrlOK(u),
         loaded' => loaded,
         Present(u)' <=> Present(u),
         Processed(u) => Processed(u)',
         disk'[u] # "none" => disk'[u] = disk[u],
         Queued(DELETE(u)) => Queued(DELETE(u))',
         Queued(DOWNLOAD(u))' => Queued(DOWNLOAD(u)),
         Handled(u)' <=> Handled(u),
         Handled(u) => \/ job'.step = job.step
                       \/ {job.step, job'.step} \cap {"delete", "exists"} = {},
         disk'[u] # "none" /\ CleanedUpAtStart(u) => CleanedUpAtStart(u)'
  PROVE  UrlOK(u)'
BY Zenon DEF UrlOK

(* A URL after HandleNextTask with the queue q.                            *)
LEMMA UrlAfterTask ==
  ASSUME NEW u \in Urls, NEW q, NEW busy \in BOOLEAN,
         \A t : Contains(tasks', t) => Contains(q, t),
         Contains(q, DELETE(u)) =>
              \/ Contains(tasks', DELETE(u))
              \/ ~busy /\ job' # NoJob /\ job'.step = "delete" /\ job'.url = u,
         busy => job' = job /\ tasks' = q,
         ~busy /\ job' # NoJob =>
              \/ job'.step = "delete"
              \/ job'.step = "exists" /\ Contains(q, DOWNLOAD(job'.url)),
         disk' = disk,
         ~Present(u)' =>
           /\ ~Contains(q, DOWNLOAD(u))
           /\ busy /\ Handled(u) /\ job.step # "delete" => Contains(q, DELETE(u))
           /\ disk[u] # "none" =>
                \/ Contains(q, DELETE(u)) \/ CleanedUpAtStart(u)'
                \/ busy /\ Handled(u) /\ job.step = "delete",
         disk[u] = "partial" =>
           \/ Contains(q, DELETE(u)) \/ CleanedUpAtStart(u)'
           \/ busy /\ Handled(u) /\ job.step # "exists"
           \/ Processed(u)' /\ ~Contains(q, DOWNLOAD(u)) /\ ~(busy /\ Handled(u))
  PROVE  UrlOK(u)'
<1>1. Queued(DELETE(u))' <=> Contains(tasks', DELETE(u))
  BY Zenon DEF Queued, Contains
<1>2. Queued(DOWNLOAD(u))' <=> Contains(tasks', DOWNLOAD(u))
  BY Zenon DEF Queued, Contains
<1>3. Handled(u)' <=> job' # NoJob /\ job'.url = u
  BY Zenon DEF Handled
<1>4. busy => (Handled(u)' <=> Handled(u))
  BY <1>3, Zenon DEF Handled
<1>5. disk'[u] = disk[u]
  BY Zenon
<1>6. "delete" # "exists"
  OBVIOUS
<1>7. CASE busy
  BY <1>1, <1>2, <1>4, <1>5, <1>7, Zenon DEF UrlOK
<1>8. CASE ~busy
  <2>1. Contains(q, DELETE(u)) => Queued(DELETE(u))' \/ (Handled(u)' /\ job'.step = "delete")
    BY <1>1, <1>3, <1>8, Zenon
  <2>2. Handled(u)' => job'.step = "delete" \/ (job'.step = "exists" /\ Contains(q, DOWNLOAD(u)))
    BY <1>3, <1>8, Zenon
  <2>3. Queued(DOWNLOAD(u))' => Contains(q, DOWNLOAD(u))
    BY <1>2, Zenon
  <2>4. ~Present(u)' => ~Queued(DOWNLOAD(u))' /\ (Handled(u)' => job'.step = "delete")
    BY <2>2, <2>3, Zenon
  <2>5. ~Present(u)' /\ disk'[u] # "none" =>
          \/ Queued(DELETE(u))' \/ (Handled(u)' /\ job'.step = "delete")
          \/ CleanedUpAtStart(u)'
    BY <1>5, <1>8, <2>1, Zenon
  <2>6. disk'[u] = "partial" =>
          \/ Queued(DELETE(u))' \/ CleanedUpAtStart(u)'
          \/ Handled(u)' /\ job'.step # "exists"
          \/ Processed(u)' /\ ~Queued(DOWNLOAD(u))' /\ ~Handled(u)'
    BY <1>5, <1>6, <1>8, <2>1, <2>2, <2>3, Zenon
  <2> QED
    BY <2>4, <2>5, <2>6, Zenon DEF UrlOK
<1> QED
  BY <1>7, <1>8, Zenon

(* The types of the service's own state.                                   *)
ServiceTypeOK ==
  /\ entries \in [Urls -> Entry \cup {Absent}]
  /\ loaded \in BOOLEAN
  /\ timers \in [Urls -> Nat]
  /\ url_to_download_cellular \in [Urls -> Nat]
  /\ url_to_download_wifi \in [Urls -> Nat]
  /\ had_connection \in BOOLEAN
  /\ connection \in Connection
  /\ notices \in Seq(Connection)
  /\ cleanup \in CleanUp \cup {NoCleanUp}
  /\ remover \in {"none", "waiting", "posted"}
  /\ userOps \in 0..MaxUserOps
  /\ connections \in 0..MaxConnections
  /\ restarts \in 0..MaxRestarts

(* The variables of the service.                                           *)
serviceVars == <<listVars, waitingVars, netVars, cleanup, remover, boundVars>>

(* Steps that leave the service alone keep what only concerns it.          *)
LEMMA ServiceStays ==
  ASSUME ServiceTypeOK, NothingBeforeLoad, FailuresAreCounted, loaded,
         UNCHANGED serviceVars
  PROVE  ServiceTypeOK' /\ NothingBeforeLoad' /\ FailuresAreCounted' /\ loaded'
<1> USE DEF serviceVars, listVars, waitingVars, netVars, boundVars
<1>1. ServiceTypeOK'
  BY Zenon DEF ServiceTypeOK
<1>2. loaded'
  BY Zenon
<1>3. NothingBeforeLoad'
  BY <1>2, Zenon DEF NothingBeforeLoad
<1>4. FailuresAreCounted'
  BY Zenon DEF FailuresAreCounted, Has
<1> QED
  BY <1>1, <1>2, <1>3, <1>4, Zenon

(* Steps that leave the downloader, the list and the clean-up alone.       *)
LEMMA DownloaderStays ==
  ASSUME DownloadsIndInv, UNCHANGED <<downloaderVars, listVars, cleanup>>,
         ServiceTypeOK', NothingBeforeLoad'
  PROVE  DownloadsIndInv'
<1>1. /\ tasks' = tasks /\ working' = working /\ distiller' = distiller
      /\ mime' = mime /\ job' = job /\ disk' = disk
      /\ entries' = entries /\ loaded' = loaded /\ cleanup' = cleanup
  BY Zenon DEF downloaderVars, listVars
<1>2. DownloaderTypeOK'
  BY <1>1, Zenon DEF DownloadsIndInv, TypeOK, DownloaderTypeOK
<1>3. TypeOK'
  BY <1>2, Zenon DEF TypeOK, ServiceTypeOK
<1>4. OneTaskAtATime'
  <2>1. OneTaskAtATime
    BY Zenon DEF DownloadsIndInv
  <2>2. /\ working' <=> job' # NoJob
        /\ ~working' => tasks' = <<>>
    BY <1>1, <2>1, Zenon DEF OneTaskAtATime
  <2>3. distiller' => job'.step \in {"distill", "fetch", "save", "cleanup"}
    BY <1>1, <2>1, Zenon DEF OneTaskAtATime
  <2> QED
    BY <2>2, <2>3, Zenon DEF OneTaskAtATime
<1>5. DeletionsComeFirst'
  BY <1>1, Zenon DEF DownloadsIndInv, DeletionsComeFirst
<1>6. FilesOfDoneJob'
  BY <1>1, Zenon DEF DownloadsIndInv, FilesOfDoneJob
<1>7. FailuresAreCounted'
  BY <1>1, Zenon DEF DownloadsIndInv, FailuresAreCounted, Has
<1>8. ASSUME NEW u \in Urls PROVE UrlOK(u)'
  BY <1>1, Zenon DEF DownloadsIndInv, UrlOK, Present, Processed, Queued, Contains,
                     Handled, CleanedUpAtStart
<1> QED
  BY <1>3, <1>4, <1>5, <1>6, <1>7, <1>8, Zenon DEF DownloadsIndInv

(* Nothing is done for a URL before the list is loaded.                    *)
LEMMA WorksWhenLoaded ==
  ASSUME DownloadsIndInv
  PROVE  /\ job # NoJob => loaded /\ working /\ job \in Job
         /\ job = NoJob => ~working /\ tasks = <<>>
         /\ tasks # <<>> => loaded /\ job # NoJob
         /\ cleanup # NoCleanUp => loaded
<1>1. OneTaskAtATime /\ NothingBeforeLoad /\ job \in Job \cup {NoJob}
  BY Zenon DEF DownloadsIndInv, TypeOK, DownloaderTypeOK
<1> QED
  BY <1>1, Zenon DEF OneTaskAtATime, NothingBeforeLoad

(* A step of the job of the URL u.                                         *)
LEMMA JobStep ==
  ASSUME DownloadsIndInv, job # NoJob, NEW u \in Urls, u = job.url,
         job' \in Job, job'.url = u,
         UNCHANGED serviceVars, UNCHANGED <<tasks, working>>,
         distiller' \in BOOLEAN, mime' \in {"", "pdf", "other"},
         distiller' => job'.step \in {"distill", "fetch", "save", "cleanup"},
         disk' \in [Urls -> Files], \A v \in Urls : v # u => disk'[v] = disk[v],
         FilesOfDoneJob', UrlOK(u)'
  PROVE  DownloadsIndInv'
<1>1. /\ loaded /\ working /\ TypeOK /\ DownloaderTypeOK /\ ServiceTypeOK /\ NothingBeforeLoad
      /\ FailuresAreCounted /\ OneTaskAtATime /\ DeletionsComeFirst
      /\ \A v \in Urls : UrlOK(v)
  BY WorksWhenLoaded, Zenon DEF DownloadsIndInv, TypeOK, ServiceTypeOK
<1>2. ServiceTypeOK' /\ NothingBeforeLoad' /\ FailuresAreCounted' /\ loaded'
  BY <1>1, ServiceStays, Zenon
<1>3. tasks' = tasks /\ working' = working
  BY Zenon
<1>4. TypeOK'
  BY <1>1, <1>2, <1>3, Zenon DEF TypeOK, DownloaderTypeOK, ServiceTypeOK
<1>5. job' # NoJob
  <2>1. \A j \in Job : j # NoJob
    BY JobFields, Zenon
  <2> QED
    BY <2>1, Zenon
<1>6. OneTaskAtATime'
  <2>1. working'
    <3>1. working
      BY <1>1
    <3> QED
      BY <1>3, <3>1, Zenon
  <2> QED
    BY <1>5, <2>1, Zenon DEF OneTaskAtATime
<1>7. DeletionsComeFirst'
  BY <1>1, <1>3, Zenon DEF DeletionsComeFirst
<1>8. ASSUME NEW v \in Urls, v # u PROVE UrlOK(v)'
  <2>1. entries' = entries /\ cleanup' = cleanup
    BY Zenon DEF serviceVars, listVars
  <2>2. Present(v)' <=> Present(v)
    BY <2>1, Zenon DEF Present
  <2>3. Processed(v)' <=> Processed(v)
    BY <2>1, Zenon DEF Processed
  <2>4. \A t : Queued(t)' <=> Queued(t)
    BY <1>3, Zenon DEF Queued, Contains
  <2>5. ~Handled(v)' /\ ~Handled(v)
    BY <1>8, Zenon DEF Handled
  <2>6. CleanedUpAtStart(v)' <=> CleanedUpAtStart(v)
    BY <2>1, Zenon DEF CleanedUpAtStart
  <2> QED
    BY <1>1, <1>8, <2>2, <2>3, <2>4, <2>5, <2>6, UrlStays, Zenon
<1> QED
  BY <1>2, <1>4, <1>6, <1>7, <1>8, Zenon DEF DownloadsIndInv

(* A step that ends in HandleNextTask with the queue q.                    *)
LEMMA QueueStep ==
  ASSUME DownloadsIndInv, NEW q \in Seq(Task), Orderly(q), NEW busy \in BOOLEAN,
         busy => working, HandleNextTask(q, busy),
         distiller' \in BOOLEAN, distiller' => busy /\ distiller,
         mime' = mime, disk' = disk, loaded',
         ServiceTypeOK', FailuresAreCounted',
         \A u \in Urls :
           /\ ~Present(u)' =>
                /\ ~Contains(q, DOWNLOAD(u))
                /\ busy /\ Handled(u) /\ job.step # "delete" => Contains(q, DELETE(u))
                /\ disk[u] # "none" =>
                     \/ Contains(q, DELETE(u)) \/ CleanedUpAtStart(u)'
                     \/ busy /\ Handled(u) /\ job.step = "delete"
           /\ disk[u] = "partial" =>
                \/ Contains(q, DELETE(u)) \/ CleanedUpAtStart(u)'
                \/ busy /\ Handled(u) /\ job.step # "exists"
                \/ Processed(u)' /\ ~Contains(q, DOWNLOAD(u)) /\ ~(busy /\ Handled(u))
  PROVE  DownloadsIndInv'
<1>1. /\ DownloaderTypeOK /\ OneTaskAtATime /\ FilesOfDoneJob
      /\ busy => job \in Job
  BY WorksWhenLoaded, Zenon DEF DownloadsIndInv, TypeOK, OneTaskAtATime
<1>2. /\ tasks' \in Seq(Task) /\ working' \in BOOLEAN /\ job' \in Job \cup {NoJob}
      /\ Orderly(tasks')
      /\ working' <=> job' # NoJob
      /\ ~working' => tasks' = <<>>
      /\ \A t : Contains(tasks', t) => Contains(q, t)
      /\ \A u \in Urls : Contains(q, DELETE(u)) =>
           \/ Contains(tasks', DELETE(u))
           \/ ~busy /\ job' # NoJob /\ job'.step = "delete" /\ job'.url = u
      /\ busy => job' = job /\ tasks' = q
      /\ ~busy /\ job' # NoJob =>
           /\ ~job'.done
           /\ \/ job'.step = "delete"
              \/ job'.step = "exists" /\ Contains(q, DOWNLOAD(job'.url))
  BY <1>1, NextTask, Zenon
<1>3. TypeOK'
  BY <1>1, <1>2, Zenon DEF TypeOK, DownloaderTypeOK, ServiceTypeOK
<1>4. OneTaskAtATime'
  <2>1. distiller => job.step \in {"distill", "fetch", "save", "cleanup"}
    BY <1>1, Zenon DEF OneTaskAtATime
  <2>2. distiller' => job' = job
    BY <1>2, Zenon
  <2>3. distiller' => job'.step \in {"distill", "fetch", "save", "cleanup"}
    BY <2>1, <2>2
  <2> QED
    BY <1>2, <2>3, Zenon DEF OneTaskAtATime
<1>5. DeletionsComeFirst'
  BY <1>2, Zenon DEF Orderly, DeletionsComeFirst
<1>6. FilesOfDoneJob'
  BY <1>1, <1>2, Zenon DEF FilesOfDoneJob
<1>7. NothingBeforeLoad'
  BY Zenon DEF NothingBeforeLoad
<1>8. ASSUME NEW u \in Urls PROVE UrlOK(u)'
  BY <1>2, UrlAfterTask, Zenon
<1> QED
  BY <1>3, <1>4, <1>5, <1>6, <1>7, <1>8, Zenon DEF DownloadsIndInv

-----------------------------------------------------------------------------
(* The steps of the downloader.                                            *)

(* What stays of a URL when the service and the queue do not change.       *)
LEMMA UrlOfJob ==
  ASSUME NEW u \in Urls, UNCHANGED serviceVars, UNCHANGED tasks
  PROVE  /\ Present(u)' <=> Present(u)
         /\ Processed(u)' <=> Processed(u)
         /\ \A t : Queued(t)' <=> Queued(t)
         /\ CleanedUpAtStart(u)' <=> CleanedUpAtStart(u)
         /\ loaded' = loaded
<1>1. entries' = entries /\ cleanup' = cleanup /\ loaded' = loaded
  BY Zenon DEF serviceVars, listVars
<1>2. Present(u)' <=> Present(u)
  BY <1>1, Zenon DEF Present
<1>3. Processed(u)' <=> Processed(u)
  BY <1>1, Zenon DEF Processed
<1>4. \A t : Queued(t)' <=> Queued(t)
  BY Zenon DEF Queued, Contains
<1>5. CleanedUpAtStart(u)' <=> CleanedUpAtStart(u)
  BY <1>1, Zenon DEF CleanedUpAtStart
<1> QED
  BY <1>1, <1>2, <1>3, <1>4, <1>5, Zenon

(* The parts of the invariant that the steps of a job start from.          *)
LEMMA JobFacts ==
  ASSUME DownloadsIndInv, job # NoJob
  PROVE  /\ job \in Job /\ loaded /\ DownloaderTypeOK /\ FilesOfDoneJob
         /\ job.url \in Urls /\ job.step \in JobSteps /\ job.done \in BOOLEAN
         /\ disk \in [Urls -> Files] /\ distiller \in BOOLEAN
         /\ mime \in {"", "pdf", "other"}
         /\ distiller => job.step \in {"distill", "fetch", "save", "cleanup"}
         /\ \A u \in Urls : UrlOK(u)
<1>1. /\ job \in Job /\ loaded /\ DownloaderTypeOK /\ FilesOfDoneJob
      /\ \A u \in Urls : UrlOK(u)
      /\ OneTaskAtATime
  BY WorksWhenLoaded, Zenon DEF DownloadsIndInv, TypeOK
<1>2. job.url \in Urls /\ job.step \in JobSteps /\ job.done \in BOOLEAN
  BY <1>1, JobFields, Zenon
<1> QED
  BY <1>1, <1>2, Zenon DEF DownloaderTypeOK, OneTaskAtATime

(* The files are deleted.                                                  *)
LEMMA RunDeleteFileStep ==
  ASSUME DownloadsIndInv, RunDeleteFile, UNCHANGED serviceVars
  PROVE  DownloadsIndInv'
<1>1. /\ job.step \in {"delete", "cleanup"}
      /\ disk' = [disk EXCEPT ![job.url] = "none"]
      /\ job' = [job EXCEPT !.done = TRUE]
      /\ UNCHANGED <<tasks, working, distiller, mime>>
  BY DEF RunDeleteFile, Doing
<1>2. job # NoJob
  <2>1. NoJob.step = "none"
    BY DEF NoJob
  <2> QED
    BY <1>1, <2>1
<1>3. /\ job \in Job /\ loaded
      /\ job.url \in Urls /\ disk \in [Urls -> Files] /\ distiller \in BOOLEAN
      /\ mime \in {"", "pdf", "other"}
      /\ distiller => job.step \in {"distill", "fetch", "save", "cleanup"}
      /\ \A u \in Urls : UrlOK(u)
  BY <1>2, JobFacts, Zenon
<1>4. PICK u \in Urls : u = job.url
  BY <1>3
<1>5. job' \in Job /\ job'.step = job.step /\ job'.url = u
  BY <1>1, <1>3, <1>4, DoneJobs, Zenon
<1>6. disk' \in [Urls -> Files] /\ disk'[u] = "none" /\ \A v \in Urls : v # u => disk'[v] = disk[v]
  BY <1>1, <1>3, <1>4 DEF Files
<1>7. FilesOfDoneJob'
  BY <1>1, <1>5, <1>6 DEF FilesOfDoneJob
<1>8. /\ distiller' \in BOOLEAN /\ mime' \in {"", "pdf", "other"}
      /\ distiller' => job'.step \in {"distill", "fetch", "save", "cleanup"}
  BY <1>1, <1>3, <1>5, Zenon
<1>9. UrlOK(u)'
  <2>1. Handled(u) /\ Handled(u)'
    <3>1. job' # NoJob
      BY <1>5, JobFields, Zenon
    <3> QED
      BY <1>2, <1>4, <1>5, <3>1, Zenon DEF Handled
  <2>2. "none" # "partial"
    OBVIOUS
  <2> QED
    BY <1>1, <1>3, <1>5, <1>6, <2>1, <2>2, UrlOfJob, Zenon DEF UrlOK
<1> QED
  BY <1>1, <1>2, <1>4, <1>5, <1>6, <1>7, <1>8, <1>9, JobStep, Zenon

(* The offline directory is looked for.                                    *)
LEMMA RunPathExistsStep ==
  ASSUME DownloadsIndInv, RunPathExists, UNCHANGED serviceVars
  PROVE  DownloadsIndInv'
<1> DEFINE r == IF disk[job.url] = "none" THEN "missing" ELSE "path"
<1>1. /\ job.step = "exists" /\ r \in {"path", "missing"}
      /\ job' = [job EXCEPT !.done = TRUE, !.result = r]
      /\ UNCHANGED <<tasks, working, distiller, mime, disk>>
  BY DEF RunPathExists, Doing
<1> HIDE DEF r
<1>2. job # NoJob
  <2>1. NoJob.step = "none"
    BY DEF NoJob
  <2> QED
    BY <1>1, <2>1
<1>3. /\ job \in Job /\ loaded
      /\ job.url \in Urls /\ disk \in [Urls -> Files] /\ distiller \in BOOLEAN
      /\ mime \in {"", "pdf", "other"}
      /\ distiller => job.step \in {"distill", "fetch", "save", "cleanup"}
      /\ \A u \in Urls : UrlOK(u)
  BY <1>2, JobFacts, Zenon
<1>4. PICK u \in Urls : u = job.url
  BY <1>3
<1>5. job' \in Job /\ job'.step = job.step /\ job'.url = u
  BY <1>1, <1>3, <1>4, DoneJobs, Zenon
<1>6. disk' \in [Urls -> Files] /\ \A v \in Urls : disk'[v] = disk[v]
  BY <1>1, <1>3, Zenon
<1>7. FilesOfDoneJob'
  BY <1>1, <1>5 DEF FilesOfDoneJob
<1>8. /\ distiller' \in BOOLEAN /\ mime' \in {"", "pdf", "other"}
      /\ distiller' => job'.step \in {"distill", "fetch", "save", "cleanup"}
  BY <1>1, <1>3, <1>5, Zenon
<1>9. UrlOK(u)'
  <2>1. Handled(u) /\ Handled(u)'
    <3>1. job' # NoJob
      BY <1>5, JobFields, Zenon
    <3> QED
      BY <1>2, <1>4, <1>5, <3>1, Zenon DEF Handled
  <2> QED
    BY <1>1, <1>3, <1>5, <1>6, <2>1, UrlOfJob, Zenon DEF UrlOK
<1> QED
  BY <1>1, <1>2, <1>4, <1>5, <1>6, <1>7, <1>8, <1>9, JobStep, Zenon

(* The page is saved, or part of it.                                       *)
LEMMA RunSaveStep ==
  ASSUME DownloadsIndInv, RunSave, UNCHANGED serviceVars
  PROVE  DownloadsIndInv'
<1>1. PICK f, r : /\ \/ f = disk[job.url] /\ r = "ERROR"
                     \/ f = "partial" /\ r = "ERROR"
                     \/ f = "page" /\ r = "DOWNLOAD_SUCCESS"
                  /\ job.step = "save"
                  /\ disk' = [disk EXCEPT ![job.url] = f]
                  /\ job' = [job EXCEPT !.done = TRUE, !.result = r]
                  /\ UNCHANGED <<tasks, working, distiller, mime>>
  <2>1. PICK outcome \in {<<disk[job.url], "ERROR">>, <<"partial", "ERROR">>,
                          <<"page", "DOWNLOAD_SUCCESS">>} :
          /\ disk' = [disk EXCEPT ![job.url] = outcome[1]]
          /\ job' = [job EXCEPT !.done = TRUE, !.result = outcome[2]]
    BY DEF RunSave
  <2>2. \/ outcome[1] = disk[job.url] /\ outcome[2] = "ERROR"
        \/ outcome[1] = "partial" /\ outcome[2] = "ERROR"
        \/ outcome[1] = "page" /\ outcome[2] = "DOWNLOAD_SUCCESS"
    OBVIOUS
  <2>3. job.step = "save" /\ UNCHANGED <<tasks, working, distiller, mime>>
    BY DEF RunSave, Doing
  <2> QED
    BY <2>1, <2>2, <2>3, Zenon
<1>2. job # NoJob
  <2>1. NoJob.step = "none"
    BY DEF NoJob
  <2> QED
    BY <1>1, <2>1
<1>3. /\ job \in Job /\ loaded
      /\ job.url \in Urls /\ disk \in [Urls -> Files] /\ distiller \in BOOLEAN
      /\ mime \in {"", "pdf", "other"}
      /\ distiller => job.step \in {"distill", "fetch", "save", "cleanup"}
      /\ \A u \in Urls : UrlOK(u)
  BY <1>2, JobFacts, Zenon
<1>4. PICK u \in Urls : u = job.url
  BY <1>3
<1>5. r \in {"DOWNLOAD_SUCCESS", "ERROR"} /\ f \in Files /\ (r = "DOWNLOAD_SUCCESS" => f = "page")
  BY <1>1, <1>3 DEF Files
<1>6. job' \in Job /\ job'.step = job.step /\ job'.url = u /\ job'.result = r
  BY <1>1, <1>3, <1>4, <1>5, DoneJobs, Zenon
<1>7. disk' \in [Urls -> Files] /\ disk'[u] = f /\ \A v \in Urls : v # u => disk'[v] = disk[v]
  BY <1>1, <1>3, <1>4, <1>5
<1>8. FilesOfDoneJob'
  BY <1>1, <1>5, <1>6, <1>7 DEF FilesOfDoneJob
<1>9. /\ distiller' \in BOOLEAN /\ mime' \in {"", "pdf", "other"}
      /\ distiller' => job'.step \in {"distill", "fetch", "save", "cleanup"}
  BY <1>1, <1>3, <1>6, Zenon
<1>10. UrlOK(u)'
  <2>1. Handled(u) /\ Handled(u)'
    <3>1. job' # NoJob
      BY <1>6, JobFields, Zenon
    <3> QED
      BY <1>2, <1>4, <1>6, <3>1, Zenon DEF Handled
  <2>2. job.step # "delete" /\ job.step # "exists"
    BY <1>1
  <2> QED
    BY <1>1, <1>3, <1>6, <2>1, <2>2, UrlOfJob, Zenon DEF UrlOK
<1> QED
  BY <1>1, <1>2, <1>4, <1>6, <1>7, <1>8, <1>9, <1>10, JobStep, Zenon

(* The job of a download goes on to the next one, which is posted: the      *)
(* distiller, the loader, the saving or the removal of what was saved.      *)
LEMMA JobGoesOn ==
  ASSUME DownloadsIndInv, UNCHANGED serviceVars,
         job.step \in {"exists", "distill", "fetch", "save"},
         NEW step \in {"distill", "fetch", "save", "cleanup"},
         job' = Posted(step, job.url),
         UNCHANGED <<tasks, working, disk>>,
         distiller' \in BOOLEAN, mime' \in {"", "pdf", "other"}
  PROVE  DownloadsIndInv'
<1>2. job # NoJob
  <2>1. NoJob.step = "none"
    BY DEF NoJob
  <2> QED
    BY <2>1
<1>3. /\ job \in Job /\ loaded
      /\ job.url \in Urls /\ disk \in [Urls -> Files]
      /\ \A u \in Urls : UrlOK(u)
  BY <1>2, JobFacts, Zenon
<1>4. PICK u \in Urls : u = job.url
  BY <1>3
<1>5. /\ job' \in Job /\ job' # NoJob /\ job'.step = step /\ job'.url = u
      /\ job'.done = FALSE
  <2>1. step \in {"delete", "cleanup", "exists", "save", "distill", "fetch"}
    OBVIOUS
  <2>2. job' = Posted(step, u)
    BY <1>4
  <2>3. /\ Posted(step, u) \in Job /\ Posted(step, u) # NoJob
        /\ Posted(step, u).step = step /\ Posted(step, u).url = u
        /\ Posted(step, u).done = FALSE
    BY <2>1, PostedIsAJob, ZenonT(40)
  <2> QED
    BY <2>2, <2>3, Zenon
<1>6. disk' \in [Urls -> Files] /\ \A v \in Urls : disk'[v] = disk[v]
  BY <1>3, Zenon
<1>7. FilesOfDoneJob'
  BY <1>5, Zenon DEF FilesOfDoneJob
<1>8. UrlOK(u)'
  <2>1. Handled(u) /\ Handled(u)'
    BY <1>2, <1>4, <1>5, Zenon DEF Handled
  <2>2. job.step # "delete" /\ job'.step # "exists" /\ job'.step # "delete"
    BY <1>5
  <2> QED
    BY <1>3, <1>6, <2>1, <2>2, UrlOfJob, Zenon DEF UrlOK
<1> QED
  BY <1>2, <1>4, <1>5, <1>6, <1>7, <1>8, JobStep, Zenon

(* DeletionsComeFirst is about the order of the queue.                     *)
LEMMA QueueFacts ==
  ASSUME DownloadsIndInv
  PROVE  /\ tasks \in Seq(Task) /\ Orderly(tasks) /\ ServiceTypeOK /\ FailuresAreCounted
         /\ NothingBeforeLoad /\ working \in BOOLEAN /\ distiller \in BOOLEAN
         /\ \A u \in Urls : UrlOK(u)
         /\ working <=> job # NoJob
         /\ distiller => job.step \in {"distill", "fetch", "save", "cleanup"}
         /\ distiller => working
<1>1. /\ tasks \in Seq(Task) /\ ServiceTypeOK /\ FailuresAreCounted /\ NothingBeforeLoad
      /\ working \in BOOLEAN /\ distiller \in BOOLEAN
      /\ \A u \in Urls : UrlOK(u)
  BY Zenon DEF DownloadsIndInv, TypeOK, DownloaderTypeOK, ServiceTypeOK
<1>2. Orderly(tasks)
  BY Zenon DEF DownloadsIndInv, DeletionsComeFirst, Orderly
<1>3. /\ working <=> job # NoJob
      /\ distiller => job.step \in {"distill", "fetch", "save", "cleanup"}
  BY Zenon DEF DownloadsIndInv, OneTaskAtATime
<1>4. distiller => working
  <2>1. NoJob.step = "none"
    BY DEF NoJob
  <2>2. job.step \in {"distill", "fetch", "save", "cleanup"} => job # NoJob
    BY <2>1
  <2> QED
    BY <1>3, <2>2, Zenon
<1> QED
  BY <1>1, <1>2, <1>3, <1>4, Zenon

(* The reply to a deletion.                                                *)
LEMMA DeleteCompletionStep ==
  ASSUME DownloadsIndInv, DeleteCompletionHandler, UNCHANGED serviceVars
  PROVE  DownloadsIndInv'
<1>1. /\ job.step = "delete" /\ job.done
      /\ HandleNextTask(tasks, FALSE)
      /\ distiller' = distiller /\ mime' = mime /\ disk' = disk
  BY Zenon DEF DeleteCompletionHandler, Done
<1>2. job # NoJob
  <2>1. NoJob.step = "none"
    BY DEF NoJob
  <2> QED
    BY <1>1, <2>1
<1>3. job.url \in Urls /\ loaded /\ disk[job.url] = "none"
  BY <1>1, <1>2, JobFacts DEF FilesOfDoneJob
<1>4. /\ tasks \in Seq(Task) /\ Orderly(tasks) /\ ServiceTypeOK /\ FailuresAreCounted
      /\ NothingBeforeLoad
      /\ \A u \in Urls : UrlOK(u)
      /\ distiller => job.step \in {"distill", "fetch", "save", "cleanup"}
      /\ distiller \in BOOLEAN
  BY QueueFacts, Zenon
<1>5. distiller' \in BOOLEAN /\ ~distiller'
  BY <1>1, <1>4, Zenon
<1>6. ServiceTypeOK' /\ FailuresAreCounted' /\ loaded'
  BY <1>3, <1>4, ServiceStays, Zenon
<1>7. PICK q \in Seq(Task) : q = tasks
  BY <1>4, Zenon
<1>8. entries' = entries /\ cleanup' = cleanup
  BY Zenon DEF serviceVars, listVars
<1>9. ASSUME NEW u \in Urls
      PROVE  /\ ~Present(u)' =>
                  /\ ~Contains(q, DOWNLOAD(u))
                  /\ disk[u] # "none" => Contains(q, DELETE(u)) \/ CleanedUpAtStart(u)'
             /\ disk[u] = "partial" =>
                  \/ Contains(q, DELETE(u)) \/ CleanedUpAtStart(u)'
                  \/ Processed(u)' /\ ~Contains(q, DOWNLOAD(u))
  <2>1. \A t : Queued(t) <=> Contains(q, t)
    BY <1>7, Zenon DEF Queued
  <2>2. Handled(u) => disk[u] = "none"
    BY <1>3, Zenon DEF Handled
  <2>3. (Present(u)' <=> Present(u)) /\ (Processed(u)' <=> Processed(u))
        /\ (CleanedUpAtStart(u)' <=> CleanedUpAtStart(u))
    BY <1>8, Zenon DEF Present, Processed, CleanedUpAtStart
  <2>4. "none" # "partial"
    OBVIOUS
  <2> QED
    BY <1>3, <1>4, <2>1, <2>2, <2>3, <2>4, Zenon DEF UrlOK
<1>10. Orderly(q) /\ HandleNextTask(q, FALSE) /\ FALSE \in BOOLEAN
  BY <1>1, <1>4, <1>7, Zenon
<1> QED
  BY <1>1, <1>5, <1>6, <1>9, <1>10, QueueStep, Zenon

(* Every step of the downloader that its client does not hear of.          *)
LEMMA SilentStepKeeps ==
  ASSUME DownloadsIndInv, DownloaderStep
  PROVE  DownloadsIndInv'
<1>1. UNCHANGED serviceVars
  BY Zenon DEF DownloaderStep, serviceVars
<1>2. distiller \in BOOLEAN /\ mime \in {"", "pdf", "other"} /\ TRUE \in BOOLEAN
  BY Zenon DEF DownloadsIndInv, TypeOK, DownloaderTypeOK
<1>3. CASE StartDistiller
  <2>1. /\ job.step = "exists" /\ job' = Posted("distill", job.url)
        /\ distiller' = TRUE /\ mime' = mime /\ UNCHANGED <<tasks, working, disk>>
    BY <1>3, Zenon DEF StartDistiller, Done
  <2>2. /\ job.step \in {"exists", "distill", "fetch", "save"}
        /\ "distill" \in {"distill", "fetch", "save", "cleanup"}
    BY <2>1, Zenon
  <2>3. distiller' \in BOOLEAN /\ mime' \in {"", "pdf", "other"}
    BY <1>2, <2>1, Zenon
  <2> QED
    BY <1>1, <2>1, <2>2, <2>3, JobGoesOn, Zenon
<1>4. CASE DistillerCallback
  <2>1. /\ job.step = "distill" /\ distiller' = distiller
        /\ UNCHANGED <<tasks, working, disk>>
    BY <1>4, Zenon DEF DistillerCallback, Doing
  <2>2. PICK mimeType \in {mime, "pdf", "other"}, empty \in BOOLEAN :
          /\ mime' = mimeType
          /\ IF ~empty THEN job' = Posted("save", job.url)
             ELSE IF mimeType = "pdf" THEN job' = Posted("fetch", job.url)
             ELSE job' = Posted("cleanup", job.url)
    BY <1>4, Zenon DEF DistillerCallback, CleanUpPartial
  <2>3. mime' \in {"", "pdf", "other"}
    BY <1>2, <2>2
  <2>4. PICK step \in {"distill", "fetch", "save", "cleanup"} : job' = Posted(step, job.url)
    BY <2>2, Zenon
  <2>5. job.step \in {"exists", "distill", "fetch", "save"}
    BY <2>1, Zenon
  <2>6. distiller' \in BOOLEAN
    BY <1>2, <2>1, Zenon
  <2> QED
    BY <1>1, <2>1, <2>3, <2>4, <2>5, <2>6, JobGoesOn, Zenon
<1>5. CASE OnURLLoadComplete
  <2>1. /\ job.step = "fetch" /\ distiller' = distiller /\ mime' = mime
        /\ UNCHANGED <<tasks, working, disk>>
    BY <1>5, Zenon DEF OnURLLoadComplete, Doing
  <2>2. PICK step \in {"distill", "fetch", "save", "cleanup"} : job' = Posted(step, job.url)
    BY <1>5, Zenon DEF OnURLLoadComplete, CleanUpPartial
  <2>3. job.step \in {"exists", "distill", "fetch", "save"}
    BY <2>1, Zenon
  <2>4. distiller' \in BOOLEAN /\ mime' \in {"", "pdf", "other"}
    BY <1>2, <2>1, Zenon
  <2> QED
    BY <1>1, <2>1, <2>2, <2>3, <2>4, JobGoesOn, Zenon
<1>6. CASE SaveFailed
  <2>1. /\ job.step = "save" /\ distiller' = distiller /\ mime' = mime
        /\ UNCHANGED <<tasks, working, disk>> /\ job' = Posted("cleanup", job.url)
    BY <1>6, Zenon DEF SaveFailed, Done, CleanUpPartial
  <2>2. /\ job.step \in {"exists", "distill", "fetch", "save"}
        /\ "cleanup" \in {"distill", "fetch", "save", "cleanup"}
    BY <2>1, Zenon
  <2>3. distiller' \in BOOLEAN /\ mime' \in {"", "pdf", "other"}
    BY <1>2, <2>1, Zenon
  <2> QED
    BY <1>1, <2>1, <2>2, <2>3, JobGoesOn, Zenon
<1> QED
  BY <1>1, <1>3, <1>4, <1>5, <1>6, RunDeleteFileStep, RunPathExistsStep, RunSaveStep,
     DeleteCompletionStep, Zenon DEF DownloaderStep, SilentStep

-----------------------------------------------------------------------------
(* The entries of the list.                                                *)

(* What the model does to an entry.                                        *)
LEMMA EntryChanges ==
  ASSUME entries \in [Urls -> Entry \cup {Absent}], NEW u \in Urls, Has(entries, u),
         NEW s \in DistilledState, NEW n \in 0 .. kNumberOfFailsBeforeStop,
         entries' = [[entries EXCEPT ![u].state = s] EXCEPT ![u].fails = n]
  PROVE  /\ entries' \in [Urls -> Entry \cup {Absent}]
         /\ \A v \in Urls : v # u => entries'[v] = entries[v]
         /\ entries'[u].state = s /\ entries'[u].fails = n
         /\ entries'[u] \in Entry /\ entries'[u] # Absent
<1>1. entries[u] \in Entry
  BY Zenon DEF Has
<1> DEFINE E == Entry \cup {Absent}
           x == [[entries[u] EXCEPT !.state = s] EXCEPT !.fails = n]
<1>2. x \in Entry /\ x.state = s /\ x.fails = n /\ x # Absent
  <2>1. PICK e \in Entry : e = entries[u]
    BY <1>1
  <2>2. PICK y : y = [[e EXCEPT !.state = s] EXCEPT !.fails = n]
    OBVIOUS
  <2>3. y \in Entry /\ y.state = s /\ y.fails = n /\ y # Absent
    <3> DEFINE B == BOOLEAN
               N == 0 .. kNumberOfFailsBeforeStop
               S == DistilledState
    <3>1. e \in [state : S, read : B, fails : N] /\ n \in N /\ s \in S
      BY <2>1, Zenon DEF Entry
    <3>2. Absent.state = "absent" /\ "absent" \notin S
      BY DEF Absent, DistilledState
    <3> HIDE DEF B, N, S
    <3>3. y \in [state : S, read : B, fails : N] /\ y.state = s /\ y.fails = n
      BY <2>2, <3>1
    <3>4. y \in Entry
      BY <3>3 DEF B, N, S, Entry
    <3> QED
      BY <3>1, <3>2, <3>3, <3>4
  <2>4. y = x
    BY <2>1, <2>2
  <2> QED
    BY <2>3, <2>4, Zenon
<1>3. entries' = [entries EXCEPT ![u] = x]
  <2> HIDE DEF E
  <2>1. entries \in [Urls -> E]
    BY Zenon DEF E
  <2> QED
    BY <2>1
<1>4. x \in E /\ entries \in [Urls -> E]
  BY <1>2
<1> HIDE DEF x, E
<1>5. entries' \in [Urls -> E] /\ entries'[u] = x /\ \A v \in Urls : v # u => entries'[v] = entries[v]
  BY <1>3, <1>4
<1> QED
  BY <1>2, <1>5, Zenon DEF E

(* SetEntryDistilledState.                                                 *)
LEMMA StateIsSet ==
  ASSUME entries \in [Urls -> Entry \cup {Absent}], FailuresAreCounted,
         NEW u \in Urls, NEW s \in DistilledState, SetEntryDistilledState(u, s)
  PROVE  /\ entries' \in [Urls -> Entry \cup {Absent}]
         /\ \A v \in Urls : v # u => entries'[v] = entries[v]
         /\ Present(u)' <=> Present(u)
         /\ Present(u) =>
              /\ entries'[u].state = s
              /\ entries'[u].fails = IF s \in Failed /\ entries[u].state \notin Failed
                                     THEN entries[u].fails + 1 ELSE entries[u].fails
<1>1. CASE ~Has(entries, u)
  <2>1. entries' = entries
    BY <1>1, Zenon DEF SetEntryDistilledState
  <2> QED
    BY <1>1, <2>1, Zenon DEF Present, Has
<1>2. CASE Has(entries, u)
  <2> DEFINE e == entries[u]
             n == IF s \in Failed /\ e.state \notin Failed THEN e.fails + 1 ELSE e.fails
  <2>1. e \in Entry
    BY <1>2, Zenon DEF Has
  <2>2. e.fails \in 0 .. kNumberOfFailsBeforeStop
    BY <2>1 DEF Entry
  <2>3. e.state # "DISTILLATION_ERROR" => e.fails < kNumberOfFailsBeforeStop
    BY <1>2, Zenon DEF FailuresAreCounted
  <2>4. e.state \notin Failed => e.state # "DISTILLATION_ERROR"
    BY DEF Failed
  <2>5. n \in 0 .. kNumberOfFailsBeforeStop
    BY <2>2, <2>3, <2>4, ServiceAssumption
  <2>6. entries' = [[entries EXCEPT ![u].state = s] EXCEPT ![u].fails = n]
    <3> DEFINE E == Entry \cup {Absent}
    <3>1. entries \in [Urls -> E]
      BY Zenon
    <3> HIDE DEF E
    <3>2. [entries EXCEPT ![u].state = s][u].fails = e.fails
      <4>1. [entries EXCEPT ![u].state = s][u] = [e EXCEPT !.state = s]
        BY <3>1
      <4>2. [e EXCEPT !.state = s].fails = e.fails
        <5> DEFINE B == BOOLEAN
        <5>1. e \in [state : DistilledState, read : B, fails : 0 .. kNumberOfFailsBeforeStop]
          BY <2>1, Zenon DEF Entry
        <5> HIDE DEF B
        <5> QED
          BY <5>1
      <4> QED
        BY <4>1, <4>2
    <3> QED
      BY <1>2, <3>1, <3>2 DEF SetEntryDistilledState
  <2> HIDE DEF n
  <2>7. /\ entries' \in [Urls -> Entry \cup {Absent}]
        /\ \A v \in Urls : v # u => entries'[v] = entries[v]
        /\ entries'[u].state = s /\ entries'[u].fails = n
        /\ entries'[u] # Absent
    BY <1>2, <2>5, <2>6, EntryChanges, ZenonT(40)
  <2>8. n = IF s \in Failed /\ entries[u].state \notin Failed
            THEN entries[u].fails + 1 ELSE entries[u].fails
    BY DEF n
  <2> QED
    BY <1>2, <2>7, <2>8 DEF Present, Has
<1> QED
  BY <1>1, <1>2, Zenon

(* SetEntryDistilledInfo.                                                  *)
LEMMA InfoIsSet ==
  ASSUME entries \in [Urls -> Entry \cup {Absent}], NEW u \in Urls,
         SetEntryDistilledInfo(u)
  PROVE  /\ entries' \in [Urls -> Entry \cup {Absent}]
         /\ \A v \in Urls : v # u => entries'[v] = entries[v]
         /\ Present(u)' <=> Present(u)
         /\ Present(u) => entries'[u].state = "PROCESSED" /\ entries'[u].fails = 0
<1>1. CASE ~Has(entries, u)
  <2>1. entries' = entries
    BY <1>1, Zenon DEF SetEntryDistilledInfo
  <2> QED
    BY <1>1, <2>1, Zenon DEF Present, Has
<1>2. CASE Has(entries, u)
  <2>1. entries' = [[entries EXCEPT ![u].state = "PROCESSED"] EXCEPT ![u].fails = 0]
    BY <1>2, Zenon DEF SetEntryDistilledInfo
  <2>2. "PROCESSED" \in DistilledState /\ 0 \in 0 .. kNumberOfFailsBeforeStop
    BY ServiceAssumption DEF DistilledState
  <2>3. /\ entries' \in [Urls -> Entry \cup {Absent}]
        /\ \A v \in Urls : v # u => entries'[v] = entries[v]
        /\ entries'[u].state = "PROCESSED" /\ entries'[u].fails = 0
        /\ entries'[u] # Absent
    BY <1>2, <2>1, <2>2, EntryChanges, ZenonT(40)
  <2> QED
    BY <1>2, <2>3, Zenon DEF Present, Has
<1> QED
  BY <1>1, <1>2, Zenon

(* Counters that are raised stay counters.                                 *)
LEMMA PlusType ==
  ASSUME NEW f \in [Urls -> Nat], NEW S
  PROVE  Plus(f, S) \in [Urls -> Nat]
BY DEF Plus

(* The failures of the entries that a step leaves alone.                   *)
LEMMA FailuresStay ==
  ASSUME FailuresAreCounted, NEW u \in Urls,
         \A v \in Urls : v # u => entries'[v] = entries[v],
         Present(u)' /\ entries'[u].state # "DISTILLATION_ERROR" =>
           entries'[u].fails < kNumberOfFailsBeforeStop
  PROVE  FailuresAreCounted'
<1> SUFFICES ASSUME NEW v \in Urls, entries'[v] # Absent,
                    entries'[v].state # "DISTILLATION_ERROR"
             PROVE  entries'[v].fails < kNumberOfFailsBeforeStop
  BY Zenon DEF FailuresAreCounted, Has
<1>1. CASE v = u
  BY <1>1, Zenon DEF Present
<1>2. CASE v # u
  BY <1>2, Zenon DEF FailuresAreCounted, Has
<1> QED
  BY <1>1, <1>2, Zenon

(* OnDownloadEnd counts a failure of the entry, and gives it up in time.   *)
LEMMA EndOfDownload ==
  ASSUME ServiceTypeOK, FailuresAreCounted, NEW u \in Urls, NEW success,
         OnDownloadEnd(u, success)
  PROVE  /\ entries' \in [Urls -> Entry \cup {Absent}]
         /\ \A v \in Urls : v # u => entries'[v] = entries[v]
         /\ Present(u)' <=> Present(u)
         /\ FailuresAreCounted'
         /\ timers' \in [Urls -> Nat]
<1>1. entries \in [Urls -> Entry \cup {Absent}] /\ timers \in [Urls -> Nat]
  BY Zenon DEF ServiceTypeOK
<1>2. CASE success = "DOWNLOAD_SUCCESS"
  <2>1. SetEntryDistilledInfo(u) /\ timers' = timers
    BY <1>2, Zenon DEF OnDownloadEnd
  <2>2. /\ entries' \in [Urls -> Entry \cup {Absent}]
        /\ \A v \in Urls : v # u => entries'[v] = entries[v]
        /\ Present(u)' <=> Present(u)
        /\ Present(u) => entries'[u].state = "PROCESSED" /\ entries'[u].fails = 0
    BY <1>1, <2>1, InfoIsSet, Zenon
  <2>3. 0 < kNumberOfFailsBeforeStop
    BY ServiceAssumption
  <2>4. FailuresAreCounted'
    BY <2>2, <2>3, FailuresStay, Zenon
  <2>5. timers' \in [Urls -> Nat]
    BY <1>1, <2>1, Zenon
  <2> QED
    BY <2>2, <2>4, <2>5, Zenon
<1>3. CASE /\ success # "DOWNLOAD_SUCCESS"
           /\ Has(entries, u) /\ entries[u].fails + 1 < kNumberOfFailsBeforeStop
  <2>1. /\ SetEntryDistilledState(u, "WILL_RETRY")
        /\ timers' = Plus(timers, {v \in {u} : ToDownload(entries', v)})
    BY <1>3, Zenon DEF OnDownloadEnd, Schedule
  <2>2. "WILL_RETRY" \in DistilledState
    BY DEF DistilledState
  <2>3. /\ entries' \in [Urls -> Entry \cup {Absent}]
        /\ \A v \in Urls : v # u => entries'[v] = entries[v]
        /\ Present(u)' <=> Present(u)
        /\ Present(u) => entries'[u].fails = entries[u].fails + 1
                         \/ entries'[u].fails = entries[u].fails
    BY <1>1, <2>1, <2>2, StateIsSet, Zenon
  <2>4. entries[u].fails \in 0 .. kNumberOfFailsBeforeStop
    <3>1. entries[u] \in Entry
      BY <1>1, <1>3, Zenon DEF Has
    <3> QED
      BY <3>1 DEF Entry
  <2>5. entries[u].fails < kNumberOfFailsBeforeStop
    BY <1>3, <2>4, ServiceAssumption
  <2>6. FailuresAreCounted'
    BY <1>3, <2>3, <2>5, FailuresStay, Zenon
  <2>7. PICK S : timers' = Plus(timers, S)
    BY <2>1, Zenon
  <2>8. timers' \in [Urls -> Nat]
    BY <1>1, <2>7, PlusType, Zenon
  <2> QED
    BY <2>3, <2>6, <2>8, Zenon
<1>4. CASE /\ success # "DOWNLOAD_SUCCESS"
           /\ ~(Has(entries, u) /\ entries[u].fails + 1 < kNumberOfFailsBeforeStop)
  <2>1. SetEntryDistilledState(u, "DISTILLATION_ERROR") /\ timers' = timers
    BY <1>4, Zenon DEF OnDownloadEnd
  <2>2. "DISTILLATION_ERROR" \in DistilledState
    BY DEF DistilledState
  <2>3. /\ entries' \in [Urls -> Entry \cup {Absent}]
        /\ \A v \in Urls : v # u => entries'[v] = entries[v]
        /\ Present(u)' <=> Present(u)
        /\ Present(u) => entries'[u].state = "DISTILLATION_ERROR"
    BY <1>1, <2>1, <2>2, StateIsSet, Zenon
  <2>4. FailuresAreCounted'
    BY <2>3, FailuresStay, Zenon
  <2>5. timers' \in [Urls -> Nat]
    BY <1>1, <2>1, Zenon
  <2> QED
    BY <2>3, <2>4, <2>5, Zenon
<1> QED
  BY <1>2, <1>3, <1>4, Zenon

(* A download ends.                                                        *)
LEMMA DownloadEndsStep ==
  ASSUME DownloadsIndInv, DownloadEnds
  PROVE  DownloadsIndInv'
<1>1. PICK u \in Urls, success \in SuccessState :
        PostDelete(u, success) /\ OnDownloadEnd(u, success)
  BY Zenon DEF DownloadEnds
<1>2. /\ loaded' = loaded /\ cleanup' = cleanup
      /\ UNCHANGED <<url_to_download_cellular, url_to_download_wifi, netVars, remover, boundVars>>
  BY Zenon DEF DownloadEnds
<1>3. /\ Outcome(success) /\ u = job.url
      /\ distiller' = FALSE /\ HandleNextTask(tasks, FALSE)
      /\ mime' = mime /\ disk' = disk
  BY <1>1, Zenon DEF PostDelete, DistillerAfterDownload, WorkingAfterDownload
<1>4. /\ job.step \in {"exists", "save", "cleanup"} /\ job.done
      /\ job.step = "save" => job.result = "DOWNLOAD_SUCCESS"
  BY <1>3, Zenon DEF Outcome, Done
<1>5. job # NoJob
  <2>1. NoJob.step = "none"
    BY DEF NoJob
  <2> QED
    BY <1>4, <2>1
<1>6. loaded /\ (disk[u] = "partial" => job.step = "exists") /\ job.step # "delete"
  <2>1. FilesOfDoneJob /\ loaded
    BY <1>5, JobFacts, Zenon
  <2>2. /\ job.step = "cleanup" => disk[u] = "none"
        /\ job.step = "save" => disk[u] # "partial"
    BY <1>3, <1>4, <1>5, <2>1, Zenon DEF FilesOfDoneJob
  <2> QED
    BY <1>4, <2>1, <2>2
<1>7. /\ tasks \in Seq(Task) /\ Orderly(tasks) /\ ServiceTypeOK /\ FailuresAreCounted
      /\ \A v \in Urls : UrlOK(v)
  BY QueueFacts, Zenon
<1>8. /\ entries' \in [Urls -> Entry \cup {Absent}]
      /\ \A v \in Urls : v # u => entries'[v] = entries[v]
      /\ Present(u)' <=> Present(u)
      /\ FailuresAreCounted'
      /\ timers' \in [Urls -> Nat]
  BY <1>1, <1>7, EndOfDownload, Zenon
<1>9. ServiceTypeOK'
  BY <1>2, <1>7, <1>8, Zenon DEF ServiceTypeOK, netVars, boundVars
<1>10. PICK q \in Seq(Task) : q = tasks
  BY <1>7, Zenon
<1>11. ASSUME NEW v \in Urls
       PROVE  /\ ~Present(v)' =>
                   /\ ~Contains(q, DOWNLOAD(v))
                   /\ disk[v] # "none" => Contains(q, DELETE(v)) \/ CleanedUpAtStart(v)'
              /\ disk[v] = "partial" =>
                   \/ Contains(q, DELETE(v)) \/ CleanedUpAtStart(v)'
                   \/ Processed(v)' /\ ~Contains(q, DOWNLOAD(v))
  <2>1. \A t : Queued(t) <=> Contains(q, t)
    BY <1>10, Zenon DEF Queued
  <2>2. CleanedUpAtStart(v)' <=> CleanedUpAtStart(v)
    BY <1>2, Zenon DEF CleanedUpAtStart
  <2>3. UrlOK(v)
    BY <1>7
  <2>4. CASE v = u
    <3>1. Handled(v) /\ (Present(v)' <=> Present(v))
      BY <1>3, <1>5, <1>8, <2>4, Zenon DEF Handled
    <3> QED
      BY <1>6, <2>1, <2>2, <2>3, <2>4, <3>1, Zenon DEF UrlOK
  <2>5. CASE v # u
    <3>1. ~Handled(v)
      BY <1>3, <2>5, Zenon DEF Handled
    <3>2. (Present(v)' <=> Present(v)) /\ (Processed(v)' <=> Processed(v))
      BY <1>8, <2>5, Zenon DEF Present, Processed
    <3> QED
      BY <1>6, <2>1, <2>2, <2>3, <3>1, <3>2, Zenon DEF UrlOK
  <2> QED
    BY <2>4, <2>5, Zenon
<1>12. /\ Orderly(q) /\ HandleNextTask(q, FALSE) /\ FALSE \in BOOLEAN
       /\ distiller' \in BOOLEAN /\ ~distiller' /\ loaded'
  BY <1>2, <1>3, <1>6, <1>7, <1>10, Zenon
<1> QED
  BY <1>3, <1>8, <1>9, <1>11, <1>12, QueueStep, Zenon

-----------------------------------------------------------------------------
(* The steps of the service.                                               *)

(* Before the list is loaded no timer runs, and no URL waits.              *)
LEMMA TimersWhenLoaded ==
  ASSUME DownloadsIndInv, NEW u \in Urls, timers[u] > 0
  PROVE  loaded
<1> SUFFICES ASSUME ~loaded PROVE FALSE
  OBVIOUS
<1>1. timers = None
  BY Zenon DEF DownloadsIndInv, NothingBeforeLoad
<1> QED
  BY <1>1 DEF None

(* A timer fires.                                                          *)
LEMMA DownloadEntryStep ==
  ASSUME DownloadsIndInv, NEW u \in Urls, DownloadEntry(u)
  PROVE  DownloadsIndInv'
<1>1. /\ timers[u] > 0
      /\ timers' = [timers EXCEPT ![u] = @ - 1]
      /\ UNCHANGED <<loaded, netVars, cleanup, remover, boundVars>>
  BY Zenon DEF DownloadEntry
<1>2. /\ tasks \in Seq(Task) /\ Orderly(tasks) /\ ServiceTypeOK /\ FailuresAreCounted
      /\ NothingBeforeLoad /\ working \in BOOLEAN /\ distiller \in BOOLEAN
      /\ \A v \in Urls : UrlOK(v)
      /\ working <=> job # NoJob
      /\ distiller => working
  BY QueueFacts, Zenon
<1>3. loaded
  BY <1>1, TimersWhenLoaded
<1>4. loaded' /\ NothingBeforeLoad'
  BY <1>1, <1>3, Zenon DEF NothingBeforeLoad
<1>5. timers' \in [Urls -> Nat]
  <2>1. timers \in [Urls -> Nat]
    BY <1>2, Zenon DEF ServiceTypeOK
  <2> QED
    BY <1>1, <2>1
<1>6. CASE ~ToDownload(entries, u)
  <2>1. UNCHANGED <<downloaderVars, entries, url_to_download_cellular, url_to_download_wifi>>
    BY <1>6, Zenon DEF DownloadEntry
  <2>2. ServiceTypeOK'
    BY <1>1, <1>2, <1>5, <2>1, Zenon DEF ServiceTypeOK, netVars, boundVars
  <2> QED
    BY <1>1, <1>4, <2>1, <2>2, DownloaderStays, Zenon DEF listVars
<1>7. CASE ToDownload(entries, u) /\ ~MayDownloadNow(u)
  <2>1. UNCHANGED <<downloaderVars, entries>> /\ SaveForLater(u)
    BY <1>7, Zenon DEF DownloadEntry
  <2>2. PICK S, R : /\ url_to_download_cellular' = Plus(url_to_download_cellular, S)
                    /\ url_to_download_wifi' = Plus(url_to_download_wifi, R)
    BY <2>1, Zenon DEF SaveForLater
  <2>3. url_to_download_cellular' \in [Urls -> Nat] /\ url_to_download_wifi' \in [Urls -> Nat]
    <3>1. url_to_download_cellular \in [Urls -> Nat] /\ url_to_download_wifi \in [Urls -> Nat]
      BY <1>2, Zenon DEF ServiceTypeOK
    <3> QED
      BY <2>2, <3>1, PlusType, Zenon
  <2>4. ServiceTypeOK'
    BY <1>1, <1>2, <1>5, <2>1, <2>3, Zenon DEF ServiceTypeOK, netVars, boundVars
  <2> QED
    BY <1>1, <1>4, <2>1, <2>4, DownloaderStays, Zenon DEF listVars
<1>8. CASE ToDownload(entries, u) /\ MayDownloadNow(u)
  <2>1. /\ SetEntryDistilledState(u, "PROCESSING")
        /\ DownloadOfflineURL(u)
        /\ UNCHANGED <<url_to_download_cellular, url_to_download_wifi>>
    BY <1>8, Zenon DEF DownloadEntry
  <2>2. entries \in [Urls -> Entry \cup {Absent}] /\ "PROCESSING" \in DistilledState
        /\ "PROCESSING" \notin Failed
    BY <1>2 DEF ServiceTypeOK, DistilledState, Failed
  <2>3. /\ entries' \in [Urls -> Entry \cup {Absent}]
        /\ \A v \in Urls : v # u => entries'[v] = entries[v]
        /\ Present(u)' <=> Present(u)
        /\ Present(u) => entries'[u].fails = entries[u].fails
    BY <1>2, <2>1, <2>2, StateIsSet, Zenon
  <2>4. Present(u) /\ ~Processed(u) /\ Present(u)'
    BY <1>8, <2>3, Zenon DEF ToDownload, Has, Present, Processed
  <2>5. entries[u].fails < kNumberOfFailsBeforeStop
    <3>1. entries[u] \in Entry
      BY <2>2, <2>4, Zenon DEF Present
    <3>2. entries[u].fails \in Nat
      BY <3>1 DEF Entry
    <3> QED
      BY <1>8, <3>2, ServiceAssumption DEF MayDownloadNow
  <2>6. FailuresAreCounted'
    BY <1>2, <2>3, <2>4, <2>5, FailuresStay, Zenon
  <2>7. ServiceTypeOK'
    BY <1>1, <1>2, <1>5, <2>1, <2>3, Zenon DEF ServiceTypeOK, netVars, boundVars
  <2>8. distiller' = distiller /\ mime' = mime /\ disk' = disk
    BY <2>1, Zenon DEF DownloadOfflineURL
  <2>9. PICK q \in Seq(Task) :
          /\ Orderly(q) /\ HandleNextTask(q, working)
          /\ \A t : Contains(q, t) <=> t = DOWNLOAD(u) \/ Contains(tasks, t)
    <3>1. CASE Contains(tasks, DOWNLOAD(u))
      <4>1. tasks' = tasks /\ working' = working /\ job' = job
        BY <2>1, <3>1, Zenon DEF DownloadOfflineURL
      <4>2. working
        <5>1. tasks # <<>>
          <6> SUFFICES ASSUME tasks = <<>> PROVE FALSE
            OBVIOUS
          <6>1. Len(tasks) = 0
            BY EmptySeq
          <6> QED
            BY <3>1, <6>1 DEF Contains
        <5> QED
          BY <1>2, <5>1, WorksWhenLoaded, Zenon
      <4>3. HandleNextTask(tasks, working)
        BY <4>1, <4>2, Zenon DEF HandleNextTask
      <4> QED
        BY <1>2, <3>1, <4>3, Zenon
    <3>2. CASE ~Contains(tasks, DOWNLOAD(u))
      <4>1. HandleNextTask(Append(tasks, DOWNLOAD(u)), working)
        BY <2>1, <3>2, Zenon DEF DownloadOfflineURL
      <4>2. DOWNLOAD(u) \in Task /\ \A v \in Urls : DOWNLOAD(u) # DELETE(v)
        BY TasksDiffer, Zenon
      <4> HIDE DEF DOWNLOAD, DELETE
      <4>3. /\ Append(tasks, DOWNLOAD(u)) \in Seq(Task)
            /\ \A t : Contains(Append(tasks, DOWNLOAD(u)), t) <=>
                        t = DOWNLOAD(u) \/ Contains(tasks, t)
            /\ Orderly(Append(tasks, DOWNLOAD(u)))
        BY <1>2, <4>2, QueueLast, Zenon
      <4> QED
        BY <4>1, <4>3, Zenon
    <3> QED
      BY <3>1, <3>2, Zenon
  <2>10. ASSUME NEW v \in Urls
         PROVE  /\ ~Present(v)' =>
                     /\ ~Contains(q, DOWNLOAD(v))
                     /\ working /\ Handled(v) /\ job.step # "delete" => Contains(q, DELETE(v))
                     /\ disk[v] # "none" =>
                          \/ Contains(q, DELETE(v)) \/ CleanedUpAtStart(v)'
                          \/ working /\ Handled(v) /\ job.step = "delete"
                /\ disk[v] = "partial" =>
                     \/ Contains(q, DELETE(v)) \/ CleanedUpAtStart(v)'
                     \/ working /\ Handled(v) /\ job.step # "exists"
                     \/ Processed(v)' /\ ~Contains(q, DOWNLOAD(v)) /\ ~(working /\ Handled(v))
    <3>1. CleanedUpAtStart(v)' <=> CleanedUpAtStart(v)
      BY <1>1, Zenon DEF CleanedUpAtStart
    <3>2. Handled(v) => working
      BY <1>2, Zenon DEF Handled
    <3>3. UrlOK(v) /\ \A t : Queued(t) <=> Contains(tasks, t)
      BY <1>2, Zenon DEF Queued
    <3>4. CASE v = u
      BY <1>3, <2>4, <2>9, <3>1, <3>2, <3>3, <3>4, Zenon DEF UrlOK
    <3>5. CASE v # u
      <4>1. (Present(v)' <=> Present(v)) /\ (Processed(v)' <=> Processed(v))
        BY <2>3, <3>5, Zenon DEF Present, Processed
      <4>2. DOWNLOAD(v) # DOWNLOAD(u) /\ DELETE(v) # DOWNLOAD(u)
        BY <3>5, TasksDiffer, Zenon
      <4>3. /\ Contains(q, DOWNLOAD(v)) <=> Queued(DOWNLOAD(v))
            /\ Contains(q, DELETE(v)) <=> Queued(DELETE(v))
        BY <2>9, <3>3, <4>2, Zenon
      <4> QED
        BY <1>3, <3>1, <3>2, <3>3, <4>1, <4>3, Zenon DEF UrlOK
    <3> QED
      BY <3>4, <3>5, Zenon
  <2>11. distiller' \in BOOLEAN /\ (distiller' => working /\ distiller)
    BY <1>2, <2>8, Zenon
  <2> QED
    BY <1>2, <1>4, <2>6, <2>7, <2>8, <2>9, <2>10, <2>11, QueueStep, Zenon
<1> QED
  BY <1>6, <1>7, <1>8, Zenon

(* Steps that leave the downloader's queue and job alone.                  *)
LEMMA ListStep ==
  ASSUME DownloadsIndInv, UNCHANGED <<tasks, working, distiller, mime, job>>,
         disk' \in [Urls -> Files],
         \A u \in Urls : disk'[u] = disk[u] \/ disk'[u] = "none",
         loaded', ServiceTypeOK', FailuresAreCounted', \A u \in Urls : UrlOK(u)'
  PROVE  DownloadsIndInv'
<1>1. /\ tasks' = tasks /\ working' = working /\ distiller' = distiller
      /\ mime' = mime /\ job' = job
  BY Zenon
<1>2. DownloaderTypeOK'
  BY <1>1, Zenon DEF DownloadsIndInv, TypeOK, DownloaderTypeOK
<1>3. TypeOK'
  BY <1>2, Zenon DEF TypeOK, ServiceTypeOK
<1>4. OneTaskAtATime'
  <2>1. OneTaskAtATime
    BY Zenon DEF DownloadsIndInv
  <2>2. /\ working' <=> job' # NoJob
        /\ ~working' => tasks' = <<>>
    BY <1>1, <2>1, SMT DEF OneTaskAtATime
  <2>3. distiller' => job'.step \in {"distill", "fetch", "save", "cleanup"}
    BY <1>1, <2>1, SMT DEF OneTaskAtATime
  <2> QED
    BY <2>2, <2>3, Zenon DEF OneTaskAtATime
<1>5. DeletionsComeFirst'
  BY <1>1, Zenon DEF DownloadsIndInv, DeletionsComeFirst
<1>6. FilesOfDoneJob'
  <2> SUFFICES ASSUME job # NoJob, job.done
               PROVE  /\ job.step \in {"delete", "cleanup"} => disk'[job.url] = "none"
                      /\ job.step = "save" /\ job.result = "DOWNLOAD_SUCCESS" =>
                           disk'[job.url] # "partial"
    BY <1>1, Zenon DEF FilesOfDoneJob
  <2>1. job.url \in Urls /\ FilesOfDoneJob
    BY JobFacts, Zenon
  <2> QED
    BY <2>1 DEF FilesOfDoneJob
<1>7. NothingBeforeLoad'
  BY Zenon DEF NothingBeforeLoad
<1> QED
  BY <1>3, <1>4, <1>5, <1>6, <1>7, Zenon DEF DownloadsIndInv

(* The queue of RemoveOfflineURL.                                          *)
LEMMA RemovalQueue ==
  ASSUME tasks \in Seq(Task), Orderly(tasks), NEW u \in Urls
  PROVE  \E q \in Seq(Task) :
           /\ q = Append(WithoutDownload(u), DELETE(u))
           /\ Orderly(q)
           /\ \A t : Contains(q, t) <=> t = DELETE(u) \/ (t # DOWNLOAD(u) /\ Contains(tasks, t))
<1>1. PICK ts \in Seq(Task) : ts = tasks
  BY Zenon
<1>2. PICK e : e = Erase(ts, {DOWNLOAD(u)})
  BY Zenon
<1>3. WithoutDownload(u) = e
  BY <1>1, <1>2, Zenon DEF WithoutDownload
<1>4. /\ e \in Seq(Task)
      /\ \A t : Contains(e, t) <=> t \notin {DOWNLOAD(u)} /\ Contains(ts, t)
      /\ Orderly(ts) => Orderly(e)
  BY <1>2, EraseKeepsOrder, Zenon
<1>5. DELETE(u) \in Task /\ \A v \in Urls : DELETE(u) = DELETE(v) => u = v
  BY TasksDiffer, Zenon
<1>6. ~Contains(e, DOWNLOAD(u))
  BY <1>4, Zenon
<1>7. \A v \in Urls : DELETE(u) = DELETE(v) => ~Contains(e, DOWNLOAD(v))
  BY <1>5, <1>6, Zenon
<1>8. PICK q : q = Append(e, DELETE(u))
  BY Zenon
<1>9. /\ q \in Seq(Task)
      /\ \A x : Contains(q, x) <=> x = DELETE(u) \/ Contains(e, x)
      /\ Orderly(q)
  BY <1>1, <1>4, <1>5, <1>7, <1>8, QueueLast, Zenon
<1>10. \A t : Contains(q, t) <=> t = DELETE(u) \/ (t # DOWNLOAD(u) /\ Contains(tasks, t))
  BY <1>1, <1>4, <1>9, Zenon
<1>11. q = Append(WithoutDownload(u), DELETE(u))
  BY <1>3, <1>8, Zenon
<1> QED
  BY <1>9, <1>10, <1>11, Zenon

(* A removal by the user, or the replacement of an entry.                  *)
LEMMA RemovalStep ==
  ASSUME DownloadsIndInv, NEW u \in Urls, RemoveOfflineURL(u), loaded, loaded',
         \A v \in Urls : v # u => entries'[v] = entries[v],
         cleanup' = cleanup, ServiceTypeOK', FailuresAreCounted'
  PROVE  DownloadsIndInv'
<1>1. /\ tasks \in Seq(Task) /\ Orderly(tasks)
      /\ working \in BOOLEAN /\ distiller \in BOOLEAN
      /\ \A v \in Urls : UrlOK(v)
      /\ working <=> job # NoJob
      /\ distiller => working
  BY QueueFacts, Zenon
<1>2. PICK q \in Seq(Task) :
           /\ q = Append(WithoutDownload(u), DELETE(u))
           /\ Orderly(q)
           /\ \A t : Contains(q, t) <=> t = DELETE(u) \/ (t # DOWNLOAD(u) /\ Contains(tasks, t))
  BY <1>1, RemovalQueue, Zenon
<1>3. /\ HandleNextTask(q, working)
      /\ distiller' = distiller /\ mime' = mime /\ disk' = disk
  BY <1>2, Zenon DEF RemoveOfflineURL
<1>4. ASSUME NEW v \in Urls
      PROVE  /\ ~Present(v)' =>
                  /\ ~Contains(q, DOWNLOAD(v))
                  /\ working /\ Handled(v) /\ job.step # "delete" => Contains(q, DELETE(v))
                  /\ disk[v] # "none" =>
                       \/ Contains(q, DELETE(v)) \/ CleanedUpAtStart(v)'
                       \/ working /\ Handled(v) /\ job.step = "delete"
             /\ disk[v] = "partial" =>
                  \/ Contains(q, DELETE(v)) \/ CleanedUpAtStart(v)'
                  \/ working /\ Handled(v) /\ job.step # "exists"
                  \/ Processed(v)' /\ ~Contains(q, DOWNLOAD(v)) /\ ~(working /\ Handled(v))
  <2>1. CASE v = u
    <3>1. DOWNLOAD(u) # DELETE(u)
      BY TasksDiffer, Zenon
    <3>2. Contains(q, DELETE(u)) /\ ~Contains(q, DOWNLOAD(u))
      BY <1>2, <3>1, Zenon
    <3> QED
      BY <2>1, <3>2, Zenon
  <2>2. CASE v # u
    <3>1. CleanedUpAtStart(v)' <=> CleanedUpAtStart(v)
      BY Zenon DEF CleanedUpAtStart
    <3>2. Handled(v) => working
      BY <1>1, Zenon DEF Handled
    <3>3. UrlOK(v) /\ \A t : Queued(t) <=> Contains(tasks, t)
      BY <1>1, Zenon DEF Queued
    <3>4. (Present(v)' <=> Present(v)) /\ (Processed(v)' <=> Processed(v))
      BY <2>2, Zenon DEF Present, Processed
    <3>5. /\ DOWNLOAD(v) # DOWNLOAD(u) /\ DELETE(v) # DOWNLOAD(u)
          /\ DOWNLOAD(v) # DELETE(u) /\ DELETE(v) # DELETE(u)
      BY <2>2, TasksDiffer, Zenon
    <3>6. /\ Contains(q, DOWNLOAD(v)) <=> Queued(DOWNLOAD(v))
          /\ Contains(q, DELETE(v)) <=> Queued(DELETE(v))
      BY <1>2, <3>3, <3>5, Zenon
    <3> QED
      BY <3>1, <3>2, <3>3, <3>4, <3>6, Zenon DEF UrlOK
  <2> QED
    BY <2>1, <2>2, Zenon
<1>5. distiller' \in BOOLEAN /\ (distiller' => working /\ distiller)
  BY <1>1, <1>3, Zenon
<1> QED
  BY <1>1, <1>2, <1>3, <1>4, <1>5, QueueStep, Zenon

(* The user's operations leave these alone.                                *)
LEMMA UserFacts ==
  ASSUME ServiceTypeOK
  PROVE  \A op : UserStep(op) =>
           /\ loaded' = loaded /\ cleanup' = cleanup
           /\ had_connection' \in BOOLEAN /\ connection' \in Connection
           /\ notices' \in Seq(Connection) /\ cleanup' \in CleanUp \cup {NoCleanUp}
           /\ userOps' \in 0..MaxUserOps /\ connections' \in 0..MaxConnections
           /\ restarts' \in 0..MaxRestarts /\ loaded' \in BOOLEAN
           /\ op # "removeAll" => loaded /\ loaded'
<1> SUFFICES ASSUME NEW op, UserStep(op)
             PROVE  /\ loaded' = loaded /\ cleanup' = cleanup
                    /\ had_connection' \in BOOLEAN /\ connection' \in Connection
                    /\ notices' \in Seq(Connection) /\ cleanup' \in CleanUp \cup {NoCleanUp}
                    /\ userOps' \in 0..MaxUserOps /\ connections' \in 0..MaxConnections
                    /\ restarts' \in 0..MaxRestarts /\ loaded' \in BOOLEAN
                    /\ op # "removeAll" => loaded /\ loaded'
  BY Zenon
<1>1. userOps' \in 0..MaxUserOps
  BY ServiceAssumption DEF ServiceTypeOK, UserStep
<1>2. op # "removeAll" => loaded /\ loaded'
  BY Zenon DEF UserStep
<1> QED
  BY <1>1, <1>2, Zenon DEF ServiceTypeOK, UserStep, netVars

(* A new entry.                                                            *)
LEMMA NewEntryFacts ==
  /\ NewEntry \in Entry /\ NewEntry # Absent
  /\ NewEntry.fails = 0 /\ NewEntry.state = "WAITING"
  /\ Absent.state = "absent"
<1>1. NewEntry.fails = 0 /\ NewEntry.state = "WAITING" /\ Absent.state = "absent"
  BY DEF NewEntry, Absent
<1>2. 0 \in 0 .. kNumberOfFailsBeforeStop /\ "WAITING" \in DistilledState
  BY ServiceAssumption DEF DistilledState
<1>3. NewEntry \in Entry
  BY <1>2, Zenon DEF NewEntry, Entry
<1> QED
  BY <1>1, <1>3

(* The user adds a page.                                                   *)
LEMMA AddEntryStep ==
  ASSUME DownloadsIndInv, NEW u \in Urls, AddEntry(u)
  PROVE  DownloadsIndInv'
<1>1. /\ UserStep("add")
      /\ entries' = [entries EXCEPT ![u] = NewEntry]
      /\ timers' = Plus(timers, {v \in {u} : ToDownload(entries', v)})
      /\ url_to_download_cellular' = url_to_download_cellular
      /\ url_to_download_wifi' = url_to_download_wifi /\ remover' = remover
  BY Zenon DEF AddEntry, Schedule
<1>2. ServiceTypeOK /\ FailuresAreCounted /\ \A v \in Urls : UrlOK(v)
  BY QueueFacts, Zenon
<1>3. /\ loaded /\ loaded' /\ cleanup' = cleanup
      /\ had_connection' \in BOOLEAN /\ connection' \in Connection
      /\ notices' \in Seq(Connection) /\ cleanup' \in CleanUp \cup {NoCleanUp}
      /\ userOps' \in 0..MaxUserOps /\ connections' \in 0..MaxConnections
      /\ restarts' \in 0..MaxRestarts /\ loaded' \in BOOLEAN
  <2>1. "add" # "removeAll"
    OBVIOUS
  <2> QED
    BY <1>1, <1>2, <2>1, UserFacts
<1>4. /\ entries' \in [Urls -> Entry \cup {Absent}]
      /\ \A v \in Urls : v # u => entries'[v] = entries[v]
      /\ entries'[u] = NewEntry
  <2> DEFINE E == Entry \cup {Absent}
  <2>1. entries \in [Urls -> E] /\ NewEntry \in E
    BY <1>2, NewEntryFacts, Zenon DEF ServiceTypeOK
  <2> HIDE DEF E
  <2>2. /\ entries' \in [Urls -> E]
        /\ \A v \in Urls : v # u => entries'[v] = entries[v]
        /\ entries'[u] = NewEntry
    BY <1>1, <2>1
  <2> QED
    BY <2>2 DEF E
<1>5. FailuresAreCounted'
  <2>1. entries'[u].fails < kNumberOfFailsBeforeStop
    BY <1>4, NewEntryFacts, ServiceAssumption
  <2> QED
    BY <1>2, <1>4, <2>1, FailuresStay, Zenon
<1>6. timers' \in [Urls -> Nat]
  <2>1. PICK S : timers' = Plus(timers, S)
    BY <1>1, Zenon
  <2>2. timers \in [Urls -> Nat]
    BY <1>2, Zenon DEF ServiceTypeOK
  <2> QED
    BY <2>1, <2>2, PlusType, Zenon
<1>7. ServiceTypeOK'
  BY <1>1, <1>2, <1>3, <1>4, <1>6, Zenon DEF ServiceTypeOK
<1>8. CASE Has(entries, u)
  <2>1. RemoveOfflineURL(u)
    BY <1>8, Zenon DEF AddEntry
  <2> QED
    BY <1>3, <1>4, <1>5, <1>7, <2>1, RemovalStep, Zenon
<1>9. CASE ~Has(entries, u)
  <2>1. /\ tasks' = tasks /\ working' = working /\ distiller' = distiller
        /\ mime' = mime /\ job' = job /\ disk' = disk
    BY <1>9, Zenon DEF AddEntry, downloaderVars
  <2>2. ASSUME NEW v \in Urls PROVE UrlOK(v)'
    <3>1. /\ \A t : Queued(t)' <=> Queued(t)
          /\ Handled(v)' <=> Handled(v)
          /\ CleanedUpAtStart(v)' <=> CleanedUpAtStart(v)
          /\ disk'[v] = disk[v] /\ job'.step = job.step
      BY <1>3, <2>1, Zenon DEF Queued, Contains, Handled, CleanedUpAtStart
    <3>2. CASE v = u
      <4>1. ~Processed(u)
        BY <1>9, NewEntryFacts DEF Has, Processed
      <4>2. Present(u)'
        BY <1>4, NewEntryFacts, Zenon DEF Present
      <4> QED
        BY <1>2, <1>3, <3>1, <3>2, <4>1, <4>2, Zenon DEF UrlOK
    <3>3. CASE v # u
      <4>1. (Present(v)' <=> Present(v)) /\ (Processed(v)' <=> Processed(v))
        BY <1>4, <3>3, Zenon DEF Present, Processed
      <4> QED
        BY <1>2, <1>3, <3>1, <4>1, Zenon DEF UrlOK
    <3> QED
      BY <3>2, <3>3, Zenon
  <2>3. disk' \in [Urls -> Files] /\ \A v \in Urls : disk'[v] = disk[v]
    BY <2>1, Zenon DEF DownloadsIndInv, TypeOK, DownloaderTypeOK
  <2> QED
    BY <1>3, <1>5, <1>7, <2>1, <2>2, <2>3, ListStep, Zenon
<1> QED
  BY <1>8, <1>9, Zenon

(* The user removes a page.                                                *)
LEMMA RemoveEntryStep ==
  ASSUME DownloadsIndInv, NEW u \in Urls, RemoveEntry(u)
  PROVE  DownloadsIndInv'
<1>1. /\ UserStep("remove")
      /\ entries' = [entries EXCEPT ![u] = Absent]
      /\ RemoveOfflineURL(u)
      /\ UNCHANGED <<timers, url_to_download_cellular, url_to_download_wifi, remover>>
  BY Zenon DEF RemoveEntry, waitingVars
<1>2. ServiceTypeOK /\ FailuresAreCounted
  BY QueueFacts, Zenon
<1>3. /\ loaded /\ loaded' /\ cleanup' = cleanup
      /\ had_connection' \in BOOLEAN /\ connection' \in Connection
      /\ notices' \in Seq(Connection) /\ cleanup' \in CleanUp \cup {NoCleanUp}
      /\ userOps' \in 0..MaxUserOps /\ connections' \in 0..MaxConnections
      /\ restarts' \in 0..MaxRestarts /\ loaded' \in BOOLEAN
  <2>1. "remove" # "removeAll"
    OBVIOUS
  <2> QED
    BY <1>1, <1>2, <2>1, UserFacts
<1>4. /\ entries' \in [Urls -> Entry \cup {Absent}]
      /\ \A v \in Urls : v # u => entries'[v] = entries[v]
      /\ entries'[u] = Absent
  <2> DEFINE E == Entry \cup {Absent}
  <2>1. entries \in [Urls -> E] /\ Absent \in E
    BY <1>2, Zenon DEF ServiceTypeOK
  <2> HIDE DEF E
  <2>2. /\ entries' \in [Urls -> E]
        /\ \A v \in Urls : v # u => entries'[v] = entries[v]
        /\ entries'[u] = Absent
    BY <1>1, <2>1
  <2> QED
    BY <2>2 DEF E
<1>5. FailuresAreCounted'
  BY <1>2, <1>4, FailuresStay, Zenon DEF Present
<1>6. ServiceTypeOK'
  BY <1>1, <1>2, <1>3, <1>4, Zenon DEF ServiceTypeOK
<1> QED
  BY <1>1, <1>3, <1>4, <1>5, <1>6, RemovalStep, Zenon

(* The queue of DeleteAllEntries: the downloads of the URLs of S are gone,  *)
(* and a deletion of each of them is queued last.                           *)
LEMMA DeletionsQueue ==
  ASSUME NEW ts \in Seq(Task), Orderly(ts), NEW S \in SUBSET Urls,
         NEW order \in SetToSeqs(S)
  PROVE  \A q : q = Erase(ts, Downloads(S)) \o Deletions(order) =>
           /\ q \in Seq(Task) /\ Orderly(q)
           /\ \A u \in Urls :
                /\ Contains(q, DELETE(u)) <=> u \in S \/ Contains(ts, DELETE(u))
                /\ Contains(q, DOWNLOAD(u)) <=> u \notin S /\ Contains(ts, DOWNLOAD(u))
<1> DEFINE d == Deletions(order)
           D == Downloads(S)
           e == Erase(ts, D)
<1> SUFFICES ASSUME NEW q, q = e \o d
             PROVE  /\ q \in Seq(Task) /\ Orderly(q)
                    /\ \A u \in Urls :
                      /\ Contains(q, DELETE(u)) <=> u \in S \/ Contains(ts, DELETE(u))
                      /\ Contains(q, DOWNLOAD(u)) <=> u \notin S /\ Contains(ts, DOWNLOAD(u))
  BY Zenon
<1>1. /\ e \in Seq(Task)
      /\ \A t : Contains(e, t) <=> t \notin D /\ Contains(ts, t)
      /\ Orderly(e)
  BY EraseKeepsOrder, Zenon
<1>2. \A u \in Urls : (DOWNLOAD(u) \in D <=> u \in S) /\ DELETE(u) \notin D
  BY TasksDiffer DEF Downloads
<1>3. IsFiniteSet(S)
  BY ServiceAssumption, FS_Subset
<1>4. /\ order \in Seq(S)
      /\ DOMAIN order = 1 .. Len(order)
      /\ \A x \in S : \E k \in 1 .. Len(order) : order[k] = x
  BY <1>3, SetToSeqsProperties, Zenon
<1>5. Len(order) \in Nat /\ \A i \in 1 .. Len(order) : order[i] \in S
  BY <1>4
<1>6. /\ d \in Seq(Task) /\ Len(d) = Len(order)
      /\ \A i \in 1 .. Len(order) : d[i] = DELETE(order[i])
  <2>1. d = [i \in 1 .. Len(order) |-> DELETE(order[i])]
    BY <1>4 DEF Deletions
  <2>2. \A i \in 1 .. Len(order) : DELETE(order[i]) \in Task
    BY <1>5, TasksDiffer
  <2> QED
    BY <1>5, <2>1, <2>2
<1> HIDE DEF d, e, D
<1>7. /\ q \in Seq(Task) /\ Len(q) = Len(e) + Len(order) /\ Len(e) \in Nat
      /\ \A i \in 1 .. Len(e) : q[i] = e[i]
      /\ \A i \in 1 .. Len(q) : i \in 1 .. Len(e)
                                \/ (i - Len(e) \in 1 .. Len(order) /\ q[i] = DELETE(order[i - Len(e)]))
      /\ \A i \in 1 .. Len(order) : q[i + Len(e)] = DELETE(order[i]) /\ i + Len(e) \in 1 .. Len(q)
      /\ 1 .. Len(e) \subseteq 1 .. Len(q)
  <2>1. /\ q \in Seq(Task) /\ Len(q) = Len(e) + Len(d)
        /\ \A i \in 1 .. Len(e) + Len(d) : q[i] = IF i <= Len(e) THEN e[i] ELSE d[i - Len(e)]
    BY <1>1, <1>6, ConcatProperties
  <2>2. Len(e) \in Nat /\ Len(d) = Len(order) /\ Len(order) \in Nat
    BY <1>1, <1>5, <1>6
  <2>3. \A i \in 1 .. Len(e) : q[i] = e[i] /\ i \in 1 .. Len(q)
    BY <2>1, <2>2
  <2>4. ASSUME NEW i \in 1 .. Len(q), i \notin 1 .. Len(e)
        PROVE  i - Len(e) \in 1 .. Len(order) /\ q[i] = DELETE(order[i - Len(e)])
    <3>1. i - Len(e) \in 1 .. Len(order) /\ i \in 1 .. Len(e) + Len(d) /\ ~(i <= Len(e))
      BY <2>1, <2>2, <2>4
    <3>2. q[i] = d[i - Len(e)]
      BY <2>1, <3>1
    <3> QED
      BY <1>6, <3>1, <3>2
  <2>5. ASSUME NEW i \in 1 .. Len(order)
        PROVE  q[i + Len(e)] = DELETE(order[i]) /\ i + Len(e) \in 1 .. Len(q)
    <3>1. /\ i + Len(e) \in 1 .. Len(e) + Len(d) /\ ~(i + Len(e) <= Len(e))
          /\ i + Len(e) - Len(e) = i /\ i + Len(e) \in 1 .. Len(q)
      BY <2>1, <2>2
    <3>2. q[i + Len(e)] = d[i]
      BY <2>1, <3>1
    <3> QED
      BY <1>6, <3>1, <3>2
  <2> QED
    BY <2>1, <2>2, <2>3, <2>4, <2>5, Zenon
<1>8. ASSUME NEW u \in Urls
      PROVE  /\ Contains(q, DELETE(u)) <=> u \in S \/ Contains(ts, DELETE(u))
             /\ Contains(q, DOWNLOAD(u)) <=> u \notin S /\ Contains(ts, DOWNLOAD(u))
  <2>1. ASSUME NEW t PROVE Contains(q, t) <=> Contains(e, t) \/ \E k \in 1 .. Len(order) : DELETE(order[k]) = t
    <3>1. ASSUME Contains(q, t)
          PROVE  Contains(e, t) \/ \E k \in 1 .. Len(order) : DELETE(order[k]) = t
      <4>1. PICK i \in 1 .. Len(q) : q[i] = t
        BY <3>1, Zenon DEF Contains
      <4> QED
        BY <1>7, <4>1, Zenon DEF Contains
    <3>2. ASSUME Contains(e, t) PROVE Contains(q, t)
      BY <1>7, <3>2, Zenon DEF Contains
    <3>3. ASSUME NEW k \in 1 .. Len(order), DELETE(order[k]) = t PROVE Contains(q, t)
      BY <1>7, <3>3, Zenon DEF Contains
    <3> QED
      BY <3>1, <3>2, <3>3, Zenon
  <2>2. (\E k \in 1 .. Len(order) : DELETE(order[k]) = DELETE(u)) <=> u \in S
    <3>1. ASSUME NEW k \in 1 .. Len(order), DELETE(order[k]) = DELETE(u) PROVE u \in S
      <4>1. u = order[k]
        BY <3>1, TasksDiffer
      <4> QED
        BY <1>5, <4>1
    <3> QED
      BY <1>4, <3>1, Zenon
  <2>3. ~ \E k \in 1 .. Len(order) : DELETE(order[k]) = DOWNLOAD(u)
    BY <1>5, TasksDiffer
  <2>4. Contains(q, DELETE(u)) <=> u \in S \/ Contains(ts, DELETE(u))
    BY <1>1, <1>2, <2>1, <2>2, Zenon
  <2>5. Contains(q, DOWNLOAD(u)) <=> u \notin S /\ Contains(ts, DOWNLOAD(u))
    BY <1>1, <1>2, <2>1, <2>3, Zenon
  <2> QED
    BY <2>4, <2>5, Zenon
<1>9. Orderly(q)
  <2> SUFFICES ASSUME NEW u \in Urls, NEW i \in 1 .. Len(q), NEW j \in 1 .. Len(q),
                      i < j, q[i] = DOWNLOAD(u), q[j] = DELETE(u)
               PROVE  FALSE
    BY Zenon DEF Orderly
  <2>1. i \in 1 .. Len(e)
    <3> SUFFICES ASSUME i - Len(e) \in 1 .. Len(order), q[i] = DELETE(order[i - Len(e)])
                 PROVE  FALSE
      BY <1>7, Zenon
    <3>1. order[i - Len(e)] \in Urls
      BY <1>5
    <3> QED
      BY <3>1, TasksDiffer, Zenon
  <2>2. CASE j \in 1 .. Len(e)
    <3>1. e[i] = DOWNLOAD(u) /\ e[j] = DELETE(u)
      BY <1>7, <2>1, <2>2
    <3>2. Orderly(e)
      BY <1>1
    <3> QED
      BY <2>1, <2>2, <3>1, <3>2, Zenon DEF Orderly
  <2>3. CASE j - Len(e) \in 1 .. Len(order) /\ q[j] = DELETE(order[j - Len(e)])
    <3>1. order[j - Len(e)] \in S /\ order[j - Len(e)] \in Urls
      BY <1>5, <2>3
    <3>2. u = order[j - Len(e)]
      BY <2>3, <3>1, TasksDiffer, Zenon
    <3>3. u \in S /\ Contains(e, DOWNLOAD(u))
      BY <1>7, <2>1, <3>1, <3>2, Zenon DEF Contains
    <3> QED
      BY <1>1, <1>2, <3>3, Zenon
  <2>4. \/ j \in 1 .. Len(e)
        \/ j - Len(e) \in 1 .. Len(order) /\ q[j] = DELETE(order[j - Len(e)])
    BY <1>7, Zenon
  <2> QED
    BY <2>2, <2>3, <2>4, Zenon
<1> QED
  BY <1>7, <1>8, <1>9, Zenon

(* The list is emptied.                                                    *)
LEMMA DeleteAllStep ==
  ASSUME DownloadsIndInv, DeleteAllEntries, loaded',
         \/ loaded /\ cleanup' = cleanup
         \/ ~loaded /\ SyncWithModel(entries),
         ServiceTypeOK'
  PROVE  DownloadsIndInv'
<1>1. /\ tasks \in Seq(Task) /\ Orderly(tasks)
      /\ working \in BOOLEAN /\ distiller \in BOOLEAN
      /\ \A v \in Urls : UrlOK(v)
      /\ NothingBeforeLoad
      /\ working <=> job # NoJob
      /\ distiller => working
  BY QueueFacts, Zenon
<1>2. PICK S \in SUBSET Urls : S = Listed
  BY DEF Listed
<1>3. PICK ts \in Seq(Task) : ts = tasks
  BY <1>1, Zenon
<1>4. PICK order \in SetToSeqs(S) :
        /\ entries' = [u \in Urls |-> Absent]
        /\ HandleNextTask(Erase(ts, Downloads(S)) \o Deletions(order), working)
        /\ distiller' = distiller /\ mime' = mime /\ disk' = disk
  BY <1>2, <1>3, Zenon DEF DeleteAllEntries
<1>5. PICK q : q = Erase(ts, Downloads(S)) \o Deletions(order)
  BY Zenon
<1>6. /\ q \in Seq(Task) /\ Orderly(q)
      /\ \A u \in Urls :
           /\ Contains(q, DELETE(u)) <=> u \in S \/ Contains(ts, DELETE(u))
           /\ Contains(q, DOWNLOAD(u)) <=> u \notin S /\ Contains(ts, DOWNLOAD(u))
  <2>1. Orderly(ts)
    BY <1>1, <1>3
  <2> QED
    <3>1. \A x : x = Erase(ts, Downloads(S)) \o Deletions(order) =>
            /\ x \in Seq(Task) /\ Orderly(x)
            /\ \A u \in Urls :
                 /\ Contains(x, DELETE(u)) <=> u \in S \/ Contains(ts, DELETE(u))
                 /\ Contains(x, DOWNLOAD(u)) <=> u \notin S /\ Contains(ts, DOWNLOAD(u))
      BY <2>1, DeletionsQueue
    <3> QED
      BY <1>5, <3>1, Zenon
<1>7. HandleNextTask(q, working)
  BY <1>4, <1>5, Zenon
<1>8. \A u \in Urls : ~Present(u)' /\ entries'[u] = Absent
  BY <1>4 DEF Present
<1>9. FailuresAreCounted'
  BY <1>8, Zenon DEF FailuresAreCounted, Has
<1>10. ASSUME NEW v \in Urls
       PROVE  /\ ~Present(v)' =>
                   /\ ~Contains(q, DOWNLOAD(v))
                   /\ working /\ Handled(v) /\ job.step # "delete" => Contains(q, DELETE(v))
                   /\ disk[v] # "none" =>
                        \/ Contains(q, DELETE(v)) \/ CleanedUpAtStart(v)'
                        \/ working /\ Handled(v) /\ job.step = "delete"
              /\ disk[v] = "partial" =>
                   \/ Contains(q, DELETE(v)) \/ CleanedUpAtStart(v)'
                   \/ working /\ Handled(v) /\ job.step # "exists"
                   \/ Processed(v)' /\ ~Contains(q, DOWNLOAD(v)) /\ ~(working /\ Handled(v))
  <2>1. \A t : Queued(t) <=> Contains(ts, t)
    BY <1>3, Zenon DEF Queued
  <2>2. v \in S <=> Present(v)
    BY <1>2, Zenon DEF Listed, Present, Has
  <2>3. CASE v \in S
    BY <1>6, <2>3, Zenon
  <2>4. CASE v \notin S /\ loaded /\ cleanup' = cleanup
    <3>1. CleanedUpAtStart(v)' <=> CleanedUpAtStart(v)
      BY <2>4, Zenon DEF CleanedUpAtStart
    <3>2. Handled(v) => working
      BY <1>1, Zenon DEF Handled
    <3>3. UrlOK(v)
      BY <1>1
    <3>4. /\ ~Queued(DOWNLOAD(v))
          /\ Handled(v) /\ job.step # "delete" => Queued(DELETE(v))
          /\ disk[v] # "none" =>
              Queued(DELETE(v)) \/ (Handled(v) /\ job.step = "delete") \/ CleanedUpAtStart(v)
      BY <2>2, <2>4, <3>3, Zenon DEF UrlOK
    <3>5. disk[v] = "partial" => disk[v] # "none"
      OBVIOUS
    <3>6. job.step = "delete" => job.step # "exists"
      OBVIOUS
    <3> QED
      BY <1>6, <2>1, <3>1, <3>2, <3>4, <3>5, <3>6, Zenon
  <2>5. CASE v \notin S /\ ~loaded /\ SyncWithModel(entries)
    <3>1. tasks = <<>> /\ job = NoJob
      BY <1>1, <2>5, Zenon DEF NothingBeforeLoad
    <3>2. ~Queued(DOWNLOAD(v))
      <4>1. Len(tasks) = 0
        BY <3>1, EmptySeq
      <4> QED
        BY <4>1 DEF Queued, Contains
    <3>3. ~working
      BY <1>1, <3>1, Zenon
    <3>4. CleanedUpAtStart(v)'
      <4>1. entries[v].state # "PROCESSED"
        BY <2>2, <2>5, NewEntryFacts DEF Present
      <4>2. cleanup'.phase = "posted" /\ v \notin cleanup'.keep
        BY <2>5, <4>1 DEF SyncWithModel
      <4> QED
        BY <4>2, Zenon DEF CleanedUpAtStart
    <3> QED
      BY <1>6, <2>1, <2>5, <3>2, <3>3, <3>4, Zenon
  <2> QED
    BY <2>3, <2>4, <2>5, Zenon
<1>11. distiller' \in BOOLEAN /\ (distiller' => working /\ distiller)
  BY <1>1, <1>4, Zenon
<1> QED
  BY <1>1, <1>4, <1>6, <1>7, <1>9, <1>10, <1>11, QueueStep, Zenon

(* The user marks a page read or unread.                                   *)
LEMMA MoveEntryStep ==
  ASSUME DownloadsIndInv, NEW u \in Urls, MoveEntry(u)
  PROVE  DownloadsIndInv'
<1>1. /\ UserStep("move")
      /\ Has(entries, u)
      /\ entries' = [entries EXCEPT ![u].read = ~@]
      /\ url_to_download_cellular' = url_to_download_cellular
      /\ url_to_download_wifi' = url_to_download_wifi /\ remover' = remover
      /\ \/ CancelDownloadOfflineURL(u) /\ timers' = timers
         \/ /\ timers' = Plus(timers, {v \in {u} : ToDownload(entries', v)})
            /\ UNCHANGED downloaderVars
  BY Zenon DEF MoveEntry, Schedule
<1>2. /\ tasks \in Seq(Task) /\ Orderly(tasks) /\ ServiceTypeOK /\ FailuresAreCounted
      /\ \A v \in Urls : UrlOK(v)
  BY QueueFacts, Zenon
<1>3. /\ loaded /\ loaded' /\ cleanup' = cleanup
      /\ had_connection' \in BOOLEAN /\ connection' \in Connection
      /\ notices' \in Seq(Connection) /\ cleanup' \in CleanUp \cup {NoCleanUp}
      /\ userOps' \in 0..MaxUserOps /\ connections' \in 0..MaxConnections
      /\ restarts' \in 0..MaxRestarts /\ loaded' \in BOOLEAN
  <2>1. "move" # "removeAll"
    OBVIOUS
  <2> QED
    BY <1>1, <1>2, <2>1, UserFacts
<1>4. /\ entries' \in [Urls -> Entry \cup {Absent}]
      /\ \A v \in Urls : v # u => entries'[v] = entries[v]
      /\ entries'[u] # Absent /\ entries'[u].state = entries[u].state
      /\ entries'[u].fails = entries[u].fails
  <2> DEFINE E == Entry \cup {Absent}
             B == BOOLEAN
             x == [entries[u] EXCEPT !.read = ~@]
  <2>1. entries \in [Urls -> E] /\ entries[u] \in Entry
    BY <1>1, <1>2, Zenon DEF ServiceTypeOK, Has
  <2>2. PICK e \in Entry, r \in BOOLEAN : e = entries[u] /\ r = ~e.read
    BY <2>1, Zenon
  <2>3. e \in [state : DistilledState, read : B, fails : 0..kNumberOfFailsBeforeStop] /\ r \in B
    BY Zenon DEF Entry
  <2>4. x = [e EXCEPT !.read = r]
    BY <2>2
  <2>5. "absent" \notin DistilledState
    BY DEF DistilledState
  <2>6. /\ x \in Entry /\ x.state = e.state /\ x.fails = e.fails /\ x.state \in DistilledState
    <3> HIDE DEF x, B
    <3>1. /\ x \in [state : DistilledState, read : B, fails : 0..kNumberOfFailsBeforeStop]
          /\ x.state = e.state /\ x.fails = e.fails /\ x.state \in DistilledState
      BY <2>3, <2>4
    <3> QED
      BY <3>1 DEF Entry, B
  <2>7. x # Absent
    <3> HIDE DEF x
    <3> QED
      BY <2>5, <2>6, NewEntryFacts
  <2>8. entries' = [entries EXCEPT ![u] = x]
    BY <1>1
  <2>9. x \in E
    BY <2>6
  <2> HIDE DEF E, x, B
  <2>10. /\ entries' \in [Urls -> E] /\ entries'[u] = x
         /\ \A v \in Urls : v # u => entries'[v] = entries[v]
    BY <2>1, <2>8, <2>9
  <2> QED
    BY <2>2, <2>6, <2>7, <2>10 DEF E
<1>5. \A v \in Urls : (Present(v)' <=> Present(v)) /\ (Processed(v)' <=> Processed(v))
  BY <1>1, <1>4 DEF Present, Processed, Has
<1>6. FailuresAreCounted'
  <2>1. entries[u].state # "DISTILLATION_ERROR" => entries[u].fails < kNumberOfFailsBeforeStop
    BY <1>1, <1>2, Zenon DEF FailuresAreCounted
  <2> QED
    BY <1>2, <1>4, <2>1, FailuresStay
<1>7. timers' \in [Urls -> Nat]
  <2>1. timers' = timers \/ \E S : timers' = Plus(timers, S)
    BY <1>1, Zenon
  <2>2. timers \in [Urls -> Nat]
    BY <1>2, Zenon DEF ServiceTypeOK
  <2> QED
    BY <2>1, <2>2, PlusType, Zenon
<1>8. ServiceTypeOK'
  BY <1>1, <1>2, <1>3, <1>4, <1>7, Zenon DEF ServiceTypeOK
<1>9. /\ \E S : tasks' = Erase(tasks, S) \/ tasks' = tasks
      /\ working' = working /\ distiller' = distiller
      /\ mime' = mime /\ job' = job /\ disk' = disk
  BY <1>1, Zenon DEF CancelDownloadOfflineURL, WithoutDownload, downloaderVars
<1>10. /\ tasks' \in Seq(Task) /\ Orderly(tasks')
       /\ tasks = <<>> => tasks' = <<>>
       /\ \A t : Contains(tasks', t) => Contains(tasks, t)
       /\ \A v \in Urls : Contains(tasks, DELETE(v)) => Contains(tasks', DELETE(v))
  <2>1. CASE UNCHANGED downloaderVars
    BY <1>2, <2>1, Zenon DEF downloaderVars
  <2>2. CASE CancelDownloadOfflineURL(u)
    <3>1. PICK ts \in Seq(Task) : ts = tasks
      BY <1>2, Zenon
    <3>2. PICK e : e = Erase(ts, {DOWNLOAD(u)})
      BY Zenon
    <3>3. tasks' = e
      BY <2>2, <3>1, <3>2, Zenon DEF CancelDownloadOfflineURL, WithoutDownload
    <3>4. /\ e \in Seq(Task)
          /\ \A t : Contains(e, t) <=> t \notin {DOWNLOAD(u)} /\ Contains(ts, t)
          /\ Orderly(ts) => Orderly(e)
          /\ ts = <<>> => e = <<>>
      BY <3>2, EraseKeepsOrder, Zenon
    <3>5. \A v \in Urls : DELETE(v) \notin {DOWNLOAD(u)}
      BY TasksDiffer, Zenon
    <3> QED
      BY <1>2, <3>1, <3>3, <3>4, <3>5, Zenon
  <2> QED
    BY <1>1, <2>1, <2>2, Zenon
<1>11. TypeOK'
  <2>1. DownloaderTypeOK
    BY Zenon DEF DownloadsIndInv, TypeOK
  <2> QED
    BY <1>8, <1>9, <1>10, <2>1, Zenon DEF TypeOK, ServiceTypeOK, DownloaderTypeOK
<1>12. OneTaskAtATime'
  <2>1. OneTaskAtATime
    BY Zenon DEF DownloadsIndInv
  <2>2. working' = working /\ job' = job /\ distiller' = distiller
    BY <1>9
  <2>3. /\ working' <=> job' # NoJob
        /\ ~working' => tasks' = <<>>
    BY <1>10, <2>1, <2>2, SMT DEF OneTaskAtATime
  <2>4. distiller' => job'.step \in {"distill", "fetch", "save", "cleanup"}
    BY <2>1, <2>2, SMT DEF OneTaskAtATime
  <2> QED
    BY <2>3, <2>4, Zenon DEF OneTaskAtATime
<1>13. DeletionsComeFirst'
  BY <1>10, Zenon DEF DeletionsComeFirst, Orderly
<1>14. FilesOfDoneJob'
  BY <1>9, Zenon DEF DownloadsIndInv, FilesOfDoneJob
<1>15. NothingBeforeLoad'
  BY <1>3, Zenon DEF NothingBeforeLoad
<1>16. ASSUME NEW v \in Urls PROVE UrlOK(v)'
  <2>1. /\ \A t : Queued(t)' <=> Contains(tasks', t)
        /\ \A t : Queued(t) <=> Contains(tasks, t)
        /\ Handled(v)' <=> Handled(v)
        /\ CleanedUpAtStart(v)' <=> CleanedUpAtStart(v)
    BY <1>3, <1>9, Zenon DEF Queued, Contains, Handled, CleanedUpAtStart
  <2>2. disk'[v] = disk[v] /\ job'.step = job.step
    BY <1>9, Zenon
  <2>3. /\ Queued(DELETE(v)) => Queued(DELETE(v))'
        /\ Queued(DOWNLOAD(v))' => Queued(DOWNLOAD(v))
    BY <1>10, <2>1, Zenon
  <2> QED
    BY <1>2, <1>3, <1>5, <2>1, <2>2, <2>3, UrlStays, Zenon
<1> QED
  BY <1>6, <1>11, <1>12, <1>13, <1>14, <1>15, <1>16, Zenon DEF DownloadsIndInv

(* The list is to be emptied.                                              *)
LEMMA RemoveAllStep ==
  ASSUME DownloadsIndInv, RemoveAllUserReadingListItemsIOS
  PROVE  DownloadsIndInv'
<1>1. /\ UserStep("removeAll")
      /\ UNCHANGED <<timers, url_to_download_cellular, url_to_download_wifi>>
      /\ \/ loaded /\ DeleteAllEntries /\ remover' = "posted"
         \/ ~loaded /\ remover' = "waiting" /\ UNCHANGED <<downloaderVars, entries>>
  BY Zenon DEF RemoveAllUserReadingListItemsIOS, waitingVars
<1>2. ServiceTypeOK /\ NothingBeforeLoad
  BY QueueFacts, Zenon
<1>3. /\ loaded' = loaded /\ cleanup' = cleanup
      /\ had_connection' \in BOOLEAN /\ connection' \in Connection
      /\ notices' \in Seq(Connection) /\ cleanup' \in CleanUp \cup {NoCleanUp}
      /\ userOps' \in 0..MaxUserOps /\ connections' \in 0..MaxConnections
      /\ restarts' \in 0..MaxRestarts /\ loaded' \in BOOLEAN
  BY <1>1, <1>2, UserFacts
<1>4. entries' \in [Urls -> Entry \cup {Absent}]
  <2>1. CASE DeleteAllEntries
    <3>1. entries' = [u \in Urls |-> Absent]
      BY <2>1, Zenon DEF DeleteAllEntries
    <3> QED
      BY <3>1
  <2>2. CASE entries' = entries
    BY <1>2, <2>2, Zenon DEF ServiceTypeOK
  <2> QED
    BY <1>1, <2>1, <2>2, Zenon
<1>5. remover' \in {"none", "waiting", "posted"}
  BY <1>1
<1>6. ServiceTypeOK'
  BY <1>1, <1>2, <1>3, <1>4, <1>5, Zenon DEF ServiceTypeOK
<1>7. CASE loaded /\ DeleteAllEntries
  <2>1. loaded'
    BY <1>3, <1>7, Zenon
  <2> QED
    BY <1>3, <1>6, <1>7, <2>1, DeleteAllStep, Zenon
<1>8. CASE ~loaded /\ UNCHANGED <<downloaderVars, entries>>
  <2>1. NothingBeforeLoad'
    BY <1>1, <1>2, <1>3, <1>8, Zenon DEF NothingBeforeLoad, downloaderVars
  <2> QED
    BY <1>3, <1>6, <1>8, <2>1, DownloaderStays, Zenon DEF listVars
<1> QED
  BY <1>1, <1>7, <1>8, Zenon

(* The record of a clean-up, at each of its phases.                        *)
LEMMA CleanUpCases ==
  ASSUME NEW c \in CleanUp \cup {NoCleanUp}
  PROVE  /\ c.phase = "posted" => c \in CleanUpIn({"posted", "done"}, {{}})
         /\ c.phase = "done" => c \in CleanUpIn({"posted", "done"}, {{}})
         /\ c.phase = "deleting" => c \in CleanUpIn({"deleting"}, SUBSET Urls)
         /\ c.phase \in {"posted", "done", "deleting"} => c # NoCleanUp
<1>1. NoCleanUp.phase = "none"
  BY DEF NoCleanUp
<1>2. c \in CleanUpIn({"posted", "done"}, {{}}) => c.phase \in {"posted", "done"}
  BY DEF CleanUpIn
<1>3. c \in CleanUpIn({"deleting"}, SUBSET Urls) => c.phase = "deleting"
  BY DEF CleanUpIn
<1>4. \/ c \in CleanUpIn({"posted", "done"}, {{}})
      \/ c \in CleanUpIn({"deleting"}, SUBSET Urls)
      \/ c = NoCleanUp
  BY Zenon DEF CleanUp
<1> QED
  BY <1>1, <1>2, <1>3, <1>4

(* CleanUpFiles looks at the directories.                                  *)
LEMMA CleanUpScanStep ==
  ASSUME DownloadsIndInv, CleanUpScan
  PROVE  DownloadsIndInv'
<1>1. /\ cleanup.phase = "posted"
      /\ cleanup' = [cleanup EXCEPT !.phase = "deleting", !.todo = DirectoriesToDelete]
      /\ UNCHANGED <<downloaderVars, listVars, waitingVars, netVars, remover, boundVars>>
  BY Zenon DEF CleanUpScan
<1>2. ServiceTypeOK /\ FailuresAreCounted /\ \A v \in Urls : UrlOK(v)
  BY QueueFacts, Zenon
<1>3. cleanup \in CleanUpIn({"posted", "done"}, {{}}) /\ cleanup # NoCleanUp
  BY <1>1, <1>2, CleanUpCases DEF ServiceTypeOK
<1>4. PICK todo \in SUBSET Urls : todo = {u \in Urls : disk[u] # "none"} \ cleanup.keep
  BY Zenon
<1>5. /\ cleanup' \in CleanUpIn({"deleting"}, SUBSET Urls)
      /\ cleanup'.phase = "deleting" /\ cleanup'.todo = todo
  BY <1>1, <1>3, <1>4 DEF CleanUpIn, DirectoriesToDelete
<1>6. ServiceTypeOK'
  <2>1. cleanup' \in CleanUp \cup {NoCleanUp}
    BY <1>5, Zenon DEF CleanUp
  <2> QED
    BY <1>1, <1>2, <2>1, Zenon DEF ServiceTypeOK, listVars, waitingVars, netVars, boundVars
<1>7. /\ tasks' = tasks /\ working' = working /\ distiller' = distiller
      /\ mime' = mime /\ job' = job /\ disk' = disk /\ entries' = entries /\ loaded' = loaded
  BY <1>1, Zenon DEF downloaderVars, listVars
<1>8. loaded /\ loaded'
  BY <1>3, <1>7, WorksWhenLoaded, Zenon
<1>9. FailuresAreCounted'
  BY <1>2, <1>7, Zenon DEF FailuresAreCounted, Has
<1>10. ASSUME NEW v \in Urls PROVE UrlOK(v)'
  <2>1. /\ \A t : Queued(t)' <=> Queued(t)
        /\ Handled(v)' <=> Handled(v)
        /\ Present(v)' <=> Present(v)
        /\ Processed(v)' <=> Processed(v)
    BY <1>7, Zenon DEF Queued, Contains, Handled, Present, Processed
  <2>2. disk'[v] # "none" /\ CleanedUpAtStart(v) => CleanedUpAtStart(v)'
    <3> SUFFICES ASSUME disk'[v] # "none", CleanedUpAtStart(v) PROVE CleanedUpAtStart(v)'
      OBVIOUS
    <3>1. v \notin cleanup.keep
      BY <1>1 DEF CleanedUpAtStart
    <3>2. v \in todo
      BY <1>4, <1>7, <3>1
    <3> QED
      BY <1>5, <3>2, Zenon DEF CleanedUpAtStart
  <2>3. job'.step = job.step /\ disk'[v] = disk[v]
    BY <1>7, Zenon
  <2> QED
    BY <1>2, <1>8, <2>1, <2>2, <2>3, UrlStays, Zenon
<1>11. disk' \in [Urls -> Files] /\ \A v \in Urls : disk'[v] = disk[v]
  BY <1>7, Zenon DEF DownloadsIndInv, TypeOK, DownloaderTypeOK
<1> QED
  BY <1>6, <1>7, <1>8, <1>9, <1>10, <1>11, ListStep, Zenon

(* It deletes one of them, or ends.                                        *)
LEMMA CleanUpDeleteStep ==
  ASSUME DownloadsIndInv, CleanUpDelete
  PROVE  DownloadsIndInv'
<1>1. /\ cleanup.phase = "deleting"
      /\ UNCHANGED <<tasks, working, distiller, mime, job, listVars, waitingVars,
                     netVars, remover, boundVars>>
  BY Zenon DEF CleanUpDelete
<1>2. ServiceTypeOK /\ FailuresAreCounted /\ \A v \in Urls : UrlOK(v)
  BY QueueFacts, Zenon
<1>3. cleanup \in CleanUpIn({"deleting"}, SUBSET Urls) /\ cleanup # NoCleanUp
  BY <1>1, <1>2, CleanUpCases DEF ServiceTypeOK
<1>4. /\ tasks' = tasks /\ working' = working /\ distiller' = distiller
      /\ mime' = mime /\ job' = job /\ entries' = entries /\ loaded' = loaded
  BY <1>1, Zenon DEF listVars
<1>5. loaded /\ loaded'
  BY <1>3, <1>4, WorksWhenLoaded, Zenon
<1>6. FailuresAreCounted'
  BY <1>2, <1>4, Zenon DEF FailuresAreCounted, Has
<1>7. disk \in [Urls -> Files] /\ cleanup.todo \subseteq Urls
  <2>1. cleanup.todo \subseteq Urls
    BY <1>3 DEF CleanUpIn
  <2> QED
    BY <2>1, Zenon DEF DownloadsIndInv, TypeOK, DownloaderTypeOK
<1>8. /\ cleanup' \in CleanUp \cup {NoCleanUp}
      /\ disk' \in [Urls -> Files]
      /\ \A v \in Urls : disk'[v] = disk[v] \/ disk'[v] = "none"
      /\ \A v \in Urls : disk'[v] # "none" /\ CleanedUpAtStart(v) => CleanedUpAtStart(v)'
  <2>1. CASE \E u \in cleanup.todo :
               /\ disk' = [disk EXCEPT ![u] = "none"]
               /\ cleanup' = [cleanup EXCEPT !.todo = @ \ {u}]
    <3>1. PICK u \in cleanup.todo :
               /\ disk' = [disk EXCEPT ![u] = "none"]
               /\ cleanup' = [cleanup EXCEPT !.todo = @ \ {u}]
      BY <2>1
    <3>2. /\ cleanup' \in CleanUpIn({"deleting"}, SUBSET Urls)
          /\ cleanup'.phase = "deleting" /\ cleanup'.todo = cleanup.todo \ {u}
      BY <1>1, <1>3, <1>7, <3>1 DEF CleanUpIn
    <3>3. /\ disk' \in [Urls -> Files] /\ disk'[u] = "none"
          /\ \A v \in Urls : v # u => disk'[v] = disk[v]
      BY <1>7, <3>1 DEF Files
    <3>4. ASSUME NEW v \in Urls, disk'[v] # "none", CleanedUpAtStart(v)
          PROVE  CleanedUpAtStart(v)'
      <4>1. v # u /\ v \in cleanup.todo
        BY <1>1, <3>3, <3>4 DEF CleanedUpAtStart
      <4>2. v \in cleanup'.todo
        BY <3>2, <4>1
      <4> QED
        BY <3>2, <4>2, Zenon DEF CleanedUpAtStart
    <3> QED
      BY <3>2, <3>3, <3>4, Zenon DEF CleanUp
  <2>2. CASE CleanUpEnds /\ cleanup' = [cleanup EXCEPT !.phase = "done"] /\ disk' = disk
    <3>1. cleanup.todo = {}
      BY <2>2 DEF CleanUpEnds
    <3>2. cleanup' \in CleanUpIn({"posted", "done"}, {{}})
      BY <1>3, <2>2, <3>1 DEF CleanUpIn
    <3>3. \A v \in Urls : ~CleanedUpAtStart(v)
      BY <1>1, <3>1 DEF CleanedUpAtStart
    <3> QED
      BY <1>7, <2>2, <3>2, <3>3, Zenon DEF CleanUp
  <2> QED
    BY <2>1, <2>2, Zenon DEF CleanUpDelete
<1>9. ServiceTypeOK'
  BY <1>1, <1>2, <1>8, Zenon DEF ServiceTypeOK, listVars, waitingVars, netVars, boundVars
<1>10. ASSUME NEW v \in Urls PROVE UrlOK(v)'
  <2>1. /\ \A t : Queued(t)' <=> Queued(t)
        /\ Handled(v)' <=> Handled(v)
        /\ Present(v)' <=> Present(v)
        /\ Processed(v)' <=> Processed(v)
    BY <1>4, Zenon DEF Queued, Contains, Handled, Present, Processed
  <2>2. job'.step = job.step
    BY <1>4, Zenon
  <2> QED
    BY <1>2, <1>5, <1>8, <2>1, <2>2, UrlStays, Zenon
<1> QED
  BY <1>4, <1>5, <1>6, <1>8, <1>9, <1>10, ListStep, Zenon

(* The reply of CleanUpFiles schedules the downloads.                      *)
LEMMA DownloadUnprocessedStep ==
  ASSUME DownloadsIndInv, DownloadUnprocessedEntries
  PROVE  DownloadsIndInv'
<1>1. /\ cleanup.phase = "done" /\ cleanup' = NoCleanUp
      /\ Schedule(cleanup.unprocessed, entries)
      /\ UNCHANGED <<downloaderVars, listVars, url_to_download_cellular,
                     url_to_download_wifi, netVars, remover, boundVars>>
  BY Zenon DEF DownloadUnprocessedEntries
<1>2. ServiceTypeOK /\ FailuresAreCounted /\ \A v \in Urls : UrlOK(v)
  BY QueueFacts, Zenon
<1>3. cleanup # NoCleanUp
  BY <1>1, <1>2, CleanUpCases DEF ServiceTypeOK
<1>4. /\ tasks' = tasks /\ working' = working /\ distiller' = distiller /\ disk' = disk
      /\ mime' = mime /\ job' = job /\ entries' = entries /\ loaded' = loaded
  BY <1>1, Zenon DEF listVars, downloaderVars
<1>5. loaded /\ loaded'
  BY <1>3, <1>4, WorksWhenLoaded, Zenon
<1>6. FailuresAreCounted'
  BY <1>2, <1>4, Zenon DEF FailuresAreCounted, Has
<1>7. timers' \in [Urls -> Nat]
  <2>1. PICK S : timers' = Plus(timers, S)
    BY <1>1, Zenon DEF Schedule
  <2>2. timers \in [Urls -> Nat]
    BY <1>2, Zenon DEF ServiceTypeOK
  <2> QED
    BY <2>1, <2>2, PlusType, Zenon
<1>8. ServiceTypeOK'
  BY <1>1, <1>2, <1>7, Zenon DEF ServiceTypeOK, listVars, netVars, boundVars
<1>9. ASSUME NEW v \in Urls PROVE UrlOK(v)'
  <2>1. /\ \A t : Queued(t)' <=> Queued(t)
        /\ Handled(v)' <=> Handled(v)
        /\ Present(v)' <=> Present(v)
        /\ Processed(v)' <=> Processed(v)
    BY <1>4, Zenon DEF Queued, Contains, Handled, Present, Processed
  <2>2. ~CleanedUpAtStart(v)
    BY <1>1 DEF CleanedUpAtStart
  <2>3. job'.step = job.step /\ disk'[v] = disk[v]
    BY <1>4, Zenon
  <2> QED
    BY <1>2, <1>5, <2>1, <2>2, <2>3, UrlStays, Zenon
<1>10. disk' \in [Urls -> Files] /\ \A v \in Urls : disk'[v] = disk[v]
  BY <1>4, Zenon DEF DownloadsIndInv, TypeOK, DownloaderTypeOK
<1> QED
  BY <1>4, <1>5, <1>6, <1>8, <1>9, <1>10, ListStep, Zenon

(* The list is loaded: whatever an earlier session left is kept by a        *)
(* PROCESSED entry, or cleaned up, or deleted with the list.                *)
LEMMA ModelLoadedStep ==
  ASSUME DownloadsIndInv, ReadingListModelLoaded
  PROVE  DownloadsIndInv'
<1>1. /\ ~loaded /\ loaded' = TRUE
      /\ SyncWithModel(entries)
      /\ UNCHANGED <<waitingVars, netVars, boundVars>>
      /\ \/ DeleteAllEntries /\ remover' = "posted"
         \/ UNCHANGED <<downloaderVars, entries, remover>>
  BY Zenon DEF ReadingListModelLoaded
<1>2. ServiceTypeOK /\ FailuresAreCounted /\ NothingBeforeLoad
  BY QueueFacts, Zenon
<1>3. entries' \in [Urls -> Entry \cup {Absent}] /\ remover' \in {"none", "waiting", "posted"}
  <2>1. CASE DeleteAllEntries /\ remover' = "posted"
    <3>1. entries' = [u \in Urls |-> Absent]
      BY <2>1, Zenon DEF DeleteAllEntries
    <3> QED
      BY <2>1, <3>1
  <2>2. CASE entries' = entries /\ remover' = remover
    BY <1>2, <2>2, Zenon DEF ServiceTypeOK
  <2> QED
    BY <1>1, <2>1, <2>2, Zenon
<1>4. /\ cleanup' \in CleanUp \cup {NoCleanUp} /\ cleanup'.phase = "posted"
      /\ cleanup'.keep = {u \in Urls : entries[u].state = "PROCESSED"}
  <2> DEFINE K == {u \in Urls : entries[u].state = "PROCESSED"}
             U == {u \in Urls : entries[u].state \in {"WAITING", "PROCESSING", "WILL_RETRY"}}
  <2>1. cleanup' = [phase |-> "posted", keep |-> K, todo |-> {}, unprocessed |-> U]
    BY <1>1, Zenon DEF SyncWithModel
  <2>2. K \in SUBSET Urls /\ U \in SUBSET Urls
    BY Zenon
  <2> HIDE DEF K, U
  <2>3. cleanup' \in CleanUpIn({"posted", "done"}, {{}})
    BY <2>1, <2>2 DEF CleanUpIn
  <2>4. cleanup'.phase = "posted" /\ cleanup'.keep = K
    BY <2>1
  <2> QED
    BY <2>3, <2>4, Zenon DEF CleanUp, K
<1>5. loaded' \in BOOLEAN /\ loaded'
  BY <1>1, Zenon
<1>6. ServiceTypeOK'
  BY <1>1, <1>2, <1>3, <1>4, <1>5, Zenon DEF ServiceTypeOK, waitingVars, netVars, boundVars
<1>7. CASE DeleteAllEntries
  BY <1>1, <1>5, <1>6, <1>7, DeleteAllStep, Zenon
<1>8. CASE UNCHANGED <<downloaderVars, entries>>
  <2>1. /\ tasks' = tasks /\ working' = working /\ distiller' = distiller /\ disk' = disk
        /\ mime' = mime /\ job' = job /\ entries' = entries
    BY <1>8, Zenon DEF downloaderVars
  <2>2. tasks = <<>> /\ job = NoJob
    BY <1>1, <1>2, Zenon DEF NothingBeforeLoad
  <2>3. FailuresAreCounted'
    BY <1>2, <2>1, Zenon DEF FailuresAreCounted, Has
  <2>4. ASSUME NEW v \in Urls PROVE UrlOK(v)'
    <3>1. Len(tasks) = 0
      BY <2>2, EmptySeq
    <3>2. ~Queued(DOWNLOAD(v))' /\ ~Handled(v)'
      BY <2>1, <2>2, <3>1 DEF Queued, Contains, Handled
    <3>3. ~Processed(v)' => CleanedUpAtStart(v)'
      BY <1>4, <2>1 DEF Processed, CleanedUpAtStart
    <3>4. ~Present(v)' => ~Processed(v)'
      BY NewEntryFacts DEF Present, Processed
    <3> QED
      BY <3>2, <3>3, <3>4, Zenon DEF UrlOK
  <2>5. disk' \in [Urls -> Files] /\ \A v \in Urls : disk'[v] = disk[v]
    BY <2>1, Zenon DEF DownloadsIndInv, TypeOK, DownloaderTypeOK
  <2> QED
    BY <1>5, <1>6, <2>1, <2>3, <2>4, <2>5, ListStep, Zenon
<1> QED
  BY <1>1, <1>7, <1>8, Zenon

(* The completion of the remover.                                          *)
LEMMA ItemsRemovedStep ==
  ASSUME DownloadsIndInv, ReadlingListItemsRemoved
  PROVE  DownloadsIndInv'
<1>1. /\ remover' = "none"
      /\ UNCHANGED <<downloaderVars, listVars, waitingVars, netVars, cleanup, boundVars>>
  BY Zenon DEF ReadlingListItemsRemoved
<1>2. ServiceTypeOK /\ NothingBeforeLoad
  BY QueueFacts, Zenon
<1>3. remover' \in {"none", "waiting", "posted"}
  BY <1>1
<1>4. ServiceTypeOK'
  BY <1>1, <1>2, <1>3, Zenon DEF ServiceTypeOK, listVars, waitingVars, netVars, boundVars
<1>5. NothingBeforeLoad'
  BY <1>1, <1>2, Zenon DEF NothingBeforeLoad, listVars, waitingVars, downloaderVars
<1> QED
  BY <1>1, <1>4, <1>5, DownloaderStays, Zenon

(* The connection changes.                                                 *)
LEMMA ConnectionChangesStep ==
  ASSUME DownloadsIndInv, ConnectionChanges
  PROVE  DownloadsIndInv'
<1>1. /\ connections < MaxConnections /\ connections' = connections + 1
      /\ UNCHANGED <<downloaderVars, listVars, waitingVars, had_connection, cleanup,
                     remover, userOps, restarts>>
  BY Zenon DEF ConnectionChanges
<1>2. PICK c \in Connection : connection' = c /\ notices' = Append(notices, c)
  BY Zenon DEF ConnectionChanges
<1>3. ServiceTypeOK /\ NothingBeforeLoad
  BY QueueFacts, Zenon
<1>4. connections' \in 0..MaxConnections /\ connection' \in Connection
      /\ notices' \in Seq(Connection)
  <2>1. connections \in 0..MaxConnections /\ notices \in Seq(Connection)
    BY <1>3, Zenon DEF ServiceTypeOK
  <2> QED
    BY <1>1, <1>2, <2>1, ServiceAssumption
<1>5. ServiceTypeOK'
  BY <1>1, <1>3, <1>4, Zenon DEF ServiceTypeOK, listVars, waitingVars
<1>6. NothingBeforeLoad'
  BY <1>1, <1>3, Zenon DEF NothingBeforeLoad, listVars, waitingVars, downloaderVars
<1> QED
  BY <1>1, <1>5, <1>6, DownloaderStays, Zenon

(* The service hears of it.                                                *)
LEMMA OnConnectionChangedStep ==
  ASSUME DownloadsIndInv, OnConnectionChanged
  PROVE  DownloadsIndInv'
<1>1. /\ notices # <<>> /\ notices' = Tail(notices)
      /\ UNCHANGED <<downloaderVars, listVars, url_to_download_cellular,
                     url_to_download_wifi, connection, cleanup, remover, boundVars>>
  BY Zenon DEF OnConnectionChanged
<1>2. had_connection' \in BOOLEAN
  <2>1. had_connection' = (Head(notices) # "none")
    BY Zenon DEF OnConnectionChanged
  <2> QED
    BY <2>1, Zenon
<1>3. ServiceTypeOK /\ NothingBeforeLoad
  BY QueueFacts, Zenon
<1>4. notices' \in Seq(Connection)
  <2>1. notices \in Seq(Connection)
    BY <1>3, Zenon DEF ServiceTypeOK
  <2> QED
    BY <1>1, <2>1
<1>5. PICK A, B : timers' = [u \in Urls |-> timers[u]
                       + (IF u \in A THEN url_to_download_cellular[u] ELSE 0)
                       + (IF u \in B THEN url_to_download_wifi[u] ELSE 0)]
  <2> DEFINE type == Head(notices)
             W(f) == {u \in Urls : f[u] > 0 /\ ToDownload(entries, u)}
             cellular == ~had_connection /\ type # "none"
             A0 == {u \in W(url_to_download_cellular) : cellular}
             B0 == {u \in W(url_to_download_wifi) : type = "wifi"}
  <2>1. timers' = [u \in Urls |->
             timers[u]
             + (IF cellular /\ u \in W(url_to_download_cellular)
                THEN url_to_download_cellular[u] ELSE 0)
             + (IF type = "wifi" /\ u \in W(url_to_download_wifi)
                THEN url_to_download_wifi[u] ELSE 0)]
    BY Zenon DEF OnConnectionChanged
  <2>2. \A u \in Urls : /\ (cellular /\ u \in W(url_to_download_cellular)) <=> u \in A0
                        /\ (type = "wifi" /\ u \in W(url_to_download_wifi)) <=> u \in B0
    BY Zenon
  <2> HIDE DEF W, cellular, type, A0, B0
  <2>3. timers' = [u \in Urls |-> timers[u]
                       + (IF u \in A0 THEN url_to_download_cellular[u] ELSE 0)
                       + (IF u \in B0 THEN url_to_download_wifi[u] ELSE 0)]
    BY <2>1, <2>2
  <2> QED
    BY <2>3
<1>6. timers' \in [Urls -> Nat]
  <2>1. /\ timers \in [Urls -> Nat] /\ url_to_download_cellular \in [Urls -> Nat]
        /\ url_to_download_wifi \in [Urls -> Nat]
    BY <1>3, Zenon DEF ServiceTypeOK
  <2> QED
    BY <1>5, <2>1
<1>7. ServiceTypeOK'
  BY <1>1, <1>2, <1>3, <1>4, <1>6, Zenon DEF ServiceTypeOK, listVars, boundVars
<1>8. NothingBeforeLoad'
  <2>1. /\ tasks' = tasks /\ job' = job /\ cleanup' = cleanup /\ loaded' = loaded
        /\ url_to_download_cellular' = url_to_download_cellular
        /\ url_to_download_wifi' = url_to_download_wifi
    BY <1>1, Zenon DEF listVars, downloaderVars
  <2>2. CASE loaded
    BY <2>1, <2>2, Zenon DEF NothingBeforeLoad
  <2>3. CASE ~loaded
    <3>1. timers = None /\ url_to_download_cellular = None /\ url_to_download_wifi = None
      BY <1>3, <2>3, Zenon DEF NothingBeforeLoad
    <3>2. timers' = None
      BY <1>5, <3>1 DEF None
    <3> QED
      BY <1>3, <2>1, <2>3, <3>1, <3>2, Zenon DEF NothingBeforeLoad
  <2> QED
    BY <2>2, <2>3
<1> QED
  BY <1>1, <1>7, <1>8, DownloaderStays, Zenon

(* The program ends and starts again: the files and the list are left.     *)
LEMMA RestartStep ==
  ASSUME DownloadsIndInv, Restart
  PROVE  DownloadsIndInv'
<1>1. /\ restarts < MaxRestarts /\ restarts' = restarts + 1
      /\ tasks' = <<>> /\ working' = FALSE /\ distiller' = FALSE /\ mime' = ""
      /\ job' = NoJob
      /\ UNCHANGED <<disk, entries, connection, userOps, connections>>
  BY Zenon DEF Restart
<1>2. /\ loaded' = FALSE /\ timers' = None /\ url_to_download_cellular' = None
      /\ url_to_download_wifi' = None /\ had_connection' = (connection # "none")
      /\ notices' = <<>> /\ cleanup' = NoCleanUp /\ remover' = "none"
  BY Zenon DEF Restart, Started
<1>3. ServiceTypeOK /\ FailuresAreCounted
  BY QueueFacts, Zenon
<1>4. None \in [Urls -> Nat]
  BY DEF None
<1>5. restarts' \in 0..MaxRestarts
  <2>1. restarts \in 0..MaxRestarts
    BY <1>3, Zenon DEF ServiceTypeOK
  <2>2. restarts < MaxRestarts /\ restarts' = restarts + 1
    BY Zenon DEF Restart
  <2> QED
    BY <2>1, <2>2, ServiceAssumption
<1>6. <<>> \in Seq(Connection) /\ <<>> \in Seq(Task)
  BY EmptySeq
<1>7. /\ loaded' \in BOOLEAN /\ had_connection' \in BOOLEAN
      /\ notices' \in Seq(Connection) /\ cleanup' \in CleanUp \cup {NoCleanUp}
      /\ remover' \in {"none", "waiting", "posted"}
      /\ working' \in BOOLEAN /\ distiller' \in BOOLEAN /\ mime' \in {"", "pdf", "other"}
      /\ ~loaded' /\ ~distiller' /\ ~working'
  BY <1>1, <1>2, <1>6, Zenon
<1>8. ServiceTypeOK'
  BY <1>1, <1>2, <1>3, <1>4, <1>5, <1>7, Zenon DEF ServiceTypeOK
<1>9. DownloaderTypeOK'
  <2>1. disk \in [Urls -> Files]
    BY Zenon DEF DownloadsIndInv, TypeOK, DownloaderTypeOK
  <2> QED
    BY <1>1, <1>6, <1>7, <2>1, Zenon DEF DownloaderTypeOK
<1>10. TypeOK'
  BY <1>8, <1>9, Zenon DEF TypeOK, ServiceTypeOK
<1>11. OneTaskAtATime' /\ FilesOfDoneJob'
  BY <1>1, <1>7, Zenon DEF OneTaskAtATime, FilesOfDoneJob
<1>12. DeletionsComeFirst'
  <2>1. Len(tasks') = 0
    BY <1>1, EmptySeq
  <2> QED
    BY <2>1 DEF DeletionsComeFirst
<1>13. NothingBeforeLoad'
  BY <1>1, <1>2, Zenon DEF NothingBeforeLoad
<1>14. FailuresAreCounted'
  BY <1>1, <1>3, Zenon DEF FailuresAreCounted, Has
<1>15. \A u \in Urls : UrlOK(u)'
  BY <1>7, Zenon DEF UrlOK
<1> QED
  BY <1>10, <1>11, <1>12, <1>13, <1>14, <1>15, Zenon DEF DownloadsIndInv

-----------------------------------------------------------------------------
(* The first state, every step, and the theorems.                          *)

(* The invariant holds at first.                                           *)
LEMMA DownloadsInit ==
  ASSUME Init
  PROVE  DownloadsIndInv
<1>1. /\ tasks = <<>> /\ working = FALSE /\ distiller = FALSE /\ mime = "" /\ job = NoJob
      /\ disk \in [Urls -> Files]
  BY Zenon DEF Init, DownloaderInit
<1>2. /\ loaded = FALSE /\ timers = None /\ url_to_download_cellular = None
      /\ url_to_download_wifi = None /\ had_connection = (connection # "none")
      /\ connection \in {"none", "wifi"}
      /\ notices = <<>> /\ cleanup = NoCleanUp /\ remover = "none"
      /\ userOps = 0 /\ connections = 0 /\ restarts = 0
  BY Zenon DEF Init
<1>3. /\ entries \in [Urls -> Entry \cup {Absent}]
      /\ \A u \in Urls : Has(entries, u) => entries[u].fails = 0
  <2> DEFINE P == [NewEntry EXCEPT !.state = "PROCESSED"]
  <2>1. entries \in [Urls -> {Absent, NewEntry, P}]
    BY Zenon DEF Init
  <2>2. P \in Entry /\ P.fails = 0
    <3> DEFINE B == BOOLEAN
               F == 0 .. kNumberOfFailsBeforeStop
               N == NewEntry
    <3>1. N \in [state : DistilledState, read : B, fails : F] /\ N.fails = 0
      BY NewEntryFacts, Zenon DEF Entry
    <3>2. "PROCESSED" \in DistilledState
      BY DEF DistilledState
    <3> HIDE DEF B, F, N
    <3>3. /\ [N EXCEPT !.state = "PROCESSED"] \in [state : DistilledState, read : B, fails : F]
          /\ [N EXCEPT !.state = "PROCESSED"].fails = 0
      BY <3>1, <3>2
    <3> QED
      BY <3>3, Zenon DEF B, F, N, Entry
  <2> HIDE DEF P
  <2>3. {Absent, NewEntry, P} \subseteq Entry \cup {Absent}
    BY <2>2, NewEntryFacts, Zenon
  <2>4. ASSUME NEW u \in Urls, Has(entries, u) PROVE entries[u].fails = 0
    <3>1. entries[u] = NewEntry \/ entries[u] = P
      BY <2>1, <2>4, Zenon DEF Has
    <3> QED
      BY <2>2, <3>1, NewEntryFacts
  <2>5. entries \in [Urls -> Entry \cup {Absent}]
    <3> DEFINE S == {Absent, NewEntry, P}
               E == Entry \cup {Absent}
    <3>1. entries \in [Urls -> S] /\ S \subseteq E
      BY <2>1, <2>3, Zenon
    <3> HIDE DEF S, E
    <3>2. entries \in [Urls -> E]
      BY <3>1
    <3> QED
      BY <3>2 DEF E
  <2> QED
    BY <2>4, <2>5, Zenon
<1>4. None \in [Urls -> Nat]
  BY DEF None
<1>5. <<>> \in Seq(Connection) /\ <<>> \in Seq(Task)
  BY EmptySeq
<1>6. 0 \in 0..MaxUserOps /\ 0 \in 0..MaxConnections /\ 0 \in 0..MaxRestarts
  BY ServiceAssumption
<1>7. connection \in Connection
  BY <1>2 DEF Connection
<1>8. /\ loaded \in BOOLEAN /\ had_connection \in BOOLEAN
      /\ notices \in Seq(Connection) /\ cleanup \in CleanUp \cup {NoCleanUp}
      /\ remover \in {"none", "waiting", "posted"}
      /\ working \in BOOLEAN /\ distiller \in BOOLEAN /\ mime \in {"", "pdf", "other"}
      /\ ~loaded /\ ~distiller /\ ~working
  BY <1>1, <1>2, <1>5, Zenon
<1>9. TypeOK
  <2>1. DownloaderTypeOK
    BY <1>1, <1>5, <1>8, Zenon DEF DownloaderTypeOK
  <2> QED
    BY <1>2, <1>3, <1>4, <1>6, <1>7, <1>8, <2>1, Zenon DEF TypeOK
<1>10. OneTaskAtATime /\ FilesOfDoneJob
  BY <1>1, <1>8, Zenon DEF OneTaskAtATime, FilesOfDoneJob
<1>11. DeletionsComeFirst
  <2>1. Len(tasks) = 0
    BY <1>1, EmptySeq
  <2> QED
    BY <2>1 DEF DeletionsComeFirst
<1>12. NothingBeforeLoad
  BY <1>1, <1>2, Zenon DEF NothingBeforeLoad
<1>13. FailuresAreCounted
  BY <1>3, ServiceAssumption DEF FailuresAreCounted
<1>14. \A u \in Urls : UrlOK(u)
  BY <1>8, Zenon DEF UrlOK
<1> QED
  BY <1>9, <1>10, <1>11, <1>12, <1>13, <1>14, Zenon DEF DownloadsIndInv

(* Every step keeps it.                                                    *)
LEMMA DownloadsNext ==
  ASSUME DownloadsIndInv, [Next]_vars
  PROVE  DownloadsIndInv'
<1>1. CASE ServiceStep
  BY <1>1, SilentStepKeeps, DownloadEndsStep, ModelLoadedStep, CleanUpScanStep,
     CleanUpDeleteStep, DownloadUnprocessedStep, ItemsRemovedStep,
     OnConnectionChangedStep, Zenon DEF ServiceStep
<1>2. ASSUME NEW u \in Urls,
             DownloadEntry(u) \/ AddEntry(u) \/ RemoveEntry(u) \/ MoveEntry(u)
      PROVE  DownloadsIndInv'
  BY <1>2, DownloadEntryStep, AddEntryStep, RemoveEntryStep, MoveEntryStep, Zenon
<1>3. CASE UNCHANGED vars
  <2>1. UNCHANGED <<downloaderVars, listVars, waitingVars, netVars, cleanup, remover, boundVars>>
    BY <1>3, Zenon DEF vars
  <2>2. ServiceTypeOK /\ NothingBeforeLoad
    BY QueueFacts, Zenon
  <2>3. ServiceTypeOK'
    BY <2>1, <2>2, Zenon DEF ServiceTypeOK, listVars, waitingVars, netVars, boundVars
  <2>4. NothingBeforeLoad'
    BY <2>1, <2>2, Zenon DEF NothingBeforeLoad, listVars, waitingVars, downloaderVars
  <2> QED
    BY <2>1, <2>3, <2>4, DownloaderStays, Zenon
<1> QED
  BY <1>1, <1>2, <1>3, RemoveAllStep, ConnectionChangesStep, RestartStep, Zenon DEF Next

(* However many URLs there are, and whatever the interleaving of the jobs   *)
(* of the URLDownloader, the user's changes of the list, the clean-up at    *)
(* the start and the ends of the program: one task is handled at a time, no *)
(* download starts on a partial copy of its page, a removed page is not     *)
(* downloaded any more, and only an entry that is given up has failed       *)
(* kNumberOfFailsBeforeStop times.                                          *)
THEOREM OfflineCopiesAreSound == Spec => []DownloadsInv
<1>1. Init => DownloadsIndInv
  BY DownloadsInit
<1>2. DownloadsIndInv /\ [Next]_vars => DownloadsIndInv'
  BY DownloadsNext
<1>3. DownloadsIndInv => DownloadsInv
  BY DownloadsIndInvImplies
<1> QED
  BY <1>1, <1>2, <1>3, PTL DEF Spec

(* The files of a page that is not in the list are never forgotten: a       *)
(* deletion of them is queued or running, or CleanUpFiles will find them.   *)
THEOREM RemovedFilesAreNotForgotten == Spec => []NoOrphanFiles
<1>1. Init => DownloadsIndInv
  BY DownloadsInit
<1>2. DownloadsIndInv /\ [Next]_vars => DownloadsIndInv'
  BY DownloadsNext
<1>3. DownloadsIndInv => NoOrphanFiles
  BY DownloadsIndInvImplies
<1> QED
  BY <1>1, <1>2, <1>3, PTL DEF Spec

-----------------------------------------------------------------------------
USE DownloadAssumption

-----------------------------------------------------------------------------
(* DownloadTask: types.                                                    *)

(* The events and the writers are of their types.                          *)
LEMMA EventFacts ==
  /\ \A a \in 1 .. MaxStarts, n \in 0 .. Chunks : Data(a, n) \in Event
  /\ \A a \in 1 .. MaxStarts, e \in {0, 1} : Complete(a, e) \in Event
  /\ \A e \in Event : /\ e.kind \in {"data", "complete"} /\ e.of \in 1 .. MaxStarts
                      /\ e.chunk \in 0 .. Chunks /\ e.error \in {0, 1}
BY DEF Event, Data, Complete

(* What becomes of a writer.                                              *)
LEMMA WriterFacts ==
  ASSUME NEW w \in Writers
  PROVE  /\ \A e \in Event : Wrote(w, e) \in Writers
         /\ \A e \in Event : [w EXCEPT !.pending = <<e>>] \in Writers
         /\ FailedToWrite(w) \in Writers
         /\ [w EXCEPT !.pending = <<>>] \in Writers
         /\ \A n \in 0 .. MaxStarts : NewWriter(n) \in Writers
<1>1. /\ w.of \in 0 .. MaxStarts /\ w.wrote \in Seq(Nat \X Nat) /\ w.failed \in BOOLEAN
      /\ w.pending \in Seq(Event)
      /\ w = [of |-> w.of, wrote |-> w.wrote, failed |-> w.failed, pending |-> w.pending]
  BY DEF Writers
<1>2. <<>> \in Seq(Nat \X Nat) /\ <<>> \in Seq(Event)
  BY EmptySeq
<1>3. ASSUME NEW e \in Event
      PROVE  Wrote(w, e) \in Writers /\ [w EXCEPT !.pending = <<e>>] \in Writers
  <2>1. <<e.of, e.chunk>> \in Nat \X Nat /\ <<e>> \in Seq(Event)
    BY EventFacts
  <2>2. Append(w.wrote, <<e.of, e.chunk>>) \in Seq(Nat \X Nat)
    BY <1>1, <2>1
  <2> QED
    BY <1>1, <2>1, <2>2 DEF Writers, Wrote
<1>4. FailedToWrite(w) \in Writers
  BY <1>1 DEF Writers, FailedToWrite
<1>5. [w EXCEPT !.pending = <<>>] \in Writers
  BY <1>1, <1>2 DEF Writers
<1>6. \A n \in 0 .. MaxStarts : NewWriter(n) \in Writers
  BY <1>2 DEF Writers, NewWriter
<1> QED
  BY <1>3, <1>4, <1>5, <1>6

(* The parts of a writer after a write.                                    *)
LEMMA WriterParts ==
  ASSUME NEW w \in Writers, NEW e \in Event
  PROVE  /\ Wrote(w, e).wrote = Append(w.wrote, <<e.of, e.chunk>>)
         /\ Wrote(w, e).pending = w.pending /\ Wrote(w, e).of = w.of
         /\ Wrote(w, e).failed = w.failed
         /\ FailedToWrite(w).wrote = w.wrote /\ FailedToWrite(w).failed
         /\ FailedToWrite(w).pending = w.pending /\ FailedToWrite(w).of = w.of
<1>1. w = [of |-> w.of, wrote |-> w.wrote, failed |-> w.failed, pending |-> w.pending]
  BY DEF Writers
<1>2. /\ Wrote(w, e).wrote = Append(w.wrote, <<e.of, e.chunk>>)
      /\ Wrote(w, e).pending = w.pending /\ Wrote(w, e).of = w.of
      /\ Wrote(w, e).failed = w.failed
  BY <1>1 DEF Wrote
<1>3. /\ FailedToWrite(w).wrote = w.wrote /\ FailedToWrite(w).failed
      /\ FailedToWrite(w).pending = w.pending /\ FailedToWrite(w).of = w.of
  BY <1>1 DEF FailedToWrite
<1> QED
  BY <1>2, <1>3

(* What a step takes from a queue, and what it adds, are events.           *)
LEMMA EventQueueFacts ==
  ASSUME NEW q \in Seq(Event)
  PROVE  /\ \A e \in Event : Append(q, e) \in Seq(Event)
         /\ q # <<>> => Head(q) \in Event /\ Tail(q) \in Seq(Event)
BY HeadTailProperties

(* The types of the variables of the task, by name.                        *)
LEMMA TaskTypes ==
  ASSUME TaskTypeOK
  PROVE  /\ writer \in Writers /\ queue \in Seq(Event) /\ ui \in Seq(Event)
         /\ attempt \in Nat /\ sessionTask \in Nat /\ cookieCalls \in Nat
         /\ writer.pending \in Seq(Event) /\ writer.wrote \in Seq(Nat \X Nat)
         /\ writer.of \in Nat /\ writer.failed \in BOOLEAN
         /\ ui # <<>> => Head(ui) \in Event /\ Tail(ui) \in Seq(Event)
         /\ queue # <<>> => Head(queue) \in Event /\ Tail(queue) \in Seq(Event)
         /\ writer.pending # <<>> => Head(writer.pending) \in Event
         /\ \A a \in DOMAIN loading : /\ a \in 1 .. MaxStarts
                                      /\ loading[a] \in 0 .. Chunks
<1>1. /\ writer \in Writers /\ queue \in Seq(Event) /\ ui \in Seq(Event)
      /\ attempt \in Nat /\ sessionTask \in Nat /\ cookieCalls \in Nat
  BY DEF TaskTypeOK, Writers
<1>2. /\ writer.pending \in Seq(Event) /\ writer.wrote \in Seq(Nat \X Nat)
      /\ writer.of \in Nat /\ writer.failed \in BOOLEAN
  BY <1>1 DEF Writers
<1>3. \A a \in DOMAIN loading : a \in 1 .. MaxStarts /\ loading[a] \in 0 .. Chunks
  BY DEF TaskTypeOK
<1> QED
  BY <1>1, <1>2, <1>3, EventQueueFacts

(* Every action keeps the types.                                           *)
LEMMA TaskTypeStep ==
  ASSUME TaskTypeOK, OneAttemptUnderWay, [TaskNext]_taskVars
  PROVE  TaskTypeOK'
<1> USE TaskTypes DEF TaskTypeOK
<1>1. CASE Start
  <2>1. attempt' \in 0 .. MaxStarts
    BY <1>1 DEF Start
  <2>2. NewWriter(attempt') \in Writers
    BY <2>1, WriterFacts
  <2> QED
    BY <1>1, <2>1, <2>2 DEF Start, MayStart
<1>2. CASE StartWithCookies
  <2>1. CASE ~alive
    BY <1>2, <2>1 DEF StartWithCookies
  <2>2. CASE alive
    <3>1. attempt \in 1 .. MaxStarts /\ state = "kInProgress"
      BY <1>2, <2>2 DEF StartWithCookies, OneAttemptUnderWay
    <3> QED
      BY <1>2, <2>2, <3>1 DEF StartWithCookies
  <2> QED
    BY <2>1, <2>2
<1>3. ASSUME CancelSessionTask
      PROVE  /\ sessionTask' = NoTask
             /\ DOMAIN loading' \subseteq 1 .. MaxStarts
             /\ loading' \in [DOMAIN loading' -> 0 .. Chunks]
             /\ queue' \in Seq(Event)
  <2>1. CASE sessionTask \notin DOMAIN loading
    BY <1>3, <2>1 DEF CancelSessionTask
  <2>2. CASE sessionTask \in DOMAIN loading
    <3>1. Complete(sessionTask, 1) \in Event
      BY <2>2, EventFacts
    <3>2. queue' \in Seq(Event)
      BY <1>3, <2>2, <3>1, EventQueueFacts DEF CancelSessionTask
    <3>3. loading' = [x \in DOMAIN loading \ {sessionTask} |-> loading[x]]
      BY <1>3, <2>2 DEF CancelSessionTask, Without
    <3> QED
      BY <1>3, <3>2, <3>3 DEF CancelSessionTask
  <2> QED
    BY <2>1, <2>2
<1>4. CASE Cancel
  <2>1. CancelSessionTask /\ writer' = NewWriter(0) /\ 0 \in 0 .. MaxStarts
    BY <1>4 DEF Cancel, NoWriter
  <2>2. writer' \in Writers
    BY <2>1, WriterFacts
  <2> QED
    BY <1>3, <1>4, <2>1, <2>2 DEF Cancel, NoTask
<1>5. CASE Destroy
  <2>1. CancelSessionTask /\ writer' = NewWriter(0) /\ 0 \in 0 .. MaxStarts
    BY <1>5 DEF Destroy, NoWriter
  <2>2. writer' \in Writers
    BY <2>1, WriterFacts
  <2> QED
    BY <1>3, <1>5, <2>1, <2>2 DEF Destroy, NoTask
<1>6. ASSUME NEW a \in 1 .. MaxStarts, ReceiveChunk(a) PROVE TaskTypeOK'
  <2>1. loading' \in [DOMAIN loading -> 0 .. Chunks] /\ DOMAIN loading' = DOMAIN loading
    BY <1>6 DEF ReceiveChunk
  <2>2. loading'[a] \in 0 .. Chunks
    BY <1>6, <2>1 DEF ReceiveChunk
  <2> QED
    BY <1>6, <2>1, <2>2, EventQueueFacts, EventFacts DEF ReceiveChunk
<1>7. ASSUME NEW a \in 1 .. MaxStarts, NEW e \in {0, 1}, LoadEnds(a, e) PROVE TaskTypeOK'
  BY <1>7, EventQueueFacts, EventFacts DEF LoadEnds, Without
<1>8. CASE RunDelegate
  <2>1. Waits(Head(queue)) \in BOOLEAN
    BY DEF Waits
  <2> QED
    BY <1>8, <2>1, EventQueueFacts DEF RunDelegate
<1>9. CASE WriteData
  <2>1. writer' \in Writers
    BY <1>9, WriterFacts DEF WriteData, IsUI
  <2> QED
    BY <1>9, <2>1 DEF WriteData, IsUI
<1>10. CASE DropData
  BY <1>10 DEF DropData, IsUI
<1>11. CASE WriteEnds
  <2>1. Head(writer.pending) \in Event
    BY <1>11 DEF WriteEnds, PendingIs
  <2>2. writer' \in Writers
    BY <1>11, <2>1, WriterFacts DEF WriteEnds
  <2> QED
    BY <1>11, <2>2 DEF WriteEnds, BlockedAfterWrite
<1>12. CASE FinishWriter
  <2>1. Head(ui) \in Event /\ Head(ui).error \in {0, 1}
    BY <1>12, EventFacts DEF FinishWriter, IsUI
  <2>2. writer' \in Writers
    BY <1>12, <2>1, WriterFacts DEF FinishWriter
  <2> QED
    BY <1>12, <2>1, <2>2 DEF FinishWriter, IsUI, DownloadFinished, NoTask
<1>13. CASE FinishEnds
  <2>1. Head(writer.pending) \in Event /\ Head(writer.pending).error \in {0, 1}
    BY <1>13, EventFacts DEF FinishEnds, PendingIs
  <2>2. writer' \in Writers
    BY <1>13, WriterFacts DEF FinishEnds
  <2> QED
    BY <1>13, <2>1, <2>2 DEF FinishEnds, DownloadFinished, NoTask
<1>14. CASE UNCHANGED taskVars
  BY <1>14 DEF taskVars
<1> QED
  BY <1>1, <1>2, <1>4, <1>5, <1>6, <1>7, <1>8, <1>9, <1>10, <1>11, <1>12, <1>13, <1>14
     DEF TaskNext, Step, Network

-----------------------------------------------------------------------------
(* DownloadTask: the events in line.                                       *)

(* The delegate queue takes the event at the head of the line: the chunk    *)
(* after the p first ones, or the completion when nothing is left.          *)
LEMMA TakeFromLine ==
  ASSUME TaskTypeOK, NEW p \in Nat, StillLoads(p) \/ HasEnded(p), queue # <<>>,
         queue' = Tail(queue), UNCHANGED <<attempt, loading>>
  PROVE  \/ /\ Head(queue) = Data(attempt, p + 1) /\ p < Chunks
            /\ (StillLoads(p + 1) \/ HasEnded(p + 1))'
         \/ \E e \in {0, 1} : /\ Head(queue) = Complete(attempt, e)
                              /\ e = 0 => p = Chunks
                              /\ queue' = <<>> /\ DOMAIN loading = {}
<1>1. /\ queue \in Seq(Event) /\ Len(queue) \in Nat /\ Len(queue) > 0
      /\ Tail(queue) \in Seq(Event) /\ Len(Tail(queue)) = Len(queue) - 1
      /\ \A i \in 1 .. Len(queue) - 1 : Tail(queue)[i] = queue[i + 1]
      /\ Head(queue) = queue[1]
  BY TaskTypes
<1>2. CASE StillLoads(p)
  <2>1. loading[attempt] \in 0 .. Chunks
    BY <1>2, TaskTypes DEF StillLoads
  <2>2. Head(queue) = Data(attempt, p + 1) /\ p < Chunks
    BY <1>1, <1>2, <2>1 DEF StillLoads
  <2>3. StillLoads(p + 1)'
    <3>1. \A i \in 1 .. Len(queue) - 1 : Tail(queue)[i] = Data(attempt, p + 1 + i)
      BY <1>1, <1>2 DEF StillLoads, Data
    <3> QED
      BY <1>1, <1>2, <3>1 DEF StillLoads, Data
  <2> QED
    BY <2>2, <2>3
<1>3. CASE HasEnded(p)
  <2>1. PICK e \in {0, 1} : /\ queue[Len(queue)] = Complete(attempt, e)
                            /\ e = 0 => p + Len(queue) - 1 = Chunks
    BY <1>3 DEF HasEnded
  <2>2. CASE Len(queue) = 1
    <3>1. Head(queue) = Complete(attempt, e) /\ (e = 0 => p = Chunks)
      BY <1>1, <2>1, <2>2
    <3>2. Tail(queue) = <<>>
      BY <1>1, <2>2
    <3> QED
      BY <1>3, <3>1, <3>2 DEF HasEnded
  <2>3. CASE Len(queue) > 1
    <3>1. Head(queue) = Data(attempt, p + 1) /\ p < Chunks
      BY <1>1, <1>3, <2>3 DEF HasEnded
    <3>2. \A i \in 1 .. Len(queue) - 2 : Tail(queue)[i] = Data(attempt, p + 1 + i)
      BY <1>1, <1>3 DEF HasEnded, Data
    <3>3. Tail(queue) # <<>> /\ Tail(queue)[Len(Tail(queue))] = Complete(attempt, e)
      <4>1. Len(queue) - 1 \in 1 .. Len(queue) - 1 /\ Len(queue) - 1 + 1 = Len(queue)
        BY <1>1, <2>3
      <4>2. Tail(queue)[Len(queue) - 1] = queue[Len(queue)]
        BY <1>1, <4>1
      <4>3. Tail(queue) # <<>>
        <5>1. Tail(queue) \in Seq(Event) /\ Len(Tail(queue)) # 0
          BY <1>1, <2>3
        <5> QED
          BY <5>1, EmptySeq, Zenon
      <4> QED
        BY <1>1, <2>1, <4>2, <4>3
    <3>4. p + 1 + Len(Tail(queue)) - 1 <= Chunks
          /\ (e = 0 => p + 1 + Len(Tail(queue)) - 1 = Chunks)
      BY <1>1, <1>3, <2>1 DEF HasEnded
    <3>5. HasEnded(p + 1)'
      BY <1>1, <1>3, <3>2, <3>3, <3>4 DEF HasEnded, Data, Complete
    <3> QED
      BY <3>1, <3>5
  <2> QED
    BY <1>1, <2>2, <2>3
<1> QED
  BY <1>2, <1>3

(* The network adds the next chunk, or the completion, at the end of it.   *)
LEMMA AddToLine ==
  ASSUME TaskTypeOK, NEW p \in Nat, StillLoads(p) \/ HasEnded(p),
         NEW a \in 1 .. MaxStarts, NEW e \in {0, 1}, ReceiveChunk(a) \/ LoadEnds(a, e)
  PROVE  (StillLoads(p) \/ HasEnded(p))'
<1>1. DOMAIN loading = {attempt} /\ a = attempt /\ StillLoads(p) /\ attempt' = attempt
  BY DEF StillLoads, HasEnded, ReceiveChunk, LoadEnds
<1>2. loading[attempt] \in 0 .. Chunks /\ queue \in Seq(Event) /\ Len(queue) \in Nat
  BY <1>1, TaskTypes
<1>3. CASE ReceiveChunk(a)
  <2>1. /\ loading' = [loading EXCEPT ![attempt] = loading[attempt] + 1]
        /\ queue' = Append(queue, Data(attempt, loading'[attempt]))
    BY <1>1, <1>3 DEF ReceiveChunk
  <2>2. loading'[attempt] = p + Len(queue) + 1 /\ DOMAIN loading' = {attempt}
    BY <1>1, <1>2, <2>1 DEF StillLoads
  <2>3. /\ Len(queue') = Len(queue) + 1
        /\ \A i \in 1 .. Len(queue) : queue'[i] = queue[i]
        /\ queue'[Len(queue) + 1] = Data(attempt, p + Len(queue) + 1)
    BY <1>2, <2>1, <2>2
  <2>4. \A i \in 1 .. Len(queue') : queue'[i] = Data(attempt, p + i)
    <3> TAKE i \in 1 .. Len(queue')
    <3>1. CASE i = Len(queue) + 1
      BY <1>2, <2>3, <3>1 DEF Data
    <3>2. CASE i # Len(queue) + 1
      BY <1>1, <1>2, <2>3, <3>2 DEF StillLoads
    <3> QED
      BY <3>1, <3>2
  <2> QED
    BY <1>1, <1>2, <2>2, <2>3, <2>4, SMTT(40) DEF StillLoads
<1>4. CASE LoadEnds(a, e)
  <2>1. DOMAIN loading' = {} /\ queue' = Append(queue, Complete(attempt, e))
    BY <1>1, <1>4 DEF LoadEnds, Without
  <2>2. e = 0 => p + Len(queue) = Chunks
    BY <1>1, <1>4 DEF LoadEnds, StillLoads
  <2>3. /\ Len(queue') = Len(queue) + 1 /\ queue' # <<>>
        /\ \A i \in 1 .. Len(queue) : queue'[i] = queue[i]
        /\ queue'[Len(queue')] = Complete(attempt, e)
    BY <1>2, <2>1
  <2>4. p + Len(queue) <= Chunks
    BY <1>1, <1>2 DEF StillLoads
  <2>5. \A i \in 1 .. Len(queue') - 1 : queue'[i] = Data(attempt, p + i)
    BY <1>1, <1>2, <2>3 DEF StillLoads
  <2> QED
    BY <1>1, <1>2, <2>1, <2>2, <2>3, <2>4, <2>5 DEF HasEnded
<1> QED
  BY <1>3, <1>4

(* A sequence with an element is not empty.                                *)
LEMMA SingletonIsNotEmpty ==
  \A x : <<x>> # <<>> /\ Head(<<x>>) = x /\ Tail(<<x>>) = <<>>
OBVIOUS

(* What is handed to the UI thread or to the writer is the next chunk, or   *)
(* the completion after the last one.                                       *)
LEMMA HandedIs ==
  ASSUME NEW k \in Nat, InLine(k), NEW q, q = ui \/ q = writer.pending, q # <<>>
  PROVE  /\ q = ui => writer.pending = <<>>
         /\ q = writer.pending => ui = <<>>
         /\ \/ /\ q = <<Data(attempt, k + 1)>> /\ Head(q).kind = "data"
               /\ Handed(Data(attempt, k + 1))
               /\ k < Chunks /\ blocked /\ (StillLoads(k + 1) \/ HasEnded(k + 1))
            \/ \E e \in {0, 1} :
                 /\ q = <<Complete(attempt, e)>> /\ Head(q).kind = "complete"
                 /\ ~blocked /\ (e = 0 => k = Chunks)
                 /\ queue = <<>> /\ DOMAIN loading = {}
<1>1. ~NoneHanded
  BY DEF NoneHanded
<1>2. ASSUME NEW x, Handed(x)
      PROVE  /\ q = <<x>> /\ Head(q) = x
             /\ q = ui => writer.pending = <<>>
             /\ q = writer.pending => ui = <<>>
  BY <1>2, SingletonIsNotEmpty DEF Handed
<1>3. CASE /\ k < Chunks /\ Handed(Data(attempt, k + 1)) /\ blocked
           /\ StillLoads(k + 1) \/ HasEnded(k + 1)
  <2>1. Head(q).kind = "data"
    BY <1>2, <1>3 DEF Data
  <2> QED
    BY <1>2, <1>3, <2>1
<1>4. ASSUME NEW e \in {0, 1}, Handed(Complete(attempt, e)), ~blocked,
             e = 0 => k = Chunks, queue = <<>>, DOMAIN loading = {}
      PROVE  /\ q = <<Complete(attempt, e)>> /\ Head(q).kind = "complete"
             /\ q = ui => writer.pending = <<>>
             /\ q = writer.pending => ui = <<>>
  <2>1. Head(q).kind = "complete"
    BY <1>2, <1>4 DEF Complete
  <2> QED
    BY <1>2, <1>4, <2>1
<1> QED
  BY <1>1, <1>3, <1>4 DEF InLine

(* The steps of a task that exists keep its events in line, or end the      *)
(* attempt with nothing under way.                                          *)
LEMMA LineStep ==
  ASSUME TaskTypeOK, alive, NEW k \in 0 .. Chunks, InLine(k), UNCHANGED attempt,
         \/ RunDelegate \/ WriteData \/ WriteEnds
         \/ \E a \in 1 .. MaxStarts : ReceiveChunk(a) \/ \E e \in {0, 1} : LoadEnds(a, e)
  PROVE  \E j \in 0 .. Chunks : InLine(j)'
<1> DEFINE Wr == /\ \A i \in DOMAIN writer.wrote : writer.wrote[i][2] <= k
                 /\ ~writer.failed => Len(writer.wrote) = k
           Left == NoneHanded /\ ~blocked /\ (StillLoads(k) \/ HasEnded(k))
           Chunk == /\ k < Chunks /\ Handed(Data(attempt, k + 1)) /\ blocked
                    /\ StillLoads(k + 1) \/ HasEnded(k + 1)
           Ended(e) == /\ Handed(Complete(attempt, e)) /\ ~blocked
                       /\ e = 0 => k = Chunks
                       /\ queue = <<>> /\ DOMAIN loading = {}
<1>1. Wr /\ (Left \/ Chunk \/ \E e \in {0, 1} : Ended(e)) /\ k \in Nat
  BY DEF InLine
<1>2. ASSUME Wr', Left' \/ Chunk' \/ \E e \in {0, 1} : Ended(e)'
      PROVE  InLine(k)'
  BY <1>2 DEF InLine
<1>4. CASE RunDelegate
  <2>1. Left /\ queue # <<>> /\ queue' = Tail(queue) /\ UNCHANGED <<attempt, loading, writer>>
    BY <1>1, <1>4 DEF RunDelegate
  <2>2. Wr'
    BY <1>1, <2>1
  <2>3. PICK h \in Event : h = Head(queue)
    BY <2>1, TaskTypes
  <2>4. ui' = <<h>> /\ writer' = writer /\ writer.pending = <<>>
    BY <1>4, <2>1, <2>3 DEF RunDelegate, NoneHanded
  <2>5. Handed(h)'
    BY <2>4 DEF Handed
  <2>6. blocked' = (h.kind = "data")
    BY <1>4, <2>3 DEF RunDelegate, Waits
  <2>7. ASSUME h = Data(attempt, k + 1), k < Chunks, (StillLoads(k + 1) \/ HasEnded(k + 1))'
        PROVE  InLine(k)'
    <3>1. h.kind = "data"
      BY <2>7 DEF Data
    <3>2. blocked'
      BY <2>6, <3>1, Zenon
    <3>3. Handed(Data(attempt, k + 1))'
      BY <2>1, <2>5, <2>7 DEF Data
    <3>4. Chunk'
      BY <2>7, <3>2, <3>3
    <3> QED
      BY <1>2, <2>2, <3>4
  <2>8. ASSUME NEW e \in {0, 1}, h = Complete(attempt, e), e = 0 => k = Chunks,
               queue' = <<>>, DOMAIN loading = {}
        PROVE  InLine(k)'
    <3>1. h.kind # "data"
      BY <2>8 DEF Complete
    <3>2. ~blocked'
      BY <2>6, <3>1, Zenon
    <3>3. Handed(Complete(attempt, e))'
      BY <2>1, <2>5, <2>8 DEF Complete
    <3>4. Ended(e)'
      BY <2>1, <2>8, <3>2, <3>3
    <3> QED
      BY <1>2, <2>2, <3>4
  <2>9. \/ /\ Head(queue) = Data(attempt, k + 1) /\ k < Chunks
           /\ (StillLoads(k + 1) \/ HasEnded(k + 1))'
        \/ \E e \in {0, 1} : /\ Head(queue) = Complete(attempt, e)
                             /\ e = 0 => k = Chunks
                             /\ queue' = <<>> /\ DOMAIN loading = {}
    <3>1. (StillLoads(k) \/ HasEnded(k)) /\ k \in Nat
      BY <1>1, <2>1
    <3> HIDE DEF Left
    <3> QED
      BY <2>1, <3>1, TakeFromLine
  <2> QED
    BY <2>3, <2>7, <2>8, <2>9
<1>5. ASSUME k < Chunks, (StillLoads(k + 1) \/ HasEnded(k + 1))', NoneHanded', ~blocked',
             \/ /\ writer'.wrote = Append(writer.wrote, <<attempt, k + 1>>)
                /\ writer'.failed = writer.failed
             \/ writer'.wrote = writer.wrote /\ writer'.failed
      PROVE  \E j \in 0 .. Chunks : InLine(j)'
  <2>1. k + 1 \in 0 .. Chunks
    BY <1>5
  <2>2. writer.wrote \in Seq(Nat \X Nat) /\ Len(writer.wrote) \in Nat
    BY TaskTypes
  <2>3. /\ \A i \in DOMAIN writer'.wrote : writer'.wrote[i][2] <= k + 1
        /\ ~writer'.failed => Len(writer'.wrote) = k + 1
    <3>1. CASE writer'.wrote = writer.wrote /\ writer'.failed
      <4>1. \A i \in DOMAIN writer.wrote : writer.wrote[i] \in Nat \X Nat
        BY <2>2
      <4> QED
        BY <1>1, <3>1, <4>1
    <3>2. CASE /\ writer'.wrote = Append(writer.wrote, <<attempt, k + 1>>)
               /\ writer'.failed = writer.failed
      <4>1. /\ DOMAIN writer.wrote = 1 .. Len(writer.wrote)
            /\ DOMAIN writer'.wrote = 1 .. Len(writer.wrote) + 1
            /\ Len(writer'.wrote) = Len(writer.wrote) + 1
            /\ \A i \in 1 .. Len(writer.wrote) : writer'.wrote[i] = writer.wrote[i]
            /\ writer'.wrote[Len(writer.wrote) + 1] = <<attempt, k + 1>>
            /\ \A i \in 1 .. Len(writer.wrote) : writer.wrote[i] \in Nat \X Nat
        BY <2>2, <3>2
      <4>2. \A i \in 1 .. Len(writer.wrote) + 1 :
              i \in 1 .. Len(writer.wrote) \/ i = Len(writer.wrote) + 1
        BY <2>2
      <4>3. ASSUME NEW i \in 1 .. Len(writer.wrote) PROVE writer'.wrote[i][2] <= k + 1
        <5>1. writer.wrote[i][2] \in Nat /\ writer.wrote[i][2] <= k
          BY <1>1, <4>1
        <5> QED
          BY <1>1, <4>1, <5>1
      <4>4. writer'.wrote[Len(writer.wrote) + 1][2] <= k + 1
        BY <1>1, <4>1
      <4> QED
        BY <1>1, <3>2, <4>1, <4>2, <4>3, <4>4
    <3> QED
      BY <1>5, <3>1, <3>2
  <2>4. InLine(k + 1)'
    BY <1>5, <2>3 DEF InLine
  <2> QED
    BY <2>1, <2>4
<1>6. ASSUME NEW q, q = ui \/ q = writer.pending, q # <<>>, Head(q).kind = "data"
      PROVE  /\ Chunk /\ q = <<Data(attempt, k + 1)>>
             /\ q = ui => writer.pending = <<>>
             /\ q = writer.pending => ui = <<>>
  BY <1>1, <1>6, HandedIs
<1>7. ASSUME Chunk, UNCHANGED <<attempt, queue, loading>>
      PROVE  k < Chunks /\ (StillLoads(k + 1) \/ HasEnded(k + 1))'
  BY <1>7 DEF StillLoads, HasEnded, Data, Complete
<1>8. ASSUME Chunk
      PROVE  /\ Data(attempt, k + 1).of = attempt /\ Data(attempt, k + 1).chunk = k + 1
             /\ Data(attempt, k + 1).kind = "data"
  BY DEF Data
<1>9. CASE WriteData
  <2>1. ui # <<>> /\ Head(ui).kind = "data" /\ ui' = Tail(ui) /\ UNCHANGED <<queue, loading>>
    BY <1>9 DEF WriteData, IsUI
  <2>2. Chunk /\ ui = <<Data(attempt, k + 1)>> /\ writer.pending = <<>>
    BY <1>6, <2>1
  <2>3. /\ ui' = <<>> /\ Head(ui) = Data(attempt, k + 1)
        /\ Head(ui) \in Event /\ writer \in Writers
    BY <2>1, <2>2, TaskTypes
  <2>4. k < Chunks /\ (StillLoads(k + 1) \/ HasEnded(k + 1))'
    BY <1>7, <2>1, <2>2
  <2>5. CASE writer' = Wrote(writer, Head(ui)) /\ blocked' = FALSE
    <3>1. /\ writer'.wrote = Append(writer.wrote, <<attempt, k + 1>>)
          /\ writer'.failed = writer.failed /\ writer'.pending = writer.pending
      BY <1>8, <2>2, <2>3, <2>5, WriterParts
    <3>2. NoneHanded'
      BY <2>2, <2>3, <3>1 DEF NoneHanded
    <3> QED
      BY <1>5, <2>4, <2>5, <3>1, <3>2
  <2>6. CASE writer' = FailedToWrite(writer) /\ blocked' = FALSE
    <3>1. writer'.wrote = writer.wrote /\ writer'.failed /\ writer'.pending = writer.pending
      BY <2>3, <2>6, WriterParts
    <3>2. NoneHanded'
      BY <2>2, <2>3, <3>1 DEF NoneHanded
    <3> QED
      BY <1>5, <2>4, <2>6, <3>1, <3>2
  <2>7. CASE writer' = [writer EXCEPT !.pending = <<Head(ui)>>] /\ UNCHANGED blocked
    <3>1. /\ writer'.wrote = writer.wrote /\ writer'.failed = writer.failed
          /\ writer'.pending = <<Data(attempt, k + 1)>>
      BY <2>3, <2>7 DEF Writers
    <3>2. Handed(Data(attempt, k + 1))'
      BY <2>3, <3>1 DEF Handed, Data
    <3>3. Chunk' /\ Wr'
      BY <1>1, <2>2, <2>4, <2>7, <3>1, <3>2
    <3> QED
      BY <1>2, <3>3
  <2> QED
    BY <1>9, <2>5, <2>6, <2>7 DEF WriteData
<1>10. CASE WriteEnds
  <2>1. /\ writer.pending # <<>> /\ Head(writer.pending).kind = "data"
        /\ UNCHANGED <<ui, queue, loading>> /\ blocked' = FALSE
    BY <1>10 DEF WriteEnds, PendingIs, BlockedAfterWrite
  <2>2. Chunk /\ writer.pending = <<Data(attempt, k + 1)>> /\ ui = <<>>
    BY <1>6, <2>1
  <2>3. /\ Head(writer.pending) = Data(attempt, k + 1)
        /\ Head(writer.pending) \in Event /\ writer \in Writers
    BY <2>1, <2>2, TaskTypes
  <2>4. k < Chunks /\ (StillLoads(k + 1) \/ HasEnded(k + 1))'
    BY <1>7, <2>1, <2>2
  <2>5. CASE writer' = [Wrote(writer, Head(writer.pending)) EXCEPT !.pending = <<>>]
    <3>1. /\ writer'.wrote = Append(writer.wrote, <<attempt, k + 1>>)
          /\ writer'.failed = writer.failed /\ writer'.pending = <<>>
      <4>1. PICK h \in Event : h = Head(writer.pending)
        BY <2>3
      <4>2. Wrote(writer, h) \in Writers
        BY <2>3, WriterFacts
      <4>3. h.of = attempt /\ h.chunk = k + 1
        BY <1>8, <2>2, <2>3, <4>1
      <4>4. /\ Wrote(writer, h).wrote = Append(writer.wrote, <<attempt, k + 1>>)
            /\ Wrote(writer, h).failed = writer.failed
        BY <2>3, <4>3, WriterParts
      <4> QED
        BY <2>5, <4>1, <4>2, <4>4 DEF Writers
    <3>2. NoneHanded'
      BY <2>1, <2>2, <3>1 DEF NoneHanded
    <3> QED
      BY <1>5, <2>1, <2>4, <3>1, <3>2
  <2>6. CASE writer' = [FailedToWrite(writer) EXCEPT !.pending = <<>>]
    <3>1. writer'.wrote = writer.wrote /\ writer'.failed /\ writer'.pending = <<>>
      <4>1. /\ FailedToWrite(writer) \in Writers /\ FailedToWrite(writer).wrote = writer.wrote
            /\ FailedToWrite(writer).failed
        BY <2>3, WriterFacts, WriterParts
      <4> QED
        BY <2>6, <4>1 DEF Writers
    <3>2. NoneHanded'
      BY <2>1, <2>2, <3>1 DEF NoneHanded
    <3> QED
      BY <1>5, <2>1, <2>4, <3>1, <3>2
  <2> QED
    BY <1>10, <2>5, <2>6 DEF WriteEnds
<1>11. ASSUME NEW a \in 1 .. MaxStarts, NEW e \in {0, 1}, ReceiveChunk(a) \/ LoadEnds(a, e)
       PROVE  InLine(k)'
  <2>1. UNCHANGED <<writer, ui, blocked>> /\ DOMAIN loading # {}
    BY <1>11 DEF ReceiveChunk, LoadEnds
  <2>2. ASSUME NEW p \in Nat, StillLoads(p) \/ HasEnded(p)
        PROVE  (StillLoads(p) \/ HasEnded(p))'
    BY <1>11, <2>2, AddToLine
  <2>3. Wr'
    BY <1>1, <2>1
  <2>4. CASE Left
    <3>1. Left'
      BY <1>1, <2>1, <2>2, <2>4 DEF NoneHanded
    <3> QED
      BY <1>2, <2>3, <3>1
  <2>5. CASE Chunk
    <3>1. k + 1 \in Nat /\ (StillLoads(k + 1) \/ HasEnded(k + 1))
      BY <1>1, <2>5
    <3>2. (StillLoads(k + 1) \/ HasEnded(k + 1))'
      BY <2>2, <3>1
    <3>3. Chunk'
      BY <2>1, <2>5, <3>2 DEF Handed, Data
    <3> QED
      BY <1>2, <2>3, <3>3
  <2> QED
    BY <1>1, <2>1, <2>4, <2>5
<1> QED
  BY <1>4, <1>9, <1>10, <1>11

(* A writer that receives a chunk receives the one that follows what it has. *)
LEMMA WriteStep ==
  ASSUME TaskTypeOK, NEW k \in Nat, InLine(k), WriteData \/ WriteEnds
  PROVE  /\ writer'.of = writer.of
         /\ \/ writer'.wrote = writer.wrote
            \/ writer'.wrote = Append(writer.wrote, <<attempt, k + 1>>)
<1>1. PICK q : /\ q = ui \/ q = writer.pending
               /\ q # <<>> /\ Head(q).kind = "data" /\ Head(q) \in Event
               /\ \/ writer' = Wrote(writer, Head(q))
                  \/ writer' = [writer EXCEPT !.pending = <<Head(q)>>]
                  \/ writer' = FailedToWrite(writer)
                  \/ writer' = [Wrote(writer, Head(q)) EXCEPT !.pending = <<>>]
                  \/ writer' = [FailedToWrite(writer) EXCEPT !.pending = <<>>]
  <2>1. CASE WriteData
    BY <2>1, TaskTypes DEF WriteData, IsUI
  <2>2. CASE WriteEnds
    BY <2>2, TaskTypes DEF WriteEnds, PendingIs
  <2> QED
    BY <2>1, <2>2
<1>2. PICK h \in Event : h = Head(q)
  BY <1>1
<1>3. h.of = attempt /\ h.chunk = k + 1
  <2>1. q = <<Data(attempt, k + 1)>>
    <3>1. "data" # "complete"
      OBVIOUS
    <3> QED
      BY <1>1, <3>1, HandedIs
  <2>2. h = Data(attempt, k + 1)
    BY <1>2, <2>1
  <2> QED
    BY <2>2 DEF Data
<1>4. writer \in Writers
  BY TaskTypes
<1>5. /\ Wrote(writer, h) \in Writers /\ FailedToWrite(writer) \in Writers
      /\ Wrote(writer, h).wrote = Append(writer.wrote, <<attempt, k + 1>>)
      /\ Wrote(writer, h).of = writer.of
      /\ FailedToWrite(writer).wrote = writer.wrote /\ FailedToWrite(writer).of = writer.of
  <2>1. /\ Wrote(writer, h) \in Writers /\ FailedToWrite(writer) \in Writers
        /\ Wrote(writer, h).wrote = Append(writer.wrote, <<h.of, h.chunk>>)
        /\ Wrote(writer, h).of = writer.of
        /\ FailedToWrite(writer).wrote = writer.wrote /\ FailedToWrite(writer).of = writer.of
    BY <1>3, <1>4, WriterFacts, WriterParts, ZenonT(40)
  <2>2. <<h.of, h.chunk>> = <<attempt, k + 1>>
    BY <1>3
  <2> QED
    BY <2>1, <2>2, Zenon
<1>6. CASE writer' = Wrote(writer, h) \/ writer' = FailedToWrite(writer)
  BY <1>5, <1>6
<1>7. CASE writer' = [writer EXCEPT !.pending = <<h>>]
  BY <1>4, <1>7 DEF Writers
<1>8. CASE writer' = [Wrote(writer, h) EXCEPT !.pending = <<>>]
  BY <1>5, <1>8 DEF Writers
<1>9. CASE writer' = [FailedToWrite(writer) EXCEPT !.pending = <<>>]
  BY <1>5, <1>9 DEF Writers
<1> QED
  BY <1>1, <1>2, <1>6, <1>7, <1>8, <1>9

(* An event that is under way belongs to an attempt that is.               *)
LEMMA UnderWay ==
  ASSUME OneAttemptUnderWay, alive,
         ui # <<>> \/ writer.pending # <<>> \/ queue # <<>> \/ DOMAIN loading # {}
  PROVE  /\ state = "kInProgress" /\ cookieCalls = 0 /\ sessionTask = attempt
         /\ attempt > 0 /\ writer.of = attempt
         /\ \E k \in 0 .. Chunks : InLine(k)
BY DEF OneAttemptUnderWay, NothingUnderWay, NoneHanded

(* The steps that end an attempt leave nothing under way and, without an    *)
(* error, everything written; one that the writer still has to finish keeps *)
(* its place.                                                               *)
LEMMA FinishStep ==
  ASSUME TaskTypeOK, alive, NEW k \in 0 .. Chunks, InLine(k),
         FinishWriter \/ FinishEnds
  PROVE  /\ writer'.of = writer.of /\ writer'.wrote = writer.wrote
         /\ writer'.failed = writer.failed
         /\ \/ /\ state' = "kComplete" /\ NothingUnderWay'
               /\ errorCode' = 0 => k = Chunks
            \/ /\ UNCHANGED <<state, sessionTask>>
               /\ InLine(k)'
<1>1. PICK q : /\ (q = ui /\ FinishWriter) \/ (q = writer.pending /\ FinishEnds)
               /\ q # <<>> /\ Head(q).kind = "complete"
  BY DEF FinishWriter, FinishEnds, IsUI, PendingIs
<1>2. k \in Nat /\ "data" # "complete"
  OBVIOUS
<1>3. PICK e \in {0, 1} :
        /\ q = <<Complete(attempt, e)>>
        /\ ~blocked /\ (e = 0 => k = Chunks)
        /\ queue = <<>> /\ DOMAIN loading = {}
  BY <1>1, <1>2, HandedIs
<1>4. (q = ui => writer.pending = <<>>) /\ (q = writer.pending => ui = <<>>)
  BY <1>1, <1>2, HandedIs
<1>5. Head(q) = Complete(attempt, e) /\ Head(q).error = e /\ Tail(q) = <<>>
  BY <1>3 DEF Complete
<1>6. writer \in Writers /\ UNCHANGED <<queue, loading, blocked, attempt>>
  BY TaskTypes DEF FinishWriter, FinishEnds
<1>7. ASSUME NEW p
      PROVE  /\ [writer EXCEPT !.pending = p].wrote = writer.wrote
             /\ [writer EXCEPT !.pending = p].of = writer.of
             /\ [writer EXCEPT !.pending = p].failed = writer.failed
             /\ [writer EXCEPT !.pending = p].pending = p
  BY <1>6 DEF Writers
<1>8. ASSUME DownloadFinished(Head(q).error), ui' = <<>>, writer'.pending = <<>>
      PROVE  state' = "kComplete" /\ NothingUnderWay' /\ (errorCode' = 0 => k = Chunks)
  BY <1>3, <1>5, <1>6, <1>8 DEF DownloadFinished, NothingUnderWay, NoneHanded
<1>9. CASE q = writer.pending /\ FinishEnds
  BY <1>4, <1>7, <1>8, <1>9 DEF FinishEnds
<1>10. CASE q = ui /\ FinishWriter
  <2>1. ui' = <<>> /\ writer.pending = <<>>
    BY <1>4, <1>5, <1>10 DEF FinishWriter
  <2>2. CASE DownloadFinished(Head(ui).error) /\ UNCHANGED writer
    BY <1>8, <1>10, <2>1, <2>2
  <2>3. CASE /\ writer' = [writer EXCEPT !.pending = <<Head(ui)>>]
             /\ UNCHANGED <<state, sessionTask>>
    <3>1. /\ writer'.pending = <<Complete(attempt, e)>> /\ writer'.wrote = writer.wrote
          /\ writer'.of = writer.of /\ writer'.failed = writer.failed
      BY <1>5, <1>7, <1>10, <2>3
    <3>2. Handed(Complete(attempt, e))'
      BY <1>6, <2>1, <3>1 DEF Handed, Complete
    <3>3. InLine(k)'
      BY <1>3, <1>6, <3>1, <3>2 DEF InLine
    <3> QED
      BY <2>3, <3>1, <3>3
  <2> QED
    BY <1>10, <2>2, <2>3 DEF FinishWriter
<1> QED
  BY <1>1, <1>9, <1>10

(* Every action keeps one attempt under way.                               *)
LEMMA OneAttemptStep ==
  ASSUME TaskTypeOK, OneAttemptUnderWay, TaskNext
  PROVE  OneAttemptUnderWay'
<1> USE TaskTypes
<1>1. CASE Start
  <2>1. alive /\ cookieCalls = 0 /\ NothingUnderWay /\ attempt \in Nat
    BY <1>1 DEF Start, MayStart, OneAttemptUnderWay
  <2>2. /\ writer'.pending = <<>> /\ writer'.wrote = <<>> /\ ~writer'.failed
        /\ writer'.of = attempt'
    BY <1>1 DEF Start, NewWriter
  <2>3. NothingUnderWay'
    BY <1>1, <2>1, <2>2 DEF Start, NothingUnderWay, NoneHanded
  <2>4. attempt' > 0 /\ cookieCalls' = 1 /\ state' = "kInProgress" /\ alive'
    BY <1>1, <2>1 DEF Start
  <2> QED
    BY <2>2, <2>3, <2>4 DEF OneAttemptUnderWay
<1>2. CASE StartWithCookies
  <2>1. CASE ~alive
    BY <1>2, <2>1 DEF StartWithCookies, OneAttemptUnderWay
  <2>2. CASE alive
    <3>1. /\ state = "kInProgress" /\ cookieCalls = 1 /\ NothingUnderWay
          /\ writer.wrote = <<>> /\ ~writer.failed /\ attempt > 0 /\ writer.of = attempt
      BY <1>2, <2>2 DEF StartWithCookies, OneAttemptUnderWay
    <3>2. /\ sessionTask' = attempt /\ DOMAIN loading' = {attempt} /\ loading'[attempt] = 0
          /\ cookieCalls' = 0 /\ UNCHANGED <<alive, state, attempt, writer, queue, blocked, ui>>
      BY <1>2, <2>2, <3>1 DEF StartWithCookies, NothingUnderWay
    <3>3. StillLoads(0)'
      BY <3>1, <3>2 DEF StillLoads, NothingUnderWay
    <3>4. InLine(0)'
      BY <3>1, <3>2, <3>3 DEF InLine, NothingUnderWay, NoneHanded
    <3>5. 0 \in 0 .. Chunks
      OBVIOUS
    <3> QED
      BY <2>2, <3>1, <3>2, <3>4, <3>5 DEF OneAttemptUnderWay
  <2> QED
    BY <2>1, <2>2
<1>3. CASE Cancel \/ Destroy
  BY <1>3 DEF Cancel, Destroy, OneAttemptUnderWay
<1>4. CASE \/ RunDelegate \/ WriteData \/ WriteEnds
           \/ \E a \in 1 .. MaxStarts : ReceiveChunk(a) \/ \E e \in {0, 1} : LoadEnds(a, e)
  <2>1. UNCHANGED <<alive, state, attempt, cookieCalls, sessionTask>>
    BY <1>4 DEF RunDelegate, WriteData, WriteEnds, ReceiveChunk, LoadEnds
  <2>2. CASE ~alive
    <3>1. ~WriteEnds
      BY <2>2 DEF OneAttemptUnderWay, WriteEnds, PendingIs, NoWriter, NewWriter
    <3>2. UNCHANGED writer
      BY <1>4, <2>2, <3>1 DEF RunDelegate, WriteData, ReceiveChunk, LoadEnds
    <3> QED
      BY <2>1, <2>2, <3>2 DEF OneAttemptUnderWay
  <2>3. CASE alive
    <3>1. ui # <<>> \/ writer.pending # <<>> \/ queue # <<>> \/ DOMAIN loading # {}
      BY <1>4 DEF RunDelegate, WriteData, IsUI, WriteEnds, PendingIs, ReceiveChunk, LoadEnds
    <3>2. /\ state = "kInProgress" /\ cookieCalls = 0 /\ sessionTask = attempt
          /\ attempt > 0 /\ writer.of = attempt
          /\ \E k \in 0 .. Chunks : InLine(k)
      BY <2>3, <3>1, UnderWay
    <3>3. PICK k \in 0 .. Chunks : InLine(k)
      BY <3>2
    <3>4. \E j \in 0 .. Chunks : InLine(j)'
      BY <1>4, <2>1, <2>3, <3>3, LineStep
    <3>5. writer'.of = writer.of
      <4>1. CASE WriteData \/ WriteEnds
        <5>1. k \in Nat
          OBVIOUS
        <5> QED
          BY <3>3, <4>1, <5>1, WriteStep
      <4>2. CASE ~(WriteData \/ WriteEnds)
        BY <1>4, <4>2 DEF RunDelegate, ReceiveChunk, LoadEnds
      <4> QED
        BY <4>1, <4>2
    <3> QED
      BY <2>1, <2>3, <3>2, <3>4, <3>5 DEF OneAttemptUnderWay
  <2> QED
    BY <2>2, <2>3
<1>5. CASE DropData
  BY <1>5 DEF DropData, OneAttemptUnderWay
<1>6. CASE FinishWriter \/ FinishEnds
  <2>1. UNCHANGED <<alive, attempt, cookieCalls>>
    BY <1>6 DEF FinishWriter, FinishEnds
  <2>2. CASE ~alive
    <3>1. ~FinishEnds
      BY <2>2 DEF OneAttemptUnderWay, FinishEnds, PendingIs, NoWriter, NewWriter
    <3> QED
      BY <1>6, <2>1, <2>2, <3>1 DEF FinishWriter, OneAttemptUnderWay
  <2>3. CASE alive
    <3>1. ui # <<>> \/ writer.pending # <<>>
      BY <1>6 DEF FinishWriter, IsUI, FinishEnds, PendingIs
    <3>2. /\ state = "kInProgress" /\ cookieCalls = 0 /\ sessionTask = attempt
          /\ attempt > 0 /\ writer.of = attempt
          /\ \E k \in 0 .. Chunks : InLine(k)
      BY <2>3, <3>1, UnderWay
    <3>3. PICK k \in 0 .. Chunks : InLine(k)
      BY <3>2
    <3>4. /\ writer'.of = writer.of
          /\ \/ state' = "kComplete" /\ NothingUnderWay'
             \/ UNCHANGED <<state, sessionTask>> /\ InLine(k)'
      BY <1>6, <2>3, <3>3, FinishStep
    <3> QED
      BY <2>1, <2>3, <3>2, <3>4 DEF OneAttemptUnderWay
  <2> QED
    BY <2>2, <2>3
<1> QED
  BY <1>1, <1>2, <1>3, <1>4, <1>5, <1>6 DEF TaskNext, Step, Network

(* Every action keeps what the writer holds in order.                      *)
LEMMA WriterStep ==
  ASSUME TaskTypeOK, OneAttemptUnderWay, WriterHoldsItsDownload, TaskNext
  PROVE  WriterHoldsItsDownload'
<1>1. CASE Start
  BY <1>1 DEF Start, NewWriter, WriterHoldsItsDownload
<1>2. CASE Cancel \/ Destroy
  BY <1>2 DEF Cancel, Destroy, NoWriter, NewWriter, WriterHoldsItsDownload
<1>3. ASSUME writer'.wrote = writer.wrote, writer'.of = writer.of
      PROVE  WriterHoldsItsDownload'
  BY <1>3 DEF WriterHoldsItsDownload
<1>4. CASE \/ RunDelegate \/ DropData \/ StartWithCookies
           \/ \E a \in 1 .. MaxStarts : ReceiveChunk(a) \/ \E e \in {0, 1} : LoadEnds(a, e)
  BY <1>3, <1>4 DEF RunDelegate, DropData, StartWithCookies, ReceiveChunk, LoadEnds
<1>5. CASE FinishWriter \/ FinishEnds
  <2>1. CASE ~alive
    <3>1. ~FinishEnds
      BY <2>1 DEF OneAttemptUnderWay, FinishEnds, PendingIs, NoWriter, NewWriter
    <3> QED
      BY <1>3, <1>5, <2>1, <3>1 DEF FinishWriter
  <2>2. CASE alive
    <3>1. ui # <<>> \/ writer.pending # <<>>
      BY <1>5 DEF FinishWriter, IsUI, FinishEnds, PendingIs
    <3>2. PICK k \in 0 .. Chunks : InLine(k)
      BY <2>2, <3>1, UnderWay
    <3> QED
      BY <1>3, <1>5, <2>2, <3>2, FinishStep
  <2> QED
    BY <2>1, <2>2
<1>6. CASE WriteData \/ WriteEnds
  <2>1. CASE ~alive
    BY <1>6, <2>1 DEF OneAttemptUnderWay, WriteData, WriteEnds, PendingIs, NoWriter, NewWriter
  <2>2. CASE alive
    <3>1. ui # <<>> \/ writer.pending # <<>>
      BY <1>6 DEF WriteData, IsUI, WriteEnds, PendingIs
    <3>2. PICK k \in 0 .. Chunks : InLine(k)
      BY <2>2, <3>1, UnderWay
    <3>3. k \in Nat /\ writer.of = attempt
      BY <2>2, <3>1, UnderWay
    <3>4. /\ writer'.of = writer.of
          /\ \/ writer'.wrote = writer.wrote
             \/ writer'.wrote = Append(writer.wrote, <<attempt, k + 1>>)
      BY <1>6, <3>2, <3>3, WriteStep
    <3>5. CASE writer'.wrote = Append(writer.wrote, <<attempt, k + 1>>)
      <4>1. writer.wrote \in Seq(Nat \X Nat) /\ Len(writer.wrote) \in Nat
        BY TaskTypes
      <4>2. /\ DOMAIN writer.wrote = 1 .. Len(writer.wrote)
            /\ DOMAIN writer'.wrote = 1 .. Len(writer.wrote) + 1
            /\ \A i \in 1 .. Len(writer.wrote) : writer'.wrote[i] = writer.wrote[i]
            /\ writer'.wrote[Len(writer.wrote) + 1] = <<attempt, k + 1>>
            /\ \A i \in 1 .. Len(writer.wrote) : writer.wrote[i] \in Nat \X Nat
        BY <3>5, <4>1
      <4>3. ASSUME NEW i \in 1 .. Len(writer.wrote)
            PROVE  writer.wrote[i][2] \in Nat /\ writer.wrote[i][2] < k + 1
        <5>1. writer.wrote[i][2] \in Nat /\ writer.wrote[i][2] <= k
          BY <3>2, <4>2 DEF InLine
        <5> QED
          BY <3>3, <5>1
      <4>4. ASSUME NEW i \in 1 .. Len(writer.wrote) + 1
            PROVE  /\ writer'.wrote[i][1] = writer'.of
                   /\ i > 1 => writer'.wrote[i - 1][2] < writer'.wrote[i][2]
        <5>1. CASE i = Len(writer.wrote) + 1
          <6>1. writer'.wrote[i][1] = attempt /\ writer'.wrote[i][2] = k + 1
            BY <4>2, <5>1
          <6>2. i > 1 => i - 1 \in 1 .. Len(writer.wrote)
            BY <4>1, <5>1
          <6>3. i > 1 => writer'.wrote[i - 1][2] < k + 1
            BY <4>2, <4>3, <6>2
          <6> QED
            BY <3>3, <3>4, <6>1, <6>3
        <5>2. CASE i # Len(writer.wrote) + 1
          <6>1. i \in 1 .. Len(writer.wrote) /\ (i > 1 => i - 1 \in 1 .. Len(writer.wrote))
            BY <4>1, <5>2
          <6> QED
            BY <3>4, <4>2, <6>1 DEF WriterHoldsItsDownload
        <5> QED
          BY <5>1, <5>2
      <4> QED
        BY <4>2, <4>4 DEF WriterHoldsItsDownload
    <3> QED
      BY <1>3, <3>4, <3>5
  <2> QED
    BY <2>1, <2>2
<1> QED
  BY <1>1, <1>2, <1>4, <1>5, <1>6 DEF TaskNext, Step, Network

(* Every action keeps a complete download written.                         *)
LEMMA CompleteStep ==
  ASSUME TaskTypeOK, OneAttemptUnderWay, CompleteMeansWritten, TaskNext
  PROVE  CompleteMeansWritten'
<1>1. CASE Start \/ Cancel \/ Destroy
  BY <1>1 DEF Start, Cancel, Destroy, CompleteMeansWritten
<1>2. CASE FinishWriter \/ FinishEnds
  <2>1. CASE ~alive
    <3>1. ~alive'
      BY <1>2, <2>1 DEF FinishWriter, FinishEnds
    <3> QED
      BY <3>1 DEF CompleteMeansWritten
  <2>2. CASE alive
    <3>1. ui # <<>> \/ writer.pending # <<>>
      BY <1>2 DEF FinishWriter, IsUI, FinishEnds, PendingIs
    <3>2. PICK k \in 0 .. Chunks : InLine(k)
      BY <2>2, <3>1, UnderWay
    <3>3. state = "kInProgress"
      BY <2>2, <3>1, UnderWay
    <3>4. /\ writer'.wrote = writer.wrote /\ writer'.failed = writer.failed
          /\ (state' = "kComplete" /\ (errorCode' = 0 => k = Chunks)) \/ state' = state
      BY <1>2, <2>2, <3>2, FinishStep
    <3>5. ~writer.failed => Len(writer.wrote) = k
      BY <3>2 DEF InLine
    <3> QED
      BY <3>3, <3>4, <3>5 DEF CompleteMeansWritten
  <2> QED
    BY <2>1, <2>2
<1>3. CASE WriteData \/ WriteEnds
  <2>1. alive /\ (ui # <<>> \/ writer.pending # <<>>)
    BY <1>3 DEF WriteData, IsUI, WriteEnds, PendingIs, OneAttemptUnderWay, NoWriter, NewWriter
  <2>2. state = "kInProgress"
    BY <2>1, UnderWay
  <2> QED
    BY <1>3, <2>2 DEF WriteData, WriteEnds, CompleteMeansWritten
<1>4. CASE \/ RunDelegate \/ DropData \/ StartWithCookies
           \/ \E a \in 1 .. MaxStarts : ReceiveChunk(a) \/ \E e \in {0, 1} : LoadEnds(a, e)
  BY <1>4 DEF RunDelegate, DropData, StartWithCookies, ReceiveChunk, LoadEnds,
              CompleteMeansWritten
<1> QED
  BY <1>1, <1>2, <1>3, <1>4 DEF TaskNext, Step, Network

(* A download hands its writer the chunks of its own attempt in order, and  *)
(* is complete without an error only when all of them were written or       *)
(* refused, for any number of chunks and retries and every interleaving of  *)
(* the network, the delegate queue, the UI thread and the writer.           *)
THEOREM DownloadsAreWritten == TaskSpec => []TaskInv
<1>1. TaskInit => TaskInv
  <2> SUFFICES ASSUME TaskInit PROVE TaskInv
    OBVIOUS
  <2>1. 0 \in 0 .. MaxStarts /\ NoWriter \in Writers
    <3>1. <<>> \in Seq(Nat \X Nat) /\ <<>> \in Seq(Event) /\ 0 \in 0 .. MaxStarts
      BY EmptySeq
    <3> QED
      BY <3>1 DEF NoWriter, NewWriter, Writers
  <2>2. <<>> \in Seq(Event) /\ DOMAIN <<>> = {} /\ <<>> \in [DOMAIN <<>> -> 0 .. Chunks]
    BY EmptySeq
  <2>3. TaskTypeOK
    BY <2>1, <2>2 DEF TaskInit, TaskTypeOK, NoTask
  <2>4. OneAttemptUnderWay
    BY <2>2 DEF TaskInit, OneAttemptUnderWay, NothingUnderWay, NoneHanded, NoWriter, NewWriter
  <2>5. WriterHoldsItsDownload /\ CompleteMeansWritten
    BY <2>2 DEF TaskInit, NoWriter, NewWriter, WriterHoldsItsDownload, CompleteMeansWritten
  <2> QED
    BY <2>3, <2>4, <2>5 DEF TaskInv
<1>2. TaskInv /\ [TaskNext]_taskVars => TaskInv'
  <2> SUFFICES ASSUME TaskInv, [TaskNext]_taskVars PROVE TaskInv'
    OBVIOUS
  <2>1. TaskTypeOK'
    BY TaskTypeStep DEF TaskInv
  <2>2. CASE TaskNext
    BY <2>1, <2>2, OneAttemptStep, WriterStep, CompleteStep DEF TaskInv
  <2>3. CASE UNCHANGED taskVars
    <3>1. OneAttemptUnderWay'
      <4>1. ASSUME NEW k \in 0 .. Chunks, InLine(k) PROVE InLine(k)'
        BY <2>3, <4>1, Zenon DEF taskVars, InLine, NoneHanded, Handed, StillLoads, HasEnded,
                                 Data, Complete
      <4>2. NothingUnderWay => NothingUnderWay'
        BY <2>3 DEF taskVars, NothingUnderWay, NoneHanded
      <4> QED
        BY <2>3, <4>1, <4>2 DEF taskVars, TaskInv, OneAttemptUnderWay
    <3>2. WriterHoldsItsDownload' /\ CompleteMeansWritten'
      BY <2>3 DEF taskVars, TaskInv, WriterHoldsItsDownload, CompleteMeansWritten
    <3> QED
      BY <2>1, <3>1, <3>2 DEF TaskInv
  <2> QED
    BY <2>2, <2>3
<1> QED
  BY <1>1, <1>2, PTL DEF TaskSpec

=============================================================================
