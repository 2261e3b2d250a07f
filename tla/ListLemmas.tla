----------------------------- MODULE ListLemmas -----------------------------
(***************************************************************************)
(* What the library's operators on sequences and on sets of numbers return: *)
(* the facts the proofs about tab lists and queues rest on.                 *)
(***************************************************************************)
EXTENDS Integers, Sequences, FiniteSetsExt, SequencesExt, SequenceTheorems,
        FiniteSetTheorems, WellFoundedInduction, TLAPS

(* InsertAt makes room for one element and shifts the ones behind it.      *)
LEMMA InsertAtProperties ==
  ASSUME NEW S, NEW s \in Seq(S), NEW e \in S, NEW i \in 1..(Len(s) + 1)
  PROVE  /\ InsertAt(s, i, e) \in Seq(S)
         /\ Len(InsertAt(s, i, e)) = Len(s) + 1
         /\ \A k \in 1..(Len(s) + 1) :
              InsertAt(s, i, e)[k] =
                IF k < i THEN s[k] ELSE IF k = i THEN e ELSE s[k - 1]
<1> DEFINE front == SubSeq(s, 1, i - 1)
           back  == SubSeq(s, i, Len(s))
           left  == front \o <<e>>
<1>0. Len(s) \in Nat /\ \A k \in 1..Len(s) : s[k] \in S
  BY LenProperties, ElementOfSeq
<1>1. /\ front \in Seq(S)
      /\ Len(front) = i - 1
      /\ \A k \in 1..(i - 1) : front[k] = s[k]
  BY <1>0, SubSeqProperties
<1>2. /\ back \in Seq(S)
      /\ Len(back) = Len(s) - i + 1
      /\ \A k \in 1..(Len(s) - i + 1) : back[k] = s[i + k - 1]
  BY <1>0, SubSeqProperties
<1>3. <<e>> \in Seq(S) /\ Len(<<e>>) = 1 /\ <<e>>[1] = e
  OBVIOUS
<1> HIDE DEF front, back
<1>4. /\ left \in Seq(S)
      /\ Len(left) = i
      /\ \A k \in 1..i : left[k] = IF k <= i - 1 THEN front[k] ELSE <<e>>[k - (i - 1)]
  BY <1>1, <1>3, ConcatProperties
<1> HIDE DEF left
<1> DEFINE t == left \o back
<1>5. /\ t \in Seq(S)
      /\ Len(t) = Len(s) + 1
      /\ \A k \in 1..(Len(s) + 1) : t[k] = IF k <= i THEN left[k] ELSE back[k - i]
  BY <1>0, <1>2, <1>4, ConcatProperties
<1>6. InsertAt(s, i, e) = t
  BY DEF InsertAt, left, front, back
<1> HIDE DEF t
<1>7. ASSUME NEW k \in 1..(Len(s) + 1)
      PROVE  t[k] = IF k < i THEN s[k] ELSE IF k = i THEN e ELSE s[k - 1]
  <2>1. CASE k < i
    BY <2>1, <1>0, <1>1, <1>4, <1>5
  <2>2. CASE k = i
    <3>1. t[k] = left[i] /\ left[i] = <<e>>[i - (i - 1)] /\ i - (i - 1) = 1
      BY <2>2, <1>0, <1>4, <1>5
    <3> QED
      BY <2>2, <3>1, <1>3
  <2>3. CASE k > i
    <3>1. /\ ~(k <= i) /\ ~(k < i) /\ k # i
          /\ k - i \in 1..(Len(s) - i + 1) /\ i + (k - i) - 1 = k - 1
      BY <2>3, <1>0
    <3>2. t[k] = back[k - i] /\ back[k - i] = s[i + (k - i) - 1]
      BY <3>1, <1>2, <1>5
    <3> QED
      BY <3>1, <3>2
  <2> QED
    BY <1>0, <2>1, <2>2, <2>3
<1> QED
  BY <1>5, <1>6, <1>7

(* RemoveAt closes the gap.                                                *)
LEMMA RemoveAtProperties ==
  ASSUME NEW S, NEW s \in Seq(S), NEW i \in 1..Len(s)
  PROVE  /\ RemoveAt(s, i) \in Seq(S)
         /\ Len(RemoveAt(s, i)) = Len(s) - 1
         /\ \A k \in 1..(Len(s) - 1) :
              RemoveAt(s, i)[k] = IF k < i THEN s[k] ELSE s[k + 1]
<1> DEFINE front == SubSeq(s, 1, i - 1)
           back  == SubSeq(s, i + 1, Len(s))
<1>0. Len(s) \in Nat /\ \A k \in 1..Len(s) : s[k] \in S
  BY LenProperties, ElementOfSeq
<1>1. /\ front \in Seq(S)
      /\ Len(front) = i - 1
      /\ \A k \in 1..(i - 1) : front[k] = s[k]
  BY <1>0, SubSeqProperties
<1>2. /\ back \in Seq(S)
      /\ Len(back) = Len(s) - i
      /\ \A k \in 1..(Len(s) - i) : back[k] = s[i + k]
  <2>1. \A k \in (i + 1)..Len(s) : s[k] \in S
    BY <1>0
  <2>2. /\ back \in Seq(S)
        /\ Len(back) = IF i + 1 <= Len(s) THEN Len(s) - (i + 1) + 1 ELSE 0
        /\ \A k \in 1..(Len(s) - (i + 1) + 1) : back[k] = s[(i + 1) + k - 1]
    BY <1>0, <2>1, SubSeqProperties
  <2> QED
    BY <1>0, <2>2
<1> HIDE DEF front, back
<1> DEFINE t == front \o back
<1>3. /\ t \in Seq(S)
      /\ Len(t) = Len(front) + Len(back)
      /\ \A k \in 1..(Len(front) + Len(back)) :
           t[k] = IF k <= Len(front) THEN front[k] ELSE back[k - Len(front)]
  BY <1>1, <1>2, ConcatProperties
<1>4. RemoveAt(s, i) = t
  BY DEF RemoveAt, front, back
<1> HIDE DEF t
<1>5. /\ Len(t) = Len(s) - 1
      /\ \A k \in 1..(Len(s) - 1) :
           t[k] = IF k <= i - 1 THEN front[k] ELSE back[k - (i - 1)]
  <2>1. Len(front) + Len(back) = Len(s) - 1
    BY <1>0, <1>1, <1>2
  <2> QED
    BY <1>1, <1>3, <2>1
<1>6. ASSUME NEW k \in 1..(Len(s) - 1)
      PROVE  t[k] = IF k < i THEN s[k] ELSE s[k + 1]
  <2>1. CASE k < i
    <3>1. k <= i - 1 /\ k \in 1..(i - 1)
      BY <2>1, <1>0
    <3> QED
      BY <2>1, <3>1, <1>1, <1>5
  <2>2. CASE ~(k < i)
    <3>0. ~(k <= i - 1) /\ k - (i - 1) \in 1..(Len(s) - i)
      BY <2>2, <1>0
    <3>1. t[k] = back[k - (i - 1)] /\ k - (i - 1) \in 1..(Len(s) - i)
      BY <3>0, <1>5
    <3>2. i + (k - (i - 1)) = k + 1
      BY <1>0
    <3> QED
      BY <2>2, <3>1, <3>2, <1>2
  <2> QED
    BY <2>1, <2>2
<1> QED
  BY <1>3, <1>4, <1>5, <1>6

(* A nonempty set of naturals has a smallest element, and Min returns it.  *)
LEMMA MinOfNaturals ==
  ASSUME NEW T, T \subseteq Nat, T # {}
  PROVE  Min(T) \in T /\ \A y \in T : Min(T) <= y
<1>1. PICK x \in T : \A y \in T : <<y, x>> \notin OpToRel(<, Nat)
  BY NatLessThanWellFounded, WFMin
<1>2. \A y \in T : ~(y < x)
  BY <1>1 DEF OpToRel
<1>3. x \in T /\ \A y \in T : x =< y
  BY <1>2
<1> QED
  BY <1>3 DEF Min

(* A nonempty set of numbers up to n has a largest element, and Max        *)
(* returns it.                                                             *)
LEMMA MaxOfInterval ==
  ASSUME NEW n \in Nat, NEW T, T \subseteq 0..n, T # {}
  PROVE  Max(T) \in T /\ \A y \in T : y <= Max(T)
<1> DEFINE U == {n - x : x \in T}
<1>1. U \subseteq Nat /\ U # {}
  <2>1. PICK x : x \in T
    OBVIOUS
  <2>2. n - x \in U
    BY <2>1
  <2>3. \A y \in T : n - y \in Nat
    OBVIOUS
  <2> QED
    BY <2>2, <2>3
<1>2. Min(U) \in U /\ \A y \in U : Min(U) <= y
  BY <1>1, MinOfNaturals
<1>3. PICK x \in T : Min(U) = n - x
  BY <1>2
<1>4. \A y \in T : n - x <= n - y
  BY <1>2, <1>3
<1>5. x \in T /\ \A y \in T : x >= y
  BY <1>4
<1> QED
  BY <1>5 DEF Max

(* Min and Max of two numbers.                                             *)
LEMMA MinMaxOfPair ==
  ASSUME NEW a \in Int, NEW b \in Int
  PROVE  /\ Min({a, b}) = IF a <= b THEN a ELSE b
         /\ Max({a, b}) = IF a >= b THEN a ELSE b
<1>1. \E x \in {a, b} : \A y \in {a, b} : x =< y
  OBVIOUS
<1>2. \E x \in {a, b} : \A y \in {a, b} : x >= y
  OBVIOUS
<1>3. Min({a, b}) \in {a, b} /\ \A y \in {a, b} : Min({a, b}) =< y
  BY <1>1 DEF Min
<1>4. Max({a, b}) \in {a, b} /\ \A y \in {a, b} : Max({a, b}) >= y
  BY <1>2 DEF Max
<1> QED
  BY <1>3, <1>4


(* RemoveFirst of the head of a queue leaves the rest of it.               *)
LEMMA RemoveFirstOfHead ==
  ASSUME NEW S, NEW s \in Seq(S), s # <<>>
  PROVE  /\ Head(s) = s[1] /\ Head(s) \in S /\ 1 \in 1..Len(s)
         /\ RemoveFirst(s, Head(s)) \in Seq(S)
         /\ Len(RemoveFirst(s, Head(s))) = Len(s) - 1
         /\ \A k \in 1..(Len(s) - 1) : RemoveFirst(s, Head(s))[k] = s[k + 1]
<1> DEFINE I == {i \in 1..Len(s) : s[i] = s[1]}
<1>1. Len(s) \in Nat \ {0} /\ 1 \in 1..Len(s) /\ Head(s) = s[1] /\ s[1] \in S
  BY EmptySeq, ElementOfSeq, HeadTailProperties
<1>2. Min(I) = 1
  <2>1. I \subseteq Nat /\ I # {} /\ 1 \in I
    BY <1>1
  <2>2. Min(I) \in I /\ \A y \in I : Min(I) <= y
    BY <2>1, MinOfNaturals
  <2>3. \A y \in I : 1 <= y /\ y \in Nat
    BY <1>1
  <2>4. Min(I) <= 1 /\ 1 <= Min(I) /\ Min(I) \in Nat
    BY <2>1, <2>2, <2>3, Zenon
  <2> QED
    BY <2>4
<1>3. RemoveFirst(s, Head(s)) = RemoveAt(s, 1)
  <2>1. SelectInSeq(s, LAMBDA v : v = s[1]) = IF I # {} THEN Min(I) ELSE 0
    BY Zenon DEF SelectInSeq
  <2>2. I # {}
    BY <1>1
  <2>3. RemoveFirst(s, s[1]) = RemoveAt(s, SelectInSeq(s, LAMBDA v : v = s[1]))
    BY <1>1, Zenon DEF RemoveFirst
  <2> HIDE DEF I
  <2> QED
    BY <1>1, <1>2, <2>1, <2>2, <2>3, Zenon
<1>4. /\ RemoveAt(s, 1) \in Seq(S)
      /\ Len(RemoveAt(s, 1)) = Len(s) - 1
      /\ \A k \in 1..(Len(s) - 1) :
           RemoveAt(s, 1)[k] = IF k < 1 THEN s[k] ELSE s[k + 1]
  BY <1>1, RemoveAtProperties
<1>5. \A k \in 1..(Len(s) - 1) : ~(k < 1)
  BY <1>1
<1> QED
  BY <1>1, <1>3, <1>4, <1>5

(* An enumeration of a finite set is a sequence that holds every element.  *)
LEMMA SetToSeqsProperties ==
  ASSUME NEW S, IsFiniteSet(S), NEW s \in SetToSeqs(S)
  PROVE  /\ s \in Seq(S)
         /\ DOMAIN s = 1..Len(s)
         /\ \A x \in S : \E k \in 1..Len(s) : s[k] = x
<1> DEFINE n == Cardinality(S)
<1>1. n \in Nat
  BY FS_CardinalityType
<1>2. s \in [1..n -> S] /\ \A i, j \in 1..n : i # j => s[i] # s[j]
  BY DEF SetToSeqs
<1>3. s \in Seq(S) /\ Len(s) = n /\ DOMAIN s = 1..Len(s)
  <2>1. s \in Seq(S)
    BY <1>1, <1>2, SeqDef
  <2>2. DOMAIN s = 1..n
    BY <1>2
  <2>3. Len(s) \in Nat /\ DOMAIN s = 1..Len(s)
    BY <2>1, LenProperties
  <2> QED
    BY <1>1, <2>1, <2>2, <2>3
<1>4. ASSUME NEW x \in S, \A k \in 1..Len(s) : s[k] # x
      PROVE  FALSE
  <2>1. s \in [1..n -> S \ {x}]
    BY <1>2, <1>3, <1>4
  <2>2. IsFiniteSet(S \ {x}) /\ Cardinality(S \ {x}) = n - 1
    BY FS_RemoveElement
  <2>3. IsFiniteSet(1..n) /\ Cardinality(1..n) = n
    BY <1>1, FS_Interval
  <2> HIDE DEF n
  <2>4. Cardinality(S \ {x}) < Cardinality(1..n)
    BY <1>1, <2>2, <2>3
  <2>5. \E i, j \in 1..n : i # j /\ s[i] = s[j]
    BY <2>1, <2>2, <2>3, <2>4, FS_PigeonHole
  <2> QED
    BY <1>2, <2>5
<1> QED
  BY <1>3, <1>4


(* IsPrefix compares element by element.                                   *)
LEMMA PrefixProperties ==
  ASSUME NEW S, NEW s \in Seq(S), NEW t \in Seq(S)
  PROVE  IsPrefix(s, t) <=> Len(s) <= Len(t) /\ \A k \in 1..Len(s) : s[k] = t[k]
<1>1. Len(s) \in Nat /\ Len(t) \in Nat
  BY LenProperties
<1>2. SubSeq(s, 1, Len(s)) = s
  BY SubSeqFull
<1> SUFFICES ASSUME Len(s) <= Len(t)
             PROVE  s = SubSeq(t, 1, Len(s)) <=> \A k \in 1..Len(s) : s[k] = t[k]
  BY <1>2 DEF IsPrefix
<1>3. \A k \in 1..Len(s) : k \in 1..Len(t) /\ t[k] \in S
  <2>1. \A k \in 1..Len(s) : k \in 1..Len(t)
    BY <1>1
  <2> QED
    BY <2>1, ElementOfSeq
<1> DEFINE u == SubSeq(t, 1, Len(s))
<1>4. u \in Seq(S) /\ Len(u) = Len(s) /\ \A k \in 1..Len(s) : u[k] = t[k]
  <2>1. /\ u \in Seq(S)
        /\ Len(u) = IF 1 <= Len(s) THEN Len(s) - 1 + 1 ELSE 0
        /\ \A k \in 1..(Len(s) - 1 + 1) : u[k] = t[1 + k - 1]
    BY <1>1, <1>3, SubSeqProperties
  <2>2. \A k \in 1..Len(s) : k \in 1..(Len(s) - 1 + 1) /\ 1 + k - 1 = k
    BY <1>1
  <2> HIDE DEF u
  <2>3. Len(u) = Len(s)
    BY <1>1, <2>1
  <2> QED
    BY <2>1, <2>2, <2>3
<1> HIDE DEF u
<1>5. s = u <=> \A k \in 1..Len(s) : s[k] = u[k]
  BY <1>4, SeqEqual
<1> QED
  BY <1>4, <1>5 DEF u

(* A queue is its head followed by its tail.                               *)
LEMMA HeadThenTail ==
  ASSUME NEW S, NEW s \in Seq(S), s # <<>>
  PROVE  /\ Head(s) \in S /\ Tail(s) \in Seq(S)
         /\ Head(s) = s[1]
         /\ s = <<Head(s)>> \o Tail(s)
<1>1. /\ Head(s) \in S /\ Head(s) = s[1] /\ Tail(s) \in Seq(S)
      /\ Len(Tail(s)) = Len(s) - 1
      /\ \A i \in 1..Len(Tail(s)) : Tail(s)[i] = s[i + 1]
      /\ Len(s) \in Nat \ {0}
  BY HeadTailProperties, EmptySeq
<1> DEFINE h == <<Head(s)>>
           t == Tail(s)
           u == h \o t
<1>2. h \in Seq(S) /\ Len(h) = 1 /\ h[1] = s[1]
  BY <1>1
<1> HIDE DEF h, t
<1>3. /\ u \in Seq(S) /\ Len(u) = 1 + Len(t)
      /\ \A i \in 1..(1 + Len(t)) : u[i] = IF i <= 1 THEN h[i] ELSE t[i - 1]
  <2>1. t \in Seq(S) /\ Len(t) \in Nat
    BY <1>1, LenProperties DEF t
  <2>2. /\ u \in Seq(S) /\ Len(u) = Len(h) + Len(t)
        /\ \A i \in 1..(Len(h) + Len(t)) :
             u[i] = IF i <= Len(h) THEN h[i] ELSE t[i - Len(h)]
    BY <1>2, <2>1, ConcatProperties
  <2> HIDE DEF u
  <2> QED
    BY <1>2, <2>1, <2>2
<1> HIDE DEF u
<1>4. ASSUME NEW i \in 1..Len(s) PROVE u[i] = s[i]
  <2>1. CASE i = 1
    BY <1>1, <1>2, <1>3, <2>1 DEF t
  <2>2. CASE i # 1
    <3>1. i - 1 \in 1..Len(t) /\ (i - 1) + 1 = i /\ ~(i <= 1) /\ i \in 1..(1 + Len(t))
      BY <1>1, <2>2 DEF t
    <3>2. u[i] = t[i - 1] /\ t[i - 1] = s[(i - 1) + 1]
      BY <1>1, <1>3, <3>1 DEF t
    <3> QED
      BY <3>1, <3>2
  <2> QED
    BY <2>1, <2>2
<1>5. Len(u) = Len(s)
  BY <1>1, <1>3 DEF t
<1>6. u = s
  BY <1>3, <1>4, <1>5, SeqEqual
<1> QED
  BY <1>1, <1>6 DEF u, h, t

(* A line a, b, c of three queues, in which elements wander from the end to *)
(* the front without a change of their order.                               *)
LEMMA QueuesInLine ==
  ASSUME NEW S, NEW a \in Seq(S), NEW b \in Seq(S), NEW c \in Seq(S)
  PROVE  /\ c # <<>> => (a \o b) \o c = (a \o Append(b, Head(c))) \o Tail(c)
         /\ b = <<>> /\ c # <<>> => (a \o b) \o c = (Append(a, Head(c)) \o b) \o Tail(c)
         /\ b # <<>> => (a \o b) \o c = (Append(a, Head(b)) \o Tail(b)) \o c
         /\ IsPrefix(a, (a \o b) \o c)
<1>0. /\ a \o b \in Seq(S) /\ (a \o b) \o c \in Seq(S) /\ b \o c \in Seq(S)
      /\ (a \o b) \o c = a \o (b \o c)
  BY ConcatProperties, ConcatAssociative
<1>2. ASSUME c # <<>>
      PROVE  (a \o b) \o c = (a \o Append(b, Head(c))) \o Tail(c)
  <2> DEFINE h == Head(c)
             t == Tail(c)
  <2>1. h \in S /\ t \in Seq(S) /\ c = <<h>> \o t
    BY <1>2, HeadThenTail
  <2> HIDE DEF h, t
  <2>2. <<h>> \in Seq(S)
    BY <2>1
  <2>3. (a \o b) \o c = ((a \o b) \o <<h>>) \o t
    <3> DEFINE p == a \o b
    <3>1. p \in Seq(S)
      BY <1>0
    <3> HIDE DEF p
    <3>2. p \o (<<h>> \o t) = (p \o <<h>>) \o t
      BY <2>1, <2>2, <3>1, ConcatAssociative, SMTT(40)
    <3> QED
      BY <2>1, <3>2 DEF p
  <2>4. (a \o b) \o <<h>> = a \o (b \o <<h>>) /\ b \o <<h>> = Append(b, h)
    BY <2>1, <2>2, ConcatAssociative, AppendIsConcat
  <2> QED
    BY <2>3, <2>4 DEF h, t
<1>3. ASSUME b = <<>>, c # <<>>
      PROVE  (a \o b) \o c = (Append(a, Head(c)) \o b) \o Tail(c)
  <2> DEFINE h == Head(c)
             t == Tail(c)
  <2>1. h \in S /\ t \in Seq(S) /\ c = <<h>> \o t
    BY <1>3, HeadThenTail
  <2> HIDE DEF h, t
  <2>2. <<h>> \in Seq(S) /\ Append(a, h) \in Seq(S) /\ Append(a, h) = a \o <<h>>
    BY <2>1, AppendProperties, AppendIsConcat
  <2>3. (a \o b) \o c = a \o c /\ Append(a, h) \o b = Append(a, h)
    BY <1>3, <2>2, ConcatEmptySeq
  <2>4. a \o c = (a \o <<h>>) \o t
    BY <2>1, <2>2, ConcatAssociative
  <2> QED
    BY <2>2, <2>3, <2>4 DEF h, t
<1>4. ASSUME b # <<>>
      PROVE  (a \o b) \o c = (Append(a, Head(b)) \o Tail(b)) \o c
  <2> DEFINE h == Head(b)
             t == Tail(b)
  <2>1. h \in S /\ t \in Seq(S) /\ b = <<h>> \o t
    BY <1>4, HeadThenTail
  <2> HIDE DEF h, t
  <2>2. <<h>> \in Seq(S) /\ Append(a, h) = a \o <<h>>
    BY <2>1, AppendIsConcat
  <2>3. a \o b = (a \o <<h>>) \o t
    BY <2>1, <2>2, ConcatAssociative, SMTT(40)
  <2> QED
    BY <2>2, <2>3 DEF h, t
<1>5. IsPrefix(a, (a \o b) \o c)
  <2> DEFINE u == a \o (b \o c)
  <2>1. /\ u \in Seq(S) /\ Len(u) = Len(a) + Len(b \o c)
        /\ \A k \in 1..(Len(a) + Len(b \o c)) :
             u[k] = IF k <= Len(a) THEN a[k] ELSE (b \o c)[k - Len(a)]
    BY <1>0, ConcatProperties
  <2>2. Len(a) \in Nat /\ Len(b \o c) \in Nat
    BY <1>0, LenProperties
  <2> HIDE DEF u
  <2>3. Len(a) <= Len(u) /\ \A k \in 1..Len(a) : a[k] = u[k]
    BY <2>1, <2>2
  <2>4. IsPrefix(a, u)
    BY <2>1, <2>3, PrefixProperties
  <2> QED
    BY <1>0, <2>4 DEF u
<1> QED
  BY <1>2, <1>3, <1>4, <1>5

(* The numbers from 1 on, continued.                                       *)
LEMMA CountingOn ==
  ASSUME NEW m \in Nat, NEW n \in Nat, NEW N \in Nat, m + n <= N
  PROVE  LET s == [k \in 1..m |-> k]
             t == [k \in 1..n |-> m + k]
         IN  s \o t = [k \in 1..(m + n) |-> k] /\ s \o t \in Seq(1..N) /\ Len(s \o t) = m + n
<1> DEFINE s == [k \in 1..m |-> k]
           t == [k \in 1..n |-> m + k]
           u == [k \in 1..(m + n) |-> k]
           S == 1..N
           c == s \o t
<1>1. s \in Seq(S) /\ Len(s) = m /\ \A k \in 1..m : s[k] = k
  <2>1. s \in [1..m -> S]
    OBVIOUS
  <2> QED
    BY <2>1, SeqDef
<1>2. t \in Seq(S) /\ Len(t) = n /\ \A k \in 1..n : t[k] = m + k
  <2>1. t \in [1..n -> S]
    OBVIOUS
  <2> QED
    BY <2>1, SeqDef
<1>3. u \in Seq(S) /\ Len(u) = m + n /\ \A k \in 1..(m + n) : u[k] = k
  <2>1. u \in [1..(m + n) -> S] /\ m + n \in Nat
    OBVIOUS
  <2> QED
    BY <2>1, SeqDef
<1> HIDE DEF s, t, u, S
<1>4. /\ c \in Seq(S) /\ Len(c) = Len(s) + Len(t)
      /\ \A k \in 1..(Len(s) + Len(t)) : c[k] = IF k <= Len(s) THEN s[k] ELSE t[k - Len(s)]
  BY <1>1, <1>2, ConcatProperties
<1> HIDE DEF c
<1>5. Len(c) = m + n /\ \A k \in 1..(m + n) : c[k] = IF k <= m THEN s[k] ELSE t[k - m]
  BY <1>1, <1>2, <1>4
<1>6. ASSUME NEW k \in 1..(m + n) PROVE c[k] = u[k]
  <2>1. CASE k <= m
    BY <1>1, <1>3, <1>5, <2>1
  <2>2. CASE ~(k <= m)
    <3>1. k - m \in 1..n /\ m + (k - m) = k
      BY <2>2
    <3> QED
      BY <1>2, <1>3, <1>5, <2>2, <3>1
  <2> QED
    BY <2>1, <2>2
<1>7. c = u
  BY <1>3, <1>4, <1>5, <1>6, SeqEqual
<1> QED
  BY <1>4, <1>5, <1>7 DEF c, s, t, u, S

(* The places of the elements of a set.                                     *)
Places(s, E) == {i \in 1..Len(s) : s[i] \in E}

(* They are finitely many.                                                 *)
LEMMA PlacesAreFinite ==
  ASSUME NEW S, NEW s \in Seq(S), NEW E
  PROVE  IsFiniteSet(Places(s, E)) /\ Cardinality(Places(s, E)) \in Nat
<1>1. IsFiniteSet(1..Len(s))
  BY LenProperties, FS_Interval
<1>2. Places(s, E) \in SUBSET (1..Len(s))
  BY DEF Places
<1> QED
  BY <1>1, <1>2, FS_Subset, FS_CardinalityType

(* No place means no element.                                              *)
LEMMA NoPlaces ==
  ASSUME NEW S, NEW s \in Seq(S), NEW E
  PROVE  Cardinality(Places(s, E)) = 0 <=> \A i \in 1..Len(s) : s[i] \notin E
<1>1. IsFiniteSet(Places(s, E))
  BY PlacesAreFinite
<1>2. Cardinality(Places(s, E)) = 0 <=> Places(s, E) = {}
  BY <1>1, FS_EmptySet
<1> QED
  BY <1>2 DEF Places

(* An element at the end is a place more ...                               *)
LEMMA PlacesOfAppend ==
  ASSUME NEW S, NEW s \in Seq(S), NEW x \in S, NEW E
  PROVE  Cardinality(Places(Append(s, x), E)) =
           Cardinality(Places(s, E)) + IF x \in E THEN 1 ELSE 0
<1> DEFINE P == Places(s, E)
           u == Append(s, x)
           n == Len(s) + 1
<1>1. IsFiniteSet(P) /\ Cardinality(P) \in Nat
  BY PlacesAreFinite
<1>2. Len(s) \in Nat /\ u \in Seq(S) /\ Len(u) = n /\ u[n] = x
        /\ \A i \in 1..Len(s) : u[i] = s[i]
  BY AppendProperties, LenProperties
<1> HIDE DEF u
<1>3. Places(u, E) = IF x \in E THEN P \cup {n} ELSE P
  BY <1>2 DEF Places
<1>4. n \notin P
  BY <1>2 DEF Places
<1> HIDE DEF P, n
<1>5. Cardinality(P \cup {n}) = Cardinality(P) + 1
  BY <1>1, <1>4, FS_AddElement
<1> QED
  BY <1>1, <1>3, <1>5 DEF u, P

(* ... and one at the head a place less when it goes.                      *)
LEMMA PlacesOfTail ==
  ASSUME NEW S, NEW s \in Seq(S), s # <<>>, NEW E
  PROVE  Cardinality(Places(s, E)) =
           Cardinality(Places(Tail(s), E)) + IF Head(s) \in E THEN 1 ELSE 0
<1> DEFINE P == Places(s, E)
           t == Tail(s)
           Q == Places(t, E)
           f == [i \in Q |-> i + 1]
<1>1. /\ Len(s) \in Nat \ {0} /\ t \in Seq(S) /\ Len(t) = Len(s) - 1
      /\ Head(s) = s[1] /\ \A i \in 1..Len(t) : t[i] = s[i + 1]
  BY HeadTailProperties, EmptySeq, LenProperties
<1> HIDE DEF t
<1>2. IsFiniteSet(P) /\ Cardinality(P) \in Nat /\ IsFiniteSet(Q) /\ Cardinality(Q) \in Nat
  BY <1>1, PlacesAreFinite
<1>3. f \in Bijection(Q, P \ {1})
  <2>1. \A i \in Q : i \in Int /\ i + 1 \in P \ {1}
    BY <1>1 DEF Places
  <2>2. ASSUME NEW j \in P \ {1}
        PROVE  \E i \in Q : f[i] = j
    <3>1. j - 1 \in Q /\ (j - 1) + 1 = j
      BY <1>1 DEF Places
    <3> QED
      BY <3>1
  <2>3. f \in [Q -> P \ {1}] /\ \A i, j \in Q : f[i] = f[j] => i = j
    BY <2>1
  <2> QED
    BY <2>2, <2>3 DEF Bijection, Injection, Surjection, IsInjective
<1> HIDE DEF f, P, Q
<1>4. IsFiniteSet(P \ {1}) /\ Cardinality(P \ {1}) = IF 1 \in P THEN Cardinality(P) - 1 ELSE Cardinality(P)
  BY <1>2, FS_RemoveElement
<1>5. Cardinality(P \ {1}) = Cardinality(Q)
  BY <1>2, <1>3, FS_Bijection DEF ExistsBijection
<1>6. Head(s) \in E <=> 1 \in P
  BY <1>1 DEF P, Places
<1> QED
  BY <1>2, <1>4, <1>5, <1>6 DEF P, Q, t

(* The places of two queues in line are those of the one and of the other. *)
LEMMA PlacesOfConcat ==
  ASSUME NEW S, NEW s \in Seq(S), NEW t \in Seq(S), NEW E
  PROVE  Cardinality(Places(s \o t, E)) = Cardinality(Places(s, E)) + Cardinality(Places(t, E))
<1> DEFINE P == Places(s, E)
           Q == Places(t, E)
           u == s \o t
           R == {Len(s) + i : i \in Q}
           f == [i \in Q |-> Len(s) + i]
<1>1. /\ Len(s) \in Nat /\ Len(t) \in Nat /\ u \in Seq(S) /\ Len(u) = Len(s) + Len(t)
      /\ \A i \in 1..Len(s) : u[i] = s[i]
      /\ \A i \in 1..Len(t) : u[Len(s) + i] = t[i]
  BY ConcatProperties, LenProperties
<1> HIDE DEF u
<1>2. IsFiniteSet(P) /\ Cardinality(P) \in Nat /\ IsFiniteSet(Q) /\ Cardinality(Q) \in Nat
  BY PlacesAreFinite
<1>3. f \in Bijection(Q, R)
  <2>1. \A i \in Q : i \in Int
    BY <1>1 DEF Places
  <2>2. f \in [Q -> R] /\ \A i, j \in Q : f[i] = f[j] => i = j
    BY <1>1, <2>1
  <2>3. \A j \in R : \E i \in Q : f[i] = j
    OBVIOUS
  <2> QED
    BY <2>2, <2>3 DEF Bijection, Injection, Surjection, IsInjective
<1>4. Places(u, E) = P \cup R
  <2>1. ASSUME NEW k \in 1..Len(u), u[k] \in E
        PROVE  k \in P \cup R
    <3>1. CASE k <= Len(s)
      BY <1>1, <2>1, <3>1 DEF Places
    <3>2. CASE k > Len(s)
      <4>1. k - Len(s) \in 1..Len(t) /\ Len(s) + (k - Len(s)) = k
        BY <1>1, <3>2
      <4>2. k - Len(s) \in Q
        BY <1>1, <2>1, <4>1 DEF Places
      <4> QED
        BY <4>1, <4>2
    <3> QED
      BY <1>1, <3>1, <3>2
  <2>2. P \subseteq Places(u, E)
    BY <1>1 DEF Places
  <2>3. \A i \in Q : Len(s) + i \in Places(u, E)
    BY <1>1 DEF Places
  <2> QED
    BY <2>1, <2>2, <2>3 DEF Places
<1>5. P \cap R = {}
  BY <1>1 DEF Places
<1> HIDE DEF f, P, Q, R
<1>6. IsFiniteSet(R) /\ Cardinality(R) = Cardinality(Q)
  BY <1>2, <1>3, FS_Bijection DEF ExistsBijection
<1>7. Cardinality(P \cup R) = Cardinality(P) + Cardinality(R) - Cardinality(P \cap R)
  BY <1>2, <1>6, FS_Union
<1>8. Cardinality(P \cap R) = 0
  BY <1>5, FS_EmptySet
<1> QED
  BY <1>2, <1>4, <1>6, <1>7, <1>8 DEF P, Q, u

(* What holds of 0 and of the successors up to L holds up to L.            *)
LEMMA CountUp ==
  ASSUME NEW L \in Nat, NEW G, 0 \in G,
         \A n \in 1..L : n - 1 \in G => n \in G
  PROVE  \A n \in 0..L : n \in G
<1> DEFINE Bad == {n \in 0..L : n \notin G}
<1> SUFFICES ASSUME Bad # {} PROVE FALSE
  OBVIOUS
<1>1. PICK m \in Bad : \A y \in Bad : m <= y
  <2>1. Bad \subseteq Nat
    OBVIOUS
  <2> HIDE DEF Bad
  <2> QED
    BY <2>1, MinOfNaturals
<1>2. m \in 0..L /\ m \notin G
  OBVIOUS
<1>3. m # 0
  BY <1>2
<1>4. m \in 1..L /\ m - 1 \in 0..L /\ ~(m <= m - 1)
  BY <1>2, <1>3
<1>5. m - 1 \notin Bad
  <2> HIDE DEF Bad
  <2> QED
    BY <1>1, <1>4
<1>6. m - 1 \in G
  BY <1>4, <1>5
<1> QED
  BY <1>2, <1>4, <1>6

(* A list of steps on a set, and the results of the steps from a base on.   *)
AreSteps(step, L, D) == step \in [1..L -> [D -> D]]
AreResults(g, base, step, L, D) ==
  g \in [0..L -> D] /\ g[0] = base /\ \A n \in 1..L : g[n] = step[n][g[n - 1]]

(* They exist: recursion over the steps defines a function.                *)
LEMMA ResultsExist ==
  ASSUME NEW D, NEW L \in Nat, NEW base \in D, NEW step, AreSteps(step, L, D)
  PROVE  \E g : AreResults(g, base, step, L, D)
<1>0. step \in [1..L -> [D -> D]]
  BY DEF AreSteps
<1> DEFINE Upto(g, n) == /\ g[0] = base
                         /\ \A k \in 1..n : g[k] = step[k][g[k - 1]]
           G == {n \in 0..L : \E g \in [0..L -> D] : Upto(g, n)}
<1>1. 0 \in G
  <2> DEFINE h == [k \in 0..L |-> base]
  <2>1. h \in [0..L -> D] /\ h[0] = base
    OBVIOUS
  <2>2. 1..0 = {}
    OBVIOUS
  <2>3. Upto(h, 0)
    BY <2>1, <2>2
  <2>4. 0 \in 0..L
    OBVIOUS
  <2> HIDE DEF Upto, h
  <2> QED
    BY <2>1, <2>3, <2>4, Zenon
<1>2. ASSUME NEW m \in 1..L, m - 1 \in G
      PROVE  m \in G
  <2>1. PICK g \in [0..L -> D] : Upto(g, m - 1)
    BY <1>2
  <2>2. m \in 0..L /\ m - 1 \in 0..L /\ m # 0
    OBVIOUS
  <2> DEFINE x == step[m][g[m - 1]]
             h == [k \in 0..L |-> IF k = m THEN x ELSE g[k]]
  <2>3. x \in D
    <3>1. g[m - 1] \in D /\ step[m] \in [D -> D]
      BY <1>0, <2>2
    <3> QED
      BY <3>1
  <2> HIDE DEF x
  <2>4. h \in [0..L -> D]
    BY <2>3
  <2>5. h[m] = x /\ \A k \in 0..L : k # m => h[k] = g[k]
    BY <2>2
  <2> HIDE DEF h
  <2>6. ASSUME NEW k \in 1..m PROVE h[k] = step[k][h[k - 1]]
    <3>1. k \in 0..L /\ k - 1 \in 0..L /\ k - 1 # m
      OBVIOUS
    <3>2. h[k - 1] = g[k - 1]
      BY <2>5, <3>1
    <3>3. CASE k = m
      BY <2>5, <3>2, <3>3 DEF x
    <3>4. CASE k # m
      <4>1. k \in 1..(m - 1)
        BY <3>4
      <4>2. g[k] = step[k][g[k - 1]]
        BY <2>1, <4>1
      <4> QED
        BY <2>5, <3>1, <3>2, <3>4, <4>2
    <3> QED
      BY <3>3, <3>4
  <2>7. h[0] = base
    BY <2>1, <2>2, <2>5
  <2>8. Upto(h, m)
    BY <2>6, <2>7
  <2> QED
    BY <2>2, <2>4, <2>8
<1>3. \A n \in 0..L : n \in G
  <2> HIDE DEF G
  <2> QED
    BY <1>1, <1>2, CountUp
<1>4. L \in 0..L
  OBVIOUS
<1>5. PICK g \in [0..L -> D] : Upto(g, L)
  BY <1>3, <1>4
<1>6. AreResults(g, base, step, L, D)
  BY <1>5 DEF AreResults
<1> QED
  BY <1>6

=============================================================================
