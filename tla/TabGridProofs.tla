--------------------------- MODULE TabGridProofs ---------------------------
(***************************************************************************)
(* WebStateList keeps ListInv for any number of tabs: the active index is   *)
(* the index of a tab or kInvalidIndex, and openers never dangle.  From it  *)
(* follow that observers learn of every change of the active WebState, and  *)
(* that the list implements TabStrip, action by action.                     *)
(*                                                                         *)
(* The tab grid, its undo of "close all" included, drives the list only     *)
(* through calls that WebStateList allows; what is proved of a list         *)
(* therefore holds of the list of a window.  The grid always shows that     *)
(* list, and the undo gives the closed tabs back as they were.              *)
(***************************************************************************)
EXTENDS TabGrid, ListLemmas

USE NoWebStateAssumption, NavIndicesAssumption

-----------------------------------------------------------------------------
(* What the accessors return.                                              *)

(* The wrappers are indexed from 1 to count, and each has its type.        *)
LEMMA WrapperFacts ==
  ASSUME TypeOK
  PROVE  /\ count \in Nat
         /\ DOMAIN web_state_wrappers = 1..count
         /\ \A k \in 1..count : web_state_wrappers[k] \in Wrapper
         /\ \A k \in 1..count : web_state_wrappers[k].ws \in Listed
         /\ Listed \subseteq WebStates
<1>1. web_state_wrappers \in Seq(Wrapper)
  BY DEF TypeOK
<1>2. /\ count \in Nat
      /\ DOMAIN web_state_wrappers = 1..count
      /\ \A k \in 1..count : web_state_wrappers[k] \in Wrapper
  BY <1>1, LenProperties, ElementOfSeq DEF count
<1>3. \A k \in 1..count : web_state_wrappers[k].ws \in WebStates
  BY <1>2 DEF Wrapper
<1> QED
  BY <1>2, <1>3 DEF Listed

(* The active WebState is null or in the list.                             *)
LEMMA ActiveIsListed ==
  ASSUME TypeOK, ActiveIndexValid
  PROVE  GetActiveWebState \in Listed \cup {NoWebState}
  BY WrapperFacts
  DEF ActiveIndexValid, ContainsIndex, GetActiveWebState, GetWebStateAt, TypeOK

(* GetIndexOfWebState finds a WebState that is in the list.                *)
LEMMA IndexOfListed ==
  ASSUME TypeOK, NEW ws \in Listed
  PROVE  /\ GetIndexOfWebState(ws) \in 0..(count - 1)
         /\ GetWebStateAt(GetIndexOfWebState(ws)) = ws
<1> DEFINE T == {i \in 0..(count - 1) : GetWebStateAt(i) = ws}
<1>0. count \in Nat
  BY WrapperFacts
<1>1. PICK k \in 1..count : web_state_wrappers[k].ws = ws
  BY DEF Listed
<1>2. k - 1 \in T
  <2>1. k - 1 \in 0..(count - 1) /\ (k - 1) + 1 = k
    BY <1>0
  <2> QED
    BY <1>1, <2>1 DEF GetWebStateAt
<1>3. T \subseteq Nat /\ T # {}
  BY <1>0, <1>2
<1>4. Min(T) \in T
  BY <1>3, MinOfNaturals
<1> QED
  BY <1>4 DEF GetIndexOfWebState

(* A search for the tabs that a WebState opened looks only behind          *)
(* start_index.                                                            *)
LEMMA OpenedByRange ==
  ASSUME TypeOK, NEW opener, NEW start_index \in 0..(count - 1),
         NEW use_group \in BOOLEAN
  PROVE  /\ OpenedBy(opener, start_index, use_group)
              \subseteq (start_index + 1)..(count - 1)
         /\ GetIndexOfNextWebStateOpenedBy(opener, start_index, use_group)
              \in {kInvalidIndex} \cup (start_index + 1)..(count - 1)
         /\ GetIndexOfLastWebStateOpenedBy(opener, start_index, use_group)
              \in {kInvalidIndex} \cup (start_index + 1)..(count - 1)
<1> DEFINE T == OpenedBy(opener, start_index, use_group)
           R == {i \in T : Min(T)..i \subseteq T}
<1>0. count \in Nat
  BY WrapperFacts
<1>1. T \subseteq (start_index + 1)..(count - 1)
  BY DEF OpenedBy
<1>2. CASE T = {}
  BY <1>2 DEF GetIndexOfNextWebStateOpenedBy, GetIndexOfLastWebStateOpenedBy
<1>3. CASE T # {}
  <2>1. T \subseteq Nat
    BY <1>0, <1>1
  <2>2. Min(T) \in T
    BY <1>3, <2>1, MinOfNaturals
  <2>3. Min(T) \in R
    <3>1. Min(T)..Min(T) = {Min(T)}
      BY <2>1, <2>2
    <3> QED
      BY <2>2, <3>1
  <2>4. R \subseteq 0..count
    BY <1>0, <1>1
  <2>5. Max(R) \in R
    BY <1>0, <2>3, <2>4, MaxOfInterval
  <2> QED
    BY <1>1, <1>3, <2>2, <2>5
    DEF GetIndexOfNextWebStateOpenedBy, GetIndexOfLastWebStateOpenedBy
<1> QED
  BY <1>1, <1>2, <1>3

(* InsertWebState puts the new tab between two tabs or at an end.          *)
LEMMA InsertionIndexRange ==
  ASSUME TypeOK, NEW force_index \in BOOLEAN, NEW index,
         force_index => index \in 0..count, NEW opener \in Listed \cup {NoWebState}
  PROVE  InsertionIndex(force_index, index, opener) \in 0..count
<1>0. count \in Nat
  BY WrapperFacts
<1>1. DetermineInsertionIndex(opener) \in Int
  <2>1. CASE opener = NoWebState
    BY <1>0, <2>1 DEF DetermineInsertionIndex
  <2>2. CASE opener # NoWebState
    <3> DEFINE i == GetIndexOfWebState(opener)
               c == GetIndexOfLastWebStateOpenedBy(opener, i, TRUE)
    <3>1. i \in 0..(count - 1)
      BY <2>2, IndexOfListed
    <3>2. c \in {kInvalidIndex} \cup (i + 1)..(count - 1)
      BY <3>1, OpenedByRange
    <3>3. DetermineInsertionIndex(opener) =
            (IF c # kInvalidIndex THEN c ELSE i) + 1
      BY <2>2 DEF DetermineInsertionIndex
    <3> HIDE DEF i, c
    <3> QED
      BY <1>0, <3>1, <3>2, <3>3 DEF kInvalidIndex
  <2> QED
    BY <2>1, <2>2
<1> QED
  BY <1>0, <1>1 DEF InsertionIndex

(* Whatever tab goes away, the order controller answers an index of the     *)
(* list that remains, or kInvalidIndex if it was the last tab; it takes     *)
(* NoSelfOpener and OpenersInList.                                          *)
LEMMA NewActiveIndexRange ==
  ASSUME ListInv, NEW index \in 0..(count - 1)
  PROVE  /\ DetermineNewActiveIndex(index) \in {kInvalidIndex} \cup 0..(count - 2)
         /\ DetermineNewActiveIndex(index) = kInvalidIndex => count = 1
<1> USE DEF kInvalidIndex
<1>0. count \in Nat /\ TypeOK
  BY WrapperFacts DEF ListInv
<1>1. ASSUME NEW i \in 0..(count - 1), i # index
      PROVE  GetValidIndex(i, index) \in 0..(count - 2)
  <2>1. CASE index < i
    <3>1. Min({0, i - 1}) = 0
      BY <1>0, <2>1, MinMaxOfPair
    <3> QED
      BY <1>0, <2>1, <3>1 DEF GetValidIndex
  <2>2. CASE ~(index < i)
    BY <1>0, <1>1, <2>2 DEF GetValidIndex
  <2> QED
    BY <2>1, <2>2
<1> DEFINE child   == GetIndexOfNextWebStateOpenedBy(GetWebStateAt(index), index, FALSE)
           opener  == GetOpenerOfWebStateAt(index)
           sibling == GetIndexOfNextWebStateOpenedBy(opener, index, FALSE)
<1>2. /\ child \in {kInvalidIndex} \cup (index + 1)..(count - 1)
      /\ sibling \in {kInvalidIndex} \cup (index + 1)..(count - 1)
  BY <1>0, OpenedByRange
<1>3. ASSUME opener # NoWebState
      PROVE  /\ GetIndexOfWebState(opener) \in 0..(count - 1)
             /\ GetIndexOfWebState(opener) # index
  <2>1. index + 1 \in 1..count
    BY <1>0
  <2>2. opener \in Listed
    BY <1>3, <2>1 DEF ListInv, OpenersInList, GetOpenerOfWebStateAt
  <2>3. opener # GetWebStateAt(index)
    BY <2>1 DEF ListInv, NoSelfOpener, GetOpenerOfWebStateAt, GetWebStateAt
  <2> QED
    BY <1>0, <2>2, <2>3, IndexOfListed
<1>4. CASE child # kInvalidIndex
  <2>1. DetermineNewActiveIndex(index) = GetValidIndex(child, index)
    BY <1>4 DEF DetermineNewActiveIndex
  <2> HIDE DEF child, sibling
  <2>2. child \in 0..(count - 1) /\ child # index
    BY <1>0, <1>2, <1>4
  <2> QED
    BY <1>1, <2>1, <2>2
<1>5. CASE child = kInvalidIndex /\ opener # NoWebState
  <2> DEFINE next == IF sibling # kInvalidIndex THEN sibling
                     ELSE GetIndexOfWebState(opener)
  <2>1. DetermineNewActiveIndex(index) = GetValidIndex(next, index)
    BY <1>5 DEF DetermineNewActiveIndex
  <2> HIDE DEF child, sibling, opener
  <2>2. next \in 0..(count - 1) /\ next # index
    BY <1>0, <1>2, <1>3, <1>5
  <2> QED
    BY <1>1, <2>1, <2>2
<1>6. CASE child = kInvalidIndex /\ opener = NoWebState
  <2>1. DetermineNewActiveIndex(index) =
          CASE count = 1                            -> -1
            [] count # 1 /\ index >= count - 1      -> index - 1
            [] OTHER                                -> index
    BY <1>6 DEF DetermineNewActiveIndex
  <2> QED
    BY <1>0, <2>1
<1> QED
  BY <1>4, <1>5, <1>6

-----------------------------------------------------------------------------
(* What the operations do to a list of wrappers, whatever its length.      *)

Ids(s) == {s[k].ws : k \in 1..Len(s)}

(* The parts of ListInv about the wrappers alone.                          *)
WellFormed(s) ==
  /\ s \in Seq(Wrapper)
  /\ \A k \in 1..Len(s) : s[k].opener # NoWebState => s[k].opener \in Ids(s)
  /\ \A j, k \in 1..Len(s) : s[j].ws = s[k].ws => j = k
  /\ \A k \in 1..Len(s) : s[k].opener # s[k].ws

(* The elements of a well-formed sequence are wrappers of WebStates.        *)
LEMMA WellFormedElements ==
  ASSUME NEW s, WellFormed(s)
  PROVE  /\ s \in Seq(Wrapper)
         /\ Len(s) \in Nat
         /\ \A k \in 1..Len(s) : /\ s[k] \in Wrapper
                                /\ s[k].ws \in WebStates
                                /\ s[k].ws # NoWebState
<1>1. s \in Seq(Wrapper) /\ Len(s) \in Nat
  BY LenProperties DEF WellFormed
<1>2. \A k \in 1..Len(s) : s[k] \in Wrapper
  BY <1>1, ElementOfSeq
<1> QED
  BY <1>1, <1>2 DEF Wrapper

(* Inserting a WebState that is not in the list, with an opener that is.   *)
LEMMA InsertionWellFormed ==
  ASSUME NEW s, WellFormed(s), NEW e \in Wrapper, e.ws \notin Ids(s),
         e.opener \in Ids(s) \cup {NoWebState}, NEW i \in 1..(Len(s) + 1)
  PROVE  /\ WellFormed(InsertAt(s, i, e))
         /\ Len(InsertAt(s, i, e)) = Len(s) + 1
<1> DEFINE t == InsertAt(s, i, e)
<1>0. s \in Seq(Wrapper) /\ Len(s) \in Nat
  BY LenProperties DEF WellFormed
<1>1. /\ t \in Seq(Wrapper)
      /\ Len(t) = Len(s) + 1
      /\ \A k \in 1..(Len(s) + 1) :
           t[k] = IF k < i THEN s[k] ELSE IF k = i THEN e ELSE s[k - 1]
  BY <1>0, InsertAtProperties
<1> HIDE DEF t
<1> DEFINE old(k) == IF k < i THEN k ELSE k - 1
<1>2. ASSUME NEW k \in 1..Len(t)
      PROVE  \/ k = i /\ t[k] = e
             \/ k # i /\ old(k) \in 1..Len(s) /\ t[k] = s[old(k)]
  <2>1. k \in 1..(Len(s) + 1)
    BY <1>1
  <2>2. k # i => old(k) \in 1..Len(s)
    BY <1>0, <2>1
  <2> QED
    BY <1>1, <2>1, <2>2
<1>3. Ids(s) \subseteq Ids(t)
  <2>1. ASSUME NEW k \in 1..Len(s)
        PROVE  s[k].ws \in Ids(t)
    <3>1. CASE k < i
      <4>1. k \in 1..Len(t) /\ t[k] = s[k]
        BY <1>0, <1>1, <3>1
      <4> QED
        BY <4>1 DEF Ids
    <3>2. CASE ~(k < i)
      <4>1. k + 1 \in 1..Len(t) /\ t[k + 1] = s[k]
        BY <1>0, <1>1, <3>2
      <4> QED
        BY <4>1 DEF Ids
    <3> QED
      BY <3>1, <3>2
  <2> QED
    BY <2>1 DEF Ids
<1>4. ASSUME NEW k \in 1..Len(t), t[k].opener # NoWebState
      PROVE  t[k].opener \in Ids(t)
  BY <1>2, <1>3, <1>4 DEF WellFormed
<1>5. ASSUME NEW j \in 1..Len(t), NEW k \in 1..Len(t), t[j].ws = t[k].ws
      PROVE  j = k
  <2>1. CASE (j = i /\ k # i) \/ (j # i /\ k = i)
    BY <1>2, <1>5, <2>1 DEF Ids
  <2>2. CASE j # i /\ k # i
    <3>1. old(j) = old(k)
      <4>1. /\ old(j) \in 1..Len(s) /\ t[j] = s[old(j)]
            /\ old(k) \in 1..Len(s) /\ t[k] = s[old(k)]
        BY <1>2, <2>2
      <4>2. \A m, n \in 1..Len(s) : s[m].ws = s[n].ws => m = n
        BY DEF WellFormed
      <4> HIDE DEF old
      <4> QED
        BY <1>5, <4>1, <4>2
    <3>2. j \in Int /\ k \in Int /\ i \in Int
      BY <1>0, <1>1
    <3> QED
      BY <2>2, <3>1, <3>2
  <2>3. CASE j = i /\ k = i
    BY <2>3
  <2> QED
    BY <2>1, <2>2, <2>3
<1>6. ASSUME NEW k \in 1..Len(t)
      PROVE  t[k].opener # t[k].ws
  <2>1. e.opener # e.ws
    BY DEF Wrapper
  <2> QED
    BY <1>2, <2>1 DEF WellFormed
<1>7. WellFormed(t)
  BY <1>1, <1>4, <1>5, <1>6 DEF WellFormed
<1> QED
  BY <1>1, <1>7 DEF t

(* t holds the elements of s in another order.                             *)
Reordered(s, t) ==
  /\ t \in Seq(Wrapper)
  /\ Len(t) = Len(s)
  /\ \E p, q \in [1..Len(s) -> 1..Len(s)] :
       \A k \in 1..Len(s) : t[k] = s[p[k]] /\ p[q[k]] = k /\ q[p[k]] = k

(* Reordering the list.                                                    *)
LEMMA ReorderingWellFormed ==
  ASSUME NEW s, WellFormed(s), NEW t, Reordered(s, t)
  PROVE  WellFormed(t)
<1>0. PICK p, q \in [1..Len(s) -> 1..Len(s)] :
        \A k \in 1..Len(s) : t[k] = s[p[k]] /\ p[q[k]] = k /\ q[p[k]] = k
  BY DEF Reordered
<1>a. t \in Seq(Wrapper) /\ Len(t) = Len(s)
  BY DEF Reordered
<1>1. Ids(s) = Ids(t)
  <2>1. ASSUME NEW k \in 1..Len(s)
        PROVE  s[k].ws \in Ids(t) /\ t[k].ws \in Ids(s)
    <3>1. q[k] \in 1..Len(t) /\ t[q[k]] = s[k]
      BY <1>0, <1>a
    <3>2. p[k] \in 1..Len(s) /\ t[k] = s[p[k]]
      BY <1>0
    <3> QED
      BY <3>1, <3>2 DEF Ids
  <2> QED
    BY <1>a, <2>1 DEF Ids
<1>2. \A k \in 1..Len(t) : p[k] \in 1..Len(s) /\ t[k] = s[p[k]] /\ q[p[k]] = k
  BY <1>0, <1>a
<1>3. \A k \in 1..Len(t) : /\ t[k].opener # NoWebState => t[k].opener \in Ids(t)
                           /\ t[k].opener # t[k].ws
  BY <1>1, <1>2 DEF WellFormed
<1>4. ASSUME NEW j \in 1..Len(t), NEW k \in 1..Len(t), t[j].ws = t[k].ws
      PROVE  j = k
  <2>1. p[j] = p[k]
    <3>1. \A m, n \in 1..Len(s) : s[m].ws = s[n].ws => m = n
      BY DEF WellFormed
    <3>2. /\ p[j] \in 1..Len(s) /\ t[j] = s[p[j]]
          /\ p[k] \in 1..Len(s) /\ t[k] = s[p[k]]
      BY <1>2
    <3>3. s[p[j]].ws = s[p[k]].ws
      BY <1>4, <3>2
    <3> QED
      BY <3>1, <3>2, <3>3, Zenon
  <2> QED
    BY <1>2, <2>1
<1> QED
  BY <1>a, <1>3, <1>4 DEF WellFormed

(* The list that ClearOpenersReferencing leaves, for a list s.             *)
Cleared(s, i) ==
  [k \in 1..Len(s) |->
     IF s[k].opener = s[i].ws
     THEN [s[k] EXCEPT !.opener = NoWebState, !.nav = -1]
     ELSE s[k]]

(* Clearing keeps every WebState and leaves only openers that are in the    *)
(* list and are not the i-th WebState.                                      *)
LEMMA ClearedFacts ==
  ASSUME NEW s, WellFormed(s), NEW i \in 1..Len(s)
  PROVE  /\ Cleared(s, i) \in Seq(Wrapper)
         /\ Len(Cleared(s, i)) = Len(s)
         /\ \A k \in 1..Len(s) :
              /\ Cleared(s, i)[k].ws = s[k].ws
              /\ Cleared(s, i)[k].opener \in {s[k].opener, NoWebState}
              /\ Cleared(s, i)[k].opener # s[i].ws
<1>0. /\ s \in Seq(Wrapper)
      /\ Len(s) \in Nat
      /\ \A k \in 1..Len(s) : s[k] \in Wrapper
  BY LenProperties, ElementOfSeq DEF WellFormed
<1>1. ASSUME NEW k \in 1..Len(s)
      PROVE  /\ Cleared(s, i)[k] \in Wrapper
             /\ Cleared(s, i)[k].ws = s[k].ws
             /\ Cleared(s, i)[k].opener \in {s[k].opener, NoWebState}
             /\ Cleared(s, i)[k].opener # s[i].ws
  <2>1. Cleared(s, i)[k] = IF s[k].opener = s[i].ws
                           THEN [s[k] EXCEPT !.opener = NoWebState, !.nav = -1]
                           ELSE s[k]
    BY DEF Cleared
  <2> QED
    BY <1>0, <2>1 DEF Wrapper
<1>2. Cleared(s, i) \in [1..Len(s) -> Wrapper]
  BY <1>1 DEF Cleared
<1>3. Cleared(s, i) \in Seq(Wrapper) /\ Len(Cleared(s, i)) = Len(s)
  BY <1>0, <1>2, IsASeq, LenProperties
<1> QED
  BY <1>1, <1>3

(* Detaching a tab: clear the references to it, then erase it.             *)
LEMMA RemovalWellFormed ==
  ASSUME NEW s, WellFormed(s), NEW i \in 1..Len(s)
  PROVE  /\ WellFormed(RemoveAt(Cleared(s, i), i))
         /\ Len(RemoveAt(Cleared(s, i), i)) = Len(s) - 1
<1> DEFINE c == Cleared(s, i)
           t == RemoveAt(c, i)
           old(k) == IF k < i THEN k ELSE k + 1
<1>0. /\ s \in Seq(Wrapper)
      /\ Len(s) \in Nat
      /\ \A k \in 1..Len(s) : s[k].ws # NoWebState
  BY WellFormedElements
<1>1. /\ c \in Seq(Wrapper)
      /\ Len(c) = Len(s)
      /\ \A k \in 1..Len(s) : /\ c[k].ws = s[k].ws
                             /\ c[k].opener \in {s[k].opener, NoWebState}
                             /\ c[k].opener # s[i].ws
  BY ClearedFacts
<1> HIDE DEF c
<1>2. /\ t \in Seq(Wrapper)
      /\ Len(t) = Len(s) - 1
      /\ \A k \in 1..(Len(s) - 1) : t[k] = IF k < i THEN c[k] ELSE c[k + 1]
  BY <1>1, RemoveAtProperties
<1> HIDE DEF t
<1>3. ASSUME NEW k \in 1..Len(t)
      PROVE  old(k) \in 1..Len(s) /\ old(k) # i /\ t[k] = c[old(k)]
  <2>1. k \in 1..(Len(s) - 1)
    BY <1>2
  <2>2. old(k) \in 1..Len(s) /\ old(k) # i
    BY <1>0, <2>1
  <2> QED
    BY <1>2, <2>1, <2>2
<1>a. ASSUME NEW j \in 1..Len(t), NEW k \in 1..Len(t), old(j) = old(k)
      PROVE  j = k
  <2>1. j \in Int /\ k \in Int /\ i \in Int
    BY <1>0, <1>2
  <2> QED
    BY <1>a, <2>1
<1> HIDE DEF old
<1>4. ASSUME NEW j \in 1..Len(s), j # i
      PROVE  s[j].ws \in Ids(t)
  <2>1. CASE j < i
    <3>1. j \in 1..Len(t) /\ t[j] = c[j]
      BY <1>0, <1>2, <2>1
    <3> QED
      BY <1>1, <3>1 DEF Ids
  <2>2. CASE j > i
    <3>1. j - 1 \in 1..Len(t) /\ ~(j - 1 < i) /\ (j - 1) + 1 = j
      BY <1>0, <1>2, <2>2
    <3>2. t[j - 1] = c[j]
      BY <1>2, <3>1
    <3> QED
      BY <1>1, <3>1, <3>2 DEF Ids
  <2> QED
    BY <1>0, <1>4, <2>1, <2>2
<1>5. ASSUME NEW k \in 1..Len(t), t[k].opener # NoWebState
      PROVE  t[k].opener \in Ids(t)
  <2>1. t[k].opener = s[old(k)].opener /\ t[k].opener # s[i].ws
    BY <1>1, <1>3, <1>5
  <2>2. PICK j \in 1..Len(s) : t[k].opener = s[j].ws
    BY <1>3, <1>5, <2>1, SMTT(40) DEF WellFormed, Ids
  <2> QED
    BY <1>4, <2>1, <2>2
<1>6. ASSUME NEW j \in 1..Len(t), NEW k \in 1..Len(t), t[j].ws = t[k].ws
      PROVE  j = k
  <2>1. s[old(j)].ws = s[old(k)].ws
    BY <1>1, <1>3, <1>6
  <2>2. old(j) = old(k)
    BY <1>3, <2>1 DEF WellFormed
  <2> QED
    BY <1>a, <2>2
<1>7. ASSUME NEW k \in 1..Len(t)
      PROVE  t[k].opener # t[k].ws
  <2>1. s[old(k)].opener # s[old(k)].ws /\ s[old(k)].ws # NoWebState
    BY <1>0, <1>3 DEF WellFormed
  <2> QED
    BY <1>1, <1>3, <2>1
<1>8. WellFormed(t)
  BY <1>2, <1>5, <1>6, <1>7 DEF WellFormed
<1> QED
  BY <1>2, <1>8 DEF t, c

(* Replacing a tab by a WebState that is not in the list.                  *)
LEMMA ReplacementWellFormed ==
  ASSUME NEW s, WellFormed(s), NEW i \in 1..Len(s),
         NEW w \in WebStates, w \notin Ids(s)
  PROVE  LET t == [Cleared(s, i) EXCEPT
                     ![i] = [ws |-> w, opener |-> NoWebState, nav |-> -1]]
         IN  WellFormed(t) /\ Len(t) = Len(s)
<1> DEFINE e == [ws |-> w, opener |-> NoWebState, nav |-> -1]
           c == Cleared(s, i)
           t == [c EXCEPT ![i] = e]
<1>0. /\ s \in Seq(Wrapper)
      /\ Len(s) \in Nat
      /\ \A k \in 1..Len(s) : s[k].ws # NoWebState
  BY WellFormedElements
<1>1. /\ c \in Seq(Wrapper)
      /\ Len(c) = Len(s)
      /\ \A k \in 1..Len(s) : /\ c[k].ws = s[k].ws
                             /\ c[k].opener \in {s[k].opener, NoWebState}
                             /\ c[k].opener # s[i].ws
  BY ClearedFacts
<1> HIDE DEF c
<1>2. e \in Wrapper /\ e.ws = w /\ e.opener = NoWebState
  BY DEF Wrapper
<1> HIDE DEF e
<1>3. /\ t \in Seq(Wrapper)
      /\ Len(t) = Len(s)
      /\ \A k \in 1..Len(s) : t[k] = IF k = i THEN e ELSE c[k]
  BY <1>1, <1>2, ExceptSeq, LenProperties
<1> HIDE DEF t
<1>4. ASSUME NEW j \in 1..Len(s), j # i
      PROVE  s[j].ws \in Ids(t)
  BY <1>1, <1>3, <1>4 DEF Ids
<1>5. ASSUME NEW k \in 1..Len(t), t[k].opener # NoWebState
      PROVE  t[k].opener \in Ids(t)
  <2>1. k # i /\ t[k].opener = s[k].opener /\ t[k].opener # s[i].ws
    BY <1>1, <1>2, <1>3, <1>5
  <2>2. PICK j \in 1..Len(s) : t[k].opener = s[j].ws
    BY <1>3, <1>5, <2>1 DEF WellFormed, Ids
  <2> QED
    BY <1>4, <2>1, <2>2
<1>6. ASSUME NEW j \in 1..Len(t), NEW k \in 1..Len(t), t[j].ws = t[k].ws
      PROVE  j = k
  <2>1. j \in 1..Len(s) /\ k \in 1..Len(s)
    BY <1>3
  <2>2. \A l \in 1..Len(s) : t[l].ws = IF l = i THEN w ELSE s[l].ws
    BY <1>1, <1>2, <1>3
  <2>3. \A l \in 1..Len(s) : s[l].ws # w
    BY DEF Ids
  <2>4. j # i /\ k # i => s[j].ws = s[k].ws
    BY <1>6, <2>1, <2>2
  <2>5. j = i <=> k = i
    BY <1>6, <2>1, <2>2, <2>3
  <2> QED
    BY <2>1, <2>4, <2>5 DEF WellFormed
<1>7. ASSUME NEW k \in 1..Len(t)
      PROVE  t[k].opener # t[k].ws
  <2>1. s[k].opener # s[k].ws /\ s[k].ws # NoWebState
    BY <1>0, <1>3 DEF WellFormed
  <2> QED
    BY <1>1, <1>2, <1>3, <2>1
<1>8. WellFormed(t)
  BY <1>3, <1>5, <1>6, <1>7 DEF WellFormed
<1> QED
  BY <1>3, <1>8 DEF t, c, e

(* Moving a tab.                                                           *)
LEMMA MoveWellFormed ==
  ASSUME NEW s, WellFormed(s), NEW from \in 1..Len(s), NEW to \in 1..Len(s)
  PROVE  LET t == InsertAt(RemoveAt(s, from), to, s[from])
         IN  WellFormed(t) /\ Len(t) = Len(s) /\ Reordered(s, t)
<1> DEFINE e == s[from]
           r == RemoveAt(s, from)
           t == InsertAt(r, to, e)
<1>0. s \in Seq(Wrapper) /\ Len(s) \in Nat /\ s[from] \in Wrapper
  BY WellFormedElements
<1>1. /\ r \in Seq(Wrapper)
      /\ Len(r) = Len(s) - 1
      /\ \A k \in 1..(Len(s) - 1) : r[k] = IF k < from THEN s[k] ELSE s[k + 1]
  BY <1>0, RemoveAtProperties
<1> HIDE DEF r
<1>2. /\ t \in Seq(Wrapper)
      /\ Len(t) = Len(r) + 1
      /\ \A k \in 1..(Len(r) + 1) :
           t[k] = IF k < to THEN r[k] ELSE IF k = to THEN e ELSE r[k - 1]
  <2>1. to \in 1..(Len(r) + 1)
    BY <1>0, <1>1
  <2>2. e \in Wrapper
    BY <1>0
  <2> HIDE DEF e
  <2> QED
    BY <1>1, <2>1, <2>2, InsertAtProperties
<1> HIDE DEF t
<1>3. Len(t) = Len(s)
  BY <1>0, <1>1, <1>2
<1> DEFINE p == [k \in 1..Len(s) |->
                  IF k = to THEN from
                  ELSE IF k < to THEN (IF k < from THEN k ELSE k + 1)
                  ELSE (IF k - 1 < from THEN k - 1 ELSE k)]
           q == [j \in 1..Len(s) |->
                  IF j = from THEN to
                  ELSE IF j < from THEN (IF j < to THEN j ELSE j + 1)
                  ELSE (IF j - 1 < to THEN j - 1 ELSE j)]
<1>4. p \in [1..Len(s) -> 1..Len(s)] /\ q \in [1..Len(s) -> 1..Len(s)]
  BY <1>0, SMTT(40)
<1>5. ASSUME NEW k \in 1..Len(s)
      PROVE  t[k] = s[p[k]] /\ p[q[k]] = k /\ q[p[k]] = k
  <2>1. p[q[k]] = k /\ q[p[k]] = k
    BY <1>0, <1>4
  <2>2. CASE k < to
    <3>1. t[k] = r[k] /\ k \in 1..(Len(s) - 1)
      BY <1>0, <1>1, <1>2, <2>2
    <3> QED
      BY <1>0, <1>1, <2>1, <2>2, <3>1
  <2>3. CASE k = to
    BY <1>0, <1>1, <1>2, <2>1, <2>3
  <2>4. CASE k > to
    <3>1. t[k] = r[k - 1] /\ k - 1 \in 1..(Len(s) - 1) /\ (k - 1) + 1 = k
      BY <1>0, <1>1, <1>2, <2>4
    <3> QED
      BY <1>0, <1>1, <2>1, <2>4, <3>1
  <2> QED
    BY <1>0, <2>2, <2>3, <2>4
<1>6. \A k \in 1..Len(s) : t[k] = s[p[k]] /\ p[q[k]] = k /\ q[p[k]] = k
  BY <1>5
<1> HIDE DEF p, q
<1>7. Reordered(s, t) /\ WellFormed(t)
  <2>1. Reordered(s, t)
    BY <1>2, <1>3, <1>4, <1>6 DEF Reordered
  <2> QED
    BY <2>1, ReorderingWellFormed
<1> QED
  BY <1>3, <1>7 DEF t, r, e

-----------------------------------------------------------------------------
(* ListInv is TypeOK of the other variables, a valid active index and a     *)
(* well-formed list.                                                        *)
LEMMA ListInvParts ==
  /\ ListInv <=> TypeOK /\ ActiveIndexValid /\ WellFormed(web_state_wrappers)
  /\ ListInv' <=> TypeOK' /\ ActiveIndexValid' /\ WellFormed(web_state_wrappers')
  /\ Listed = Ids(web_state_wrappers)
  /\ count = Len(web_state_wrappers) /\ count' = Len(web_state_wrappers')
  BY DEF ListInv, TypeOK, OpenersInList, NoDuplicates, NoSelfOpener, WellFormed,
         Ids, Listed, count

(* The notifications that NotifyIfActiveWebStateChanged sends.             *)
LEMMA NotifyIfActiveWebStateChangedType ==
  ASSUME NEW old \in WebStates \cup {NoWebState},
         NEW new \in WebStates \cup {NoWebState}, NEW index \in Int
  PROVE  NotifyIfActiveWebStateChanged(old, new, index) \in Seq(Notification)
<1>1. Activated(old, new, index) \in Notification
  BY DEF Activated, Notification
<1> QED
  BY <1>1 DEF NotifyIfActiveWebStateChanged

(* InsertWebState keeps ListInv, wherever the order controller or a forced  *)
(* index puts the tab and whichever opener it gets.                         *)
LEMMA InsertKeepsListInv ==
  ASSUME ListInv, NEW ws \in WebStates, NEW force \in BOOLEAN,
         NEW activate \in BOOLEAN, NEW inherit \in BOOLEAN, NEW index \in Int,
         NEW passed, UNCHANGED call,
         InsertWebState(ws, index, force, activate, inherit, passed)
  PROVE  ListInv'
<1> DEFINE opener == IF inherit THEN GetActiveWebState ELSE passed
           at     == InsertionIndex(force, index, opener)
           e      == [ws |-> ws, opener |-> opener,
                      nav |-> NavigationIndexFromWebState(opener)]
<1>0. TypeOK /\ ActiveIndexValid /\ WellFormed(web_state_wrappers)
  BY ListInvParts
<1>1. /\ count \in Nat
      /\ Listed \subseteq WebStates
      /\ GetActiveWebState \in Listed \cup {NoWebState}
  BY <1>0, WrapperFacts, ActiveIsListed
<1>2. opener \in Listed \cup {NoWebState}
  BY <1>1 DEF InsertWebState
<1>3. at \in 0..count
  BY <1>0, <1>2, InsertionIndexRange DEF InsertWebState
<1>4. e \in Wrapper
  <2>1. NavigationIndexFromWebState(opener) \in NavIndices
    BY <1>0, <1>1, <1>2 DEF NavigationIndexFromWebState, TypeOK
  <2> QED
    BY <1>1, <1>2, <2>1 DEF Wrapper
<1>5. web_state_wrappers' = InsertAt(web_state_wrappers, at + 1, e)
  BY DEF InsertWebState
<1>6. /\ active_index' = IF activate THEN at ELSE ActiveIndexAfterInsertion(at)
      /\ ws \notin Listed
      /\ nav' = nav
  BY DEF InsertWebState
<1>7. WellFormed(web_state_wrappers') /\ count' = count + 1
  <2>1. at + 1 \in 1..(Len(web_state_wrappers) + 1)
    BY <1>1, <1>3 DEF count
  <2>2. e.ws = ws /\ e.opener = opener
    OBVIOUS
  <2> HIDE DEF e
  <2>3. e.ws \notin Ids(web_state_wrappers)
    BY <1>6, <2>2, ListInvParts
  <2>4. e.opener \in Ids(web_state_wrappers) \cup {NoWebState}
    BY <1>2, <2>2, ListInvParts
  <2> QED
    BY <1>0, <1>4, <1>5, <2>1, <2>3, <2>4, InsertionWellFormed, ListInvParts
<1>8. notified' \in Seq(Notification)
  <2>1. Inserted(ws, at, GetActiveWebState) \in Notification
    BY <1>1, <1>3 DEF Inserted, Notification
  <2>2. NotifyIfActiveWebStateChanged(GetActiveWebState, ws, at) \in Seq(Notification)
    <3>1. at \in Int /\ GetActiveWebState \in WebStates \cup {NoWebState}
      BY <1>1, <1>3
    <3> HIDE DEF at
    <3> QED
      BY <3>1, NotifyIfActiveWebStateChangedType
  <2>3. notified' = <<Inserted(ws, at, GetActiveWebState)>> \o
          (IF activate THEN NotifyIfActiveWebStateChanged(GetActiveWebState, ws, at)
           ELSE <<>>)
    BY DEF InsertWebState
  <2> HIDE DEF at
  <2> QED
    BY <2>1, <2>2, <2>3, ConcatProperties
<1> HIDE DEF at
<1>9. active_index' \in Int /\ ActiveIndexValid'
  BY <1>0, <1>1, <1>3, <1>6, <1>7
  DEF TypeOK, ActiveIndexValid, ContainsIndex, ActiveIndexAfterInsertion, kInvalidIndex
<1> QED
  BY <1>0, <1>6, <1>7, <1>8, <1>9, ListInvParts DEF TypeOK, WellFormed

(* MoveWebStateAt keeps ListInv.                                            *)
LEMMA MoveKeepsListInv ==
  ASSUME ListInv, NEW from \in 0..(count - 1), NEW to \in 0..(count - 1),
         UNCHANGED call, MoveWebStateAt(from, to)
  PROVE  ListInv'
<1>0. TypeOK /\ ActiveIndexValid /\ WellFormed(web_state_wrappers)
  BY ListInvParts
<1>1. /\ count \in Nat
      /\ DOMAIN web_state_wrappers = 1..count
      /\ \A k \in 1..count : web_state_wrappers[k] \in Wrapper
      /\ GetActiveWebState \in WebStates \cup {NoWebState}
  BY <1>0, WrapperFacts, ActiveIsListed
<1>2. nav' = nav
  BY DEF MoveWebStateAt
<1>3. CASE from = to
  <2>1. notified' = <<>> /\ web_state_wrappers' = web_state_wrappers
        /\ active_index' = active_index
    BY <1>3 DEF MoveWebStateAt
  <2>2. notified' \in Seq(Notification)
    BY <2>1
  <2> QED
    BY <1>0, <1>2, <2>1, <2>2, ListInvParts
    DEF TypeOK, ActiveIndexValid, ContainsIndex, count
<1>4. CASE from # to
  <2>1. /\ web_state_wrappers' =
             InsertAt(RemoveAt(web_state_wrappers, from + 1), to + 1,
                      web_state_wrappers[from + 1])
        /\ active_index' = ActiveIndexAfterMove(from, to)
        /\ notified' = <<Moved(GetWebStateAt(from), to, GetActiveWebState)>>
    BY <1>4 DEF MoveWebStateAt, WrappersAfterMove
  <2>2. from + 1 \in 1..Len(web_state_wrappers) /\ to + 1 \in 1..Len(web_state_wrappers)
    BY <1>1 DEF count
  <2>3. WellFormed(web_state_wrappers') /\ count' = count
    BY <1>0, <2>1, <2>2, MoveWellFormed, ListInvParts
  <2>4. notified' \in Seq(Notification)
    <3>1. web_state_wrappers[from + 1] \in Wrapper
      BY <1>1, <2>2 DEF count
    <3>2. GetWebStateAt(from) \in WebStates
      BY <3>1 DEF GetWebStateAt, Wrapper
    <3>3. Moved(GetWebStateAt(from), to, GetActiveWebState) \in Notification
      BY <1>1, <3>2 DEF Moved, Notification
    <3> QED
      BY <2>1, <3>3
  <2>5. active_index' \in Int /\ ActiveIndexValid'
    <3>1. /\ Min({from, to}) = IF from <= to THEN from ELSE to
          /\ Max({from, to}) = IF from >= to THEN from ELSE to
      <4>1. from \in Int /\ to \in Int
        BY <1>1
      <4> QED
        BY <4>1, MinMaxOfPair
    <3> QED
      BY <1>0, <1>1, <2>1, <2>3, <3>1
      DEF TypeOK, ActiveIndexValid, ContainsIndex, ActiveIndexAfterMove, kInvalidIndex
  <2> QED
    BY <1>0, <1>2, <2>3, <2>4, <2>5, ListInvParts DEF TypeOK, WellFormed
<1> QED
  BY <1>3, <1>4

(* ReplaceWebStateAt keeps ListInv.                                         *)
LEMMA ReplaceKeepsListInv ==
  ASSUME ListInv, NEW index \in 0..(count - 1), NEW ws \in WebStates,
         UNCHANGED call, ReplaceWebStateAt(index, ws)
  PROVE  ListInv'
<1> DEFINE new_active == IF active_index = index THEN ws ELSE GetActiveWebState
<1>0. TypeOK /\ ActiveIndexValid /\ WellFormed(web_state_wrappers)
  BY ListInvParts
<1>1. /\ count \in Nat
      /\ \A k \in 1..count : web_state_wrappers[k] \in Wrapper
      /\ GetActiveWebState \in WebStates \cup {NoWebState}
  BY <1>0, WrapperFacts, ActiveIsListed
<1>2. nav' = nav /\ active_index' = active_index
  BY DEF ReplaceWebStateAt
<1>3. index + 1 \in 1..Len(web_state_wrappers)
  BY <1>1 DEF count
<1>4. WellFormed(web_state_wrappers') /\ count' = count
  <2>1. web_state_wrappers' =
          [Cleared(web_state_wrappers, index + 1) EXCEPT
             ![index + 1] = [ws |-> ws, opener |-> NoWebState, nav |-> -1]]
    BY DEF ReplaceWebStateAt, ClearOpenersReferencing, Cleared, GetWebStateAt, count
  <2>2. ws \notin Ids(web_state_wrappers)
    BY ListInvParts DEF ReplaceWebStateAt
  <2> QED
    BY <1>0, <1>3, <2>1, <2>2, ReplacementWellFormed, ListInvParts
<1>5. notified' \in Seq(Notification)
  <2>1. GetWebStateAt(index) \in WebStates
    BY <1>1, <1>3 DEF GetWebStateAt, Wrapper, count
  <2>2. new_active \in WebStates \cup {NoWebState} /\ active_index \in Int
    BY <1>0, <1>1 DEF TypeOK
  <2>3. notified' = <<Replaced(GetWebStateAt(index), ws, index, new_active)>> \o
          NotifyIfActiveWebStateChanged(GetWebStateAt(index), new_active, active_index)
    BY DEF ReplaceWebStateAt
  <2> HIDE DEF new_active
  <2>4. Replaced(GetWebStateAt(index), ws, index, new_active) \in Notification
    BY <1>1, <2>1, <2>2 DEF Replaced, Notification
  <2>5. NotifyIfActiveWebStateChanged(GetWebStateAt(index), new_active, active_index)
          \in Seq(Notification)
    BY <2>1, <2>2, NotifyIfActiveWebStateChangedType
  <2> QED
    BY <2>3, <2>4, <2>5, ConcatProperties
<1>6. ActiveIndexValid'
  BY <1>0, <1>2, <1>4 DEF ActiveIndexValid, ContainsIndex
<1> QED
  BY <1>0, <1>2, <1>4, <1>5, <1>6, ListInvParts DEF TypeOK, WellFormed

(* DetachWebStateAt, and so closing, keeps ListInv: the new active index is *)
(* valid in the shorter list and no opener refers to the tab that is gone.  *)
LEMMA CloseKeepsListInv ==
  ASSUME ListInv, NEW index \in 0..(count - 1), UNCHANGED call,
         CloseWebStateAt(index)
  PROVE  ListInv'
<1>0. TypeOK /\ ActiveIndexValid /\ WellFormed(web_state_wrappers)
  BY ListInvParts
<1>1. /\ count \in Nat
      /\ \A k \in 1..count : web_state_wrappers[k] \in Wrapper
  BY <1>0, WrapperFacts
<1>2. /\ nav' = nav
      /\ active_index' = ActiveIndexAfterDetach(index)
  BY DEF CloseWebStateAt, DetachWebStateAt
<1>3. index + 1 \in 1..Len(web_state_wrappers)
  BY <1>1 DEF count
<1>4. WellFormed(web_state_wrappers') /\ count' = count - 1
  <2>1. web_state_wrappers' = RemoveAt(Cleared(web_state_wrappers, index + 1), index + 1)
    BY DEF CloseWebStateAt, DetachWebStateAt, ClearOpenersReferencing, Cleared,
           GetWebStateAt, count
  <2> QED
    BY <1>0, <1>3, <2>1, RemovalWellFormed, ListInvParts
<1>5. active_index' \in Int /\ ActiveIndexValid'
  <2>1. DetermineNewActiveIndex(index) \in {kInvalidIndex} \cup 0..(count - 2)
    BY NewActiveIndexRange
  <2> QED
    BY <1>0, <1>1, <1>2, <1>4, <2>1
    DEF TypeOK, ActiveIndexValid, ContainsIndex, ActiveIndexAfterDetach, kInvalidIndex
<1>6. active_index' # kInvalidIndex => active_index' + 1 \in 1..Len(web_state_wrappers')
  <2>1. /\ active_index' # kInvalidIndex => 0 <= active_index' /\ active_index' < count - 1
        /\ active_index' \in Int
    BY <1>4, <1>5 DEF ActiveIndexValid, ContainsIndex, kInvalidIndex
  <2>2. Len(web_state_wrappers') = count - 1
    BY <1>4, ListInvParts
  <2>3. count \in Nat
    BY <1>1
  <2>4. ASSUME NEW a \in Int, NEW c \in Nat, 0 <= a, a < c - 1
        PROVE  a + 1 \in 1..(c - 1)
    BY <2>4
  <2> QED
    BY <2>1, <2>2, <2>3, <2>4
<1>7. notified' \in Seq(Notification)
  <2> DEFINE ws == GetWebStateAt(index)
             new_active == GetActiveWebState'
             new_index == active_index'
  <2>1. ws \in WebStates
    BY <1>1, <1>3 DEF GetWebStateAt, Wrapper, count
  <2>2. new_active \in WebStates \cup {NoWebState}
    <3>1. CASE active_index' = kInvalidIndex
      BY <3>1 DEF GetActiveWebState
    <3>2. CASE active_index' # kInvalidIndex
      <4>1. active_index' + 1 \in 1..Len(web_state_wrappers')
        BY <1>6, <3>2
      <4>2. web_state_wrappers'[active_index' + 1].ws \in WebStates
        BY <1>4, <4>1, WellFormedElements
      <4> QED
        BY <3>2, <4>2 DEF GetActiveWebState, GetWebStateAt
    <3> QED
      BY <3>1, <3>2
  <2>3. notified' = <<Detached(ws, index, new_active)>> \o
          (IF active_index = index
           THEN NotifyIfActiveWebStateChanged(ws, new_active, new_index) ELSE <<>>)
    BY DEF CloseWebStateAt, DetachWebStateAt
  <2>4. new_index \in Int
    BY <1>5
  <2> HIDE DEF ws, new_active, new_index
  <2>5. Detached(ws, index, new_active) \in Notification
    BY <1>1, <2>1, <2>2 DEF Detached, Notification
  <2>6. NotifyIfActiveWebStateChanged(ws, new_active, new_index) \in Seq(Notification)
    BY <2>1, <2>2, <2>4, NotifyIfActiveWebStateChangedType
  <2> QED
    BY <2>3, <2>5, <2>6, ConcatProperties
<1> QED
  BY <1>0, <1>2, <1>4, <1>5, <1>7, ListInvParts DEF TypeOK, WellFormed

(* ActivateWebStateAt keeps ListInv.                                        *)
LEMMA ActivateKeepsListInv ==
  ASSUME ListInv, NEW index \in 0..(count - 1), UNCHANGED call,
         ActivateWebStateAt(index)
  PROVE  ListInv'
<1>0. TypeOK /\ ActiveIndexValid /\ WellFormed(web_state_wrappers)
  BY ListInvParts
<1>1. /\ count \in Nat
      /\ GetActiveWebState \in WebStates \cup {NoWebState}
      /\ \A k \in 1..count : web_state_wrappers[k] \in Wrapper
  BY <1>0, WrapperFacts, ActiveIsListed
<1>2. /\ web_state_wrappers' = web_state_wrappers /\ nav' = nav
      /\ active_index' = index
      /\ notified' = NotifyIfActiveWebStateChanged(
                       GetActiveWebState, GetWebStateAt(index), index)
  BY DEF ActivateWebStateAt
<1>3. GetWebStateAt(index) \in WebStates
  <2>1. index + 1 \in 1..count
    BY <1>1
  <2> QED
    BY <1>1, <2>1 DEF GetWebStateAt, Wrapper
<1>4. notified' \in Seq(Notification)
  <2>1. index \in Int
    BY <1>1
  <2> QED
    BY <1>1, <1>2, <1>3, <2>1, NotifyIfActiveWebStateChangedType
<1>5. ActiveIndexValid' /\ active_index' \in Int
  BY <1>1, <1>2 DEF ActiveIndexValid, ContainsIndex, count
<1> QED
  BY <1>0, <1>2, <1>4, <1>5, ListInvParts DEF TypeOK

(* SetOpenerOfWebStateAt keeps ListInv if no tab becomes its own opener.    *)
LEMMA SetOpenerKeepsListInv ==
  ASSUME ListInv, NEW index \in 0..(count - 1), NEW n \in NavIndices,
         NEW opener \in Listed \ {GetWebStateAt(index)}, UNCHANGED call,
         SetOpenerOfWebStateAt(index, opener, n)
  PROVE  ListInv'
<1> DEFINE s == web_state_wrappers
           i == index + 1
           e == [s[i] EXCEPT !.opener = opener, !.nav = n]
           t == [s EXCEPT ![i] = e]
<1>0. TypeOK /\ ActiveIndexValid /\ WellFormed(s)
  BY ListInvParts
<1>1. /\ count \in Nat
      /\ Listed \subseteq WebStates
      /\ i \in 1..Len(s)
      /\ s[i] \in Wrapper
      /\ s \in Seq(Wrapper)
  BY <1>0, WrapperFacts DEF TypeOK, count
<1>2. /\ web_state_wrappers' = t
      /\ active_index' = active_index /\ nav' = nav /\ notified' = <<>>
  BY <1>1 DEF SetOpenerOfWebStateAt
<1>3. e \in Wrapper /\ e.ws = s[i].ws /\ e.opener = opener
  BY <1>1 DEF Wrapper
<1>4. opener # s[i].ws /\ opener \in Ids(s)
  BY ListInvParts DEF GetWebStateAt
<1> HIDE DEF e, i
<1>5. /\ t \in Seq(Wrapper)
      /\ Len(t) = Len(s)
      /\ \A k \in 1..Len(s) : t[k] = IF k = i THEN e ELSE s[k]
  BY <1>1, <1>3, ExceptSeq, LenProperties
<1> HIDE DEF t
<1>6. Ids(t) = Ids(s)
  BY <1>3, <1>5 DEF Ids
<1>7. WellFormed(t)
  BY <1>0, <1>3, <1>4, <1>5, <1>6, SMTT(40) DEF WellFormed
<1>8. ActiveIndexValid'
  BY <1>0, <1>2, <1>5, ListInvParts DEF ActiveIndexValid, ContainsIndex
<1>9. notified' \in Seq(Notification)
  BY <1>2
<1> QED
  BY <1>0, <1>2, <1>7, <1>8, <1>9, ListInvParts DEF TypeOK, WellFormed

-----------------------------------------------------------------------------
(* The empty list satisfies ListInv.                                        *)
LEMMA ListInvInit == Init => ListInv
<1> SUFFICES ASSUME Init PROVE ListInv
  OBVIOUS
<1>1. TypeOK
  <2>1. <<>> \in Seq(Wrapper) /\ <<>> \in Seq(Notification)
    OBVIOUS
  <2> QED
    BY <2>1 DEF Init, TypeOK, kInvalidIndex
<1>2. count = 0 /\ 1..count = {}
  BY DEF Init, count
<1> QED
  BY <1>1, <1>2
  DEF Init, ListInv, ActiveIndexValid, OpenersInList, NoDuplicates, NoSelfOpener

(* ListInv is inductive.                                                   *)
LEMMA ListInvNext ==
  ASSUME ListInv, [ListNext]_listVars
  PROVE  ListInv'
<1>0. TypeOK /\ count \in Nat
  BY WrapperFacts DEF ListInv
<1>1. CASE UNCHANGED call /\ Insert
  <2>1. PICK ws \in WebStates, force \in BOOLEAN, activate \in BOOLEAN,
             inherit \in BOOLEAN, opener \in Listed \cup {NoWebState} :
          \E index \in IF force THEN 0..count ELSE {kInvalidIndex} :
            InsertWebState(ws, index, force, activate, inherit, opener)
    BY <1>1 DEF Insert
  <2>2. PICK index \in IF force THEN 0..count ELSE {kInvalidIndex} :
          InsertWebState(ws, index, force, activate, inherit, opener)
    BY <2>1
  <2>3. index \in Int
    BY <1>0 DEF kInvalidIndex
  <2> QED
    BY <1>1, <2>2, <2>3, InsertKeepsListInv
<1>2. ASSUME NEW from \in Indices, NEW to \in Indices, UNCHANGED call,
             MoveWebStateAt(from, to)
      PROVE  ListInv'
  BY <1>2, MoveKeepsListInv DEF Indices
<1>3. ASSUME NEW index \in Indices, NEW ws \in WebStates, UNCHANGED call,
             ReplaceWebStateAt(index, ws)
      PROVE  ListInv'
  BY <1>3, ReplaceKeepsListInv DEF Indices
<1>4. ASSUME NEW index \in Indices, UNCHANGED call, CloseWebStateAt(index)
      PROVE  ListInv'
  BY <1>4, CloseKeepsListInv DEF Indices
<1>5. ASSUME NEW index \in Indices, UNCHANGED call, ActivateWebStateAt(index)
      PROVE  ListInv'
  BY <1>5, ActivateKeepsListInv DEF Indices
<1>6. ASSUME NEW index \in Indices, NEW n \in NavIndices,
             NEW opener \in Listed \ {GetWebStateAt(index)}, UNCHANGED call,
             SetOpenerOfWebStateAt(index, opener, n)
      PROVE  ListInv'
  BY <1>6, SetOpenerKeepsListInv DEF Indices
<1>7. ASSUME NEW ws \in WebStates, NEW n \in NavIndices, UNCHANGED call,
             CommitNavigation(ws, n)
      PROVE  ListInv'
  <2>1. nav' \in [WebStates -> NavIndices]
    BY <1>0, <1>7 DEF CommitNavigation, TypeOK
  <2>2. notified' \in Seq(Notification)
    BY <1>7 DEF CommitNavigation
  <2>3. web_state_wrappers' = web_state_wrappers /\ active_index' = active_index
    BY <1>7 DEF CommitNavigation
  <2> QED
    BY <1>7, <2>1, <2>2, <2>3, ListInvParts
    DEF TypeOK, ActiveIndexValid, ContainsIndex
<1>8. CASE CloseAllWebStates
  BY <1>8 DEF CloseAllWebStates, ListInv, TypeOK, ActiveIndexValid, ContainsIndex,
              OpenersInList, NoDuplicates, NoSelfOpener, Listed, count
<1>9. CASE CloseLastWebState
  <2>1. CASE count > 0
    <3>1. count - 1 \in 0..(count - 1)
      BY <1>0, <2>1
    <3> QED
      BY <1>9, <2>1, <3>1, CloseKeepsListInv DEF CloseLastWebState
  <2>2. CASE ~(count > 0)
    BY <1>9, <2>2
    DEF CloseLastWebState, ListInv, TypeOK, ActiveIndexValid, ContainsIndex,
        OpenersInList, NoDuplicates, NoSelfOpener, Listed, count
  <2> QED
    BY <2>1, <2>2
<1>10. CASE UNCHANGED listVars
  BY <1>10 DEF listVars, ListInv, TypeOK, ActiveIndexValid, ContainsIndex,
               OpenersInList, NoDuplicates, NoSelfOpener, Listed, count
<1> QED
  BY <1>1, <1>2, <1>3, <1>4, <1>5, <1>6, <1>7, <1>8, <1>9, <1>10 DEF ListNext

(* In every reachable state of a WebStateList, of any size, the wrappers    *)
(* have their type, the active index is valid, and openers are in the list. *)
THEOREM ListInvariance == ListSpec => []ListInv
<1>1. Init => ListInv
  BY ListInvInit
<1>2. ListInv /\ [ListNext]_listVars => ListInv'
  BY ListInvNext
<1> QED
  BY <1>1, <1>2, PTL DEF ListSpec

(* No operation leaves the active index outside the list.                  *)
THEOREM ActiveIndexAlwaysValid == ListSpec => []ActiveIndexValid
<1>1. ListInv => ActiveIndexValid
  BY DEF ListInv
<1> QED
  BY <1>1, ListInvariance, PTL

(* No operation leaves an opener that is not in the list.                  *)
THEOREM OpenersAlwaysInList == ListSpec => []OpenersInList
<1>1. ListInv => OpenersInList
  BY DEF ListInv
<1> QED
  BY <1>1, ListInvariance, PTL

-----------------------------------------------------------------------------
(* The selection: what an operation does to the active WebState, and what   *)
(* it tells the observers.                                                  *)

(* A list with a selection keeps one while it has a tab.                   *)
KeepsSelection ==
  active_index # kInvalidIndex /\ count' > 0 => active_index' # kInvalidIndex

(* The notifications in s tell that the active WebState was old and is new. *)
Tells(s, old, new) ==
  \E k \in DOMAIN s : s[k].type = "activated" /\ s[k].old = old /\ s[k].ws = new

TellsActiveChange ==
  GetActiveWebState' # GetActiveWebState =>
    Tells(notified', GetActiveWebState, GetActiveWebState')

(* GetActiveWebState, of a list and an index.                              *)
ActiveOf(s, index) == IF index # kInvalidIndex THEN s[index + 1].ws ELSE NoWebState

(* Both sides of a step see it so.                                        *)
LEMMA ActiveFacts ==
  /\ GetActiveWebState = ActiveOf(web_state_wrappers, active_index)
  /\ GetActiveWebState' = ActiveOf(web_state_wrappers', active_index')
  BY DEF GetActiveWebState, GetWebStateAt, ActiveOf

(* A step that keeps the active WebState has nothing to tell.              *)
LEMMA SameActive ==
  ASSUME ActiveOf(web_state_wrappers', active_index')
           = ActiveOf(web_state_wrappers, active_index)
  PROVE  TellsActiveChange
  BY ActiveFacts DEF TellsActiveChange

(* A callback followed by NotifyIfActiveWebStateChanged tells of the change.*)
LEMMA NotifiedAfter ==
  ASSUME NEW x, NEW old, NEW new, NEW index, old # new
  PROVE  Tells(<<x>> \o NotifyIfActiveWebStateChanged(old, new, index), old, new)
<1> DEFINE e == Activated(old, new, index)
<1>1. NotifyIfActiveWebStateChanged(old, new, index) = <<e>>
  BY DEF NotifyIfActiveWebStateChanged
<1>2. e.type = "activated" /\ e.old = old /\ e.ws = new
  BY DEF Activated
<1> HIDE DEF e
<1> DEFINE a == <<x>>
           b == <<e>>
           S == {x, e}
           s == a \o b
<1>3. /\ a \in Seq(S) /\ b \in Seq(S) /\ Len(a) = 1 /\ Len(b) = 1 /\ b[1] = e
      /\ <<x>> \o NotifyIfActiveWebStateChanged(old, new, index) = s
  BY <1>1
<1> HIDE DEF a, b, S
<1>a. /\ s \in Seq(S) /\ Len(s) = Len(a) + Len(b)
      /\ \A k \in 1..(Len(a) + Len(b)) : s[k] = IF k <= Len(a) THEN a[k] ELSE b[k - Len(a)]
  BY <1>3, ConcatProperties
<1> HIDE DEF s
<1>4. 2 \in DOMAIN s /\ s[2] = e
  <2>0. Len(s) = 2 /\ s \in Seq(S)
    BY <1>3, <1>a
  <2>1. DOMAIN s = 1..2
    BY <2>0, LenProperties
  <2>2. s[2] = b[2 - 1]
    BY <1>3, <1>a
  <2> QED
    BY <1>3, <2>1, <2>2
<1>5. Tells(s, old, new)
  BY <1>2, <1>4 DEF Tells
<1> QED
  BY <1>3, <1>5

(* What becomes of the active tab when one is inserted...                  *)
LEMMA InsertionActive ==
  ASSUME NEW s \in Seq(Wrapper), NEW e \in Wrapper, NEW at \in 0..Len(s),
         NEW a \in {-1} \cup 0..(Len(s) - 1)
  PROVE  LET t == InsertAt(s, at + 1, e)
         IN  /\ ActiveOf(t, at) = e.ws
             /\ ActiveOf(t, IF a >= at THEN a + 1 ELSE a) = ActiveOf(s, a)
<1> DEFINE i == at + 1
           t == InsertAt(s, i, e)
<1>0. Len(s) \in Nat /\ i \in 1..(Len(s) + 1)
  BY LenProperties
<1> HIDE DEF i
<1>1. \A k \in 1..(Len(s) + 1) :
        t[k] = IF k < i THEN s[k] ELSE IF k = i THEN e ELSE s[k - 1]
  BY <1>0, InsertAtProperties, SMTT(40)
<1> HIDE DEF t
<1>2. t[i] = e
  BY <1>0, <1>1
<1>3. ActiveOf(t, at) = e.ws
  BY <1>0, <1>2 DEF ActiveOf, kInvalidIndex, i
<1>4. ASSUME a = -1
      PROVE  ActiveOf(t, IF a >= at THEN a + 1 ELSE a) = ActiveOf(s, a)
  BY <1>0, <1>4 DEF ActiveOf, kInvalidIndex
<1>5. ASSUME a # -1 /\ a >= at
      PROVE  ActiveOf(t, IF a >= at THEN a + 1 ELSE a) = ActiveOf(s, a)
  <2>1. /\ a + 2 \in 1..(Len(s) + 1) /\ ~(a + 2 < i) /\ a + 2 # i /\ (a + 2) - 1 = a + 1
        /\ (a + 1) + 1 = a + 2 /\ a + 1 # -1
    BY <1>0, <1>5 DEF i
  <2>2. t[a + 2] = s[(a + 2) - 1]
    BY <1>1, <2>1
  <2> QED
    BY <1>5, <2>1, <2>2 DEF ActiveOf, kInvalidIndex
<1>6. ASSUME a # -1 /\ ~(a >= at)
      PROVE  ActiveOf(t, IF a >= at THEN a + 1 ELSE a) = ActiveOf(s, a)
  <2>1. a + 1 \in 1..(Len(s) + 1) /\ a + 1 < i
    BY <1>0, <1>6 DEF i
  <2>2. t[a + 1] = s[a + 1]
    BY <1>1, <2>1
  <2> QED
    BY <1>6, <2>2 DEF ActiveOf
<1> QED
  BY <1>3, <1>4, <1>5, <1>6 DEF t, i

(* ... or removed, another one than the active...                          *)
LEMMA RemovalActive ==
  ASSUME NEW s, WellFormed(s), NEW index \in 0..(Len(s) - 1),
         NEW a \in {-1} \cup 0..(Len(s) - 1), a # index
  PROVE  LET t == RemoveAt(Cleared(s, index + 1), index + 1)
         IN  ActiveOf(t, IF a > index THEN a - 1 ELSE a) = ActiveOf(s, a)
<1> DEFINE i == index + 1
           c == Cleared(s, i)
           t == RemoveAt(c, i)
<1>0. Len(s) \in Nat /\ i \in 1..Len(s)
  BY LenProperties DEF WellFormed
<1> HIDE DEF i
<1>1. c \in Seq(Wrapper) /\ Len(c) = Len(s) /\ \A k \in 1..Len(s) : c[k].ws = s[k].ws
  BY <1>0, ClearedFacts
<1> HIDE DEF c
<1>2. \A k \in 1..(Len(s) - 1) : t[k] = IF k < i THEN c[k] ELSE c[k + 1]
  BY <1>0, <1>1, RemoveAtProperties
<1> HIDE DEF t
<1>4. ASSUME a = -1
      PROVE  ActiveOf(t, IF a > index THEN a - 1 ELSE a) = ActiveOf(s, a)
  BY <1>0, <1>4 DEF ActiveOf, kInvalidIndex
<1>5. ASSUME a # -1 /\ a > index
      PROVE  ActiveOf(t, IF a > index THEN a - 1 ELSE a) = ActiveOf(s, a)
  <2>1. /\ a \in 1..(Len(s) - 1) /\ ~(a < i) /\ (a - 1) + 1 = a /\ a - 1 # -1
        /\ a + 1 \in 1..Len(s)
    BY <1>0, <1>5 DEF i
  <2>2. t[a] = c[a + 1] /\ c[a + 1].ws = s[a + 1].ws
    BY <1>1, <1>2, <2>1
  <2> QED
    BY <1>5, <2>1, <2>2 DEF ActiveOf, kInvalidIndex
<1>6. ASSUME a # -1 /\ ~(a > index)
      PROVE  ActiveOf(t, IF a > index THEN a - 1 ELSE a) = ActiveOf(s, a)
  <2>1. a + 1 \in 1..(Len(s) - 1) /\ a + 1 < i /\ a + 1 \in 1..Len(s)
    BY <1>0, <1>6 DEF i
  <2>2. t[a + 1] = c[a + 1] /\ c[a + 1].ws = s[a + 1].ws
    BY <1>1, <1>2, <2>1
  <2> QED
    BY <1>6, <2>2 DEF ActiveOf
<1> QED
  BY <1>4, <1>5, <1>6 DEF t, c, i

(* ... or replaced...                                                      *)
LEMMA ReplacementActive ==
  ASSUME NEW s, WellFormed(s), NEW index \in 0..(Len(s) - 1), NEW w \in WebStates,
         NEW a \in {-1} \cup 0..(Len(s) - 1)
  PROVE  LET t == [Cleared(s, index + 1) EXCEPT
                     ![index + 1] = [ws |-> w, opener |-> NoWebState, nav |-> -1]]
         IN  ActiveOf(t, a) = IF a = index THEN w ELSE ActiveOf(s, a)
<1> DEFINE i == index + 1
           c == Cleared(s, i)
           e == [ws |-> w, opener |-> NoWebState, nav |-> -1]
           t == [c EXCEPT ![i] = e]
<1>0. Len(s) \in Nat /\ i \in 1..Len(s)
  BY LenProperties DEF WellFormed
<1> HIDE DEF i
<1>1. c \in Seq(Wrapper) /\ Len(c) = Len(s) /\ \A k \in 1..Len(s) : c[k].ws = s[k].ws
  BY <1>0, ClearedFacts
<1>e. e.ws = w
  OBVIOUS
<1> HIDE DEF c, e
<1>2. DOMAIN c = 1..Len(s)
  BY <1>1, LenProperties
<1>3. \A k \in 1..Len(s) : t[k] = IF k = i THEN e ELSE c[k]
  BY <1>2
<1> HIDE DEF t
<1>4. ASSUME a = -1
      PROVE  ActiveOf(t, a) = IF a = index THEN w ELSE ActiveOf(s, a)
  BY <1>0, <1>4 DEF ActiveOf, kInvalidIndex
<1>5. ASSUME a = index
      PROVE  ActiveOf(t, a) = IF a = index THEN w ELSE ActiveOf(s, a)
  BY <1>0, <1>3, <1>5, <1>e DEF ActiveOf, kInvalidIndex, i
<1>6. ASSUME a # -1 /\ a # index
      PROVE  ActiveOf(t, a) = IF a = index THEN w ELSE ActiveOf(s, a)
  <2>1. a + 1 \in 1..Len(s) /\ a + 1 # i
    BY <1>0, <1>6 DEF i
  <2>2. t[a + 1].ws = s[a + 1].ws
    BY <1>1, <1>3, <2>1
  <2> QED
    BY <1>6, <2>2 DEF ActiveOf
<1> QED
  BY <1>0, <1>4, <1>5, <1>6 DEF t, c, e, i

(* ... or moved.                                                           *)
LEMMA MoveActive ==
  ASSUME NEW s \in Seq(Wrapper), NEW from \in 0..(Len(s) - 1), NEW to \in 0..(Len(s) - 1),
         NEW a \in {-1} \cup 0..(Len(s) - 1), from # to
  PROVE  LET t == InsertAt(RemoveAt(s, from + 1), to + 1, s[from + 1])
             b == IF a = from THEN to
                  ELSE IF from < a /\ a <= to THEN a - 1
                  ELSE IF to <= a /\ a < from THEN a + 1
                  ELSE a
         IN  ActiveOf(t, b) = ActiveOf(s, a)
<1> DEFINE f == from + 1
           g == to + 1
           e == s[f]
           r == RemoveAt(s, f)
           t == InsertAt(r, g, e)
           b == IF a = from THEN to
                ELSE IF from < a /\ a <= to THEN a - 1
                ELSE IF to <= a /\ a < from THEN a + 1
                ELSE a
<1>0. Len(s) \in Nat /\ f \in 1..Len(s) /\ g \in 1..Len(s)
  BY LenProperties
<1>e. e \in Wrapper
  BY <1>0, ElementOfSeq
<1> HIDE DEF f, g
<1>1. /\ r \in Seq(Wrapper) /\ Len(r) = Len(s) - 1
      /\ \A k \in 1..(Len(s) - 1) : r[k] = IF k < f THEN s[k] ELSE s[k + 1]
  BY <1>0, RemoveAtProperties
<1> HIDE DEF r, e
<1>2. \A k \in 1..(Len(r) + 1) :
        t[k] = IF k < g THEN r[k] ELSE IF k = g THEN e ELSE r[k - 1]
  <2>1. g \in 1..(Len(r) + 1)
    BY <1>0, <1>1
  <2> QED
    BY <1>1, <1>e, <2>1, InsertAtProperties
<1>3. \A k \in 1..Len(s) : t[k] = IF k < g THEN r[k] ELSE IF k = g THEN e ELSE r[k - 1]
  BY <1>0, <1>1, <1>2
<1> HIDE DEF t
<1>4. ASSUME a = -1
      PROVE  ActiveOf(t, b) = ActiveOf(s, a)
  BY <1>0, <1>4 DEF ActiveOf, kInvalidIndex
<1>5. ASSUME a = from
      PROVE  ActiveOf(t, b) = ActiveOf(s, a)
  <2>1. b = to /\ t[g] = e
    BY <1>0, <1>3, <1>5
  <2> QED
    BY <1>0, <1>5, <2>1 DEF ActiveOf, kInvalidIndex, e, f, g
<1>6. ASSUME a # -1 /\ a # from
      PROVE  ActiveOf(t, b) = ActiveOf(s, a)
  <2> DEFINE k == b + 1
  <2>0. a \in 0..(Len(s) - 1)
    BY <1>6
  <2>1. CASE from < a /\ a <= to
    <3>1. /\ k = a /\ a \in 1..Len(s) /\ a < g /\ a \in 1..(Len(s) - 1) /\ ~(a < f)
          /\ b # -1
      BY <1>0, <1>6, <2>0, <2>1 DEF f, g
    <3>2. t[k] = s[a + 1]
      BY <1>1, <1>3, <3>1
    <3> QED
      BY <1>6, <3>1, <3>2 DEF ActiveOf, kInvalidIndex
  <2>2. CASE to <= a /\ a < from
    <3>1. /\ k = a + 2 /\ k \in 1..Len(s) /\ ~(k < g) /\ k # g
          /\ k - 1 \in 1..(Len(s) - 1) /\ k - 1 < f /\ k - 1 = a + 1 /\ b # -1
      BY <1>0, <1>6, <2>0, <2>2 DEF f, g
    <3>2. t[k] = s[a + 1]
      <4> HIDE DEF k
      <4> QED
        BY <1>1, <1>3, <3>1
    <3> QED
      BY <1>6, <3>1, <3>2 DEF ActiveOf, kInvalidIndex
  <2>3. CASE a < from /\ a < to
    <3>1. /\ b = a /\ a + 1 \in 1..Len(s) /\ a + 1 < g /\ a + 1 \in 1..(Len(s) - 1)
          /\ a + 1 < f
      BY <1>0, <1>6, <2>0, <2>3 DEF f, g
    <3>2. t[a + 1] = s[a + 1]
      BY <1>1, <1>3, <3>1
    <3> QED
      BY <3>1, <3>2 DEF ActiveOf
  <2>4. CASE a > from /\ a > to
    <3>1. /\ b = a /\ a + 1 \in 1..Len(s) /\ ~(a + 1 < g) /\ a + 1 # g
          /\ (a + 1) - 1 = a /\ a \in 1..(Len(s) - 1) /\ ~(a < f)
      BY <1>0, <1>6, <2>0, <2>4 DEF f, g
    <3>2. t[a + 1] = r[(a + 1) - 1]
      BY <1>3, <3>1
    <3>3. r[a] = s[a + 1]
      BY <1>1, <3>1
    <3> QED
      BY <3>1, <3>2, <3>3 DEF ActiveOf
  <2> QED
    BY <1>6, <2>0, <2>1, <2>2, <2>3, <2>4
<1> QED
  BY <1>4, <1>5, <1>6 DEF t, r, e, f, g

(* The active index is one that the lemmas above speak of.                 *)
LEMMA ActiveIndexRange ==
  ASSUME ListInv
  PROVE  /\ active_index \in {-1} \cup 0..(Len(web_state_wrappers) - 1)
         /\ Len(web_state_wrappers) \in Nat /\ count = Len(web_state_wrappers)
         /\ WellFormed(web_state_wrappers)
         /\ web_state_wrappers \in Seq(Wrapper)
<1>1. count \in Nat /\ active_index \in Int
  BY WrapperFacts DEF ListInv, TypeOK
<1> QED
  BY <1>1, ListInvParts
  DEF ListInv, TypeOK, ActiveIndexValid, ContainsIndex, kInvalidIndex, count

(* Inserting a tab selects it, with a notification, or keeps the selection. *)
LEMMA InsertSelection ==
  ASSUME ListInv, NEW ws \in WebStates, NEW force \in BOOLEAN,
         NEW activate \in BOOLEAN, NEW inherit \in BOOLEAN, NEW index \in Int,
         NEW passed, InsertWebState(ws, index, force, activate, inherit, passed)
  PROVE  KeepsSelection /\ TellsActiveChange
<1> DEFINE opener == IF inherit THEN GetActiveWebState ELSE passed
           at     == InsertionIndex(force, index, opener)
           e      == [ws |-> ws, opener |-> opener,
                      nav |-> NavigationIndexFromWebState(opener)]
<1>0. TypeOK /\ ActiveIndexValid
  BY ListInvParts
<1>1. /\ Listed \subseteq WebStates
      /\ GetActiveWebState \in Listed \cup {NoWebState}
  BY <1>0, WrapperFacts, ActiveIsListed
<1>2. opener \in Listed \cup {NoWebState}
  BY <1>1 DEF InsertWebState
<1>3. at \in 0..Len(web_state_wrappers)
  BY <1>0, <1>2, InsertionIndexRange DEF InsertWebState, count
<1>4. e \in Wrapper /\ e.ws = ws
  <2>1. NavigationIndexFromWebState(opener) \in NavIndices
    BY <1>0, <1>1, <1>2 DEF NavigationIndexFromWebState, TypeOK
  <2> QED
    BY <1>1, <1>2, <2>1 DEF Wrapper
<1>5. /\ web_state_wrappers' = InsertAt(web_state_wrappers, at + 1, e)
      /\ active_index' = IF activate THEN at ELSE ActiveIndexAfterInsertion(at)
      /\ activate => notified' = <<Inserted(ws, at, GetActiveWebState)>> \o
           NotifyIfActiveWebStateChanged(GetActiveWebState, ws, at)
  BY DEF InsertWebState
<1> HIDE DEF at, e
<1>6. /\ ActiveOf(web_state_wrappers', at) = ws
      /\ ActiveOf(web_state_wrappers', IF active_index >= at THEN active_index + 1
                                       ELSE active_index)
           = ActiveOf(web_state_wrappers, active_index)
  BY <1>3, <1>4, <1>5, ActiveIndexRange, InsertionActive
<1>7. KeepsSelection
  BY <1>3, <1>5, ActiveIndexRange
  DEF KeepsSelection, ActiveIndexAfterInsertion, kInvalidIndex
<1>8. CASE activate
  <2>1. GetActiveWebState' = ws
    BY <1>5, <1>6, <1>8, ActiveFacts
  <2>2. ASSUME GetActiveWebState # ws
        PROVE  Tells(notified', GetActiveWebState, ws)
    BY <1>5, <1>8, <2>2, NotifiedAfter
  <2> QED
    BY <1>7, <2>1, <2>2 DEF TellsActiveChange
<1>9. CASE ~activate
  <2>1. active_index' = IF active_index >= at THEN active_index + 1 ELSE active_index
    BY <1>5, <1>9 DEF ActiveIndexAfterInsertion
  <2> QED
    BY <1>6, <1>7, <2>1, SameActive
<1> QED
  BY <1>8, <1>9

(* Moving a tab keeps the selection, whichever tab is moved.               *)
LEMMA MoveSelection ==
  ASSUME ListInv, NEW from \in 0..(count - 1), NEW to \in 0..(count - 1),
         MoveWebStateAt(from, to)
  PROVE  KeepsSelection /\ TellsActiveChange
<1> DEFINE s == web_state_wrappers
           a == active_index
           b == IF a = from THEN to
                ELSE IF from < a /\ a <= to THEN a - 1
                ELSE IF to <= a /\ a < from THEN a + 1
                ELSE a
<1>0. /\ a \in {-1} \cup 0..(Len(s) - 1) /\ Len(s) \in Nat /\ s \in Seq(Wrapper)
      /\ from \in 0..(Len(s) - 1) /\ to \in 0..(Len(s) - 1)
  BY ActiveIndexRange
<1>1. CASE from = to
  BY <1>1, SameActive DEF MoveWebStateAt, KeepsSelection, ActiveOf
<1>2. CASE from # to
  <2>1. /\ web_state_wrappers' = InsertAt(RemoveAt(s, from + 1), to + 1, s[from + 1])
        /\ active_index' = ActiveIndexAfterMove(from, to)
    BY <1>2 DEF MoveWebStateAt, WrappersAfterMove
  <2>2. active_index' = b
    <3>1. /\ Min({from, to}) = IF from <= to THEN from ELSE to
          /\ Max({from, to}) = IF from >= to THEN from ELSE to
      <4>1. from \in Int /\ to \in Int
        BY <1>0
      <4> QED
        BY <4>1, MinMaxOfPair
    <3> QED
      BY <1>0, <1>2, <2>1, <3>1 DEF ActiveIndexAfterMove
  <2>3. ActiveOf(web_state_wrappers', b) = ActiveOf(s, a)
    BY <1>0, <1>2, <2>1, MoveActive
  <2>4. a # -1 => b # -1
    BY <1>0
  <2> QED
    BY <2>2, <2>3, <2>4, SameActive DEF KeepsSelection, kInvalidIndex
<1> QED
  BY <1>1, <1>2

(* Replacing a tab changes the active WebState only if it was that tab.    *)
LEMMA ReplaceSelection ==
  ASSUME ListInv, NEW index \in 0..(count - 1), NEW ws \in WebStates,
         ReplaceWebStateAt(index, ws)
  PROVE  KeepsSelection /\ TellsActiveChange
<1> DEFINE s == web_state_wrappers
           a == active_index
           old == GetWebStateAt(index)
<1>0. /\ a \in {-1} \cup 0..(Len(s) - 1) /\ Len(s) \in Nat /\ WellFormed(s)
      /\ index \in 0..(Len(s) - 1)
  BY ActiveIndexRange
<1>1. /\ web_state_wrappers' =
           [Cleared(s, index + 1) EXCEPT
              ![index + 1] = [ws |-> ws, opener |-> NoWebState, nav |-> -1]]
      /\ active_index' = a
      /\ a = index => notified' = <<Replaced(old, ws, index, ws)>> \o
                                    NotifyIfActiveWebStateChanged(old, ws, a)
  BY DEF ReplaceWebStateAt, ClearOpenersReferencing, Cleared, GetWebStateAt, count
<1>2. ActiveOf(web_state_wrappers', a) = IF a = index THEN ws ELSE ActiveOf(s, a)
  BY <1>0, <1>1, ReplacementActive
<1>3. KeepsSelection
  BY <1>1 DEF KeepsSelection
<1>4. CASE a = index
  <2>1. GetActiveWebState = old /\ GetActiveWebState' = ws
    BY <1>0, <1>1, <1>2, <1>4, ActiveFacts DEF ActiveOf, GetWebStateAt, kInvalidIndex
  <2> HIDE DEF old
  <2>2. ASSUME old # ws PROVE Tells(notified', old, ws)
    BY <1>1, <1>4, <2>2, NotifiedAfter
  <2> QED
    BY <1>3, <2>1, <2>2 DEF TellsActiveChange
<1>5. CASE a # index
  BY <1>1, <1>2, <1>3, <1>5, SameActive
<1> QED
  BY <1>4, <1>5

(* Closing a tab selects another, with a notification, if it was the active *)
(* one and not the last; otherwise it keeps the selection.                  *)
LEMMA CloseSelection ==
  ASSUME ListInv, NEW index \in 0..(count - 1), CloseWebStateAt(index)
  PROVE  KeepsSelection /\ TellsActiveChange
<1> DEFINE s == web_state_wrappers
           a == active_index
           ws == GetWebStateAt(index)
           new_active == GetActiveWebState'
           new_index == active_index'
<1>0. /\ a \in {-1} \cup 0..(Len(s) - 1) /\ Len(s) \in Nat /\ WellFormed(s)
      /\ index \in 0..(Len(s) - 1) /\ count = Len(s)
  BY ActiveIndexRange
<1>1. /\ web_state_wrappers' = RemoveAt(Cleared(s, index + 1), index + 1)
      /\ new_index = ActiveIndexAfterDetach(index)
      /\ a = index => notified' = <<Detached(ws, index, new_active)>> \o
                          NotifyIfActiveWebStateChanged(ws, new_active, new_index)
  BY DEF CloseWebStateAt, DetachWebStateAt, ClearOpenersReferencing, Cleared,
         GetWebStateAt, count
<1>2. count' = count - 1
  <2>1. index + 1 \in 1..Len(s)
    BY <1>0
  <2> QED
    BY <1>0, <1>1, <2>1, RemovalWellFormed, ListInvParts
<1>3. CASE a = index
  <2>1. /\ new_index \in {kInvalidIndex} \cup 0..(count - 2)
        /\ new_index = kInvalidIndex => count = 1
    <3>1. new_index = DetermineNewActiveIndex(index)
      BY <1>0, <1>1, <1>3 DEF ActiveIndexAfterDetach
    <3> QED
      BY <3>1, NewActiveIndexRange
  <2>2. KeepsSelection
    BY <1>0, <1>2, <2>1 DEF KeepsSelection
  <2>3. GetActiveWebState = ws
    BY <1>0, <1>3 DEF GetActiveWebState, kInvalidIndex
  <2>4. notified' = <<Detached(ws, index, new_active)>> \o
                       NotifyIfActiveWebStateChanged(ws, new_active, new_index)
    BY <1>1, <1>3
  <2> HIDE DEF ws, new_index, new_active
  <2>5. ASSUME ws # new_active PROVE Tells(notified', ws, new_active)
    BY <2>4, <2>5, NotifiedAfter
  <2>6. new_active # ws => Tells(notified', ws, new_active)
    BY <2>5
  <2> QED
    BY <2>2, <2>3, <2>6 DEF TellsActiveChange, new_active
<1>4. CASE a # index
  <2>1. new_index = IF a > index THEN a - 1 ELSE a
    BY <1>0, <1>1, <1>4 DEF ActiveIndexAfterDetach
  <2>2. ActiveOf(web_state_wrappers', IF a > index THEN a - 1 ELSE a) = ActiveOf(s, a)
    BY <1>0, <1>1, <1>4, RemovalActive
  <2>3. KeepsSelection
    BY <1>0, <2>1 DEF KeepsSelection, kInvalidIndex
  <2> QED
    BY <2>1, <2>2, <2>3, SameActive
<1> QED
  BY <1>3, <1>4

(* Activating a tab tells of it.                                           *)
LEMMA ActivateSelection ==
  ASSUME ListInv, NEW index \in 0..(count - 1), ActivateWebStateAt(index)
  PROVE  KeepsSelection /\ TellsActiveChange
<1> DEFINE old == GetActiveWebState
           new == GetWebStateAt(index)
           e   == Activated(old, new, index)
<1>0. Len(web_state_wrappers) \in Nat /\ index # kInvalidIndex
  BY ActiveIndexRange DEF kInvalidIndex
<1>1. /\ web_state_wrappers' = web_state_wrappers /\ active_index' = index
      /\ notified' = NotifyIfActiveWebStateChanged(old, new, index)
  BY DEF ActivateWebStateAt
<1>2. GetActiveWebState' = new
  BY <1>0, <1>1 DEF GetActiveWebState, GetWebStateAt
<1>3. e.type = "activated" /\ e.old = old /\ e.ws = new
  BY DEF Activated
<1>4. old # new => notified' = <<e>>
  BY <1>1 DEF NotifyIfActiveWebStateChanged
<1> HIDE DEF old, new, e
<1>5. ASSUME old # new PROVE Tells(notified', old, new)
  <2>1. notified' = <<e>> /\ 1 \in DOMAIN <<e>> /\ <<e>>[1] = e
    BY <1>4, <1>5
  <2> QED
    BY <1>3, <2>1 DEF Tells
<1>6. KeepsSelection
  BY <1>0, <1>1 DEF KeepsSelection
<1> QED
  BY <1>2, <1>5, <1>6 DEF TellsActiveChange, old

(* Recording an opener does not touch the selection.                       *)
LEMMA SetOpenerSelection ==
  ASSUME ListInv, NEW index \in 0..(count - 1), NEW n \in NavIndices,
         NEW opener \in Listed, SetOpenerOfWebStateAt(index, opener, n)
  PROVE  KeepsSelection /\ TellsActiveChange
<1> DEFINE s == web_state_wrappers
           a == active_index
           i == index + 1
           e == [s[i] EXCEPT !.opener = opener, !.nav = n]
           t == [s EXCEPT ![i] = e]
<1>0. /\ a \in {-1} \cup 0..(Len(s) - 1) /\ Len(s) \in Nat /\ s \in Seq(Wrapper)
      /\ i \in 1..Len(s)
  BY ActiveIndexRange
<1>1. s[i] \in Wrapper
  BY <1>0, ElementOfSeq
<1>2. web_state_wrappers' = t /\ active_index' = a
  BY <1>0, <1>1 DEF SetOpenerOfWebStateAt
<1>3. e.ws = s[i].ws
  BY <1>1 DEF Wrapper
<1> HIDE DEF e, i
<1>4. DOMAIN s = 1..Len(s)
  BY <1>0, LenProperties
<1>5. \A k \in 1..Len(s) : t[k].ws = s[k].ws
  BY <1>3, <1>4
<1> HIDE DEF t
<1>6. ActiveOf(t, a) = ActiveOf(s, a)
  <2>1. a # -1 => a + 1 \in 1..Len(s)
    BY <1>0
  <2> QED
    BY <1>5, <2>1 DEF ActiveOf, kInvalidIndex
<1> QED
  BY <1>2, <1>6, SameActive DEF KeepsSelection

(* The same for every step of the list.                                    *)
LEMMA SelectionNext ==
  ASSUME ListInv, [ListNext]_listVars
  PROVE  KeepsSelection /\ TellsActiveChange
<1>0. TypeOK /\ count \in Nat
  BY WrapperFacts DEF ListInv
<1>1. CASE Insert
  <2>1. PICK ws \in WebStates, force \in BOOLEAN, activate \in BOOLEAN,
             inherit \in BOOLEAN, opener \in Listed \cup {NoWebState} :
          \E index \in IF force THEN 0..count ELSE {kInvalidIndex} :
            InsertWebState(ws, index, force, activate, inherit, opener)
    BY <1>1 DEF Insert
  <2>2. PICK index \in IF force THEN 0..count ELSE {kInvalidIndex} :
          InsertWebState(ws, index, force, activate, inherit, opener)
    BY <2>1
  <2>3. index \in Int
    BY <1>0 DEF kInvalidIndex
  <2> QED
    BY <2>2, <2>3, InsertSelection
<1>2. ASSUME NEW from \in Indices, NEW to \in Indices, MoveWebStateAt(from, to)
      PROVE  KeepsSelection /\ TellsActiveChange
  BY <1>2, MoveSelection DEF Indices
<1>3. ASSUME NEW index \in Indices, NEW ws \in WebStates, ReplaceWebStateAt(index, ws)
      PROVE  KeepsSelection /\ TellsActiveChange
  BY <1>3, ReplaceSelection DEF Indices
<1>4. ASSUME NEW index \in Indices, CloseWebStateAt(index)
      PROVE  KeepsSelection /\ TellsActiveChange
  BY <1>4, CloseSelection DEF Indices
<1>5. ASSUME NEW index \in Indices, ActivateWebStateAt(index)
      PROVE  KeepsSelection /\ TellsActiveChange
  BY <1>5, ActivateSelection DEF Indices
<1>6. ASSUME NEW index \in Indices, NEW n \in NavIndices, NEW opener \in Listed,
             SetOpenerOfWebStateAt(index, opener, n)
      PROVE  KeepsSelection /\ TellsActiveChange
  BY <1>6, SetOpenerSelection DEF Indices
<1>7. ASSUME UNCHANGED <<web_state_wrappers, active_index>>
      PROVE  KeepsSelection /\ TellsActiveChange
  BY <1>7, SameActive DEF KeepsSelection, ActiveOf
<1>8. CASE CloseAllWebStates \/ UNCHANGED listVars
           \/ \E ws \in WebStates, n \in NavIndices : CommitNavigation(ws, n)
  BY <1>7, <1>8 DEF CloseAllWebStates, listVars, CommitNavigation
<1>9. CASE CloseLastWebState
  <2>1. CASE count > 0
    <3>1. count - 1 \in Indices
      BY <1>0, <2>1 DEF Indices
    <3> QED
      BY <1>4, <1>9, <2>1, <3>1 DEF CloseLastWebState
  <2>2. CASE ~(count > 0)
    BY <1>7, <1>9, <2>2 DEF CloseLastWebState
  <2> QED
    BY <2>1, <2>2
<1> QED
  BY <1>1, <1>2, <1>3, <1>4, <1>5, <1>6, <1>8, <1>9 DEF ListNext

(* The observers hear of every change of the active WebState, with the old  *)
(* and the new one; moves, insertions and closing of other tabs never shift *)
(* the selection silently.                                                  *)
THEOREM ActiveChangesAlwaysNotified == ListSpec => ActiveChangesAreNotified
<1>1. ListInv /\ [ListNext]_listVars =>
        [GetActiveWebState' # GetActiveWebState =>
           \E k \in DOMAIN notified' :
             /\ notified'[k].type = "activated"
             /\ notified'[k].old = GetActiveWebState
             /\ notified'[k].ws = GetActiveWebState']_listVars
  BY SelectionNext DEF TellsActiveChange, Tells
<1> QED
  BY <1>1, ListInvariance, PTL DEF ListSpec, ActiveChangesAreNotified

-----------------------------------------------------------------------------
(* The list implements TabStrip.  Names(s) is the row of tabs that the      *)
(* wrappers s stand for.                                                    *)
Names(s) == [k \in 1..Len(s) |-> s[k].ws]

(* The row has a tab for each wrapper.                                     *)
LEMMA NamesType ==
  ASSUME NEW s \in Seq(Wrapper)
  PROVE  /\ Names(s) \in Seq(WebStates)
         /\ Len(Names(s)) = Len(s)
         /\ \A k \in 1..Len(s) : Names(s)[k] = s[k].ws
<1>1. Len(s) \in Nat /\ \A k \in 1..Len(s) : s[k] \in Wrapper
  BY LenProperties, ElementOfSeq
<1>2. \A k \in 1..Len(s) : s[k].ws \in WebStates
  BY <1>1 DEF Wrapper
<1> QED
  BY <1>1, <1>2 DEF Names

(* It is inserted into and removed from as the wrappers are.               *)
LEMMA NamesOfInsertAt ==
  ASSUME NEW s \in Seq(Wrapper), NEW e \in Wrapper, NEW i \in 1..(Len(s) + 1)
  PROVE  Names(InsertAt(s, i, e)) = InsertAt(Names(s), i, e.ws)
<1> DEFINE t == InsertAt(s, i, e)
           n == Names(s)
           w == e.ws
           u == InsertAt(n, i, w)
           v == Names(t)
<1>0. Len(s) \in Nat /\ w \in WebStates
  BY LenProperties DEF Wrapper
<1>1. /\ t \in Seq(Wrapper) /\ Len(t) = Len(s) + 1
      /\ \A k \in 1..(Len(s) + 1) :
           t[k] = IF k < i THEN s[k] ELSE IF k = i THEN e ELSE s[k - 1]
  BY InsertAtProperties
<1>2. n \in Seq(WebStates) /\ Len(n) = Len(s) /\ \A k \in 1..Len(s) : n[k] = s[k].ws
  BY NamesType
<1> HIDE DEF t, n
<1>3. v \in Seq(WebStates) /\ Len(v) = Len(t) /\ \A k \in 1..Len(t) : v[k] = t[k].ws
  BY <1>1, NamesType
<1> HIDE DEF v
<1>w. w = e.ws
  OBVIOUS
<1> HIDE DEF w
<1>4. /\ u \in Seq(WebStates) /\ Len(u) = Len(n) + 1
      /\ \A k \in 1..(Len(n) + 1) :
           u[k] = IF k < i THEN n[k] ELSE IF k = i THEN w ELSE n[k - 1]
  <2>1. i \in 1..(Len(n) + 1)
    BY <1>2
  <2>2. n \in Seq(WebStates) /\ w \in WebStates
    BY <1>0, <1>2
  <2> QED
    BY <2>1, <2>2, InsertAtProperties, SMTT(40)
<1> HIDE DEF u
<1>5. ASSUME NEW k \in 1..(Len(s) + 1) PROVE v[k] = u[k]
  <2>1. CASE k < i
    <3>1. k \in 1..Len(s)
      BY <1>0, <2>1
    <3> QED
      BY <1>1, <1>2, <1>3, <1>4, <2>1, <3>1
  <2>2. CASE k = i
    BY <1>0, <1>1, <1>2, <1>3, <1>4, <1>w, <2>2
  <2>3. CASE k > i
    <3>1. k - 1 \in 1..Len(s) /\ ~(k < i) /\ k # i
      BY <1>0, <2>3
    <3> QED
      BY <1>1, <1>2, <1>3, <1>4, <3>1
  <2> QED
    BY <1>0, <2>1, <2>2, <2>3
<1>6. v = u
  BY <1>1, <1>2, <1>3, <1>4, <1>5, SeqEqual
<1> QED
  BY <1>6 DEF v, u, t, n, w

(* The same for a removal.                                                 *)
LEMMA NamesOfRemoveAt ==
  ASSUME NEW s \in Seq(Wrapper), NEW i \in 1..Len(s)
  PROVE  Names(RemoveAt(s, i)) = RemoveAt(Names(s), i)
<1> DEFINE t == RemoveAt(s, i)
           n == Names(s)
           u == RemoveAt(n, i)
           v == Names(t)
<1>0. Len(s) \in Nat
  BY LenProperties
<1>1. /\ t \in Seq(Wrapper) /\ Len(t) = Len(s) - 1
      /\ \A k \in 1..(Len(s) - 1) : t[k] = IF k < i THEN s[k] ELSE s[k + 1]
  BY RemoveAtProperties
<1>2. n \in Seq(WebStates) /\ Len(n) = Len(s) /\ \A k \in 1..Len(s) : n[k] = s[k].ws
  BY NamesType
<1> HIDE DEF t, n
<1>3. v \in Seq(WebStates) /\ Len(v) = Len(t) /\ \A k \in 1..Len(t) : v[k] = t[k].ws
  BY <1>1, NamesType
<1> HIDE DEF v
<1>4. /\ u \in Seq(WebStates) /\ Len(u) = Len(n) - 1
      /\ \A k \in 1..(Len(n) - 1) : u[k] = IF k < i THEN n[k] ELSE n[k + 1]
  BY <1>0, <1>2, RemoveAtProperties
<1> HIDE DEF u
<1>5. ASSUME NEW k \in 1..(Len(s) - 1) PROVE v[k] = u[k]
  <2>1. k \in 1..Len(s) /\ k + 1 \in 1..Len(s)
    BY <1>0
  <2> QED
    BY <1>1, <1>2, <1>3, <1>4, <2>1
<1>6. v = u
  BY <1>1, <1>2, <1>3, <1>4, <1>5, SeqEqual
<1> QED
  BY <1>6 DEF v, u, t, n

(* Clearing openers does not show in the row.                              *)
LEMMA NamesOfCleared ==
  ASSUME NEW s, WellFormed(s), NEW i \in 1..Len(s)
  PROVE  Names(Cleared(s, i)) = Names(s)
  BY ClearedFacts DEF Names

(* The row after a removal, or a replacement, with the openers cleared.    *)
LEMMA NamesOfCall ==
  ASSUME NEW s, WellFormed(s), NEW i \in 1..Len(s), NEW w \in WebStates
  PROVE  /\ Names(RemoveAt(Cleared(s, i), i)) = RemoveAt(Names(s), i)
         /\ Names([Cleared(s, i) EXCEPT
                     ![i] = [ws |-> w, opener |-> NoWebState, nav |-> -1]])
              = [Names(s) EXCEPT ![i] = w]
<1> DEFINE c == Cleared(s, i)
           e == [ws |-> w, opener |-> NoWebState, nav |-> -1]
           t == [c EXCEPT ![i] = e]
<1>0. s \in Seq(Wrapper) /\ Len(s) \in Nat
  BY LenProperties DEF WellFormed
<1>1. c \in Seq(Wrapper) /\ Len(c) = Len(s) /\ Names(c) = Names(s)
  BY ClearedFacts, NamesOfCleared
<1>2. e \in Wrapper /\ e.ws = w
  BY DEF Wrapper
<1> HIDE DEF c, e
<1>3. Names(RemoveAt(c, i)) = RemoveAt(Names(s), i)
  BY <1>1, NamesOfRemoveAt
<1>4. /\ Len(t) = Len(s) /\ \A k \in 1..Len(s) : t[k] = IF k = i THEN e ELSE c[k]
  <2>1. i \in 1..Len(c)
    BY <1>1
  <2> QED
    BY <1>1, <1>2, <2>1, ExceptSeq, LenProperties
<1> HIDE DEF t
<1>5. \A k \in 1..Len(s) : c[k].ws = Names(s)[k]
  BY <1>1 DEF Names
<1>6. Names(t) = [Names(s) EXCEPT ![i] = w]
  <2>1. Names(t) = [k \in 1..Len(s) |-> IF k = i THEN w ELSE Names(s)[k]]
    BY <1>2, <1>4, <1>5 DEF Names
  <2>2. DOMAIN Names(s) = 1..Len(s)
    BY DEF Names
  <2> QED
    BY <2>1, <2>2
<1> QED
  BY <1>3, <1>6 DEF t, c, e

(* The variables of TabStrip, and its actions, in terms of the row.        *)
Row == Names(web_state_wrappers)

(* The row's length, its tabs and its members.                             *)
LEMMA RowFacts ==
  ASSUME ListInv
  PROVE  /\ Row = [k \in 1..count |-> web_state_wrappers[k].ws]
         /\ Row' = [k \in 1..count' |-> web_state_wrappers'[k].ws]
         /\ Row' = Names(web_state_wrappers')
         /\ Row \in Seq(WebStates) /\ Len(Row) = count /\ count \in Nat
         /\ \A k \in 1..count : Row[k] = web_state_wrappers[k].ws
         /\ Strip!Contents = Listed
<1>1. /\ Row = [k \in 1..count |-> web_state_wrappers[k].ws]
      /\ Row' = [k \in 1..count' |-> web_state_wrappers'[k].ws]
      /\ Row' = Names(web_state_wrappers')
  BY DEF Row, Names, count
<1>2. /\ Row \in Seq(WebStates) /\ Len(Row) = count /\ count \in Nat
      /\ \A k \in 1..count : Row[k] = web_state_wrappers[k].ws
  BY ActiveIndexRange, NamesType DEF Row
<1>3. Strip!Contents = {Row[k] : k \in 1..Len(Row)}
  BY <1>1 DEF Strip!Contents
<1> QED
  BY <1>1, <1>2, <1>3 DEF Listed

(* Steps of the list that are steps of TabStrip: it opens a tab, ...       *)
LEMMA OpenStep ==
  ASSUME ListInv, NEW w \in WebStates, NEW i \in 1..(count + 1), NEW sel \in BOOLEAN,
         w \notin Listed, Row' = InsertAt(Row, i, w),
         GetActiveWebState' = IF sel THEN w ELSE GetActiveWebState
  PROVE  Strip!StripNext
<1>1. Strip!Open(w, i, sel)
  BY RowFacts DEF Strip!Open, Strip!InsertAt, InsertAt
<1>2. i \in 1..(Len(Row) + 1)
  BY RowFacts
<1> QED
  BY <1>1, <1>2, RowFacts DEF Strip!StripNext

(* ... closes one, ...                                                     *)
LEMMA CloseStep ==
  ASSUME ListInv, NEW i \in 1..count, Row' = RemoveAt(Row, i),
         IF GetActiveWebState = Row[i]
         THEN GetActiveWebState' \in IF count = 1 THEN {NoWebState} ELSE Listed \ {Row[i]}
         ELSE GetActiveWebState' = GetActiveWebState
  PROVE  Strip!StripNext
<1>1. Strip!Close(i)
  BY RowFacts DEF Strip!Close, Strip!RemoveAt, RemoveAt
<1>2. i \in 1..Len(Row)
  BY RowFacts
<1> QED
  BY <1>1, <1>2, RowFacts DEF Strip!StripNext

(* ... moves one, ...                                                      *)
LEMMA MoveStep ==
  ASSUME ListInv, NEW i \in 1..count, NEW j \in 1..count,
         Row' = InsertAt(RemoveAt(Row, i), j, Row[i]),
         GetActiveWebState' = GetActiveWebState
  PROVE  Strip!StripNext
<1>1. Strip!Move(i, j)
  BY RowFacts
  DEF Strip!Move, Strip!InsertAt, Strip!RemoveAt, InsertAt, RemoveAt
<1>2. i \in 1..Len(Row) /\ j \in 1..Len(Row)
  BY RowFacts
<1> QED
  BY <1>1, <1>2, RowFacts DEF Strip!StripNext

(* ... puts one in the place of another, ...                               *)
LEMMA ReplaceStep ==
  ASSUME ListInv, NEW i \in 1..count, NEW w \in WebStates, w \notin Listed,
         Row' = [Row EXCEPT ![i] = w],
         GetActiveWebState' = IF GetActiveWebState = Row[i] THEN w ELSE GetActiveWebState
  PROVE  Strip!StripNext
<1>1. Strip!Replace(i, w)
  BY RowFacts DEF Strip!Replace
<1>2. i \in 1..Len(Row)
  BY RowFacts
<1> QED
  BY <1>1, <1>2, RowFacts DEF Strip!StripNext

(* ... or selects one.                                                     *)
LEMMA SelectStep ==
  ASSUME ListInv, NEW i \in 1..count, Row' = Row, GetActiveWebState' = Row[i]
  PROVE  Strip!StripNext
<1>1. Strip!Select(i)
  BY RowFacts DEF Strip!Select
<1>2. i \in 1..Len(Row)
  BY RowFacts
<1> QED
  BY <1>1, <1>2, RowFacts DEF Strip!StripNext

(* What InsertWebState shows: a tab in the row, selected if it is to be     *)
(* activated, and the notifications of both.                                *)
LEMMA InsertShows ==
  ASSUME ListInv, NEW ws \in WebStates, NEW force \in BOOLEAN,
         NEW activate \in BOOLEAN, NEW inherit \in BOOLEAN, NEW index \in Int,
         NEW passed, InsertWebState(ws, index, force, activate, inherit, passed)
  PROVE  \E at \in 0..count :
           /\ ws \notin Listed /\ at + 1 \in 1..(count + 1)
           /\ Row' = InsertAt(Row, at + 1, ws)
           /\ GetActiveWebState' = IF activate THEN ws ELSE GetActiveWebState
           /\ notified' = <<Inserted(ws, at, GetActiveWebState)>> \o
                (IF activate
                 THEN NotifyIfActiveWebStateChanged(GetActiveWebState, ws, at)
                 ELSE <<>>)
<1> DEFINE s      == web_state_wrappers
           opener == IF inherit THEN GetActiveWebState ELSE passed
           at     == InsertionIndex(force, index, opener)
           e      == [ws |-> ws, opener |-> opener,
                      nav |-> NavigationIndexFromWebState(opener)]
           i      == at + 1
<1>0. TypeOK /\ ActiveIndexValid
  BY ListInvParts
<1>1. /\ Listed \subseteq WebStates
      /\ GetActiveWebState \in Listed \cup {NoWebState}
  BY <1>0, WrapperFacts, ActiveIsListed
<1>2. opener \in Listed \cup {NoWebState} /\ ws \notin Listed
  BY <1>1 DEF InsertWebState
<1>3. at \in 0..count
  BY <1>0, <1>2, InsertionIndexRange DEF InsertWebState
<1>4. e \in Wrapper /\ e.ws = ws
  <2>1. NavigationIndexFromWebState(opener) \in NavIndices
    BY <1>0, <1>1, <1>2 DEF NavigationIndexFromWebState, TypeOK
  <2> QED
    BY <1>1, <1>2, <2>1 DEF Wrapper
<1>5. /\ web_state_wrappers' = InsertAt(s, i, e)
      /\ active_index' = IF activate THEN at ELSE ActiveIndexAfterInsertion(at)
      /\ notified' = <<Inserted(ws, at, GetActiveWebState)>> \o
           (IF activate
            THEN NotifyIfActiveWebStateChanged(GetActiveWebState, ws, at)
            ELSE <<>>)
  BY DEF InsertWebState
<1> HIDE DEF at, e
<1>6. /\ s \in Seq(Wrapper) /\ count = Len(s) /\ count \in Nat
      /\ active_index \in {-1} \cup 0..(Len(s) - 1)
  BY ActiveIndexRange
<1>7. i \in 1..(count + 1) /\ at \in 0..Len(s)
  BY <1>3, <1>6
<1>8. GetActiveWebState' = IF activate THEN ws ELSE GetActiveWebState
  <2>1. /\ ActiveOf(web_state_wrappers', at) = ws
        /\ ActiveOf(web_state_wrappers', IF active_index >= at THEN active_index + 1
                                         ELSE active_index) = ActiveOf(s, active_index)
    BY <1>4, <1>5, <1>6, <1>7, InsertionActive
  <2> QED
    BY <1>5, <2>1, ActiveFacts DEF ActiveIndexAfterInsertion
<1> HIDE DEF i
<1>9. Names(InsertAt(s, i, e)) = InsertAt(Names(s), i, ws)
  BY <1>4, <1>6, <1>7, NamesOfInsertAt
<1>10. Row' = InsertAt(Row, i, ws)
  BY <1>5, <1>9 DEF Row
<1> QED
  BY <1>2, <1>3, <1>5, <1>7, <1>8, <1>10, Zenon DEF i

(* InsertWebState opens a tab.                                             *)
LEMMA InsertIsOpen ==
  ASSUME ListInv, NEW ws \in WebStates, NEW force \in BOOLEAN,
         NEW activate \in BOOLEAN, NEW inherit \in BOOLEAN, NEW index \in Int,
         NEW passed, InsertWebState(ws, index, force, activate, inherit, passed)
  PROVE  Strip!StripNext
<1>1. PICK at \in 0..count :
        /\ ws \notin Listed /\ at + 1 \in 1..(count + 1)
        /\ Row' = InsertAt(Row, at + 1, ws)
        /\ GetActiveWebState' = IF activate THEN ws ELSE GetActiveWebState
  BY InsertShows
<1> QED
  BY <1>1, OpenStep

(* What MoveWebStateAt shows: a tab in another place, or nothing.          *)
LEMMA MoveShows ==
  ASSUME ListInv, NEW from \in 0..(count - 1), NEW to \in 0..(count - 1),
         MoveWebStateAt(from, to)
  PROVE  /\ GetActiveWebState' = GetActiveWebState
         /\ from + 1 \in 1..count /\ to + 1 \in 1..count
         /\ IF from = to THEN Row' = Row /\ notified' = <<>>
            ELSE /\ Row' = InsertAt(RemoveAt(Row, from + 1), to + 1, Row[from + 1])
                 /\ notified' = <<Moved(Row[from + 1], to, GetActiveWebState)>>
<1> DEFINE s == web_state_wrappers
           a == active_index
           b == IF a = from THEN to
                ELSE IF from < a /\ a <= to THEN a - 1
                ELSE IF to <= a /\ a < from THEN a + 1
                ELSE a
           i == from + 1
           j == to + 1
<1>0. /\ a \in {-1} \cup 0..(Len(s) - 1) /\ Len(s) \in Nat /\ s \in Seq(Wrapper)
      /\ from \in 0..(Len(s) - 1) /\ to \in 0..(Len(s) - 1)
      /\ count = Len(s)
  BY ActiveIndexRange
<1>1. CASE from = to
  <2>1. from + 1 \in 1..count /\ to + 1 \in 1..count
    BY <1>0
  <2> QED
    BY <1>1, <2>1 DEF MoveWebStateAt, Row, GetActiveWebState, GetWebStateAt
<1>2. CASE from # to
  <2>1. /\ web_state_wrappers' = InsertAt(RemoveAt(s, i), j, s[i])
        /\ active_index' = ActiveIndexAfterMove(from, to)
    BY <1>2 DEF MoveWebStateAt, WrappersAfterMove
  <2>2. active_index' = b
    <3>1. /\ Min({from, to}) = IF from <= to THEN from ELSE to
          /\ Max({from, to}) = IF from >= to THEN from ELSE to
      <4>1. from \in Int /\ to \in Int
        BY <1>0
      <4> QED
        BY <4>1, MinMaxOfPair
    <3> QED
      BY <1>0, <1>2, <2>1, <3>1 DEF ActiveIndexAfterMove
  <2>3. ActiveOf(web_state_wrappers', b) = ActiveOf(s, a)
    BY <1>0, <1>2, <2>1, MoveActive, SMTT(40)
  <2>4. GetActiveWebState' = GetActiveWebState
    BY <2>2, <2>3, ActiveFacts
  <2>5. i \in 1..count /\ j \in 1..count /\ i \in 1..Len(s) /\ j \in 1..((Len(s) - 1) + 1)
    BY <1>0
  <2> HIDE DEF i, j
  <2> DEFINE r == RemoveAt(s, i)
             e == s[i]
  <2>6. /\ r \in Seq(Wrapper) /\ Len(r) = Len(s) - 1 /\ e \in Wrapper
    BY <1>0, <2>5, RemoveAtProperties, ElementOfSeq
  <2>7. Names(r) = RemoveAt(Names(s), i) /\ e.ws = Names(s)[i]
    BY <1>0, <2>5, NamesOfRemoveAt, NamesType
  <2>8. web_state_wrappers' = InsertAt(r, j, e)
    BY <2>1
  <2> HIDE DEF r, e
  <2>9. Names(InsertAt(r, j, e)) = InsertAt(Names(r), j, e.ws)
    <3>1. j \in 1..(Len(r) + 1)
      BY <2>5, <2>6
    <3> QED
      BY <2>6, <3>1, NamesOfInsertAt
  <2>10. Row' = InsertAt(RemoveAt(Row, i), j, Row[i])
    BY <2>7, <2>8, <2>9 DEF Row
  <2>11. notified' = <<Moved(Row[i], to, GetActiveWebState)>>
    <3>1. notified' = <<Moved(s[i].ws, to, GetActiveWebState)>>
      BY <1>2 DEF MoveWebStateAt, GetWebStateAt, i
    <3> QED
      BY <2>5, <3>1, RowFacts
  <2> QED
    BY <1>2, <2>4, <2>5, <2>10, <2>11 DEF i, j
<1> QED
  BY <1>1, <1>2

(* MoveWebStateAt moves a tab, or does nothing.                            *)
LEMMA MoveIsMove ==
  ASSUME ListInv, NEW from \in 0..(count - 1), NEW to \in 0..(count - 1),
         MoveWebStateAt(from, to)
  PROVE  Strip!StripNext \/ (Row' = Row /\ GetActiveWebState' = GetActiveWebState)
<1>1. CASE from = to
  BY <1>1, MoveShows
<1>2. CASE from # to
  BY <1>2, MoveShows, MoveStep
<1> QED
  BY <1>1, <1>2

(* Row[i] is the selected tab if and only if i - 1 is the active index.    *)
LEMMA ActiveAndRow ==
  ASSUME ListInv, NEW index \in 0..(count - 1)
  PROVE  (GetActiveWebState = Row[index + 1]) <=> (active_index = index)
<1> DEFINE i == index + 1
           j == active_index + 1
<1>0. /\ active_index \in {-1} \cup 0..(count - 1) /\ count \in Nat
      /\ i \in 1..count
  BY ActiveIndexRange
<1>1. Row[i] = web_state_wrappers[i].ws /\ Row[i] \in WebStates
  <2>1. /\ Row \in Seq(WebStates) /\ Len(Row) = count
        /\ \A k \in 1..count : Row[k] = web_state_wrappers[k].ws
    BY RowFacts
  <2> QED
    BY <1>0, <2>1, ElementOfSeq
<1>2. CASE active_index = -1
  BY <1>0, <1>1, <1>2 DEF GetActiveWebState, kInvalidIndex
<1>3. CASE active_index # -1
  <2>1. j \in 1..count /\ (j = i <=> active_index = index)
    BY <1>0, <1>3
  <2>2. GetActiveWebState = web_state_wrappers[j].ws
    BY <1>3 DEF GetActiveWebState, GetWebStateAt, kInvalidIndex
  <2> HIDE DEF i, j
  <2>3. web_state_wrappers[j].ws = web_state_wrappers[i].ws => j = i
    BY <1>0, <2>1 DEF ListInv, NoDuplicates
  <2> QED
    BY <1>1, <2>1, <2>2, <2>3 DEF i
<1> QED
  BY <1>2, <1>3

(* What is left once the i-th tab is removed are other tabs.               *)
LEMMA RemainingTab ==
  ASSUME ListInv, NEW i \in 1..count, NEW k \in 1..(count - 1)
  PROVE  RemoveAt(Row, i)[k] \in Listed \ {Row[i]}
<1> DEFINE m == IF k < i THEN k ELSE k + 1
<1>0. /\ Row \in Seq(WebStates) /\ Len(Row) = count /\ count \in Nat
      /\ \A j \in 1..count : Row[j] = web_state_wrappers[j].ws
  BY RowFacts
<1>1. m \in 1..count /\ m # i
  BY <1>0
<1>2. RemoveAt(Row, i)[k] = Row[m]
  BY <1>0, RemoveAtProperties
<1> HIDE DEF m
<1>3. Row[m] # Row[i]
  BY <1>0, <1>1 DEF ListInv, NoDuplicates
<1>4. Row[m] \in Listed
  BY <1>0, <1>1 DEF Listed
<1> QED
  BY <1>2, <1>3, <1>4

(* What ReplaceWebStateAt shows: a tab in the place of another.            *)
LEMMA ReplaceShows ==
  ASSUME ListInv, NEW index \in 0..(count - 1), NEW ws \in WebStates,
         ReplaceWebStateAt(index, ws)
  PROVE  /\ ws \notin Listed /\ index + 1 \in 1..count
         /\ Row' = [Row EXCEPT ![index + 1] = ws]
         /\ GetActiveWebState' =
              IF GetActiveWebState = Row[index + 1] THEN ws ELSE GetActiveWebState
         /\ notified' =
              <<Replaced(Row[index + 1], ws, index, GetActiveWebState')>> \o
              NotifyIfActiveWebStateChanged(Row[index + 1], GetActiveWebState',
                                            active_index)
<1> DEFINE s == web_state_wrappers
           a == active_index
           i == index + 1
<1>0. /\ a \in {-1} \cup 0..(Len(s) - 1) /\ Len(s) \in Nat /\ WellFormed(s)
      /\ index \in 0..(Len(s) - 1) /\ count = Len(s)
  BY ActiveIndexRange
<1>1. /\ web_state_wrappers' =
           [Cleared(s, i) EXCEPT
              ![i] = [ws |-> ws, opener |-> NoWebState, nav |-> -1]]
      /\ active_index' = a
      /\ ws \notin Listed
  BY DEF ReplaceWebStateAt, ClearOpenersReferencing, Cleared, GetWebStateAt, count
<1>2. ActiveOf(web_state_wrappers', a) = IF a = index THEN ws ELSE ActiveOf(s, a)
  BY <1>0, <1>1, ReplacementActive
<1>3. i \in 1..count /\ i \in 1..Len(s)
  BY <1>0
<1>4. (GetActiveWebState = Row[i]) <=> (a = index)
  BY <1>0, ActiveAndRow
<1>5. GetActiveWebState' = IF GetActiveWebState = Row[i] THEN ws ELSE GetActiveWebState
  BY <1>1, <1>2, <1>4, ActiveFacts
<1> HIDE DEF i
<1>6. Row' = [Row EXCEPT ![i] = ws]
  BY <1>0, <1>1, <1>3, NamesOfCall DEF Row
<1>7. s[i].ws = Row[i]
  BY <1>3, RowFacts
<1>8. notified' = <<Replaced(Row[i], ws, index, GetActiveWebState')>> \o
        NotifyIfActiveWebStateChanged(Row[i], GetActiveWebState', active_index)
  <2>1. notified' =
          LET new_active == IF a = index THEN ws ELSE GetActiveWebState
          IN  <<Replaced(s[i].ws, ws, index, new_active)>> \o
              NotifyIfActiveWebStateChanged(s[i].ws, new_active, active_index)
    BY Zenon DEF ReplaceWebStateAt, GetWebStateAt, i
  <2>2. GetActiveWebState' = IF a = index THEN ws ELSE GetActiveWebState
    BY <1>4, <1>5
  <2> QED
    BY <1>7, <2>1, <2>2, Zenon
<1> QED
  BY <1>1, <1>3, <1>5, <1>6, <1>8, Zenon DEF i

(* ReplaceWebStateAt puts a tab in the place of another.                   *)
LEMMA ReplaceIsReplace ==
  ASSUME ListInv, NEW index \in 0..(count - 1), NEW ws \in WebStates,
         ReplaceWebStateAt(index, ws)
  PROVE  Strip!StripNext
  BY ReplaceShows, ReplaceStep

(* What CloseWebStateAt shows: a tab is gone.                              *)
LEMMA CloseShows ==
  ASSUME ListInv, NEW index \in 0..(count - 1), CloseWebStateAt(index)
  PROVE  /\ index + 1 \in 1..count
         /\ Row' = RemoveAt(Row, index + 1)
         /\ notified' = <<Detached(Row[index + 1], index, GetActiveWebState')>> \o
              (IF active_index = index
               THEN NotifyIfActiveWebStateChanged(Row[index + 1], GetActiveWebState',
                                                  active_index')
               ELSE <<>>)
<1> DEFINE s == web_state_wrappers
           i == index + 1
<1>0. /\ Len(s) \in Nat /\ WellFormed(s) /\ count = Len(s)
      /\ i \in 1..count /\ i \in 1..Len(s)
  BY ActiveIndexRange
<1>1. web_state_wrappers' = RemoveAt(Cleared(s, i), i)
  BY DEF CloseWebStateAt, DetachWebStateAt, ClearOpenersReferencing, Cleared,
         GetWebStateAt, count
<1>2. notified' = <<Detached(s[i].ws, index, GetActiveWebState')>> \o
        (IF active_index = index
         THEN NotifyIfActiveWebStateChanged(s[i].ws, GetActiveWebState', active_index')
         ELSE <<>>)
  BY Zenon DEF CloseWebStateAt, DetachWebStateAt, GetWebStateAt
<1> HIDE DEF i
<1>3. s[i].ws = Row[i] /\ s[i].ws \in WebStates
  BY <1>0, RowFacts, WellFormedElements
<1>4. Row' = RemoveAt(Row, i)
  BY <1>0, <1>1, <1>3, NamesOfCall DEF Row
<1> QED
  BY <1>0, <1>2, <1>3, <1>4, Zenon DEF i

(* CloseWebStateAt closes a tab; if it was selected, one of the others is.  *)
LEMMA CloseIsClose ==
  ASSUME ListInv, NEW index \in 0..(count - 1), CloseWebStateAt(index), UNCHANGED call
  PROVE  Strip!StripNext
<1> DEFINE s == web_state_wrappers
           a == active_index
           i == index + 1
<1>0. /\ a \in {-1} \cup 0..(Len(s) - 1) /\ Len(s) \in Nat /\ WellFormed(s)
      /\ index \in 0..(Len(s) - 1) /\ count = Len(s)
  BY ActiveIndexRange
<1>1. /\ web_state_wrappers' = RemoveAt(Cleared(s, i), i)
      /\ active_index' = ActiveIndexAfterDetach(index)
  BY DEF CloseWebStateAt, DetachWebStateAt, ClearOpenersReferencing, Cleared,
         GetWebStateAt, count
<1>2. i \in 1..count /\ i \in 1..Len(s) /\ count > 0
  BY <1>0
<1>3. count' = count - 1
  BY <1>0, <1>1, <1>2, RemovalWellFormed, ListInvParts
<1>4. (GetActiveWebState = Row[i]) <=> (a = index)
  BY <1>0, ActiveAndRow
<1>5. Row' = RemoveAt(Row, i)
  BY CloseShows
<1> HIDE DEF i
<1>6. ListInv' /\ KeepsSelection
  BY CloseKeepsListInv, CloseSelection
<1>7. active_index' = -1 \/ active_index' \in 0..(count - 2)
  BY <1>0, <1>3, <1>6
  DEF ListInv, ActiveIndexValid, ContainsIndex, TypeOK, kInvalidIndex
<1>8. CASE a = index
  <2>1. CASE count = 1
    <3>1. active_index' = -1
      BY <1>7, <2>1
    <3>2. GetActiveWebState' = NoWebState
      BY <3>1 DEF GetActiveWebState, kInvalidIndex
    <3> QED
      BY <1>2, <1>4, <1>5, <1>8, <2>1, <3>2, CloseStep
  <2>2. CASE count # 1
    <3> DEFINE k == active_index' + 1
    <3>1. active_index' # -1
      BY <1>0, <1>2, <1>3, <1>6, <1>8, <2>2 DEF KeepsSelection, kInvalidIndex
    <3>2. k \in 1..(count - 1)
      BY <1>0, <1>7, <3>1
    <3>3. GetActiveWebState' = web_state_wrappers'[k].ws
      BY <3>1 DEF GetActiveWebState, GetWebStateAt, kInvalidIndex
    <3> HIDE DEF k
    <3>4. web_state_wrappers'[k].ws = Row'[k]
      BY <1>3, <3>2, RowFacts
    <3>5. GetActiveWebState' \in Listed \ {Row[i]}
      BY <1>2, <1>5, <3>2, <3>3, <3>4, RemainingTab
    <3> QED
      BY <1>2, <1>4, <1>5, <1>8, <2>2, <3>5, CloseStep
  <2> QED
    BY <2>1, <2>2
<1>9. CASE a # index
  <2>1. active_index' = IF a > index THEN a - 1 ELSE a
    BY <1>0, <1>1, <1>9 DEF ActiveIndexAfterDetach
  <2>2. ActiveOf(web_state_wrappers', IF a > index THEN a - 1 ELSE a) = ActiveOf(s, a)
    BY <1>0, <1>1, <1>9, RemovalActive DEF i
  <2>3. GetActiveWebState' = GetActiveWebState
    BY <2>1, <2>2, ActiveFacts
  <2> QED
    BY <1>2, <1>4, <1>5, <1>9, <2>3, CloseStep
<1> QED
  BY <1>8, <1>9

(* SetOpenerOfWebStateAt changes nothing that shows.                       *)
LEMMA SetOpenerShowsNothing ==
  ASSUME ListInv, NEW index \in 0..(count - 1), NEW n, NEW opener,
         SetOpenerOfWebStateAt(index, opener, n)
  PROVE  Row' = Row /\ GetActiveWebState' = GetActiveWebState
<1> DEFINE s == web_state_wrappers
           i == index + 1
           e == [s[i] EXCEPT !.opener = opener, !.nav = n]
           t == [s EXCEPT ![i] = e]
<1>0. /\ Len(s) \in Nat /\ s \in Seq(Wrapper) /\ i \in 1..Len(s)
      /\ active_index \in {-1} \cup 0..(Len(s) - 1)
  BY ActiveIndexRange
<1>1. s[i] \in Wrapper /\ DOMAIN s = 1..Len(s)
  BY <1>0, ElementOfSeq, LenProperties
<1>2. web_state_wrappers' = t /\ active_index' = active_index
  BY <1>0, <1>1 DEF SetOpenerOfWebStateAt
<1>3. e.ws = s[i].ws
  BY <1>1 DEF Wrapper
<1> HIDE DEF e, i
<1>4. DOMAIN t = 1..Len(s) /\ \A k \in 1..Len(s) : t[k].ws = s[k].ws
  BY <1>1, <1>3
<1>5. Len(t) = Len(s)
  BY <1>0, <1>4
<1> HIDE DEF t
<1>6. Names(t) = Names(s)
  BY <1>4, <1>5 DEF Names
<1>7. active_index # -1 => active_index + 1 \in 1..Len(s)
  BY <1>0
<1>8. ActiveOf(t, active_index) = ActiveOf(s, active_index)
  BY <1>4, <1>7 DEF ActiveOf, kInvalidIndex
<1> QED
  BY <1>2, <1>6, <1>8, ActiveFacts DEF Row

(* Every step of the list is a step of TabStrip, or does not show.         *)
LEMMA StripStep ==
  ASSUME ListInv, [ListNext]_listVars
  PROVE  Strip!StripNext \/ (Row' = Row /\ GetActiveWebState' = GetActiveWebState)
<1> DEFINE Hidden == Row' = Row /\ GetActiveWebState' = GetActiveWebState
<1>0. TypeOK /\ count \in Nat
  BY WrapperFacts DEF ListInv
<1>1. CASE Insert
  <2>1. PICK ws \in WebStates, force \in BOOLEAN, activate \in BOOLEAN,
             inherit \in BOOLEAN, opener \in Listed \cup {NoWebState} :
          \E index \in IF force THEN 0..count ELSE {kInvalidIndex} :
            InsertWebState(ws, index, force, activate, inherit, opener)
    BY <1>1 DEF Insert
  <2>2. PICK index \in IF force THEN 0..count ELSE {kInvalidIndex} :
          InsertWebState(ws, index, force, activate, inherit, opener)
    BY <2>1
  <2>3. index \in Int
    BY <1>0 DEF kInvalidIndex
  <2> QED
    BY <2>2, <2>3, InsertIsOpen
<1>2. ASSUME NEW from \in Indices, NEW to \in Indices, MoveWebStateAt(from, to)
      PROVE  Strip!StripNext \/ Hidden
  BY <1>2, MoveIsMove DEF Indices
<1>3. ASSUME NEW index \in Indices, NEW ws \in WebStates, ReplaceWebStateAt(index, ws)
      PROVE  Strip!StripNext
  BY <1>3, ReplaceIsReplace DEF Indices
<1>4. ASSUME NEW index \in Indices, CloseWebStateAt(index), UNCHANGED call
      PROVE  Strip!StripNext
  BY <1>4, CloseIsClose DEF Indices
<1>5. ASSUME NEW index \in Indices, ActivateWebStateAt(index)
      PROVE  Strip!StripNext
  <2>1. index \in 0..(count - 1) /\ index + 1 \in 1..count /\ index # -1
    BY <1>0 DEF Indices
  <2>2. web_state_wrappers' = web_state_wrappers /\ active_index' = index
    BY <1>5 DEF ActivateWebStateAt
  <2>3. Row' = Row
    BY <2>2 DEF Row
  <2>4. GetActiveWebState' = web_state_wrappers[index + 1].ws
    BY <2>1, <2>2 DEF GetActiveWebState, GetWebStateAt, kInvalidIndex
  <2>5. Row[index + 1] = web_state_wrappers[index + 1].ws
    BY <2>1, RowFacts
  <2> QED
    BY <2>1, <2>3, <2>4, <2>5, SelectStep
<1>6. ASSUME NEW index \in Indices, NEW n \in NavIndices, NEW opener \in Listed,
             SetOpenerOfWebStateAt(index, opener, n)
      PROVE  Hidden
  BY <1>6, SetOpenerShowsNothing DEF Indices
<1>7. ASSUME UNCHANGED <<web_state_wrappers, active_index>>
      PROVE  Hidden
  BY <1>7, ActiveFacts DEF Row, ActiveOf
<1>8. CASE CloseAllWebStates \/ UNCHANGED listVars
           \/ \E ws \in WebStates, n \in NavIndices : CommitNavigation(ws, n)
  BY <1>7, <1>8 DEF CloseAllWebStates, listVars, CommitNavigation
<1>9. CASE CloseLastWebState
  <2>1. CASE count > 0
    <3>1. count - 1 \in Indices
      BY <1>0, <2>1 DEF Indices
    <3> QED
      BY <1>4, <1>9, <2>1, <3>1 DEF CloseLastWebState
  <2>2. CASE ~(count > 0)
    BY <1>7, <1>9, <2>2 DEF CloseLastWebState
  <2> QED
    BY <2>1, <2>2
<1> QED
  BY <1>1, <1>2, <1>3, <1>4, <1>5, <1>6, <1>8, <1>9 DEF ListNext

(* WebStateList implements TabStrip, for any number of tabs: openers,       *)
(* indices and the order controller's choice are details that never show as *)
(* anything but one tab opened, closed, moved, replaced or selected.        *)
THEOREM ListImplementsTabStrip == ListSpec => ImplementsTabStrip
<1>1. Init => Strip!StripInit
  <2> SUFFICES ASSUME Init PROVE Strip!StripInit
    OBVIOUS
  <2>1. count = 0 /\ GetActiveWebState = NoWebState
    BY DEF Init, count, GetActiveWebState
  <2>2. [k \in 1..count |-> web_state_wrappers[k].ws] = <<>>
    BY <2>1
  <2> QED
    BY <2>1, <2>2 DEF Strip!StripInit
<1>2. ListInv /\ [ListNext]_listVars =>
        [Strip!StripNext]_<<[k \in 1..count |-> web_state_wrappers[k].ws],
                            GetActiveWebState>>
  BY StripStep, RowFacts
<1> QED
  BY <1>1, <1>2, ListInvariance, PTL DEF ListSpec, ImplementsTabStrip, Strip!StripSpec

-----------------------------------------------------------------------------
(* The grid on top of the list.                                            *)

USE MaxTabsAssumption

(* The inductive invariant.                                                *)
GridIndInv ==
  /\ ListInv
  /\ SavedWindowIsSound
  /\ RestoreStaysInBounds

-----------------------------------------------------------------------------
(* What is saved when all tabs are closed is a sound window: every tab has  *)
(* its opener elsewhere in the list, or none.                               *)
LEMMA SerializedWindowIsSound ==
  ASSUME ListInv
  PROVE  /\ SerializeWebStateList \in Window
         /\ \A k \in DOMAIN SerializeWebStateList.sessions :
              SerializeWebStateList.sessions[k].opener_index # k - 1
<1> DEFINE s == web_state_wrappers
           f == [k \in 1..count |->
                  [id |-> s[k].ws, opener_index |-> GetIndexOfWebState(s[k].opener),
                   opener_nav |-> s[k].nav]]
<1>0. /\ TypeOK /\ count \in Nat /\ active_index \in Int
      /\ \A k \in 1..count : s[k] \in Wrapper
  BY WrapperFacts DEF ListInv, TypeOK
<1>1. ASSUME NEW k \in 1..count
      PROVE  /\ GetIndexOfWebState(s[k].opener) \in Int
             /\ GetIndexOfWebState(s[k].opener) # k - 1
  <2>1. k - 1 \in 0..(count - 1) /\ (k - 1) + 1 = k /\ k - 1 # -1
    BY <1>0
  <2>2. CASE s[k].opener \in Listed
    <3> DEFINE i == GetIndexOfWebState(s[k].opener)
    <3>1. i \in 0..(count - 1) /\ GetWebStateAt(i) = s[k].opener
      BY <1>0, <2>2, IndexOfListed
    <3> HIDE DEF i
    <3>2. i = k - 1 => s[k].ws = s[k].opener
      BY <2>1, <3>1 DEF GetWebStateAt
    <3>3. s[k].opener # s[k].ws
      BY DEF ListInv, NoSelfOpener
    <3> QED
      BY <1>0, <3>1, <3>2, <3>3 DEF i
  <2>3. CASE s[k].opener \notin Listed
    BY <2>1, <2>3 DEF GetIndexOfWebState, kInvalidIndex
  <2> QED
    BY <2>2, <2>3
<1>2. \A k \in 1..count : f[k] \in Session /\ f[k].opener_index # k - 1
  BY <1>0, <1>1 DEF Session, Wrapper
<1>3. SerializeWebStateList = [sessions |-> f, selected |-> active_index]
  BY DEF SerializeWebStateList
<1>4. DOMAIN f = 1..count
  OBVIOUS
<1> HIDE DEF f
<1>5. f \in Seq(Session)
  <2>1. f = [k \in 1..count |-> f[k]]
    BY DEF f
  <2> QED
    BY <1>0, <1>2, <2>1
<1> QED
  BY <1>0, <1>2, <1>3, <1>4, <1>5 DEF Window

(* The fields of a saved window, and of one session in it.                 *)
LEMMA SessionFacts ==
  ASSUME SavedWindowIsSound, closedSessionWindow # NoWindow
  PROVE  /\ Len(closedSessionWindow.sessions) \in Nat
         /\ closedSessionWindow.selected \in Int
         /\ \A k \in 1..Len(closedSessionWindow.sessions) :
              /\ closedSessionWindow.sessions[k].id \in WebStates
              /\ closedSessionWindow.sessions[k].opener_index \in Int
              /\ closedSessionWindow.sessions[k].opener_nav \in NavIndices
              /\ closedSessionWindow.sessions[k].opener_index # k - 1
<1> DEFINE s == closedSessionWindow.sessions
<1>1. s \in Seq(Session) /\ closedSessionWindow.selected \in Int
  BY DEF SavedWindowIsSound, Window
<1>2. \A k \in DOMAIN s : s[k].opener_index # k - 1
  BY DEF SavedWindowIsSound
<1> HIDE DEF s
<1>3. Len(s) \in Nat /\ DOMAIN s = 1..Len(s) /\ \A k \in 1..Len(s) : s[k] \in Session
  BY <1>1, LenProperties, ElementOfSeq
<1>4. \A k \in 1..Len(s) : /\ s[k].id \in WebStates /\ s[k].opener_index \in Int
                           /\ s[k].opener_nav \in NavIndices
                           /\ s[k].opener_index # k - 1
  BY <1>2, <1>3 DEF Session
<1> QED
  BY <1>1, <1>3, <1>4 DEF s

(* A restored tab is appended: the list grows by one.                      *)
LEMMA AppendGrowsList ==
  ASSUME ListInv, NEW ws \in WebStates,
         InsertWebState(ws, count, TRUE, FALSE, FALSE, NoWebState)
  PROVE  count' = count + 1
<1> DEFINE e == [ws |-> ws, opener |-> NoWebState,
                 nav |-> NavigationIndexFromWebState(NoWebState)]
           i == count + 1
<1>0. count \in Nat /\ web_state_wrappers \in Seq(Wrapper) /\ count = Len(web_state_wrappers)
  BY ActiveIndexRange
<1>1. e \in Wrapper
  BY NavIndicesAssumption DEF Wrapper, NavigationIndexFromWebState
<1>2. web_state_wrappers' = InsertAt(web_state_wrappers, i, e)
  BY DEF InsertWebState, InsertionIndex
<1>3. i \in 1..(Len(web_state_wrappers) + 1)
  BY <1>0
<1> HIDE DEF e, i
<1>4. Len(web_state_wrappers') = Len(web_state_wrappers) + 1
  BY <1>0, <1>1, <1>2, <1>3, InsertAtProperties
<1> QED
  BY <1>0, <1>4 DEF count

-----------------------------------------------------------------------------
(* Every action of the grid is a call of the list, or leaves it alone.     *)

(* A command of the grid.                                                  *)
LEMMA ListCallIsListStep ==
  ASSUME GridIndInv, ListCall
  PROVE  ListNext
<1>0. /\ call = "none" /\ UNCHANGED call
      /\ TypeOK /\ Listed \subseteq WebStates /\ FreshTabs \subseteq WebStates
      /\ count \in Nat
  BY WrapperFacts DEF ListCall, Idle, GridIndInv, ListInv, FreshTabs
<1>1. ASSUME NEW id \in Listed PROVE GetIndexOfWebState(id) \in Indices
  BY <1>0, <1>1, IndexOfListed DEF Indices
<1>2. CASE count < MaxTabs /\ OpenTab
  <2>1. PICK ws \in FreshTabs, activate \in BOOLEAN, inherit \in BOOLEAN,
             opener \in Listed \cup {NoWebState} :
          InsertWebState(ws, kInvalidIndex, FALSE, activate, inherit, opener)
    BY <1>2 DEF OpenTab
  <2>2. Insert
    BY <1>0, <2>1 DEF Insert
  <2> QED
    BY <1>0, <1>2, <2>2 DEF ListNext
<1>3. CASE count < MaxTabs
           /\ \E ws \in FreshTabs, index \in 0..count : insertNewItemAtIndex(ws, index)
  <2>1. PICK ws \in FreshTabs, index \in 0..count :
          InsertWebState(ws, index, TRUE, TRUE, FALSE, NoWebState)
    BY <1>3 DEF insertNewItemAtIndex
  <2>2. Insert
    BY <1>0, <2>1 DEF Insert
  <2> QED
    BY <1>0, <1>3, <2>2 DEF ListNext
<1>4. CASE \E id \in Listed, to \in Indices : moveItemWithID(id, to)
  BY <1>0, <1>1, <1>4 DEF moveItemWithID, ListNext
<1>5. CASE \E id \in Listed : selectItemWithID(id)
  BY <1>0, <1>1, <1>5 DEF selectItemWithID, ListNext
<1>6. CASE \E id \in Listed : closeItemWithID(id)
  BY <1>0, <1>1, <1>6 DEF closeItemWithID, ListNext
<1>7. CASE \E ws \in FreshTabs, index \in Indices : ReplaceWebStateAt(index, ws)
  BY <1>0, <1>7 DEF ListNext
<1>8. CASE \E ws \in Listed, n \in NavIndices : CommitNavigation(ws, n)
  BY <1>0, <1>8 DEF ListNext
<1> QED
  BY <1>2, <1>3, <1>4, <1>5, <1>6, <1>7, <1>8 DEF ListCall

(* The first loop of a restore inserts a tab, and there is room for it.    *)
LEMMA AppendIsListStep ==
  ASSUME GridIndInv, AppendRestoredWebState
  PROVE  [ListNext]_listVars /\ (SavedWindowIsSound /\ RestoreStaysInBounds)'
<1> DEFINE k == count - restore.old_count
           n == Len(closedSessionWindow.sessions)
<1>0. /\ ListInv /\ SavedWindowIsSound /\ RestoreStaysInBounds
      /\ restore.loop = "append" /\ closedSessionWindow # NoWindow
      /\ call = "none" /\ count \in Nat
      /\ closedSessionWindow' = closedSessionWindow
  BY ActiveIndexRange DEF GridIndInv, AppendRestoredWebState, RestoreStaysInBounds
<1>1. /\ restore \in [loop : {"none", "append", "openers"}, old_count : Nat, index : Nat]
      /\ restore.old_count + n <= MaxTabs
      /\ restore.index \in restore.old_count..count
      /\ count <= restore.old_count + n
      /\ n \in Nat
  BY <1>0, SessionFacts DEF RestoreStaysInBounds
<1>2. SavedWindowIsSound'
  BY <1>0 DEF SavedWindowIsSound
<1>3. CASE k < n
  <2> DEFINE ws == closedSessionWindow.sessions[k + 1].id
  <2>1. k \in 0..(n - 1) /\ k + 1 \in 1..n
    BY <1>0, <1>1, <1>3
  <2>2. ws \in WebStates
    BY <1>0, <2>1, SessionFacts
  <2>3. InsertWebState(ws, count, TRUE, FALSE, FALSE, NoWebState)
        /\ call' = call /\ restore' = restore
    BY <1>3 DEF AppendRestoredWebState
  <2> HIDE DEF ws
  <2>4. count' = count + 1
    BY <1>0, <2>2, <2>3, AppendGrowsList
  <2>5. Insert
    <3>1. count \in 0..count
      BY <1>0
    <3> QED
      BY <2>2, <2>3, <3>1 DEF Insert
  <2>6. count < MaxTabs /\ count + 1 <= restore.old_count + n
    BY <1>0, <1>1, <1>3
  <2>7. ListNext
    BY <1>0, <2>3, <2>5, <2>6 DEF ListNext
  <2>8. RestoreStaysInBounds'
    <3>1. restore.index \in restore.old_count..(count + 1)
      BY <1>0, <1>1
    <3> QED
      BY <1>0, <1>1, <2>3, <2>4, <2>6, <3>1 DEF RestoreStaysInBounds
  <2> QED
    BY <1>2, <2>7, <2>8
<1>4. CASE ~(k < n)
  <2>1. /\ restore' = [restore EXCEPT !.loop = "openers"]
        /\ UNCHANGED listVars
    BY <1>4 DEF AppendRestoredWebState, listAndGrid
  <2>2. count' = count /\ call' = call
    BY <2>1 DEF listVars, count
  <2>3. count = restore.old_count + n
    BY <1>0, <1>1, <1>4
  <2>4. /\ restore' \in [loop : {"none", "append", "openers"}, old_count : Nat, index : Nat]
        /\ restore'.loop = "openers" /\ restore'.old_count = restore.old_count
        /\ restore'.index = restore.index
    BY <1>1, <2>1
  <2>5. RestoreStaysInBounds'
    BY <1>0, <1>1, <2>2, <2>3, <2>4 DEF RestoreStaysInBounds
  <2> QED
    BY <1>2, <2>1, <2>5
<1> QED
  BY <1>3, <1>4

(* The second loop records an opener that is another tab of the list.      *)
LEMMA RestoreOpenerIsListStep ==
  ASSUME GridIndInv, RestoreOpener
  PROVE  [ListNext]_listVars /\ (SavedWindowIsSound /\ RestoreStaysInBounds)'
<1> DEFINE k == restore.index - restore.old_count + 1
           s == closedSessionWindow.sessions[k]
           opener_index == s.opener_index + restore.old_count
           n == Len(closedSessionWindow.sessions)
<1>0. /\ ListInv /\ SavedWindowIsSound /\ RestoreStaysInBounds
      /\ restore.loop = "openers" /\ closedSessionWindow # NoWindow
      /\ call = "none" /\ count \in Nat
      /\ restore.index < count
      /\ restore' = [restore EXCEPT !.index = @ + 1]
      /\ closedSessionWindow' = closedSessionWindow
  BY ActiveIndexRange DEF GridIndInv, RestoreOpener, RestoreStaysInBounds
<1>1. /\ restore \in [loop : {"none", "append", "openers"}, old_count : Nat, index : Nat]
      /\ restore.old_count + n <= MaxTabs
      /\ restore.index \in restore.old_count..count
      /\ count = restore.old_count + n
      /\ n \in Nat
  BY <1>0, SessionFacts DEF RestoreStaysInBounds
<1>2. SavedWindowIsSound'
  BY <1>0 DEF SavedWindowIsSound
<1>3. /\ k \in 1..n /\ restore.index \in Indices
  BY <1>0, <1>1 DEF Indices
<1>4. /\ s.opener_index \in Int /\ s.opener_index # k - 1 /\ s.opener_nav \in NavIndices
  BY <1>0, <1>3, SessionFacts
<1>5. /\ restore' \in [loop : {"none", "append", "openers"}, old_count : Nat, index : Nat]
      /\ restore'.loop = "openers" /\ restore'.old_count = restore.old_count
      /\ restore'.index = restore.index + 1
  BY <1>0, <1>1
<1>6. ASSUME count' = count, call' = call
      PROVE  RestoreStaysInBounds'
  <2>1. restore.index + 1 \in restore.old_count..count
    BY <1>0, <1>1
  <2> QED
    BY <1>0, <1>1, <1>5, <1>6, <2>1 DEF RestoreStaysInBounds
<1>7. CASE /\ s.opener_index # kInvalidIndex
           /\ opener_index \in restore.old_count..(count - 1)
  <2>1. SetOpenerOfWebStateAt(restore.index, GetWebStateAt(opener_index), s.opener_nav)
        /\ call' = call
    BY <1>7 DEF RestoreOpener, RestoredOpenerIndex
  <2>2. opener_index \in Indices /\ opener_index # restore.index
    <3> DEFINE i == s.opener_index
    <3>1. i \in Int /\ i # restore.index - restore.old_count
      BY <1>0, <1>1, <1>4
    <3>2. restore.old_count <= i + restore.old_count /\ i + restore.old_count <= count - 1
      BY <1>7
    <3> HIDE DEF i
    <3>3. /\ i + restore.old_count \in 0..(count - 1)
          /\ i + restore.old_count # restore.index
      <4>1. restore.old_count \in Nat /\ restore.index \in Nat /\ count \in Nat
        BY <1>0, <1>1
      <4> QED
        BY <3>1, <3>2, <4>1
    <3> QED
      BY <3>3 DEF Indices, i
  <2> HIDE DEF opener_index, s, k
  <2>3. GetWebStateAt(opener_index) \in Listed \ {GetWebStateAt(restore.index)}
    <3>1. opener_index + 1 \in 1..count /\ restore.index + 1 \in 1..count
      BY <1>0, <1>3, <2>2 DEF Indices
    <3>2. opener_index + 1 # restore.index + 1
      BY <1>1, <1>3, <2>2 DEF Indices
    <3> QED
      BY <1>0, <3>1, <3>2 DEF GetWebStateAt, Listed, ListInv, NoDuplicates
  <2>4. ListNext
    BY <1>0, <1>3, <1>4, <2>1, <2>3 DEF ListNext
  <2>5. count' = count
    <3>1. restore.index + 1 \in 1..Len(web_state_wrappers)
      BY <1>0, <1>3 DEF Indices, count
    <3>2. Len(web_state_wrappers') = Len(web_state_wrappers)
      BY <2>1, ActiveIndexRange, <1>0 DEF SetOpenerOfWebStateAt
    <3> QED
      BY <3>2 DEF count
  <2> QED
    BY <1>2, <1>6, <2>1, <2>4, <2>5
<1>8. CASE ~(/\ s.opener_index # kInvalidIndex
             /\ opener_index \in restore.old_count..(count - 1))
  <2>1. UNCHANGED listVars
    BY <1>8 DEF RestoreOpener, RestoredOpenerIndex, listAndGrid
  <2>2. count' = count /\ call' = call
    BY <2>1 DEF listVars, count
  <2> QED
    BY <1>2, <1>6, <2>1, <2>2
<1> QED
  BY <1>7, <1>8

(* Activating the saved selection ends the restore.                        *)
LEMMA FinishUndoIsListStep ==
  ASSUME GridIndInv, FinishUndo
  PROVE  [ListNext]_listVars /\ (SavedWindowIsSound /\ RestoreStaysInBounds)'
<1> DEFINE index == restore.old_count + closedSessionWindow.selected
<1>0. /\ ListInv /\ SavedWindowIsSound /\ call = "none" /\ count \in Nat
      /\ restore.old_count \in Nat /\ closedSessionWindow # NoWindow
      /\ closedSessionWindow' = NoWindow
      /\ restore' = NotRestoring
  BY ActiveIndexRange DEF GridIndInv, FinishUndo, RestoreStaysInBounds
<1>1. SavedWindowIsSound' /\ RestoreStaysInBounds'
  BY <1>0 DEF SavedWindowIsSound, RestoreStaysInBounds, NotRestoring
<1>2. CASE closedSessionWindow.selected # kInvalidIndex
  <2>1. ActivateWebStateAt(index) /\ UNCHANGED call
    BY <1>2 DEF FinishUndo
  <2>2. index \in Int
    BY <1>0, SessionFacts
  <2>3. index \in Indices
    BY <1>0, <2>1, <2>2 DEF ActivateWebStateAt, ContainsIndex, Indices
  <2> QED
    BY <1>0, <1>1, <2>1, <2>3 DEF ListNext
<1>3. CASE closedSessionWindow.selected = kInvalidIndex
  BY <1>1, <1>3 DEF FinishUndo, listAndGrid
<1> QED
  BY <1>2, <1>3

-----------------------------------------------------------------------------
(* Every step of the grid is a step of the list, and keeps GridIndInv.     *)
LEMMA GridStep ==
  ASSUME GridIndInv, [GridNext]_vars
  PROVE  [ListNext]_listVars /\ GridIndInv'
<1>0. ListInv /\ SavedWindowIsSound /\ RestoreStaysInBounds
  BY DEF GridIndInv
<1> SUFFICES [ListNext]_listVars /\ (SavedWindowIsSound /\ RestoreStaysInBounds)'
  BY <1>0, ListInvNext DEF GridIndInv
<1>1. CASE ListCall
  <2>1. /\ restore.loop = "none" /\ restore' = restore
        /\ closedSessionWindow' = closedSessionWindow
    BY <1>1 DEF ListCall, Idle
  <2> QED
    BY <1>0, <1>1, <2>1, ListCallIsListStep DEF SavedWindowIsSound, RestoreStaysInBounds
<1>2. CASE CloseNext
  <2>1. /\ restore.loop = "none" /\ restore' = restore /\ CloseLastWebState
        /\ closedSessionWindow' = closedSessionWindow
    BY <1>0, <1>2 DEF CloseNext, CloseLastWebState, RestoreStaysInBounds
  <2> QED
    BY <1>0, <2>1 DEF SavedWindowIsSound, RestoreStaysInBounds, ListNext
<1>3. CASE closeAllItems
  <2>1. /\ restore.loop = "none" /\ restore' = restore /\ CloseAllWebStates
        /\ closedSessionWindow' = closedSessionWindow
    BY <1>3 DEF closeAllItems, Idle
  <2> QED
    BY <1>0, <2>1 DEF SavedWindowIsSound, RestoreStaysInBounds, ListNext
<1>4. CASE saveAndCloseAllItems
  <2>1. /\ restore.loop = "none" /\ restore' = restore /\ CloseAllWebStates
        /\ closedSessionWindow' = SerializeWebStateList
    BY <1>4 DEF saveAndCloseAllItems, Idle
  <2>2. SavedWindowIsSound'
    BY <1>0, <2>1, SerializedWindowIsSound DEF SavedWindowIsSound
  <2> QED
    BY <1>0, <2>1, <2>2 DEF RestoreStaysInBounds, ListNext
<1>5. CASE undoCloseAllItems
  <2>1. /\ call = "none" /\ closedSessionWindow # NoWindow /\ UNCHANGED listVars
        /\ count + Len(closedSessionWindow.sessions) <= MaxTabs
        /\ restore' = [loop |-> "append", old_count |-> count, index |-> count]
        /\ closedSessionWindow' = closedSessionWindow
    BY <1>5 DEF undoCloseAllItems, Idle, listAndGrid
  <2>2. count \in Nat /\ count' = count /\ call' = call
    BY <1>0, <2>1, ActiveIndexRange DEF listVars, count
  <2>3. Len(closedSessionWindow.sessions) \in Nat
    BY <1>0, <2>1, SessionFacts
  <2>4. RestoreStaysInBounds'
    BY <2>1, <2>2, <2>3 DEF RestoreStaysInBounds
  <2> QED
    BY <1>0, <2>1, <2>4 DEF SavedWindowIsSound
<1>6. CASE discardSavedClosedItems
  <2>1. /\ restore.loop = "none" /\ restore' = restore /\ UNCHANGED listVars
        /\ closedSessionWindow' = NoWindow
    BY <1>6 DEF discardSavedClosedItems, Idle
  <2> QED
    BY <1>0, <2>1 DEF SavedWindowIsSound, RestoreStaysInBounds
<1>7. CASE AppendRestoredWebState
  BY <1>7, AppendIsListStep
<1>8. CASE RestoreOpener
  BY <1>8, RestoreOpenerIsListStep
<1>9. CASE FinishUndo
  BY <1>9, FinishUndoIsListStep
<1>10. CASE UNCHANGED vars
  <2>1. UNCHANGED listVars /\ UNCHANGED gridVars
    BY <1>10 DEF vars
  <2> QED
    BY <1>0, <2>1
    DEF listVars, gridVars, SavedWindowIsSound, RestoreStaysInBounds, count
<1> QED
  BY <1>1, <1>2, <1>3, <1>4, <1>5, <1>6, <1>7, <1>8, <1>9, <1>10 DEF GridNext

(* The grid starts with nothing saved.                                     *)
LEMMA GridIndInvInit == GridInit => GridIndInv
  BY ListInvInit
  DEF GridInit, GridIndInv, SavedWindowIsSound, RestoreStaysInBounds, NotRestoring

(* The grid's commands, "close all" and its undo included, are sequences of *)
(* calls the list allows: no tab is made its own opener by a restore, none  *)
(* is appended beyond the limit, and no command runs during another.        *)
THEOREM GridUsesListInterface == Spec => UsesListInterface
<1>1. GridInit => GridIndInv /\ Init
  BY GridIndInvInit DEF GridInit
<1>2. GridIndInv /\ [GridNext]_vars => GridIndInv' /\ [ListNext]_listVars
  BY GridStep
<1> QED
  BY <1>1, <1>2, PTL DEF Spec, UsesListInterface, ListSpec

(* In every window the active index is valid and openers are in the list.  *)
THEOREM GridKeepsListInv == Spec => []ListInv
  BY GridUsesListInterface, ListInvariance, PTL DEF UsesListInterface

(* A window shows its user a row of tabs, also in the middle of "close all" *)
(* and of a restore.                                                        *)
THEOREM GridImplementsTabStrip == Spec => ImplementsTabStrip
  BY GridUsesListInterface, ListImplementsTabStrip DEF UsesListInterface

(* No command of the grid changes the active tab without telling observers. *)
THEOREM GridNotifiesActiveChanges == Spec => ActiveChangesAreNotified
  BY GridUsesListInterface, ActiveChangesAlwaysNotified DEF UsesListInterface

-----------------------------------------------------------------------------
(* The grid's copy of the list.                                            *)

(* The grid after no notification.                                         *)
LEMMA GridAfterNone ==
  ASSUME NEW g
  PROVE  GridAfter(g, <<>>) = g
<1> DEFINE s == <<>>
           F(f) == [k \in 0..Len(s) |->
                      IF k = 0 THEN g ELSE OnNotification(f[k - 1], s[k])]
           after == CHOOSE f : f = F(f)
           w == [k \in 0..Len(s) |-> g]
<1>1. Len(s) = 0
  OBVIOUS
<1>2. w = F(w)
  BY <1>1
<1>3. after = F(after)
  BY <1>2, Zenon
<1>4. after[0] = g
  <2> HIDE DEF after
  <2>1. 0 \in 0..Len(s)
    BY <1>1
  <2> QED
    BY <1>3, <2>1
<1>5. GridAfter(g, s) = after[Len(s)]
  BY Zenon DEF GridAfter
<1> QED
  BY <1>1, <1>4, <1>5

(* One notification.                                                        *)
LEMMA GridAfterOne ==
  ASSUME NEW g, NEW e
  PROVE  GridAfter(g, <<e>>) = OnNotification(g, e)
<1> DEFINE s == <<e>>
           F(f) == [k \in 0..Len(s) |->
                      IF k = 0 THEN g ELSE OnNotification(f[k - 1], s[k])]
           after == CHOOSE f : f = F(f)
           w == [k \in 0..Len(s) |-> IF k = 0 THEN g ELSE OnNotification(g, e)]
<1>1. Len(s) = 1 /\ s[1] = e
  OBVIOUS
<1>2. w = F(w)
  <2>1. \A k \in 0..Len(s) : k = 0 \/ k = 1
    BY <1>1
  <2>2. w[0] = g /\ 1 - 1 = 0
    BY <1>1
  <2> QED
    BY <1>1, <2>1, <2>2
<1>3. after = F(after)
  BY <1>2, Zenon
<1>4. after[0] = g /\ after[1] = OnNotification(after[0], e)
  <2> HIDE DEF after
  <2>1. 0 \in 0..Len(s) /\ 1 \in 0..Len(s) /\ 1 - 1 = 0 /\ 1 # 0
    BY <1>1
  <2> QED
    BY <1>1, <1>3, <2>1
<1>5. GridAfter(g, s) = after[Len(s)]
  BY Zenon DEF GridAfter
<1> QED
  BY <1>1, <1>4, <1>5

(* Two notifications, in their order.                                       *)
LEMMA GridAfterTwo ==
  ASSUME NEW g, NEW e, NEW d
  PROVE  GridAfter(g, <<e>> \o <<d>>) = OnNotification(OnNotification(g, e), d)
<1> DEFINE s == <<e>> \o <<d>>
           F(f) == [k \in 0..Len(s) |->
                      IF k = 0 THEN g ELSE OnNotification(f[k - 1], s[k])]
           after == CHOOSE f : f = F(f)
           w == [k \in 0..Len(s) |->
                   IF k = 0 THEN g
                   ELSE IF k = 1 THEN OnNotification(g, e)
                   ELSE OnNotification(OnNotification(g, e), d)]
<1>1. Len(s) = 2 /\ s[1] = e /\ s[2] = d
  <2> DEFINE S == {e, d}
             a == <<e>>
             b == <<d>>
  <2>1. a \in Seq(S) /\ b \in Seq(S) /\ Len(a) = 1 /\ Len(b) = 1 /\ a[1] = e /\ b[1] = d
    OBVIOUS
  <2> HIDE DEF S, a, b
  <2>2. /\ Len(a \o b) = Len(a) + Len(b)
        /\ \A k \in 1..(Len(a) + Len(b)) :
             (a \o b)[k] = IF k <= Len(a) THEN a[k] ELSE b[k - Len(a)]
    BY <2>1, ConcatProperties
  <2>3. (a \o b)[1] = a[1] /\ (a \o b)[2] = b[2 - 1] /\ Len(a \o b) = 2
    BY <2>1, <2>2
  <2> QED
    BY <2>1, <2>3 DEF a, b
<1> HIDE DEF s
<1>2. w = F(w)
  <2>1. \A k \in 0..Len(s) : k = 0 \/ k = 1 \/ k = 2
    BY <1>1
  <2>2. w[0] = g /\ 1 - 1 = 0 /\ 2 - 1 = 1 /\ w[1] = OnNotification(g, e)
    BY <1>1
  <2> QED
    BY <1>1, <2>1, <2>2
<1>3. after = F(after)
  BY <1>2, Zenon
<1>4. after[0] = g /\ after[1] = OnNotification(after[0], e)
      /\ after[2] = OnNotification(after[1], d)
  <2> HIDE DEF after
  <2>1. 0 \in 0..Len(s) /\ 1 \in 0..Len(s) /\ 1 - 1 = 0 /\ 1 # 0
        /\ 2 \in 0..Len(s) /\ 2 - 1 = 1 /\ 2 # 0
    BY <1>1
  <2> QED
    BY <1>1, <1>3, <2>1
<1>5. GridAfter(g, s) = after[Len(s)]
  BY Zenon DEF GridAfter
<1> QED
  BY <1>1, <1>4, <1>5 DEF s

-----------------------------------------------------------------------------
(* The row of tabs, as the grid edits it.                                  *)

(* In a row without duplicates, an identifier has one place.               *)
LEMMA PlaceInRow ==
  ASSUME NEW S, NEW r \in Seq(S), NEW i \in 1..Len(r),
         \A j, k \in 1..Len(r) : r[j] = r[k] => j = k
  PROVE  /\ RemoveFirst(r, r[i]) = RemoveAt(r, i)
         /\ \A w : ReplaceAll(r, r[i], w) = [r EXCEPT ![i] = w]
         /\ \A to : i # to + 1 =>
              MoveItem(r, r[i], to) = InsertAt(RemoveAt(r, i), to + 1, r[i])
<1> DEFINE I == {k \in 1..Len(r) : r[k] = r[i]}
<1>1. Len(r) \in Nat /\ DOMAIN r = 1..Len(r)
  BY LenProperties
<1>2. I = {i}
  OBVIOUS
<1>3. Min(I) = i
  <2>1. I \subseteq Nat /\ I # {}
    BY <1>1, <1>2
  <2>2. Min(I) \in I
    BY <2>1, MinOfNaturals
  <2> QED
    BY <1>2, <2>2
<1>4. SelectInSeq(r, LAMBDA x : x = r[i]) = i
  <2>1. SelectInSeq(r, LAMBDA x : x = r[i]) = IF I # {} THEN Min(I) ELSE 0
    BY Zenon DEF SelectInSeq
  <2>2. I # {}
    BY <1>2
  <2> QED
    BY <1>3, <2>1, <2>2
<1>5. RemoveFirst(r, r[i]) = RemoveAt(r, i)
  <2>1. RemoveFirst(r, r[i]) = RemoveAt(r, SelectInSeq(r, LAMBDA x : x = r[i]))
    BY Zenon DEF RemoveFirst
  <2> QED
    BY <1>4, <2>1, Zenon
<1>6. ASSUME NEW w PROVE ReplaceAll(r, r[i], w) = [r EXCEPT ![i] = w]
  BY <1>1 DEF ReplaceAll
<1>7. ASSUME NEW to, i # to + 1
      PROVE  MoveItem(r, r[i], to) = InsertAt(RemoveAt(r, i), to + 1, r[i])
  <2>1. MoveItem(r, r[i], to) =
          LET from == SelectInSeq(r, LAMBDA x : x = r[i])
          IN  IF from = to + 1 THEN r
              ELSE InsertAt(RemoveAt(r, from), to + 1, r[i])
    BY Zenon DEF MoveItem
  <2> QED
    BY <1>4, <1>7, <2>1, Zenon
<1> QED
  BY <1>5, <1>6, <1>7, Zenon

(* What the mediator does on each notification.                            *)
GridShowing(tabs, selected) == [items |-> tabs, selected |-> selected]

(* A tab is inserted: the grid inserts an item and reads the selection.    *)
LEMMA OnInserted ==
  ASSUME NEW tabs, NEW sel, NEW ws, NEW index, NEW active
  PROVE  OnNotification(GridShowing(tabs, sel), Inserted(ws, index, active)) =
           GridShowing(InsertAt(tabs, index + 1, ws), active)
  BY DEF OnNotification, GridShowing, Inserted

(* A tab is moved: the grid moves the item.                                *)
LEMMA OnMoved ==
  ASSUME NEW tabs, NEW sel, NEW ws, NEW index, NEW active
  PROVE  OnNotification(GridShowing(tabs, sel), Moved(ws, index, active)) =
           GridShowing(MoveItem(tabs, ws, index), sel)
  BY DEF OnNotification, GridShowing, Moved

(* A tab is replaced: the grid replaces the item.                          *)
LEMMA OnReplaced ==
  ASSUME NEW tabs, NEW sel, NEW old, NEW ws, NEW index, NEW active
  PROVE  OnNotification(GridShowing(tabs, sel), Replaced(old, ws, index, active)) =
           GridShowing(ReplaceAll(tabs, old, ws), sel)
  BY DEF OnNotification, GridShowing, Replaced

(* A tab is detached: the grid removes the item and reads the selection.   *)
LEMMA OnDetached ==
  ASSUME NEW tabs, NEW sel, NEW ws, NEW index, NEW active
  PROVE  OnNotification(GridShowing(tabs, sel), Detached(ws, index, active)) =
           GridShowing(RemoveFirst(tabs, ws), active)
  BY DEF OnNotification, GridShowing, Detached

(* A tab is activated: the grid selects its item.                          *)
LEMMA OnActivated ==
  ASSUME NEW tabs, NEW sel, NEW old, NEW ws, NEW index
  PROVE  OnNotification(GridShowing(tabs, sel), Activated(old, ws, index)) =
           GridShowing(tabs, IF index = kInvalidIndex THEN NoWebState ELSE ws)
  BY DEF OnNotification, GridShowing, Activated

(* A notification, and the activation that may follow it.                  *)
LEMMA GridAfterActivation ==
  ASSUME NEW g, NEW e, NEW tabs, NEW sel, NEW old, NEW new, NEW index,
         OnNotification(g, e) = GridShowing(tabs, sel),
         old = new => sel = new,
         index = kInvalidIndex => new = NoWebState
  PROVE  GridAfter(g, <<e>> \o NotifyIfActiveWebStateChanged(old, new, index)) =
           GridShowing(tabs, new)
<1>1. CASE old = new
  <2>1. <<e>> \o NotifyIfActiveWebStateChanged(old, new, index) = <<e>>
    BY <1>1 DEF NotifyIfActiveWebStateChanged
  <2> QED
    BY <1>1, <2>1, GridAfterOne
<1>2. CASE old # new
  <2> DEFINE d == Activated(old, new, index)
  <2>1. NotifyIfActiveWebStateChanged(old, new, index) = <<d>>
    BY <1>2 DEF NotifyIfActiveWebStateChanged
  <2>2. OnNotification(GridShowing(tabs, sel), d) = GridShowing(tabs, new)
    <3>1. new = IF index = kInvalidIndex THEN NoWebState ELSE new
      OBVIOUS
    <3> QED
      BY <3>1, OnActivated
  <2> HIDE DEF d
  <2> QED
    BY <2>1, <2>2, GridAfterTwo
<1> QED
  BY <1>1, <1>2

(* GridInSync, of the row.                                                 *)
LEMMA SyncFacts ==
  ASSUME ListInv, ListInv'
  PROVE  /\ GridInSync <=> items = Row /\ selectedItemID = GetActiveWebState
         /\ GridInSync' <=> items' = Row' /\ selectedItemID' = GetActiveWebState'
  BY RowFacts DEF GridInSync

(* The grid is in step once it shows the row as it is after the step.      *)
LEMMA SyncAfter ==
  ASSUME ListInv, ListInv', GridInSync, ObserveList,
         GridAfter(GridShowing(Row, GetActiveWebState), notified') =
           GridShowing(Row', GetActiveWebState')
  PROVE  GridInSync'
<1>1. items = Row /\ selectedItemID = GetActiveWebState
  BY SyncFacts
<1>2. /\ items' = GridAfter(GridShowing(items, selectedItemID), notified').items
      /\ selectedItemID' = GridAfter(GridShowing(items, selectedItemID), notified').selected
  BY Zenon DEF ObserveList, GridShowing
<1>3. items' = Row' /\ selectedItemID' = GetActiveWebState'
  BY <1>1, <1>2 DEF GridShowing
<1> QED
  BY <1>3, SyncFacts

(* Nothing shows, nothing is told.                                         *)
LEMMA SyncWhenNothingShows ==
  ASSUME ListInv, ListInv', GridInSync, ObserveList, notified' = <<>>,
         Row' = Row, GetActiveWebState' = GetActiveWebState
  PROVE  GridInSync'
  BY SyncAfter, GridAfterNone

(* The row of tabs is a sequence without duplicates.                        *)
LEMMA RowHasNoDuplicates ==
  ASSUME ListInv
  PROVE  /\ Row \in Seq(WebStates) /\ Len(Row) = count /\ count \in Nat
         /\ \A j, k \in 1..Len(Row) : Row[j] = Row[k] => j = k
<1>1. /\ Row \in Seq(WebStates) /\ Len(Row) = count /\ count \in Nat
      /\ \A k \in 1..count : Row[k] = web_state_wrappers[k].ws
  BY RowFacts
<1>2. NoDuplicates
  BY DEF ListInv
<1> QED
  BY <1>1, <1>2 DEF NoDuplicates

(* A tab is inserted: the observer reads the selection before the tab is    *)
(* activated, and is told of the activation.                                *)
LEMMA SyncInsert ==
  ASSUME ListInv, ListInv', GridInSync, ObserveList, NEW ws \in WebStates,
         NEW force \in BOOLEAN,
         NEW activate \in BOOLEAN, NEW inherit \in BOOLEAN, NEW index \in Int,
         NEW passed, InsertWebState(ws, index, force, activate, inherit, passed)
  PROVE  GridInSync'
<1> DEFINE a == GetActiveWebState
<1>1. PICK at \in 0..count :
        /\ ws \notin Listed /\ at + 1 \in 1..(count + 1)
        /\ Row' = InsertAt(Row, at + 1, ws)
        /\ GetActiveWebState' = IF activate THEN ws ELSE GetActiveWebState
        /\ notified' = <<Inserted(ws, at, GetActiveWebState)>> \o
             (IF activate
              THEN NotifyIfActiveWebStateChanged(GetActiveWebState, ws, at)
              ELSE <<>>)
  BY InsertShows
<1> DEFINE g == GridShowing(Row, a)
           e == Inserted(ws, at, a)
<1>2. OnNotification(g, e) = GridShowing(Row', a)
  BY <1>1, OnInserted
<1>3. a # ws
  <2>1. a \in Listed \cup {NoWebState}
    BY ActiveIsListed DEF ListInv
  <2> QED
    BY <1>1, <2>1, NoWebStateAssumption
<1>4. at # kInvalidIndex
  BY ActiveIndexRange DEF kInvalidIndex
<1> HIDE DEF a, e
<1>5. CASE activate
  BY <1>1, <1>2, <1>3, <1>4, <1>5, GridAfterActivation, SyncAfter DEF a, e
<1>6. CASE ~activate
  <2>1. notified' = <<e>> /\ GetActiveWebState' = a
    <3>1. <<e>> \o <<>> = <<e>>
      OBVIOUS
    <3> QED
      BY <1>1, <1>6, <3>1 DEF a, e
  <2>2. GridAfter(g, <<e>>) = GridShowing(Row', a)
    BY <1>2, GridAfterOne
  <2> QED
    BY <2>1, <2>2, SyncAfter DEF a
<1> QED
  BY <1>5, <1>6

(* A tab is moved.                                                          *)
LEMMA SyncMove ==
  ASSUME ListInv, ListInv', GridInSync, ObserveList,
         NEW from \in 0..(count - 1), NEW to \in 0..(count - 1),
         MoveWebStateAt(from, to)
  PROVE  GridInSync'
<1> DEFINE i == from + 1
<1>1. CASE from = to
  BY <1>1, MoveShows, SyncWhenNothingShows
<1>2. CASE from # to
  <2> DEFINE e == Moved(Row[i], to, GetActiveWebState)
  <2>1. /\ GetActiveWebState' = GetActiveWebState /\ i \in 1..count
        /\ Row' = InsertAt(RemoveAt(Row, i), to + 1, Row[i])
        /\ notified' = <<e>>
    BY <1>2, MoveShows
  <2>2. to \in Int /\ i # to + 1
    BY <1>2, ActiveIndexRange
  <2> HIDE DEF i
  <2>3. MoveItem(Row, Row[i], to) = Row'
    BY <2>1, <2>2, RowHasNoDuplicates, PlaceInRow
  <2>4. OnNotification(GridShowing(Row, GetActiveWebState), e) =
          GridShowing(Row', GetActiveWebState)
    BY <2>3, OnMoved
  <2> QED
    BY <2>1, <2>4, GridAfterOne, SyncAfter
<1> QED
  BY <1>1, <1>2

(* A tab is replaced; the selection is told even if another tab is active.  *)
LEMMA SyncReplace ==
  ASSUME ListInv, ListInv', GridInSync, ObserveList,
         NEW index \in 0..(count - 1), NEW ws \in WebStates,
         ReplaceWebStateAt(index, ws)
  PROVE  GridInSync'
<1> DEFINE i == index + 1
           a == GetActiveWebState
           e == Replaced(Row[i], ws, index, GetActiveWebState')
<1>1. /\ ws \notin Listed /\ i \in 1..count
      /\ Row' = [Row EXCEPT ![i] = ws]
      /\ GetActiveWebState' = IF a = Row[i] THEN ws ELSE a
      /\ notified' = <<e>> \o
           NotifyIfActiveWebStateChanged(Row[i], GetActiveWebState', active_index)
  BY ReplaceShows
<1>2. Row[i] # ws
  BY <1>1, RowFacts DEF Listed
<1> HIDE DEF i
<1>3. ReplaceAll(Row, Row[i], ws) = Row'
  BY <1>1, RowHasNoDuplicates, PlaceInRow
<1>4. OnNotification(GridShowing(Row, a), e) = GridShowing(Row', a)
  BY <1>3, OnReplaced
<1>5. Row[i] # GetActiveWebState'
  BY <1>1, <1>2
<1>6. active_index = kInvalidIndex => GetActiveWebState' = NoWebState
  <2>1. active_index' = active_index
    BY DEF ReplaceWebStateAt
  <2> QED
    BY <2>1 DEF GetActiveWebState
<1> HIDE DEF a, e
<1> QED
  BY <1>1, <1>4, <1>5, <1>6, GridAfterActivation, SyncAfter DEF a

(* A tab is closed: the observer finds the new selection in place.          *)
LEMMA SyncClose ==
  ASSUME ListInv, ListInv', GridInSync, ObserveList,
         NEW index \in 0..(count - 1), CloseWebStateAt(index)
  PROVE  GridInSync'
<1> DEFINE i == index + 1
           a == GetActiveWebState
           e == Detached(Row[i], index, GetActiveWebState')
<1>1. /\ i \in 1..count
      /\ Row' = RemoveAt(Row, i)
      /\ notified' = <<e>> \o
           (IF active_index = index
            THEN NotifyIfActiveWebStateChanged(Row[i], GetActiveWebState', active_index')
            ELSE <<>>)
  BY CloseShows
<1> HIDE DEF i
<1>2. RemoveFirst(Row, Row[i]) = Row'
  BY <1>1, RowHasNoDuplicates, PlaceInRow
<1>3. OnNotification(GridShowing(Row, a), e) = GridShowing(Row', GetActiveWebState')
  BY <1>2, OnDetached
<1>4. active_index' = kInvalidIndex => GetActiveWebState' = NoWebState
  BY DEF GetActiveWebState
<1> HIDE DEF a, e
<1>5. CASE active_index = index
  BY <1>1, <1>3, <1>4, <1>5, GridAfterActivation, SyncAfter DEF a
<1>6. CASE active_index # index
  <2>1. <<e>> \o <<>> = <<e>>
    OBVIOUS
  <2> QED
    BY <1>1, <1>3, <1>6, <2>1, GridAfterOne, SyncAfter DEF a
<1> QED
  BY <1>5, <1>6

(* A tab is activated, or is active already.                                *)
LEMMA SyncActivate ==
  ASSUME ListInv, ListInv', GridInSync, ObserveList,
         NEW index \in 0..(count - 1), ActivateWebStateAt(index)
  PROVE  GridInSync'
<1> DEFINE a == GetActiveWebState
           w == GetWebStateAt(index)
           e == Activated(a, w, index)
<1>1. /\ web_state_wrappers' = web_state_wrappers /\ active_index' = index
      /\ notified' = NotifyIfActiveWebStateChanged(a, w, index)
  BY DEF ActivateWebStateAt
<1>2. index # kInvalidIndex
  BY ActiveIndexRange DEF kInvalidIndex
<1>3. Row' = Row /\ GetActiveWebState' = w
  BY <1>1, <1>2 DEF Row, GetActiveWebState, GetWebStateAt
<1>4. CASE a = w
  <2>1. notified' = <<>>
    BY <1>1, <1>4 DEF NotifyIfActiveWebStateChanged
  <2> QED
    BY <1>3, <1>4, <2>1, SyncWhenNothingShows
<1>5. CASE a # w
  <2>1. notified' = <<e>>
    BY <1>1, <1>5 DEF NotifyIfActiveWebStateChanged
  <2>2. OnNotification(GridShowing(Row, a), e) = GridShowing(Row, w)
    BY <1>2, OnActivated
  <2> HIDE DEF e
  <2> QED
    BY <1>3, <2>1, <2>2, GridAfterOne, SyncAfter
<1> QED
  BY <1>4, <1>5

-----------------------------------------------------------------------------
(* Openers.                                                                *)

(* OpenersFormForest and NoPageWithoutOpener, of a list.                   *)
SoundOpeners(s) ==
  /\ Forest(s)
  /\ \A k \in 1..Len(s) : s[k].opener = NoWebState => s[k].nav = -1

(* A tab that has lost its opener.                                         *)
Orphan(w) == [ws |-> w.ws, opener |-> NoWebState, nav |-> -1]

(* Every tab of t is one of s, perhaps an orphan now, or a new one that has *)
(* a tab of s as opener, or none.                                           *)
Derived(s, t) ==
  \A k \in 1..Len(t) :
    \/ \E m \in 1..Len(s) : t[k] = s[m] \/ t[k] = Orphan(s[m])
    \/ /\ t[k].ws \in WebStates \ Ids(s)
       /\ t[k].opener \in Ids(s) \cup {NoWebState}
       /\ t[k].opener = NoWebState => t[k].nav = -1

(* A derived list has a forest of openers if the first one has.            *)
LEMMA DerivedIsSound ==
  ASSUME NEW s, NEW t, WellFormed(s), SoundOpeners(s), Derived(s, t)
  PROVE  SoundOpeners(t)
<1>0. /\ \A m \in 1..Len(s) : s[m].ws \in WebStates /\ s[m].ws # NoWebState
      /\ \A m \in 1..Len(s) : s[m].opener # NoWebState => s[m].opener \in Ids(s)
      /\ \A m, n \in 1..Len(s) : s[m].ws = s[n].ws => m = n
  BY WellFormedElements DEF WellFormed
<1>1. ASSUME NEW k \in 1..Len(t)
      PROVE  /\ t[k].ws # NoWebState
             /\ t[k].opener \in Ids(s) \cup {NoWebState}
             /\ t[k].opener = NoWebState => t[k].nav = -1
             /\ t[k].ws \notin Ids(s) \/
                  \E m \in 1..Len(s) : /\ s[m].ws = t[k].ws
                                       /\ t[k].opener \in {s[m].opener, NoWebState}
  <2>1. CASE \E m \in 1..Len(s) : t[k] = s[m] \/ t[k] = Orphan(s[m])
    <3>1. PICK m \in 1..Len(s) : t[k] = s[m] \/ t[k] = Orphan(s[m])
      BY <2>1
    <3>2. /\ Orphan(s[m]).ws = s[m].ws /\ Orphan(s[m]).opener = NoWebState
          /\ Orphan(s[m]).nav = -1
      BY DEF Orphan
    <3>3. s[m].opener = NoWebState => s[m].nav = -1
      BY DEF SoundOpeners
    <3> QED
      BY <1>0, <3>1, <3>2, <3>3
  <2>2. CASE /\ t[k].ws \in WebStates \ Ids(s)
             /\ t[k].opener \in Ids(s) \cup {NoWebState}
             /\ t[k].opener = NoWebState => t[k].nav = -1
    BY <2>2
  <2> QED
    BY <2>1, <2>2 DEF Derived
<1>2. ASSUME NEW S \in SUBSET (1..Len(t)), S # {}
      PROVE  \E k \in S : \A j \in S : t[k].opener # t[j].ws
  <2> DEFINE M == {m \in 1..Len(s) : \E k \in S : s[m].ws = t[k].ws}
  <2>1. ASSUME NEW k \in S, NEW j \in S, t[k].opener = t[j].ws
        PROVE  \E m \in M : s[m].ws = t[j].ws
    <3>1. t[j].ws \in Ids(s)
      BY <1>1, <2>1
    <3> QED
      BY <3>1 DEF Ids
  <2>2. CASE M = {}
    <3>1. PICK k \in S : TRUE
      BY <1>2
    <3>2. \A j \in S : t[k].opener # t[j].ws
      BY <2>1, <2>2
    <3> QED
      BY <3>2
  <2>3. CASE M # {}
    <3>1. PICK m \in M : \A n \in M : s[m].opener # s[n].ws
      BY <2>3 DEF SoundOpeners, Forest
    <3>2. PICK k \in S : s[m].ws = t[k].ws
      OBVIOUS
    <3>3. t[k].ws \in Ids(s)
      BY <3>2 DEF Ids
    <3>4. t[k].opener \in {s[m].opener, NoWebState}
      <4>1. PICK n \in 1..Len(s) : /\ s[n].ws = t[k].ws
                                   /\ t[k].opener \in {s[n].opener, NoWebState}
        BY <1>1, <3>3
      <4>2. n = m
        BY <1>0, <3>2, <4>1
      <4> QED
        BY <4>1, <4>2
    <3>5. ASSUME NEW j \in S, t[k].opener = t[j].ws
          PROVE  FALSE
      <4>1. t[k].opener = s[m].opener
        BY <1>1, <3>4, <3>5
      <4> HIDE DEF M
      <4>2. PICK p \in M : s[p].ws = t[j].ws
        BY <2>1, <3>5
      <4> QED
        BY <3>1, <3>5, <4>1, <4>2
    <3> QED
      BY <3>5
  <2> QED
    BY <2>2, <2>3
<1>3. Forest(t)
  BY <1>2 DEF Forest
<1> QED
  BY <1>1, <1>3 DEF SoundOpeners

(* The tabs once the references to one of them are cleared.                *)
LEMMA ClearedIsOrphaned ==
  ASSUME NEW s, WellFormed(s), NEW i \in 1..Len(s)
  PROVE  \A k \in 1..Len(s) : Cleared(s, i)[k] = s[k] \/ Cleared(s, i)[k] = Orphan(s[k])
<1> SUFFICES ASSUME NEW k \in 1..Len(s)
             PROVE  Cleared(s, i)[k] = s[k] \/ Cleared(s, i)[k] = Orphan(s[k])
  OBVIOUS
<1>1. s[k] \in Wrapper
  BY WellFormedElements
<1>2. [s[k] EXCEPT !.opener = NoWebState, !.nav = -1] = Orphan(s[k])
  <2> SUFFICES ASSUME NEW w \in Wrapper
               PROVE  [w EXCEPT !.opener = NoWebState, !.nav = -1] = Orphan(w)
    BY <1>1
  <2> DEFINE r == [w EXCEPT !.opener = NoWebState, !.nav = -1]
  <2>1. r \in Wrapper /\ r.ws = w.ws /\ r.opener = NoWebState /\ r.nav = -1
    BY DEF Wrapper
  <2> HIDE DEF r
  <2>2. r = [ws |-> r.ws, opener |-> r.opener, nav |-> r.nav]
    BY <2>1 DEF Wrapper
  <2>3. r = Orphan(w)
    BY <2>1, <2>2, Zenon DEF Orphan
  <2> QED
    BY <2>3, Zenon DEF r
<1> QED
  BY <1>2 DEF Cleared

(* Inserting derives a list: the new tab has opened nothing yet.           *)
LEMMA InsertionIsDerived ==
  ASSUME NEW s, WellFormed(s), NEW e \in Wrapper, e.ws \notin Ids(s),
         e.opener \in Ids(s) \cup {NoWebState}, e.opener = NoWebState => e.nav = -1,
         NEW i \in 1..(Len(s) + 1)
  PROVE  Derived(s, InsertAt(s, i, e))
<1> DEFINE t == InsertAt(s, i, e)
<1>0. s \in Seq(Wrapper) /\ Len(s) \in Nat
  BY LenProperties DEF WellFormed
<1>1. /\ Len(t) = Len(s) + 1
      /\ \A k \in 1..(Len(s) + 1) :
           t[k] = IF k < i THEN s[k] ELSE IF k = i THEN e ELSE s[k - 1]
  BY <1>0, InsertAtProperties
<1> HIDE DEF t
<1>2. e.ws \in WebStates
  BY DEF Wrapper
<1>3. ASSUME NEW k \in 1..Len(t)
      PROVE  \/ \E m \in 1..Len(s) : t[k] = s[m]
             \/ t[k] = e
  <2>1. k \in 1..(Len(s) + 1) /\ (k < i => k \in 1..Len(s))
        /\ (~(k < i) /\ k # i => k - 1 \in 1..Len(s))
    BY <1>0, <1>1
  <2> QED
    BY <1>1, <2>1
<1> QED
  BY <1>2, <1>3 DEF Derived, t

(* Moving derives a list: every tab of the new one is one of the old.       *)
LEMMA ReorderingIsDerived ==
  ASSUME NEW s, NEW t, Reordered(s, t)
  PROVE  Derived(s, t)
  BY DEF Reordered, Derived

(* Detaching derives a list: the tabs it had opened are orphans.            *)
LEMMA RemovalIsDerived ==
  ASSUME NEW s, WellFormed(s), NEW i \in 1..Len(s)
  PROVE  Derived(s, RemoveAt(Cleared(s, i), i))
<1> DEFINE c == Cleared(s, i)
           t == RemoveAt(c, i)
<1>0. Len(s) \in Nat
  BY WellFormedElements
<1>1. c \in Seq(Wrapper) /\ Len(c) = Len(s)
  BY ClearedFacts
<1>2. \A k \in 1..Len(s) : c[k] = s[k] \/ c[k] = Orphan(s[k])
  BY ClearedIsOrphaned
<1> HIDE DEF c
<1>3. /\ Len(t) = Len(s) - 1
      /\ \A k \in 1..(Len(s) - 1) : t[k] = IF k < i THEN c[k] ELSE c[k + 1]
  BY <1>1, RemoveAtProperties
<1> HIDE DEF t
<1>4. ASSUME NEW k \in 1..Len(t)
      PROVE  \E m \in 1..Len(s) : t[k] = s[m] \/ t[k] = Orphan(s[m])
  <2>1. k \in 1..(Len(s) - 1) /\ k \in 1..Len(s) /\ k + 1 \in 1..Len(s)
    BY <1>0, <1>3
  <2> QED
    BY <1>2, <1>3, <2>1
<1> QED
  BY <1>4 DEF Derived, t, c

(* So does replacing; the new tab has no opener and opened nothing.         *)
LEMMA ReplacementIsDerived ==
  ASSUME NEW s, WellFormed(s), NEW i \in 1..Len(s),
         NEW w \in WebStates, w \notin Ids(s)
  PROVE  Derived(s, [Cleared(s, i) EXCEPT
                       ![i] = [ws |-> w, opener |-> NoWebState, nav |-> -1]])
<1> DEFINE e == [ws |-> w, opener |-> NoWebState, nav |-> -1]
           c == Cleared(s, i)
           t == [c EXCEPT ![i] = e]
<1>1. c \in Seq(Wrapper) /\ Len(c) = Len(s)
  BY ClearedFacts
<1>2. \A k \in 1..Len(s) : c[k] = s[k] \/ c[k] = Orphan(s[k])
  BY ClearedIsOrphaned
<1> HIDE DEF c
<1>3. e \in Wrapper /\ e.ws = w /\ e.opener = NoWebState /\ e.nav = -1
  BY DEF Wrapper
<1> HIDE DEF e
<1>4. /\ Len(t) = Len(s)
      /\ \A k \in 1..Len(s) : t[k] = IF k = i THEN e ELSE c[k]
  BY <1>1, <1>3, ExceptSeq, LenProperties
<1> HIDE DEF t
<1>5. ASSUME NEW k \in 1..Len(t)
      PROVE  \/ \E m \in 1..Len(s) : t[k] = s[m] \/ t[k] = Orphan(s[m])
             \/ t[k] = e
  BY <1>2, <1>4
<1> QED
  BY <1>3, <1>5 DEF Derived, t, c, e

(* SoundOpeners is OpenersFormForest and NoPageWithoutOpener.              *)
LEMMA SoundOpenersParts ==
  /\ OpenersFormForest /\ NoPageWithoutOpener <=> SoundOpeners(web_state_wrappers)
  /\ (OpenersFormForest /\ NoPageWithoutOpener)' <=> SoundOpeners(web_state_wrappers')
  BY DEF OpenersFormForest, NoPageWithoutOpener, SoundOpeners, Forest, count

(* A restore: the old tabs keep their forest, the others get that of the    *)
(* closed list, and no opener leads from one part into the other.           *)
LEMMA RestoredForest ==
  ASSUME NEW s, NEW t, NEW closed, NEW old \in Nat, WellFormed(t),
         Len(closed) \in Nat, Len(t) = old + Len(closed), Len(s) = Len(t),
         Forest(s), Forest(closed),
         \A k \in 1..old : s[k] = t[k],
         \A k \in 1..Len(closed) :
           \/ closed[k].opener = NoWebState
           \/ \E m \in 1..Len(closed) : closed[m].ws = closed[k].opener,
         \A k \in (old + 1)..Len(t) :
           /\ t[k].ws = closed[k - old].ws
           /\ t[k].opener \in {closed[k - old].opener, NoWebState}
  PROVE  Forest(t)
<1>0. /\ \A k \in 1..Len(t) : t[k].ws # NoWebState
      /\ \A j, k \in 1..Len(t) : t[j].ws = t[k].ws => j = k
  BY WellFormedElements DEF WellFormed
<1> SUFFICES ASSUME NEW S \in SUBSET (1..Len(t)), S # {}
             PROVE  \E k \in S : \A j \in S : t[k].opener # t[j].ws
  BY DEF Forest
<1> DEFINE T == {k \in 1..Len(closed) : k + old \in S}
<1>1. CASE T = {}
  <2>1. ASSUME NEW k \in S
        PROVE  k \in 1..old
    <3>1. CASE k > old
      <4>1. k - old \in 1..Len(closed) /\ (k - old) + old = k
        BY <3>1
      <4> QED
        BY <1>1, <4>1
    <3>2. CASE ~(k > old)
      BY <3>2
    <3> QED
      BY <3>1, <3>2
  <2>2. PICK k \in S : \A j \in S : s[k].opener # s[j].ws
    BY DEF Forest
  <2>3. \A j \in S : s[j] = t[j]
    <3> HIDE DEF T
    <3> QED
      BY <2>1
  <2> HIDE DEF T
  <2>4. \A j \in S : t[k].opener # t[j].ws
    BY <2>2, <2>3
  <2> QED
    BY <2>4
<1>2. CASE T # {}
  <2>1. PICK k \in T : \A j \in T : closed[k].opener # closed[j].ws
    BY <1>2 DEF Forest
  <2> DEFINE n == k + old
  <2>2. n \in S /\ n \in (old + 1)..Len(t) /\ n - old = k
    <3>1. n \in S
      BY DEF T
    <3>2. k \in Nat /\ k >= 1 /\ n \in 1..Len(t) /\ Len(t) \in Nat
      BY <3>1, LenProperties DEF T
    <3> QED
      BY <3>1, <3>2
  <2>3. ASSUME NEW j \in S, t[n].opener = t[j].ws
        PROVE  FALSE
    <3>1. t[n].opener = closed[k].opener /\ closed[k].opener # NoWebState
      BY <1>0, <2>2, <2>3
    <3>2. PICK m \in 1..Len(closed) : closed[m].ws = closed[k].opener
      BY <3>1
    <3>3. m + old \in 1..Len(t) /\ m + old \in (old + 1)..Len(t) /\ (m + old) - old = m
      OBVIOUS
    <3>4. t[m + old].ws = closed[m].ws
      BY <3>3
    <3>5. m + old = j
      BY <1>0, <2>3, <3>1, <3>2, <3>3, <3>4
    <3>6. m \in T
      BY <3>5
    <3> QED
      BY <2>1, <3>2, <3>6
  <2> QED
    BY <2>2, <2>3
<1> QED
  BY <1>1, <1>2

-----------------------------------------------------------------------------
(* The calls of the list keep openers sound.                               *)

(* The opener of a new tab is in the list, or it has none and no page.     *)
LEMMA InsertKeepsOpeners ==
  ASSUME ListInv, SoundOpeners(web_state_wrappers), NEW ws \in WebStates,
         NEW force \in BOOLEAN, NEW activate \in BOOLEAN, NEW inherit \in BOOLEAN,
         NEW index \in Int, NEW passed,
         InsertWebState(ws, index, force, activate, inherit, passed)
  PROVE  SoundOpeners(web_state_wrappers')
<1> DEFINE s      == web_state_wrappers
           opener == IF inherit THEN GetActiveWebState ELSE passed
           at     == InsertionIndex(force, index, opener)
           e      == [ws |-> ws, opener |-> opener,
                      nav |-> NavigationIndexFromWebState(opener)]
           i      == at + 1
<1>0. TypeOK /\ ActiveIndexValid /\ WellFormed(s) /\ Listed = Ids(s) /\ count = Len(s)
  BY ListInvParts
<1>1. /\ Listed \subseteq WebStates
      /\ GetActiveWebState \in Listed \cup {NoWebState}
  BY <1>0, WrapperFacts, ActiveIsListed
<1>2. opener \in Listed \cup {NoWebState} /\ ws \notin Listed
  BY <1>1 DEF InsertWebState
<1>3. at \in 0..count
  BY <1>0, <1>2, InsertionIndexRange DEF InsertWebState
<1>4. /\ e \in Wrapper /\ e.ws = ws /\ e.opener = opener
      /\ opener = NoWebState => e.nav = -1
  <2>1. NavigationIndexFromWebState(opener) \in NavIndices
    BY <1>0, <1>1, <1>2 DEF NavigationIndexFromWebState, TypeOK
  <2>2. opener = NoWebState => NavigationIndexFromWebState(opener) = -1
    BY DEF NavigationIndexFromWebState
  <2> QED
    BY <1>1, <1>2, <2>1, <2>2 DEF Wrapper
<1>5. web_state_wrappers' = InsertAt(s, i, e)
  BY DEF InsertWebState
<1>6. i \in 1..(Len(s) + 1)
  BY <1>0, <1>3, ActiveIndexRange
<1> HIDE DEF e, i, at, opener
<1>7. Derived(s, InsertAt(s, i, e))
  BY <1>0, <1>2, <1>4, <1>6, InsertionIsDerived
<1> QED
  BY <1>0, <1>5, <1>7, DerivedIsSound

(* A move keeps every opener.                                              *)
LEMMA MoveKeepsOpeners ==
  ASSUME ListInv, SoundOpeners(web_state_wrappers),
         NEW from \in 0..(count - 1), NEW to \in 0..(count - 1),
         MoveWebStateAt(from, to)
  PROVE  SoundOpeners(web_state_wrappers')
<1> DEFINE s == web_state_wrappers
<1>0. WellFormed(s) /\ from + 1 \in 1..Len(s) /\ to + 1 \in 1..Len(s)
  BY ActiveIndexRange
<1>1. CASE from = to
  BY <1>1 DEF MoveWebStateAt
<1>2. CASE from # to
  <2>1. web_state_wrappers' = InsertAt(RemoveAt(s, from + 1), to + 1, s[from + 1])
    BY <1>2 DEF MoveWebStateAt, WrappersAfterMove
  <2>2. Derived(s, web_state_wrappers')
    BY <1>0, <2>1, MoveWellFormed, ReorderingIsDerived
  <2> QED
    BY <1>0, <2>2, DerivedIsSound
<1> QED
  BY <1>1, <1>2

(* A replacement orphans the tabs the old one opened.                      *)
LEMMA ReplaceKeepsOpeners ==
  ASSUME ListInv, SoundOpeners(web_state_wrappers),
         NEW index \in 0..(count - 1), NEW ws \in WebStates,
         ReplaceWebStateAt(index, ws)
  PROVE  SoundOpeners(web_state_wrappers')
<1> DEFINE s == web_state_wrappers
           i == index + 1
<1>0. WellFormed(s) /\ i \in 1..Len(s)
  BY ActiveIndexRange
<1>1. web_state_wrappers' =
        [Cleared(s, i) EXCEPT ![i] = [ws |-> ws, opener |-> NoWebState, nav |-> -1]]
  BY DEF ReplaceWebStateAt, ClearOpenersReferencing, Cleared, GetWebStateAt, count
<1>2. ws \notin Ids(s)
  BY ListInvParts DEF ReplaceWebStateAt
<1> HIDE DEF i
<1>3. Derived(s, web_state_wrappers')
  BY <1>0, <1>1, <1>2, ReplacementIsDerived
<1> QED
  BY <1>0, <1>3, DerivedIsSound

(* So does closing it.                                                     *)
LEMMA CloseKeepsOpeners ==
  ASSUME ListInv, SoundOpeners(web_state_wrappers),
         NEW index \in 0..(count - 1), CloseWebStateAt(index)
  PROVE  SoundOpeners(web_state_wrappers')
<1> DEFINE s == web_state_wrappers
           i == index + 1
<1>0. WellFormed(s) /\ i \in 1..Len(s)
  BY ActiveIndexRange
<1>1. web_state_wrappers' = RemoveAt(Cleared(s, i), i)
  BY DEF CloseWebStateAt, DetachWebStateAt, ClearOpenersReferencing, Cleared,
         GetWebStateAt, count
<1> HIDE DEF i
<1>2. Derived(s, web_state_wrappers')
  BY <1>0, <1>1, RemovalIsDerived
<1> QED
  BY <1>0, <1>2, DerivedIsSound

-----------------------------------------------------------------------------
(* The steps of the grid.                                                  *)

(* What the grid adds to ListInv.                                          *)
LEMMA GridInvParts ==
  /\ GridInv <=> /\ GridInSync /\ SoundOpeners(web_state_wrappers)
                 /\ SavedWindowIsSound /\ SavedWindowIsClosedList
                 /\ RestoreStaysInBounds /\ RestoredTabsAreClosedTabs
  /\ GridInv' <=> /\ GridInSync' /\ SoundOpeners(web_state_wrappers')
                  /\ SavedWindowIsSound' /\ SavedWindowIsClosedList'
                  /\ RestoreStaysInBounds' /\ RestoredTabsAreClosedTabs'
<1>1. GridInv <=> /\ GridInSync /\ (OpenersFormForest /\ NoPageWithoutOpener)
                  /\ SavedWindowIsSound /\ SavedWindowIsClosedList
                  /\ RestoreStaysInBounds /\ RestoredTabsAreClosedTabs
  BY DEF GridInv
<1>2. GridInv' <=> /\ GridInSync' /\ (OpenersFormForest /\ NoPageWithoutOpener)'
                   /\ SavedWindowIsSound' /\ SavedWindowIsClosedList'
                   /\ RestoreStaysInBounds' /\ RestoredTabsAreClosedTabs'
  BY DEF GridInv
<1> QED
  BY <1>1, <1>2, SoundOpenersParts, Zenon

(* Nothing of the list or of the grid changes.                             *)
LEMMA SyncWhenUnchanged ==
  ASSUME GridInSync, UNCHANGED listVars, UNCHANGED <<items, selectedItemID>>
  PROVE  GridInSync'
  BY DEF GridInSync, listVars, count, GetActiveWebState, GetWebStateAt

(* A command of the grid.                                                  *)
LEMMA ListCallKeepsGrid ==
  ASSUME ListInv, ListInv', GridInSync, SoundOpeners(web_state_wrappers), ListCall
  PROVE  GridInSync' /\ SoundOpeners(web_state_wrappers')
<1> DEFINE Kept == GridInSync' /\ SoundOpeners(web_state_wrappers')
<1>0. /\ TypeOK /\ Listed \subseteq WebStates /\ FreshTabs \subseteq WebStates
      /\ count \in Nat /\ ObserveList
  BY WrapperFacts DEF ListCall, ListInv, FreshTabs
<1>1. ASSUME NEW id \in Listed PROVE GetIndexOfWebState(id) \in 0..(count - 1)
  BY <1>0, <1>1, IndexOfListed
<1>2. ASSUME NEW ws \in WebStates, NEW force \in BOOLEAN, NEW activate \in BOOLEAN,
             NEW inherit \in BOOLEAN, NEW index \in Int, NEW passed,
             InsertWebState(ws, index, force, activate, inherit, passed)
      PROVE  Kept
  BY <1>0, <1>2, SyncInsert, InsertKeepsOpeners
<1>3. CASE OpenTab
  <2>1. PICK ws \in FreshTabs, activate \in BOOLEAN, inherit \in BOOLEAN,
             opener \in Listed \cup {NoWebState} :
          InsertWebState(ws, kInvalidIndex, FALSE, activate, inherit, opener)
    BY <1>3 DEF OpenTab
  <2>2. ws \in WebStates /\ kInvalidIndex \in Int
    BY <1>0 DEF kInvalidIndex
  <2> QED
    BY <1>2, <2>1, <2>2
<1>4. ASSUME NEW ws \in FreshTabs, NEW index \in 0..count, insertNewItemAtIndex(ws, index)
      PROVE  Kept
  <2>1. ws \in WebStates /\ index \in Int
    BY <1>0
  <2> QED
    BY <1>2, <1>4, <2>1 DEF insertNewItemAtIndex
<1>5. ASSUME NEW id \in Listed, NEW to \in Indices, moveItemWithID(id, to)
      PROVE  Kept
  BY <1>0, <1>1, <1>5, SyncMove, MoveKeepsOpeners DEF moveItemWithID, Indices
<1>6. ASSUME NEW id \in Listed, selectItemWithID(id)
      PROVE  Kept
  <2> DEFINE index == GetIndexOfWebState(id)
  <2>1. index \in 0..(count - 1) /\ ActivateWebStateAt(index)
    BY <1>1, <1>6 DEF selectItemWithID
  <2>2. web_state_wrappers' = web_state_wrappers
    BY <2>1 DEF ActivateWebStateAt
  <2> QED
    BY <1>0, <2>1, <2>2, SyncActivate
<1>7. ASSUME NEW id \in Listed, closeItemWithID(id)
      PROVE  Kept
  BY <1>0, <1>1, <1>7, SyncClose, CloseKeepsOpeners DEF closeItemWithID
<1>8. ASSUME NEW ws \in FreshTabs, NEW index \in Indices, ReplaceWebStateAt(index, ws)
      PROVE  Kept
  BY <1>0, <1>8, SyncReplace, ReplaceKeepsOpeners DEF Indices
<1>9. ASSUME NEW ws \in Listed, NEW n \in NavIndices, CommitNavigation(ws, n)
      PROVE  Kept
  <2>1. /\ web_state_wrappers' = web_state_wrappers /\ active_index' = active_index
        /\ notified' = <<>>
    BY <1>9 DEF CommitNavigation
  <2>2. Row' = Row /\ GetActiveWebState' = GetActiveWebState
    BY <2>1 DEF Row, GetActiveWebState, GetWebStateAt
  <2> QED
    BY <1>0, <2>1, <2>2, SyncWhenNothingShows
<1> QED
  BY <1>3, <1>4, <1>5, <1>6, <1>7, <1>8, <1>9 DEF ListCall

(* "Close all": its start, one tab, its end.                               *)
LEMMA ClosingKeepsGrid ==
  ASSUME ListInv, ListInv', GridInSync, SoundOpeners(web_state_wrappers), ObserveList,
         CloseAllWebStates \/ CloseLastWebState
  PROVE  GridInSync' /\ SoundOpeners(web_state_wrappers')
<1>1. CASE CloseLastWebState /\ count > 0
  <2>1. count - 1 \in 0..(count - 1) /\ CloseWebStateAt(count - 1)
    BY <1>1, ActiveIndexRange DEF CloseLastWebState
  <2> QED
    BY <2>1, SyncClose, CloseKeepsOpeners
<1>2. CASE CloseAllWebStates \/ (CloseLastWebState /\ ~(count > 0))
  <2>1. /\ web_state_wrappers' = web_state_wrappers /\ active_index' = active_index
        /\ notified' = <<>>
    BY <1>2 DEF CloseAllWebStates, CloseLastWebState
  <2>2. Row' = Row /\ GetActiveWebState' = GetActiveWebState
    BY <2>1 DEF Row, GetActiveWebState, GetWebStateAt
  <2> QED
    BY <2>1, <2>2, SyncWhenNothingShows
<1> QED
  BY <1>1, <1>2

(* What saveAndCloseAllItems serializes describes the list.                *)
LEMMA SerializedWindowDescribes ==
  ASSUME ListInv, SoundOpeners(web_state_wrappers)
  PROVE  Describes(SerializeWebStateList,
                   [wrappers |-> web_state_wrappers, active |-> active_index])
<1> DEFINE s == web_state_wrappers
           list == [wrappers |-> s, active |-> active_index]
           f == [k \in 1..count |->
                  [id |-> s[k].ws, opener_index |-> GetIndexOfWebState(s[k].opener),
                   opener_nav |-> s[k].nav]]
<1>0. /\ TypeOK /\ count \in Nat /\ s \in Seq(Wrapper) /\ count = Len(s)
      /\ WellFormed(s) /\ Listed = Ids(s)
  BY ListInvParts, ActiveIndexRange
<1>1. SerializeWebStateList = [sessions |-> f, selected |-> active_index]
  BY DEF SerializeWebStateList
<1>2. SerializeWebStateList.sessions = f /\ SerializeWebStateList.selected = active_index
  BY <1>1
<1>3. list.wrappers = s /\ list.active = active_index
  OBVIOUS
<1>4. Forest(s) /\ \A j, k \in 1..Len(s) : s[j].ws = s[k].ws => j = k
  BY <1>0 DEF SoundOpeners, WellFormed
<1>5. Len(f) = Len(s)
  BY <1>0
<1>6. ASSUME NEW k \in 1..Len(s)
      PROVE  /\ f[k].id = s[k].ws
             /\ f[k].opener_nav = s[k].nav
             /\ IF s[k].opener = NoWebState
                THEN f[k].opener_index = kInvalidIndex /\ s[k].nav = -1
                ELSE /\ f[k].opener_index \in 0..(Len(s) - 1)
                     /\ s[f[k].opener_index + 1].ws = s[k].opener
  <2>1. /\ f[k].id = s[k].ws /\ f[k].opener_nav = s[k].nav
        /\ f[k].opener_index = GetIndexOfWebState(s[k].opener)
    BY <1>0
  <2>2. CASE s[k].opener = NoWebState
    <3>1. NoWebState \notin Listed
      BY <1>0, WrapperFacts
    <3>2. GetIndexOfWebState(s[k].opener) = kInvalidIndex
      BY <2>2, <3>1 DEF GetIndexOfWebState
    <3>3. s[k].nav = -1
      BY <2>2 DEF SoundOpeners
    <3> QED
      BY <2>1, <2>2, <3>2, <3>3
  <2>3. CASE s[k].opener # NoWebState
    <3>1. s[k].opener \in Listed
      BY <1>0, <2>3 DEF WellFormed
    <3>2. /\ GetIndexOfWebState(s[k].opener) \in 0..(count - 1)
          /\ GetWebStateAt(GetIndexOfWebState(s[k].opener)) = s[k].opener
      BY <1>0, <3>1, IndexOfListed
    <3> QED
      BY <1>0, <2>1, <2>3, <3>2 DEF GetWebStateAt
  <2> QED
    BY <2>2, <2>3
<1> HIDE DEF f, list
<1> QED
  BY <1>0, <1>2, <1>3, <1>4, <1>5, <1>6 DEF Describes, list

(* The closed list, as the saved window has it.                            *)
LEMMA ClosedListFacts ==
  ASSUME SavedWindowIsSound, SavedWindowIsClosedList, closedSessionWindow # NoWindow
  PROVE  LET closed == beforeClose.wrappers
             sessions == closedSessionWindow.sessions
         IN  /\ closed \in Seq(Wrapper)
             /\ Len(closed) \in Nat
             /\ Len(sessions) = Len(closed)
             /\ closedSessionWindow.selected = beforeClose.active
             /\ closedSessionWindow.selected \in Int
             /\ Forest(closed)
             /\ \A k \in 1..Len(closed) :
                  /\ closed[k] \in Wrapper
                  /\ sessions[k].id = closed[k].ws
                  /\ sessions[k].opener_nav = closed[k].nav
                  /\ IF closed[k].opener = NoWebState
                     THEN sessions[k].opener_index = kInvalidIndex /\ closed[k].nav = -1
                     ELSE /\ sessions[k].opener_index \in 0..(Len(closed) - 1)
                          /\ closed[sessions[k].opener_index + 1].ws = closed[k].opener
<1>1. Describes(closedSessionWindow, beforeClose)
  BY DEF SavedWindowIsClosedList
<1>2. closedSessionWindow.selected \in Int
  BY SessionFacts
<1> DEFINE closed == beforeClose.wrappers
<1>3. closed \in Seq(Wrapper)
  BY <1>1 DEF Describes
<1> HIDE DEF closed
<1>4. Len(closed) \in Nat /\ \A k \in 1..Len(closed) : closed[k] \in Wrapper
  BY <1>3, LenProperties, ElementOfSeq
<1> QED
  BY <1>1, <1>2, <1>3, <1>4 DEF Describes, closed

(* The first loop of a restore appends a closed tab as an orphan.          *)
LEMMA AppendKeepsGrid ==
  ASSUME GridIndInv, GridInv, ListInv', AppendRestoredWebState
  PROVE  /\ GridInSync' /\ SoundOpeners(web_state_wrappers')
         /\ SavedWindowIsClosedList' /\ RestoredTabsAreClosedTabs'
<1> DEFINE k == count - restore.old_count
           n == Len(closedSessionWindow.sessions)
           s == web_state_wrappers
           closed == beforeClose.wrappers
           old == restore.old_count
<1>0. /\ ListInv /\ SavedWindowIsSound /\ RestoreStaysInBounds
      /\ GridInSync /\ SoundOpeners(s) /\ SavedWindowIsClosedList
      /\ RestoredTabsAreClosedTabs
      /\ restore.loop = "append" /\ closedSessionWindow # NoWindow
      /\ closedSessionWindow' = closedSessionWindow /\ beforeClose' = beforeClose
  BY GridInvParts DEF GridIndInv, AppendRestoredWebState, RestoreStaysInBounds
<1>1. /\ restore \in [loop : {"none", "append", "openers"}, old_count : Nat, index : Nat]
      /\ restore.index \in old..count
      /\ count <= old + n
      /\ n \in Nat /\ Len(closed) = n /\ count \in Nat /\ count = Len(s)
      /\ s \in Seq(Wrapper)
  BY <1>0, ClosedListFacts, ActiveIndexRange DEF RestoreStaysInBounds
<1>2. SavedWindowIsClosedList'
  BY <1>0 DEF SavedWindowIsClosedList
<1>3. /\ restore.index = old
      /\ \A m \in 1..old :
           s[m].opener = NoWebState \/ \E j \in 1..old : s[j].ws = s[m].opener
      /\ \A m \in (old + 1)..count :
           s[m] = IF m <= restore.index THEN closed[m - old] ELSE Orphan(closed[m - old])
  BY <1>0 DEF RestoredTabsAreClosedTabs, Orphan
<1>4. CASE k < n
  <2> DEFINE ws == closedSessionWindow.sessions[k + 1].id
             e == Orphan(closed[k + 1])
             t == InsertAt(s, count + 1, e)
  <2>1. k \in 0..(n - 1) /\ k + 1 \in 1..n /\ count \in Int
    <3>1. k \in Nat /\ n \in Nat /\ count \in Int
      BY <1>1
    <3> HIDE DEF n, k
    <3> QED
      BY <1>4, <3>1
  <2>2. ws = closed[k + 1].ws /\ ws \in WebStates /\ e \in Wrapper
    <3>1. ws = closed[k + 1].ws /\ closed[k + 1] \in Wrapper
      BY <1>0, <1>1, <2>1, ClosedListFacts
    <3> QED
      BY <3>1 DEF Wrapper, Orphan
  <2>3. /\ InsertWebState(ws, count, TRUE, FALSE, FALSE, NoWebState)
        /\ ObserveList /\ restore' = restore
    BY <1>4 DEF AppendRestoredWebState
  <2>4. web_state_wrappers' = t
    <3>1. web_state_wrappers' =
            InsertAt(s, count + 1,
                     [ws |-> ws, opener |-> NoWebState,
                      nav |-> NavigationIndexFromWebState(NoWebState)])
      BY <2>3 DEF InsertWebState, InsertionIndex
    <3> HIDE DEF ws
    <3> QED
      BY <2>2, <3>1 DEF NavigationIndexFromWebState, Orphan
  <2>5. GridInSync' /\ SoundOpeners(web_state_wrappers')
    <3> HIDE DEF ws
    <3> QED
      BY <1>0, <2>1, <2>2, <2>3, SyncInsert, InsertKeepsOpeners
  <2> HIDE DEF ws, e
  <2>6. /\ Len(t) = count + 1 /\ t[count + 1] = e
        /\ \A m \in 1..count : t[m] = s[m]
    <3> DEFINE i == count + 1
    <3>1. i \in 1..(Len(s) + 1)
      BY <1>1
    <3> HIDE DEF i
    <3>2. /\ Len(InsertAt(s, i, e)) = Len(s) + 1
          /\ \A m \in 1..(Len(s) + 1) :
               InsertAt(s, i, e)[m] = IF m < i THEN s[m] ELSE IF m = i THEN e ELSE s[m - 1]
      <4>1. s \in Seq(Wrapper) /\ e \in Wrapper
        BY <1>1, <2>2
      <4> QED
        BY <3>1, <4>1, InsertAtProperties
    <3>3. t = InsertAt(s, i, e)
      BY DEF i
    <3>4. count \in Nat /\ Len(s) = count /\ i = count + 1
      BY <1>1 DEF i
    <3> HIDE DEF t, s
    <3>5. \A m \in 1..count : m \in 1..(Len(s) + 1) /\ m < i
      BY <3>4
    <3>6. ~(i < i)
      BY <3>4
    <3> QED
      BY <3>1, <3>2, <3>3, <3>4, <3>5, <3>6
  <2> HIDE DEF t
  <2>7. \A m \in 1..old :
          t[m].opener = NoWebState \/ \E j \in 1..old : t[j].ws = t[m].opener
    <3>1. \A m \in 1..old : t[m] = s[m]
      BY <1>1, <2>6
    <3> QED
      BY <1>3, <3>1
  <2>8. \A m \in (old + 1)..(count + 1) :
          t[m] = IF m <= restore.index THEN closed[m - old] ELSE Orphan(closed[m - old])
    <3> SUFFICES ASSUME NEW m \in (old + 1)..(count + 1)
                 PROVE  t[m] = IF m <= restore.index THEN closed[m - old]
                               ELSE Orphan(closed[m - old])
      OBVIOUS
    <3>1. CASE m = count + 1
      <4>1. m - old = k + 1 /\ ~(m <= restore.index)
        BY <1>1, <1>3, <3>1
      <4> QED
        BY <2>6, <3>1, <4>1 DEF e
    <3>2. CASE m # count + 1
      <4>1. m \in (old + 1)..count /\ m \in 1..count
        BY <1>1, <3>2
      <4> QED
        BY <1>3, <2>6, <4>1
    <3> QED
      BY <3>1, <3>2
  <2>9. RestoredTabsAreClosedTabs'
    <3>1. count' = count + 1
      BY <2>4, <2>6 DEF count
    <3> QED
      BY <1>0, <1>3, <2>3, <2>4, <2>7, <2>8, <3>1 DEF RestoredTabsAreClosedTabs, Orphan
  <2> QED
    BY <1>2, <2>5, <2>9
<1>5. CASE ~(k < n)
  <2>1. /\ restore' = [restore EXCEPT !.loop = "openers"]
        /\ UNCHANGED listVars /\ UNCHANGED <<items, selectedItemID>>
    BY <1>5 DEF AppendRestoredWebState, listAndGrid
  <2>2. web_state_wrappers' = web_state_wrappers /\ count' = count
    BY <2>1 DEF listVars, count
  <2>3. /\ restore'.loop = "openers" /\ restore'.old_count = restore.old_count
        /\ restore'.index = restore.index
    BY <1>1, <2>1
  <2>4. RestoredTabsAreClosedTabs'
    BY <1>0, <1>3, <2>2, <2>3 DEF RestoredTabsAreClosedTabs, Orphan
  <2> QED
    BY <1>0, <1>2, <2>1, <2>2, <2>4, SyncWhenUnchanged
<1> QED
  BY <1>4, <1>5

(* A restored wrapper: with the opener and the page that were saved, it is  *)
(* the one that was closed.                                                 *)
LEMMA RestoredWrapper ==
  ASSUME NEW w \in Wrapper
  PROVE  /\ [Orphan(w) EXCEPT !.opener = w.opener, !.nav = w.nav] = w
         /\ w.opener = NoWebState /\ w.nav = -1 => Orphan(w) = w
<1>1. w = [ws |-> w.ws, opener |-> w.opener, nav |-> w.nav]
  BY DEF Wrapper
<1> DEFINE o == Orphan(w)
           r == [o EXCEPT !.opener = w.opener, !.nav = w.nav]
<1>2. o \in Wrapper /\ o.ws = w.ws
  BY DEF Orphan, Wrapper
<1> HIDE DEF o
<1>3. r \in Wrapper /\ r.ws = w.ws /\ r.opener = w.opener /\ r.nav = w.nav
  BY <1>2 DEF Wrapper
<1> HIDE DEF r
<1>4. r = [ws |-> r.ws, opener |-> r.opener, nav |-> r.nav]
  BY <1>3 DEF Wrapper
<1>5. r = w
  BY <1>1, <1>3, <1>4, Zenon
<1>6. w.opener = NoWebState /\ w.nav = -1 => Orphan(w) = w
  BY <1>1, Zenon DEF Orphan
<1> QED
  BY <1>5, <1>6, Zenon DEF r, o

(* The second loop makes one orphan the tab that was closed.               *)
LEMMA RestoreOpenerKeepsGrid ==
  ASSUME GridIndInv, GridInv, ListInv', RestoreOpener
  PROVE  /\ GridInSync' /\ SoundOpeners(web_state_wrappers')
         /\ SavedWindowIsClosedList' /\ RestoredTabsAreClosedTabs'
<1> DEFINE old == restore.old_count
           index == restore.index
           k == index - old + 1
           i == index + 1
           session == closedSessionWindow.sessions[k]
           opener_index == session.opener_index + old
           s == web_state_wrappers
           t == web_state_wrappers'
           closed == beforeClose.wrappers
           n == Len(closed)
<1>0. /\ ListInv /\ SavedWindowIsSound /\ RestoreStaysInBounds
      /\ GridInSync /\ SoundOpeners(s) /\ SavedWindowIsClosedList
      /\ RestoredTabsAreClosedTabs
      /\ restore.loop = "openers" /\ closedSessionWindow # NoWindow
      /\ index < count
      /\ restore' = [restore EXCEPT !.index = @ + 1]
      /\ closedSessionWindow' = closedSessionWindow /\ beforeClose' = beforeClose
  BY GridInvParts DEF GridIndInv, RestoreOpener, RestoreStaysInBounds
<1>1. /\ restore \in [loop : {"none", "append", "openers"}, old_count : Nat, index : Nat]
      /\ index \in old..count
      /\ count = old + n
      /\ n \in Nat /\ count \in Nat /\ count = Len(s)
      /\ s \in Seq(Wrapper)
  BY <1>0, ClosedListFacts, ActiveIndexRange DEF RestoreStaysInBounds
<1>2. SavedWindowIsClosedList'
  BY <1>0 DEF SavedWindowIsClosedList
<1>3. /\ \A m \in 1..old :
           s[m].opener = NoWebState \/ \E j \in 1..old : s[j].ws = s[m].opener
      /\ \A m \in (old + 1)..count :
           s[m] = IF m <= index THEN closed[m - old] ELSE Orphan(closed[m - old])
  BY <1>0 DEF RestoredTabsAreClosedTabs, Orphan
<1>4. old \in Nat /\ index \in Nat /\ index \in 0..(count - 1)
      /\ k \in 1..n /\ i \in (old + 1)..count /\ i \in 1..count /\ i - old = k /\ ~(i <= index)
  <2>1. old \in Nat /\ index \in Nat /\ index < count
    BY <1>0, <1>1
  <2>2. index >= old /\ count = old + n /\ n \in Nat /\ count \in Nat
    BY <1>1
  <2> HIDE DEF old, n, index
  <2> QED
    BY <2>1, <2>2
<1>5. /\ \A m \in 1..n : closed[m] \in Wrapper
      /\ \A m \in 1..n : closed[m].opener = NoWebState
                          \/ \E j \in 1..n : closed[j].ws = closed[m].opener
      /\ Forest(closed)
  <2>1. /\ Forest(closed)
        /\ \A m \in 1..n :
             /\ closed[m] \in Wrapper
             /\ closed[m].opener # NoWebState =>
                  LET j == closedSessionWindow.sessions[m].opener_index
                  IN  j \in 0..(n - 1) /\ closed[j + 1].ws = closed[m].opener
    BY <1>0, ClosedListFacts
  <2>2. \A j \in 0..(n - 1) : j + 1 \in 1..n
    BY <1>1
  <2> QED
    BY <2>1, <2>2
<1>6. /\ closed[k] \in Wrapper
      /\ session.opener_nav = closed[k].nav
      /\ IF closed[k].opener = NoWebState
         THEN session.opener_index = kInvalidIndex /\ closed[k].nav = -1
         ELSE /\ session.opener_index \in 0..(n - 1)
              /\ closed[session.opener_index + 1].ws = closed[k].opener
  BY <1>0, <1>4, ClosedListFacts
<1>7. s[i] = Orphan(closed[k])
  BY <1>3, <1>4
<1>8. /\ \A m \in 1..count : m # i => t[m] = s[m]
      /\ t[i] = closed[k]
      /\ Len(t) = Len(s)
      /\ GridInSync'
  <2>1. CASE closed[k].opener = NoWebState
    <3>1. session.opener_index = kInvalidIndex /\ closed[k].nav = -1
      BY <1>6, <2>1
    <3>2. UNCHANGED listVars /\ UNCHANGED <<items, selectedItemID>>
      BY <3>1 DEF RestoreOpener, listAndGrid
    <3>3. t = s
      BY <3>2 DEF listVars
    <3>4. GridInSync'
      BY <1>0, <3>2, SyncWhenUnchanged
    <3>5. s[i] = closed[k]
      BY <1>6, <1>7, <2>1, <3>1, RestoredWrapper
    <3> QED
      BY <3>3, <3>4, <3>5
  <2>2. CASE closed[k].opener # NoWebState
    <3> DEFINE oi == session.opener_index
    <3>1. /\ oi \in 0..(n - 1) /\ closed[oi + 1].ws = closed[k].opener
          /\ session.opener_nav = closed[k].nav
      BY <1>6, <2>2
    <3>2. /\ oi # kInvalidIndex /\ oi + old \in old..(count - 1)
          /\ (oi + old) + 1 \in (old + 1)..count
          /\ ((oi + old) + 1) - old = oi + 1 /\ oi + 1 \in 1..n
      <4>1. oi \in 0..(n - 1) /\ n \in Nat /\ old \in Nat /\ count = old + n
        BY <1>1, <1>4, <3>1
      <4> HIDE DEF oi, n, old
      <4> QED
        BY <4>1 DEF kInvalidIndex
    <3>3. /\ SetOpenerOfWebStateAt(index, GetWebStateAt(oi + old), session.opener_nav)
          /\ ObserveList
      BY <3>2 DEF RestoreOpener, RestoredOpenerIndex
    <3>4. GetWebStateAt(oi + old) = closed[k].opener
      <4> HIDE DEF oi
      <4>1. s[(oi + old) + 1].ws = closed[oi + 1].ws
        <5>1. \/ s[(oi + old) + 1] = closed[oi + 1]
              \/ s[(oi + old) + 1] = Orphan(closed[oi + 1])
          BY <1>3, <3>2
        <5> QED
          BY <5>1 DEF Orphan
      <4> QED
        BY <3>1, <4>1 DEF GetWebStateAt
    <3> HIDE DEF oi, session, k
    <3>5. SetOpenerOfWebStateAt(index, closed[k].opener, closed[k].nav)
      BY <3>1, <3>3, <3>4
    <3> DEFINE e == [s[i] EXCEPT !.opener = closed[k].opener, !.nav = closed[k].nav]
    <3>6. e = closed[k]
      BY <1>6, <1>7, RestoredWrapper
    <3>7. t = [s EXCEPT ![i] = e] /\ notified' = <<>>
      BY <1>1, <1>4, <3>5, LenProperties DEF SetOpenerOfWebStateAt
    <3> HIDE DEF e, i
    <3>8. DOMAIN s = 1..count
      BY <1>1, LenProperties
    <3>9. /\ \A m \in 1..count : m # i => t[m] = s[m]
          /\ t[i] = e /\ DOMAIN t = 1..count
      BY <1>4, <3>7, <3>8
    <3>10. Len(t) = Len(s)
      BY <1>1, <3>9, ListInvParts, LenProperties DEF WellFormed
    <3>11. Row' = Row /\ GetActiveWebState' = GetActiveWebState
      BY <1>0, <1>4, <3>5, SetOpenerShowsNothing
    <3>12. GridInSync'
      BY <1>0, <3>3, <3>7, <3>11, SyncWhenNothingShows
    <3> QED
      BY <3>6, <3>9, <3>10, <3>12
  <2> QED
    BY <2>1, <2>2
<1> HIDE DEF k, i
<1>9. /\ \A m \in 1..old : t[m] = s[m]
      /\ \A m \in (old + 1)..count :
           t[m] = IF m <= index + 1 THEN closed[m - old] ELSE Orphan(closed[m - old])
  <2>1. ASSUME NEW m \in 1..old PROVE t[m] = s[m]
    <3>1. m \in 1..count /\ m # i
      BY <1>1, <1>4
    <3> QED
      BY <1>8, <3>1
  <2>2. ASSUME NEW m \in (old + 1)..count
        PROVE  t[m] = IF m <= index + 1 THEN closed[m - old] ELSE Orphan(closed[m - old])
    <3>1. CASE m = i
      <4>1. m <= index + 1 /\ m - old = k
        BY <1>4, <3>1 DEF i
      <4> QED
        BY <1>8, <3>1, <4>1
    <3>2. CASE m # i
      <4>1. old \in Nat /\ index \in Nat /\ count \in Nat /\ m # index + 1
        BY <1>1, <1>4, <3>2 DEF i
      <4>2. m \in Nat /\ m >= 1 /\ m <= count
        BY <4>1
      <4>3. m <= index + 1 <=> m <= index
        <5> HIDE DEF old, index
        <5> QED
          BY <4>1, <4>2
      <4> QED
        BY <1>3, <1>8, <3>2, <4>2, <4>3
    <3> QED
      BY <3>1, <3>2
  <2> QED
    BY <2>1, <2>2
<1>10. SoundOpeners(t)
  <2>1. \A m \in (old + 1)..Len(t) :
          /\ t[m].ws = closed[m - old].ws
          /\ t[m].opener \in {closed[m - old].opener, NoWebState}
    <3>1. Len(t) = count
      BY <1>1, <1>8
    <3>2. \A w : Orphan(w).ws = w.ws /\ Orphan(w).opener = NoWebState
      BY DEF Orphan
    <3>3. \A m \in (old + 1)..count :
            t[m] = closed[m - old] \/ t[m] = Orphan(closed[m - old])
      BY <1>9
    <3> HIDE DEF old, t, closed
    <3> QED
      BY <3>1, <3>2, <3>3
  <2>2. WellFormed(t)
    BY ListInvParts
  <2>3. Forest(s)
    BY <1>0 DEF SoundOpeners
  <2>4. Len(t) = old + Len(closed) /\ Len(s) = Len(t) /\ Len(closed) \in Nat /\ old \in Nat
    BY <1>1, <1>4, <1>8
  <2>5. \A m \in 1..old : s[m] = t[m]
    BY <1>9
  <2>6. Forest(t)
    <3> HIDE DEF s, t, closed, old
    <3> QED
      BY <1>5, <2>1, <2>2, <2>3, <2>4, <2>5, RestoredForest DEF n
  <2>7. ASSUME NEW m \in 1..Len(t), t[m].opener = NoWebState
        PROVE  t[m].nav = -1
    <3>1. m \in 1..count /\ m \in 1..Len(s)
      BY <1>1, <1>8
    <3>2. CASE m = i
      <4>1. closed[k].opener = NoWebState
        BY <1>8, <2>7, <3>2
      <4>2. closed[k].nav = -1
        BY <1>6, <4>1
      <4> QED
        BY <1>8, <3>2, <4>2
    <3>3. CASE m # i
      BY <1>0, <1>8, <2>7, <3>1, <3>3 DEF SoundOpeners
    <3> QED
      BY <3>2, <3>3
  <2> QED
    BY <2>6, <2>7 DEF SoundOpeners
<1>11. RestoredTabsAreClosedTabs'
  <2>1. /\ restore'.loop = "openers" /\ restore'.old_count = old
        /\ restore'.index = index + 1
    BY <1>0, <1>1
  <2>2. count' = count
    BY <1>1, <1>8 DEF count
  <2>3. \A m \in 1..old :
           t[m].opener = NoWebState \/ \E j \in 1..old : t[j].ws = t[m].opener
    BY <1>3, <1>9
  <2> QED
    BY <1>0, <1>9, <2>1, <2>2, <2>3 DEF RestoredTabsAreClosedTabs, Orphan
<1> QED
  BY <1>2, <1>8, <1>10, <1>11

(* At the end of a restore the last tabs are the closed ones.              *)
LEMMA FinishUndoFacts ==
  ASSUME GridIndInv, GridInv, FinishUndo
  PROVE  LET closed == beforeClose.wrappers
         IN  /\ closed \in Seq(Wrapper) /\ Len(closed) \in Nat
             /\ restore.old_count \in Nat /\ count = restore.old_count + Len(closed)
             /\ \A k \in 1..Len(closed) :
                  web_state_wrappers[restore.old_count + k] = closed[k]
             /\ closedSessionWindow.selected = beforeClose.active
             /\ closedSessionWindow.selected \in Int
             /\ web_state_wrappers' = web_state_wrappers
             /\ active_index' = IF beforeClose.active # kInvalidIndex
                                THEN restore.old_count + beforeClose.active
                                ELSE active_index
<1> DEFINE closed == beforeClose.wrappers
           old == restore.old_count
<1>0. /\ ListInv /\ SavedWindowIsSound /\ RestoreStaysInBounds
      /\ SavedWindowIsClosedList /\ RestoredTabsAreClosedTabs
      /\ restore.loop = "openers" /\ closedSessionWindow # NoWindow
      /\ restore.index >= count
  BY GridInvParts DEF GridIndInv, FinishUndo, RestoreStaysInBounds
<1>1. /\ closed \in Seq(Wrapper) /\ Len(closed) \in Nat
      /\ Len(closedSessionWindow.sessions) = Len(closed)
      /\ closedSessionWindow.selected = beforeClose.active
      /\ closedSessionWindow.selected \in Int
  BY <1>0, ClosedListFacts
<1>2. /\ old \in Nat /\ restore.index \in old..count
      /\ count = old + Len(closed) /\ count \in Nat
  BY <1>0, <1>1, ActiveIndexRange DEF RestoreStaysInBounds
<1>3. \A m \in (old + 1)..count :
        web_state_wrappers[m] = IF m <= restore.index THEN closed[m - old]
                                ELSE Orphan(closed[m - old])
  BY <1>0 DEF RestoredTabsAreClosedTabs, Orphan
<1>4. ASSUME NEW k \in 1..Len(closed)
      PROVE  web_state_wrappers[old + k] = closed[k]
  <2>1. old + k \in (old + 1)..count /\ old + k <= restore.index /\ (old + k) - old = k
    <3>1. restore.index >= count /\ restore.index \in Int /\ k \in Nat /\ k >= 1 /\ k <= Len(closed)
      BY <1>0, <1>1, <1>2
    <3>2. old \in Nat /\ Len(closed) \in Nat /\ count = old + Len(closed)
      BY <1>1, <1>2
    <3> HIDE DEF old, closed
    <3> QED
      BY <3>1, <3>2
  <2> QED
    BY <1>3, <2>1
<1>5. /\ web_state_wrappers' = web_state_wrappers
      /\ active_index' = IF beforeClose.active # kInvalidIndex
                         THEN old + beforeClose.active ELSE active_index
  <2>1. CASE closedSessionWindow.selected # kInvalidIndex
    <3>1. ActivateWebStateAt(old + closedSessionWindow.selected)
      BY <2>1 DEF FinishUndo
    <3> QED
      BY <1>1, <2>1, <3>1 DEF ActivateWebStateAt
  <2>2. CASE closedSessionWindow.selected = kInvalidIndex
    <3>1. UNCHANGED listVars
      BY <2>2 DEF FinishUndo, listAndGrid
    <3> QED
      BY <1>1, <2>2, <3>1 DEF listVars
  <2> QED
    BY <2>1, <2>2
<1> QED
  BY <1>1, <1>2, <1>4, <1>5

(* The end of a restore.                                                   *)
LEMMA FinishUndoKeepsGrid ==
  ASSUME GridIndInv, GridInv, ListInv', FinishUndo
  PROVE  /\ GridInSync' /\ SoundOpeners(web_state_wrappers')
         /\ SavedWindowIsClosedList' /\ RestoredTabsAreClosedTabs'
<1>0. /\ ListInv /\ GridInSync /\ SoundOpeners(web_state_wrappers)
      /\ closedSessionWindow' = NoWindow /\ restore' = NotRestoring
      /\ web_state_wrappers' = web_state_wrappers
      /\ restore.old_count \in Nat /\ closedSessionWindow.selected \in Int
  BY GridInvParts, FinishUndoFacts DEF GridIndInv, FinishUndo
<1>1. SavedWindowIsClosedList' /\ RestoredTabsAreClosedTabs'
  BY <1>0 DEF SavedWindowIsClosedList, RestoredTabsAreClosedTabs, NotRestoring
<1>2. GridInSync'
  <2>1. CASE closedSessionWindow.selected # kInvalidIndex
    <3> DEFINE index == restore.old_count + closedSessionWindow.selected
    <3>1. ActivateWebStateAt(index) /\ ObserveList
      BY <2>1 DEF FinishUndo
    <3>2. index \in 0..(count - 1)
      BY <1>0, <3>1, ActiveIndexRange DEF ActivateWebStateAt, ContainsIndex
    <3> HIDE DEF index
    <3> QED
      BY <1>0, <3>1, <3>2, SyncActivate
  <2>2. CASE closedSessionWindow.selected = kInvalidIndex
    <3>1. UNCHANGED listVars /\ UNCHANGED <<items, selectedItemID>>
      BY <2>2 DEF FinishUndo, listAndGrid
    <3> QED
      BY <1>0, <3>1, SyncWhenUnchanged
  <2> QED
    BY <2>1, <2>2
<1> QED
  BY <1>0, <1>1, <1>2

(* Every step of the grid keeps GridInv.                                   *)
LEMMA GridInvNext ==
  ASSUME GridIndInv, GridInv, [GridNext]_vars
  PROVE  GridInv'
<1>0. /\ ListInv /\ GridInSync /\ SoundOpeners(web_state_wrappers)
      /\ SavedWindowIsClosedList /\ RestoredTabsAreClosedTabs /\ RestoreStaysInBounds
  BY GridInvParts DEF GridIndInv
<1>1. ListInv' /\ SavedWindowIsSound' /\ RestoreStaysInBounds'
  BY GridStep DEF GridIndInv
<1> SUFFICES /\ GridInSync' /\ SoundOpeners(web_state_wrappers')
             /\ SavedWindowIsClosedList' /\ RestoredTabsAreClosedTabs'
  BY <1>1, GridInvParts
<1>2. ASSUME restore.loop = "none", restore' = restore
      PROVE  RestoredTabsAreClosedTabs'
  BY <1>2 DEF RestoredTabsAreClosedTabs
<1>3. ASSUME closedSessionWindow' = closedSessionWindow, beforeClose' = beforeClose
      PROVE  SavedWindowIsClosedList'
  BY <1>0, <1>3 DEF SavedWindowIsClosedList
<1>4. CASE ListCall
  <2>1. /\ restore.loop = "none" /\ restore' = restore
        /\ closedSessionWindow' = closedSessionWindow /\ beforeClose' = beforeClose
    BY <1>4 DEF ListCall, Idle
  <2> QED
    BY <1>0, <1>1, <1>2, <1>3, <1>4, <2>1, ListCallKeepsGrid
<1>5. CASE CloseNext
  <2>1. /\ restore.loop = "none" /\ restore' = restore
        /\ CloseLastWebState /\ ObserveList
        /\ closedSessionWindow' = closedSessionWindow /\ beforeClose' = beforeClose
    BY <1>0, <1>5 DEF CloseNext, CloseLastWebState, RestoreStaysInBounds
  <2> QED
    BY <1>0, <1>1, <1>2, <1>3, <2>1, ClosingKeepsGrid
<1>6. CASE closeAllItems
  <2>1. /\ restore.loop = "none" /\ restore' = restore
        /\ CloseAllWebStates /\ ObserveList
        /\ closedSessionWindow' = closedSessionWindow /\ beforeClose' = beforeClose
    BY <1>6 DEF closeAllItems, Idle
  <2> QED
    BY <1>0, <1>1, <1>2, <1>3, <2>1, ClosingKeepsGrid
<1>7. CASE saveAndCloseAllItems
  <2>1. /\ restore.loop = "none" /\ restore' = restore
        /\ CloseAllWebStates /\ ObserveList
        /\ closedSessionWindow' = SerializeWebStateList
        /\ beforeClose' = [wrappers |-> web_state_wrappers, active |-> active_index]
    BY <1>7 DEF saveAndCloseAllItems, Idle
  <2>2. SavedWindowIsClosedList'
    BY <1>0, <2>1, SerializedWindowDescribes DEF SavedWindowIsClosedList
  <2> QED
    BY <1>0, <1>1, <1>2, <2>1, <2>2, ClosingKeepsGrid
<1>8. CASE undoCloseAllItems
  <2>1. /\ UNCHANGED listVars /\ UNCHANGED <<items, selectedItemID>>
        /\ restore' = [loop |-> "append", old_count |-> count, index |-> count]
        /\ closedSessionWindow' = closedSessionWindow /\ beforeClose' = beforeClose
    BY <1>8 DEF undoCloseAllItems, listAndGrid
  <2>2. web_state_wrappers' = web_state_wrappers /\ count' = count /\ count \in Nat
    BY <1>0, <2>1, ActiveIndexRange DEF listVars, count
  <2>3. \A k \in 1..count :
          \/ web_state_wrappers[k].opener = NoWebState
          \/ \E j \in 1..count : web_state_wrappers[j].ws = web_state_wrappers[k].opener
    BY <1>0 DEF ListInv, OpenersInList, Listed
  <2>4. RestoredTabsAreClosedTabs'
    <3>1. (count + 1)..count = {}
      BY <2>2
    <3>2. restore'.loop = "append" /\ restore'.old_count = count /\ restore'.index = count
      BY <2>1
    <3> QED
      BY <2>2, <2>3, <3>1, <3>2 DEF RestoredTabsAreClosedTabs
  <2> QED
    BY <1>0, <1>3, <2>1, <2>2, <2>4, SyncWhenUnchanged
<1>9. CASE discardSavedClosedItems
  <2>1. /\ restore.loop = "none" /\ restore' = restore /\ UNCHANGED listVars
        /\ UNCHANGED <<items, selectedItemID>>
        /\ closedSessionWindow' = NoWindow
    BY <1>9 DEF discardSavedClosedItems, Idle
  <2>2. web_state_wrappers' = web_state_wrappers
    BY <2>1 DEF listVars
  <2>3. SavedWindowIsClosedList'
    BY <2>1 DEF SavedWindowIsClosedList
  <2> QED
    BY <1>0, <1>2, <2>1, <2>2, <2>3, SyncWhenUnchanged
<1>10. CASE AppendRestoredWebState
  BY <1>1, <1>10, AppendKeepsGrid
<1>11. CASE RestoreOpener
  BY <1>1, <1>11, RestoreOpenerKeepsGrid
<1>12. CASE FinishUndo
  BY <1>1, <1>12, FinishUndoKeepsGrid
<1>13. CASE UNCHANGED vars
  <2>1. UNCHANGED listVars /\ UNCHANGED gridVars
    BY <1>13 DEF vars
  <2>2. /\ web_state_wrappers' = web_state_wrappers /\ count' = count /\ restore' = restore
        /\ UNCHANGED <<items, selectedItemID>>
        /\ closedSessionWindow' = closedSessionWindow /\ beforeClose' = beforeClose
    BY <2>1 DEF listVars, gridVars, count
  <2>3. RestoredTabsAreClosedTabs'
    BY <1>0, <2>2 DEF RestoredTabsAreClosedTabs
  <2> QED
    BY <1>0, <1>3, <2>1, <2>2, <2>3, SyncWhenUnchanged
<1> QED
  BY <1>4, <1>5, <1>6, <1>7, <1>8, <1>9, <1>10, <1>11, <1>12, <1>13 DEF GridNext

(* The grid starts empty, like the list.                                   *)
LEMMA GridInvInit == GridInit => GridInv
<1> SUFFICES ASSUME GridInit PROVE GridInv
  OBVIOUS
<1>1. /\ web_state_wrappers = <<>> /\ active_index = kInvalidIndex
      /\ items = <<>> /\ selectedItemID = NoWebState
      /\ closedSessionWindow = NoWindow /\ restore = NotRestoring
  BY DEF GridInit, Init
<1>2. count = 0 /\ 1..count = {}
  BY <1>1 DEF count
<1>3. GridInSync
  <2>1. [k \in 1..count |-> web_state_wrappers[k].ws] = <<>>
    BY <1>2
  <2> QED
    BY <1>1, <2>1 DEF GridInSync, GetActiveWebState
<1>4. OpenersFormForest /\ NoPageWithoutOpener
  BY <1>2 DEF OpenersFormForest, Forest, NoPageWithoutOpener, count
<1>5. /\ SavedWindowIsSound /\ SavedWindowIsClosedList /\ RestoreStaysInBounds
      /\ RestoredTabsAreClosedTabs
  BY <1>1 DEF SavedWindowIsSound, SavedWindowIsClosedList, RestoreStaysInBounds,
              RestoredTabsAreClosedTabs, NotRestoring
<1> QED
  BY <1>3, <1>4, <1>5 DEF GridInv

(* After every notification the grid shows the tabs of the list in their    *)
(* order and the active one selected; no tab is ever its own ancestor; and  *)
(* a restore rebuilds the closed list step by step from what was saved.     *)
THEOREM GridAlwaysInSync == Spec => []GridInv
<1>1. GridInit => GridIndInv /\ GridInv
  BY GridIndInvInit, GridInvInit
<1>2. (GridIndInv /\ GridInv) /\ [GridNext]_vars => (GridIndInv /\ GridInv)'
  BY GridStep, GridInvNext
<1> QED
  BY <1>1, <1>2, PTL DEF Spec

(* Undoing "close all" brings back the tabs, their order, their openers and *)
(* the selection, behind whatever tabs were opened in between.              *)
THEOREM UndoBringsTabsBack == Spec => UndoRestoresClosedTabs
<1> DEFINE n == Len(beforeClose.wrappers)
           old_count == count - n
           Restored == /\ SubSeq(web_state_wrappers', old_count + 1, count') =
                            beforeClose.wrappers
                       /\ active_index' =
                            IF beforeClose.active # kInvalidIndex
                            THEN old_count + beforeClose.active ELSE active_index
<1>1. ASSUME GridIndInv, GridInv, FinishUndo
      PROVE  Restored
  <2> DEFINE closed == beforeClose.wrappers
             old == restore.old_count
             s == web_state_wrappers
  <2>1. /\ closed \in Seq(Wrapper) /\ n \in Nat /\ old \in Nat /\ count = old + n
        /\ \A k \in 1..n : s[old + k] = closed[k]
        /\ web_state_wrappers' = s
        /\ active_index' = IF beforeClose.active # kInvalidIndex
                           THEN old + beforeClose.active ELSE active_index
    BY <1>1, FinishUndoFacts
  <2>2. old_count = old
    BY <2>1
  <2>3. s \in Seq(Wrapper) /\ count = Len(s) /\ count' = count
    BY <1>1, <2>1, ActiveIndexRange DEF GridIndInv, count
  <2> DEFINE r == SubSeq(s, old + 1, count)
  <2>4. r \in Seq(Wrapper) /\ Len(r) = n /\ \A k \in 1..n : r[k] = s[old + k]
    <3> DEFINE m == old + 1
    <3>1. /\ m \in Int /\ count \in Int /\ count - m + 1 = n
          /\ \A k \in 1..n : m + k - 1 = old + k
          /\ (IF m <= count THEN count - m + 1 ELSE 0) = n
          /\ \A l \in m..count : l \in 1..Len(s)
      <4>1. /\ n \in Nat /\ old \in Nat /\ count = old + n /\ Len(s) = count
        BY <2>1, <2>3
      <4> HIDE DEF n, old, s
      <4> QED
        BY <4>1
    <3>2. \A l \in m..count : s[l] \in Wrapper
      BY <2>3, <3>1, ElementOfSeq
    <3> HIDE DEF m
    <3>3. /\ SubSeq(s, m, count) \in Seq(Wrapper)
          /\ Len(SubSeq(s, m, count)) = IF m <= count THEN count - m + 1 ELSE 0
          /\ \A k \in 1..(count - m + 1) : SubSeq(s, m, count)[k] = s[m + k - 1]
      BY <3>1, <3>2, SubSeqProperties
    <3>4. r = SubSeq(s, m, count)
      BY DEF m
    <3> HIDE DEF r
    <3> QED
      BY <3>1, <3>3, <3>4
  <2> HIDE DEF r
  <2>5. r = closed
    <3>1. Len(r) = Len(closed) /\ \A k \in 1..Len(r) : r[k] = closed[k]
      BY <2>1, <2>4
    <3> QED
      BY <2>1, <2>4, <3>1, SeqEqual
  <2> QED
    BY <2>1, <2>2, <2>3, <2>5 DEF r
<1>2. GridIndInv /\ GridInv => (FinishUndo => Restored)
  BY <1>1
<1>3. GridInit => GridIndInv /\ GridInv
  BY GridIndInvInit, GridInvInit
<1>4. (GridIndInv /\ GridInv) /\ [GridNext]_vars => (GridIndInv /\ GridInv)'
  BY GridStep, GridInvNext
<1>5. (GridIndInv /\ GridInv) /\ [GridNext]_vars =>
        [FinishUndo =>
           LET n_1 == Len(beforeClose.wrappers)
               old_1 == count - n_1
           IN  /\ SubSeq(web_state_wrappers', old_1 + 1, count') = beforeClose.wrappers
               /\ active_index' = IF beforeClose.active # kInvalidIndex
                                  THEN old_1 + beforeClose.active
                                  ELSE active_index]_vars
  BY <1>2
<1> QED
  BY <1>3, <1>4, <1>5, PTL DEF Spec, UndoRestoresClosedTabs

=============================================================================
