---------------------------- MODULE WebStateList ----------------------------
(***************************************************************************)
(* The list of tabs of one browser window: WebStateList and the            *)
(* WebStateListOrderController that decides where a tab is inserted and     *)
(* which one is selected when the selected tab goes away                    *)
(* (chrome/browser/web_state_list/).                                        *)
(*                                                                         *)
(* All of it runs on the UI thread.  The public methods are the actions;    *)
(* CloseAllWebStates, which runs the observers once per closed tab, is one  *)
(* action per tab, and nothing else happens until it is done (`call').      *)
(*                                                                         *)
(* Indices are those of the code, from 0; -1 is WebStateList::kInvalidIndex.*)
(***************************************************************************)
EXTENDS Integers, Sequences, FiniteSetsExt, SequencesExt

CONSTANTS
  WebStates,    \* the identities a web::WebState can have
  NoWebState,   \* nullptr
  NavIndices,   \* the values of GetLastCommittedItemIndex()
  MaxTabs       \* bound: InsertWebState is not called on a longer list

ASSUME NoWebStateAssumption == NoWebState \notin WebStates
ASSUME NavIndicesAssumption == NavIndices \subseteq Int /\ -1 \in NavIndices
ASSUME MaxTabsAssumption    == MaxTabs \in Nat

VARIABLES
  web_state_wrappers,  \* sequence of [ws, opener, nav]: WebStateWrapper
  active_index,        \* active_index_
  nav,                 \* each WebState's last committed item index
  call,                \* "none", or the multi-step call that is on the stack
  notified             \* the observer notifications of the latest call

listVars == <<web_state_wrappers, active_index, nav, call, notified>>

kInvalidIndex == -1

Wrapper == [ws : WebStates, opener : WebStates \cup {NoWebState}, nav : NavIndices]

-----------------------------------------------------------------------------
(* Accessors.                                                              *)

count == Len(web_state_wrappers)

ContainsIndex(index) == 0 <= index /\ index < count

GetWebStateAt(index) == web_state_wrappers[index + 1].ws

GetOpenerOfWebStateAt(index) == web_state_wrappers[index + 1].opener

GetActiveWebState ==
  IF active_index # kInvalidIndex THEN GetWebStateAt(active_index) ELSE NoWebState

Listed == {web_state_wrappers[k].ws : k \in 1..count}

GetIndexOfWebState(ws) ==
  IF ws \in Listed
  THEN Min({i \in 0..(count - 1) : GetWebStateAt(i) = ws})
  ELSE kInvalidIndex

WasOpenedBy(index, opener, use_group) ==
  /\ GetOpenerOfWebStateAt(index) = opener
  /\ use_group => web_state_wrappers[index + 1].nav = nav[opener]

(* The WebStates after start_index that `opener' opened.                   *)
OpenedBy(opener, start_index, use_group) ==
  IF opener = NoWebState \/ ~ContainsIndex(start_index)
  THEN {}
  ELSE {i \in (start_index + 1)..(count - 1) : WasOpenedBy(i, opener, use_group)}

GetIndexOfNextWebStateOpenedBy(opener, start_index, use_group) ==
  LET opened == OpenedBy(opener, start_index, use_group)
  IN  IF opened = {} THEN kInvalidIndex ELSE Min(opened)

(* The end of the first contiguous run of them: the loop stops at the first *)
(* WebState of another group once it has found one.                         *)
GetIndexOfLastWebStateOpenedBy(opener, start_index, use_group) ==
  LET opened == OpenedBy(opener, start_index, use_group)
  IN  IF opened = {}
      THEN kInvalidIndex
      ELSE Max({i \in opened : Min(opened)..i \subseteq opened})

-----------------------------------------------------------------------------
(* WebStateListOrderController.                                            *)

DetermineInsertionIndex(opener) ==
  IF opener = NoWebState
  THEN count
  ELSE LET opener_index == GetIndexOfWebState(opener)
           child_index  ==
             GetIndexOfLastWebStateOpenedBy(opener, opener_index, TRUE)
       IN  (IF child_index # kInvalidIndex THEN child_index ELSE opener_index) + 1

(* std::min(0, index - 1), as the code has it.                             *)
GetValidIndex(index, removing_index) ==
  IF removing_index < index THEN Min({0, index - 1}) ELSE index

DetermineNewActiveIndex(removing_index) ==
  LET child   == GetIndexOfNextWebStateOpenedBy(
                   GetWebStateAt(removing_index), removing_index, FALSE)
      opener  == GetOpenerOfWebStateAt(removing_index)
      sibling == GetIndexOfNextWebStateOpenedBy(opener, removing_index, FALSE)
  IN  CASE child # kInvalidIndex -> GetValidIndex(child, removing_index)
        [] child = kInvalidIndex /\ opener # NoWebState ->
             GetValidIndex(IF sibling # kInvalidIndex
                           THEN sibling
                           ELSE GetIndexOfWebState(opener), removing_index)
        [] OTHER ->
             CASE count = 1                      -> kInvalidIndex
               [] count # 1 /\ removing_index >= count - 1 -> removing_index - 1
               [] OTHER                          -> removing_index

-----------------------------------------------------------------------------
(* Notifications.  Each carries what an observer can read when it runs: the *)
(* argument of the callback and the active WebState at that moment.         *)

Notification ==
  [type : {"inserted", "moved", "replaced", "detached", "activated"},
   ws : WebStates \cup {NoWebState}, index : Int,
   old : WebStates \cup {NoWebState}, active : WebStates \cup {NoWebState}]

Inserted(ws, index, active)  == [type |-> "inserted", ws |-> ws, index |-> index,
                                 old |-> NoWebState, active |-> active]
Moved(ws, to_index, active)  == [type |-> "moved", ws |-> ws, index |-> to_index,
                                 old |-> NoWebState, active |-> active]
Replaced(old, ws, index, active) ==
                                [type |-> "replaced", ws |-> ws, index |-> index,
                                 old |-> old, active |-> active]
Detached(ws, index, active)  == [type |-> "detached", ws |-> ws, index |-> index,
                                 old |-> NoWebState, active |-> active]
Activated(old, ws, index)    == [type |-> "activated", ws |-> ws, index |-> index,
                                 old |-> old, active |-> ws]

(* Called once active_index_ and the wrappers have their new values.       *)
NotifyIfActiveWebStateChanged(old_web_state, new_web_state, index) ==
  IF old_web_state = new_web_state
  THEN <<>>
  ELSE <<Activated(old_web_state, new_web_state, index)>>

-----------------------------------------------------------------------------
Init ==
  /\ web_state_wrappers = <<>>
  /\ active_index = kInvalidIndex
  /\ nav \in [WebStates -> NavIndices]
  /\ call = "none"
  /\ notified = <<>>

(* The WebStateOpener(opener) constructor: the opener and the index of the  *)
(* page it was showing.                                                     *)
NavigationIndexFromWebState(ws) == IF ws = NoWebState THEN -1 ELSE nav[ws]

(* Where InsertWebState puts the tab.                                      *)
InsertionIndex(force_index, index, opener) ==
  IF force_index
  THEN index
  ELSE LET i == DetermineInsertionIndex(opener)
       IN  IF i < 0 \/ count < i THEN count ELSE i

(* Mutant: off by one.                                                     *)
ActiveIndexAfterInsertion_strict(at) ==
  IF active_index > at THEN active_index + 1 ELSE active_index

(* active_index_ once a wrapper is inserted at `at'.                       *)
ActiveIndexAfterInsertion(at) ==
  IF active_index >= at THEN active_index + 1 ELSE active_index

(* InsertWebState: the opener passed by the caller is in the list.         *)
InsertWebState(ws, index, force_index, activate, inherit_opener, passed_opener) ==
  LET opener == IF inherit_opener THEN GetActiveWebState ELSE passed_opener
      at     == InsertionIndex(force_index, index, opener)
  IN  /\ ws \notin Listed
      /\ passed_opener \in Listed \cup {NoWebState}
      /\ force_index => index \in 0..count
      /\ web_state_wrappers' =
           InsertAt(web_state_wrappers, at + 1,
                    [ws |-> ws, opener |-> opener,
                     nav |-> NavigationIndexFromWebState(opener)])
      /\ active_index' = IF activate THEN at ELSE ActiveIndexAfterInsertion(at)
      /\ notified' =
           <<Inserted(ws, at, GetActiveWebState)>> \o
           (IF activate
            THEN NotifyIfActiveWebStateChanged(GetActiveWebState, ws, at)
            ELSE <<>>)
      /\ UNCHANGED nav

(* Mutant: forgets to erase the wrapper from its old place.                *)
WrappersAfterMove_copied(from_index, to_index) ==
  InsertAt(web_state_wrappers, to_index + 1, web_state_wrappers[from_index + 1])

(* The wrappers once the one at from_index is at to_index...               *)
WrappersAfterMove(from_index, to_index) ==
  InsertAt(RemoveAt(web_state_wrappers, from_index + 1),
           to_index + 1, web_state_wrappers[from_index + 1])

(* ... and active_index_.                                                  *)
ActiveIndexAfterMove(from_index, to_index) ==
  CASE active_index = from_index -> to_index
    [] active_index # from_index
       /\ Min({from_index, to_index}) <= active_index
       /\ active_index <= Max({from_index, to_index}) ->
         active_index + (IF from_index < to_index THEN -1 ELSE 1)
    [] OTHER -> active_index

MoveWebStateAt(from_index, to_index) ==
  /\ ContainsIndex(from_index)
  /\ ContainsIndex(to_index)
  /\ IF from_index = to_index
     THEN notified' = <<>> /\ UNCHANGED <<web_state_wrappers, active_index>>
     ELSE /\ web_state_wrappers' = WrappersAfterMove(from_index, to_index)
          /\ active_index' = ActiveIndexAfterMove(from_index, to_index)
          /\ notified' = <<Moved(GetWebStateAt(from_index), to_index,
                                 GetActiveWebState)>>
  /\ UNCHANGED nav

(* The wrappers once no opener refers to the WebState at index.            *)
ClearOpenersReferencing(index) ==
  [k \in 1..count |->
     IF web_state_wrappers[k].opener = GetWebStateAt(index)
     THEN [web_state_wrappers[k] EXCEPT !.opener = NoWebState, !.nav = -1]
     ELSE web_state_wrappers[k]]

ReplaceWebStateAt(index, ws) ==
  LET old == GetWebStateAt(index)
      new_active == IF active_index = index THEN ws ELSE GetActiveWebState
  IN  /\ ContainsIndex(index)
      /\ ws \notin Listed
      /\ web_state_wrappers' =
           [ClearOpenersReferencing(index) EXCEPT
              ![index + 1] = [ws |-> ws, opener |-> NoWebState, nav |-> -1]]
      /\ notified' = <<Replaced(old, ws, index, new_active)>> \o
           NotifyIfActiveWebStateChanged(old, new_active, active_index)
      /\ UNCHANGED <<active_index, nav>>

(* Mutant: the selection moves to the left, also at the left end.          *)
ActiveIndexAfterDetach_previous(index) ==
  IF active_index >= index THEN active_index - 1 ELSE active_index

(* active_index_ once the wrapper at index is erased.                      *)
ActiveIndexAfterDetach(index) ==
  CASE active_index > index -> active_index - 1
    [] active_index = index -> DetermineNewActiveIndex(index)
    [] OTHER -> active_index

DetachWebStateAt(index) ==
  /\ ContainsIndex(index)
  /\ web_state_wrappers' = RemoveAt(ClearOpenersReferencing(index), index + 1)
  /\ active_index' = ActiveIndexAfterDetach(index)
  /\ LET ws == GetWebStateAt(index)
         new_active == GetActiveWebState'
     IN  notified' = <<Detached(ws, index, new_active)>> \o
           (IF active_index = index
            THEN NotifyIfActiveWebStateChanged(ws, new_active, active_index')
            ELSE <<>>)
  /\ UNCHANGED nav

(* CloseWebStateAt: nothing of the list changes after the detach.          *)
CloseWebStateAt(index) == DetachWebStateAt(index)

CloseAllWebStates ==
  /\ call = "none"
  /\ call' = "close_all"
  /\ notified' = <<>>
  /\ UNCHANGED <<web_state_wrappers, active_index, nav>>

(* One round of the loop: while (!empty()) CloseWebStateAt(count() - 1).   *)
CloseLastWebState ==
  /\ call = "close_all"
  /\ IF count > 0
     THEN CloseWebStateAt(count - 1) /\ UNCHANGED call
     ELSE /\ call' = "none"
          /\ notified' = <<>>
          /\ UNCHANGED <<web_state_wrappers, active_index, nav>>

ActivateWebStateAt(index) ==
  /\ ContainsIndex(index)
  /\ active_index' = index
  /\ notified' = NotifyIfActiveWebStateChanged(
                   GetActiveWebState, GetWebStateAt(index), index)
  /\ UNCHANGED <<web_state_wrappers, nav>>

SetOpenerOfWebStateAt(index, opener, navigation_index) ==
  /\ ContainsIndex(index)
  /\ opener \in Listed
  /\ web_state_wrappers' = [web_state_wrappers EXCEPT
       ![index + 1].opener = opener, ![index + 1].nav = navigation_index]
  /\ notified' = <<>>
  /\ UNCHANGED <<active_index, nav>>

(* A page of a tab commits a navigation, or goes back: the navigation       *)
(* manager's business, which the list reads when it groups tabs.            *)
CommitNavigation(ws, index) ==
  /\ nav' = [nav EXCEPT ![ws] = index]
  /\ notified' = <<>>
  /\ UNCHANGED <<web_state_wrappers, active_index>>

-----------------------------------------------------------------------------
(* The calls a client can make: none while CloseAllWebStates runs, and none *)
(* that makes a tab its own opener.                                         *)
Insert ==
  \E ws \in WebStates, force, activate, inherit \in BOOLEAN :
    \E opener \in Listed \cup {NoWebState} :
      \E index \in IF force THEN 0..count ELSE {kInvalidIndex} :
        InsertWebState(ws, index, force, activate, inherit, opener)

Indices == 0..(count - 1)

ListNext ==
  \/ /\ call = "none"
     /\ \/ count < MaxTabs /\ Insert
        \/ \E from, to \in Indices : MoveWebStateAt(from, to)
        \/ \E index \in Indices, ws \in WebStates : ReplaceWebStateAt(index, ws)
        \/ \E index \in Indices : CloseWebStateAt(index)
        \/ \E index \in Indices : ActivateWebStateAt(index)
        \/ \E index \in Indices, n \in NavIndices :
             \E opener \in Listed \ {GetWebStateAt(index)} :
               SetOpenerOfWebStateAt(index, opener, n)
        \/ \E ws \in WebStates, n \in NavIndices : CommitNavigation(ws, n)
     /\ UNCHANGED call
  \/ CloseAllWebStates
  \/ CloseLastWebState

ListSpec == Init /\ [][ListNext]_listVars

-----------------------------------------------------------------------------
(* Properties.                                                             *)

(* Every variable has its type; in particular each wrapper records an       *)
(* opener that is a WebState or null.                                       *)
TypeOK ==
  /\ web_state_wrappers \in Seq(Wrapper)
  /\ active_index \in Int
  /\ nav \in [WebStates -> NavIndices]
  /\ call \in {"none", "close_all"}
  /\ notified \in Seq(Notification)

(* The active index is kInvalidIndex or the index of a tab, whatever the    *)
(* order controller answered when the active tab was detached.              *)
ActiveIndexValid == active_index = kInvalidIndex \/ ContainsIndex(active_index)

(* Every opener is a WebState of the list: detaching or replacing a tab     *)
(* clears every reference to it, so an opener pointer never dangles.        *)
OpenersInList ==
  \A k \in 1..count :
    web_state_wrappers[k].opener # NoWebState =>
      web_state_wrappers[k].opener \in Listed

(* The list never holds a WebState twice.                                  *)
NoDuplicates ==
  \A j, k \in 1..count :
    web_state_wrappers[j].ws = web_state_wrappers[k].ws => j = k

(* No tab is recorded as its own opener: DetermineNewActiveIndex falls back *)
(* to the opener of the tab that goes away.                                 *)
NoSelfOpener ==
  \A k \in 1..count : web_state_wrappers[k].opener # web_state_wrappers[k].ws

(* The inductive invariant: the order controller's answers stay in the list *)
(* because openers are in it and are other tabs.                            *)
ListInv ==
  /\ TypeOK
  /\ ActiveIndexValid
  /\ OpenersInList
  /\ NoDuplicates
  /\ NoSelfOpener

(* The list implements a row of tabs: no index arithmetic, no cleared       *)
(* opener and no answer of the order controller shows, each call changes    *)
(* one tab, a selected tab stays selected until it is closed or another is  *)
(* activated, and closing it selects one of the others if there is one.     *)
Strip == INSTANCE TabStrip
           WITH Tabs <- WebStates, NoTab <- NoWebState,
                tabs <- [k \in 1..count |-> web_state_wrappers[k].ws],
                selected <- GetActiveWebState
ImplementsTabStrip == Strip!StripSpec

(* The active WebState changes only with a WebStateActivatedAt notification *)
(* that names the old and the new one; in particular no move, no insertion  *)
(* and no closing of another tab silently shifts the selection.             *)
ActiveChangesAreNotified ==
  [][GetActiveWebState' # GetActiveWebState =>
       \E k \in DOMAIN notified' :
         /\ notified'[k].type = "activated"
         /\ notified'[k].old = GetActiveWebState
         /\ notified'[k].ws = GetActiveWebState']_listVars

(* What the order controller's comment promises: when the active tab is     *)
(* closed and a later tab was opened by it, that tab is selected.           *)
ClosingSelectsFirstChild ==
  [][LET closed == GetActiveWebState
         child  == GetIndexOfNextWebStateOpenedBy(closed, active_index, FALSE)
     IN  count' = count - 1 /\ closed \notin Listed' /\ child # kInvalidIndex
           => GetActiveWebState' = GetWebStateAt(child)]_listVars

=============================================================================
