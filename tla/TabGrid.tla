------------------------------ MODULE TabGrid ------------------------------
(***************************************************************************)
(* A WebStateList as the tab grid uses it: TabGridMediator observes the     *)
(* list and keeps the items of GridViewController in step with it, sends    *)
(* the grid's commands to the list by tab identifier, and implements "close *)
(* all" with undo by serializing the list and restoring it                  *)
(* (chrome/browser/ui/tab_grid/, web_state_list_serialization.mm).          *)
(*                                                                         *)
(* A WebState and its tab identifier are one model value: TabIdTabHelper    *)
(* keeps the identifier in the session storage, so a restored WebState has  *)
(* the identifier of the one that was serialized.                           *)
(***************************************************************************)
EXTENDS WebStateList

CONSTANT NoWindow   \* nil

VARIABLES
  items,                \* GridViewController.items
  selectedItemID,       \* GridViewController.selectedItemID
  closedSessionWindow,  \* TabGridMediator.closedSessionWindow
  restore,              \* the loop of DeserializeWebStateList that runs, if any,
                        \* its old_count and its index
  beforeClose           \* history: the list saveAndCloseAllItems serialized

gridVars == <<items, selectedItemID, closedSessionWindow, restore, beforeClose>>
vars == <<listVars, gridVars>>

NotRestoring == [loop |-> "none", old_count |-> 0, index |-> 0]
NothingClosed == [wrappers |-> <<>>, active |-> kInvalidIndex]

-----------------------------------------------------------------------------
(* The observer.                                                           *)

(* Mutant: adjusts the target for the removal a second time.               *)
MoveItem_adjusted(s, id, toIndex) ==
  LET from == SelectInSeq(s, LAMBDA x : x = id)
      to   == IF from < toIndex + 1 THEN toIndex ELSE toIndex + 1
  IN  InsertAt(RemoveAt(s, from), to, id)

(* moveItemWithID:toIndex: of the consumer.                                *)
MoveItem(s, id, toIndex) ==
  LET from == SelectInSeq(s, LAMBDA x : x = id)
  IN  IF from = toIndex + 1 THEN s
      ELSE InsertAt(RemoveAt(s, from), toIndex + 1, id)

(* The mediator's callback and the GridConsumer method it calls.           *)
OnNotification(grid, e) ==
  CASE e.type = "inserted" ->
         [items |-> InsertAt(grid.items, e.index + 1, e.ws), selected |-> e.active]
    [] e.type = "moved" ->
         [grid EXCEPT !.items = MoveItem(@, e.ws, e.index)]
    [] e.type = "replaced" ->
         [grid EXCEPT !.items = ReplaceAll(@, e.old, e.ws)]
    [] e.type = "detached" ->
         [items |-> RemoveFirst(grid.items, e.ws), selected |-> e.active]
    [] e.type = "activated" ->
         [grid EXCEPT !.selected =
            IF e.index = kInvalidIndex THEN NoWebState ELSE e.ws]

(* The grid once the mediator has seen some notifications, one by one...   *)
GridAfter(grid, notifications) ==
  LET after[k \in 0..Len(notifications)] ==
        IF k = 0 THEN grid ELSE OnNotification(after[k - 1], notifications[k])
  IN  after[Len(notifications)]

(* ... those of this step.                                                 *)
ObserveList ==
  LET grid == GridAfter([items |-> items, selected |-> selectedItemID], notified')
  IN  items' = grid.items /\ selectedItemID' = grid.selected

-----------------------------------------------------------------------------
(* Serialization.  The opener is saved as an index into the list.          *)

(* Mutant: saves the page the opener shows now.                            *)
SerializeWebStateList_now ==
  [sessions |-> [k \in 1..count |->
      [id |-> web_state_wrappers[k].ws,
       opener_index |-> GetIndexOfWebState(web_state_wrappers[k].opener),
       opener_nav |-> NavigationIndexFromWebState(web_state_wrappers[k].opener)]],
   selected |-> active_index]

SerializeWebStateList ==
  [sessions |-> [k \in 1..count |->
      [id |-> web_state_wrappers[k].ws,
       opener_index |-> GetIndexOfWebState(web_state_wrappers[k].opener),
       opener_nav |-> web_state_wrappers[k].nav]],
   selected |-> active_index]

ClosedTabs ==
  IF closedSessionWindow = NoWindow THEN {}
  ELSE {s.id : s \in ToSet(closedSessionWindow.sessions)}

(* What a loop of DeserializeWebStateList leaves alone when it calls no     *)
(* method of the list.                                                      *)
listAndGrid == <<listVars, items, selectedItemID>>

(* DeserializeWebStateList, first loop: append a WebState per session.     *)
AppendRestoredWebState ==
  LET k == count - restore.old_count
  IN  /\ restore.loop = "append"
      /\ IF k < Len(closedSessionWindow.sessions)
         THEN /\ InsertWebState(closedSessionWindow.sessions[k + 1].id,
                                count, TRUE, FALSE, FALSE, NoWebState)
              /\ ObserveList
              /\ UNCHANGED <<call, restore>>
         ELSE /\ restore' = [restore EXCEPT !.loop = "openers"]
              /\ UNCHANGED listAndGrid
      /\ UNCHANGED <<closedSessionWindow, beforeClose>>

(* Mutant: off by one.                                                     *)
RestoredOpenerIndex_next(session) == session.opener_index + restore.old_count + 1

(* The index, in the list, of the opener that a session recorded.          *)
RestoredOpenerIndex(session) == session.opener_index + restore.old_count

(* Second loop: restore the opener of one WebState, if it had one.         *)
RestoreOpener ==
  LET s == closedSessionWindow.sessions[restore.index - restore.old_count + 1]
      opener_index == RestoredOpenerIndex(s)
  IN  /\ restore.loop = "openers"
      /\ restore.index < count
      /\ IF /\ s.opener_index # kInvalidIndex
            /\ opener_index \in restore.old_count..(count - 1)
         THEN /\ SetOpenerOfWebStateAt(restore.index,
                   GetWebStateAt(opener_index), s.opener_nav)
              /\ ObserveList
              /\ UNCHANGED call
         ELSE UNCHANGED listAndGrid
      /\ restore' = [restore EXCEPT !.index = @ + 1]
      /\ UNCHANGED <<closedSessionWindow, beforeClose>>

(* The end of DeserializeWebStateList and of undoCloseAllItems.            *)
FinishUndo ==
  /\ restore.loop = "openers"
  /\ restore.index >= count
  /\ IF closedSessionWindow.selected # kInvalidIndex
     THEN /\ ActivateWebStateAt(restore.old_count + closedSessionWindow.selected)
          /\ ObserveList
          /\ UNCHANGED call
     ELSE UNCHANGED listAndGrid
  /\ closedSessionWindow' = NoWindow
  /\ restore' = NotRestoring
  /\ beforeClose' = NothingClosed

-----------------------------------------------------------------------------
(* The grid's commands (GridCommands), which name a tab by identifier.  All *)
(* of this runs on the main thread: no command interrupts another.          *)
Idle == call = "none" /\ restore.loop = "none"

moveItemWithID(id, destinationIndex) ==
  /\ GetIndexOfWebState(id) >= 0
  /\ MoveWebStateAt(GetIndexOfWebState(id), destinationIndex)

selectItemWithID(id) ==
  /\ GetIndexOfWebState(id) >= 0
  /\ ActivateWebStateAt(GetIndexOfWebState(id))

closeItemWithID(id) ==
  /\ GetIndexOfWebState(id) >= 0
  /\ CloseWebStateAt(GetIndexOfWebState(id))

insertNewItemAtIndex(id, index) ==
  InsertWebState(id, index, TRUE, TRUE, FALSE, NoWebState)

closeAllItems ==
  /\ Idle
  /\ CloseAllWebStates
  /\ ObserveList
  /\ UNCHANGED <<closedSessionWindow, restore, beforeClose>>

saveAndCloseAllItems ==
  /\ Idle
  /\ count > 0
  /\ closedSessionWindow' = SerializeWebStateList
  /\ beforeClose' = [wrappers |-> web_state_wrappers, active |-> active_index]
  /\ CloseAllWebStates
  /\ ObserveList
  /\ UNCHANGED restore

undoCloseAllItems ==
  /\ Idle
  /\ closedSessionWindow # NoWindow
  /\ count + Len(closedSessionWindow.sessions) <= MaxTabs
  /\ restore' = [loop |-> "append", old_count |-> count, index |-> count]
  /\ UNCHANGED <<listAndGrid, closedSessionWindow, beforeClose>>

discardSavedClosedItems ==
  /\ Idle
  /\ closedSessionWindow # NoWindow
  /\ closedSessionWindow' = NoWindow
  /\ beforeClose' = NothingClosed
  /\ UNCHANGED <<listVars, items, selectedItemID, restore>>

(* Tabs that other parts of the browser open; a fresh tab has a fresh       *)
(* identifier.                                                              *)
FreshTabs == WebStates \ (Listed \cup ClosedTabs)

OpenTab ==
  \E ws \in FreshTabs, activate, inherit \in BOOLEAN :
    \E opener \in Listed \cup {NoWebState} :
      InsertWebState(ws, kInvalidIndex, FALSE, activate, inherit, opener)

-----------------------------------------------------------------------------
GridInit ==
  /\ Init
  /\ items = <<>>
  /\ selectedItemID = NoWebState
  /\ closedSessionWindow = NoWindow
  /\ restore = NotRestoring
  /\ beforeClose = NothingClosed

(* One call of the list, followed by its notifications.                    *)
ListCall ==
  /\ Idle
  /\ \/ count < MaxTabs /\ OpenTab
     \/ count < MaxTabs
        /\ \E ws \in FreshTabs, index \in 0..count : insertNewItemAtIndex(ws, index)
     \/ \E id \in Listed, to \in Indices : moveItemWithID(id, to)
     \/ \E id \in Listed : selectItemWithID(id)
     \/ \E id \in Listed : closeItemWithID(id)
     \/ \E ws \in FreshTabs, index \in Indices : ReplaceWebStateAt(index, ws)
     \/ \E ws \in Listed, n \in NavIndices : CommitNavigation(ws, n)
  /\ ObserveList
  /\ UNCHANGED <<call, closedSessionWindow, restore, beforeClose>>

CloseNext ==
  /\ CloseLastWebState
  /\ ObserveList
  /\ UNCHANGED <<closedSessionWindow, restore, beforeClose>>

GridNext ==
  \/ ListCall
  \/ CloseNext
  \/ closeAllItems
  \/ saveAndCloseAllItems
  \/ undoCloseAllItems
  \/ discardSavedClosedItems
  \/ AppendRestoredWebState
  \/ RestoreOpener
  \/ FinishUndo

Spec == GridInit /\ [][GridNext]_vars

-----------------------------------------------------------------------------
(* Properties.                                                             *)

(* After every notification the grid shows the tabs of the list, in its     *)
(* order, and selects the active one; also in the middle of "close all" and *)
(* of a restore.                                                            *)
GridInSync ==
  /\ items = [k \in 1..count |-> web_state_wrappers[k].ws]
  /\ selectedItemID = GetActiveWebState

(* Every set of tabs of a list has one that no other tab of the set opened. *)
Forest(wrappers) ==
  \A S \in SUBSET (1..Len(wrappers)) : S # {} =>
    \E k \in S : \A j \in S : wrappers[k].opener # wrappers[j].ws

(* No tab is, through openers, its own ancestor.                           *)
OpenersFormForest == Forest(web_state_wrappers)

(* Undoing "close all" brings back the tabs, their order, their openers and *)
(* the selection, after whatever tabs were opened in between, which stay as *)
(* they are.                                                                *)
UndoRestoresClosedTabs ==
  [][FinishUndo =>
       LET n == Len(beforeClose.wrappers)
           old_count == count - n
       IN  /\ SubSeq(web_state_wrappers', old_count + 1, count') =
                beforeClose.wrappers
           /\ active_index' =
                IF beforeClose.active # kInvalidIndex
                THEN old_count + beforeClose.active ELSE active_index]_vars

(* The tab grid drives the list only as WebStateList's interface allows: a  *)
(* restore is a run of insertions, opener updates and one activation.       *)
UsesListInterface == ListSpec

(* What the mediator keeps of a closed window: no tab of it is recorded as  *)
(* its own opener.                                                          *)
Session == [id : WebStates, opener_index : Int, opener_nav : NavIndices]
Window  == [sessions : Seq(Session), selected : Int]

SavedWindowIsSound ==
  closedSessionWindow # NoWindow =>
    /\ closedSessionWindow \in Window
    /\ \A k \in DOMAIN closedSessionWindow.sessions :
         closedSessionWindow.sessions[k].opener_index # k - 1

(* A restore runs alone, appends no more tabs than were saved, and fixes    *)
(* openers only of the tabs it appended.                                    *)
RestoreStaysInBounds ==
  /\ restore \in [loop : {"none", "append", "openers"}, old_count : Nat, index : Nat]
  /\ restore.loop # "none" =>
       /\ call = "none"
       /\ closedSessionWindow # NoWindow
       /\ restore.old_count + Len(closedSessionWindow.sessions) <= MaxTabs
       /\ restore.index \in restore.old_count..count
       /\ count <= restore.old_count + Len(closedSessionWindow.sessions)
  /\ restore.loop = "openers" =>
       count = restore.old_count + Len(closedSessionWindow.sessions)

(* Only a tab with an opener records the page its opener was showing.      *)
NoPageWithoutOpener ==
  \A k \in 1..count :
    web_state_wrappers[k].opener = NoWebState => web_state_wrappers[k].nav = -1

(* A window describes a list without duplicates and without a tab that is   *)
(* its own ancestor: the index saved for an opener is the opener's in it.   *)
Describes(window, list) ==
  LET wrappers == list.wrappers
      sessions == window.sessions
  IN  /\ wrappers \in Seq(Wrapper)
      /\ Forest(wrappers)
      /\ \A j, k \in 1..Len(wrappers) : wrappers[j].ws = wrappers[k].ws => j = k
      /\ window.selected = list.active
      /\ Len(sessions) = Len(wrappers)
      /\ \A k \in 1..Len(wrappers) :
           /\ sessions[k].id = wrappers[k].ws
           /\ sessions[k].opener_nav = wrappers[k].nav
           /\ IF wrappers[k].opener = NoWebState
              THEN sessions[k].opener_index = kInvalidIndex /\ wrappers[k].nav = -1
              ELSE /\ sessions[k].opener_index \in 0..(Len(wrappers) - 1)
                   /\ wrappers[sessions[k].opener_index + 1].ws = wrappers[k].opener

(* The saved window describes the list as it was when all tabs were closed. *)
SavedWindowIsClosedList ==
  closedSessionWindow # NoWindow => Describes(closedSessionWindow, beforeClose)

(* While a restore runs, the tabs that were there before have each other    *)
(* as openers, and those it appended are the closed ones, in their order:   *)
(* with opener and page up to the loop's index, without any beyond it.      *)
RestoredTabsAreClosedTabs ==
  LET old_count == restore.old_count
      Closed(k) == beforeClose.wrappers[k - old_count]
  IN  restore.loop # "none" =>
        /\ restore.loop = "append" => restore.index = old_count
        /\ \A k \in 1..old_count :
             \/ web_state_wrappers[k].opener = NoWebState
             \/ \E j \in 1..old_count :
                  web_state_wrappers[j].ws = web_state_wrappers[k].opener
        /\ \A k \in (old_count + 1)..count :
             web_state_wrappers[k] =
               IF k <= restore.index THEN Closed(k)
               ELSE [ws |-> Closed(k).ws, opener |-> NoWebState, nav |-> -1]

(* The grid's own copy never differs from the list, no sequence of closing, *)
(* opening, undoing and restoring makes a tab its own ancestor, and a       *)
(* restore stays within the window that was saved and rebuilds its tabs.    *)
GridInv ==
  /\ GridInSync
  /\ OpenersFormForest
  /\ NoPageWithoutOpener
  /\ SavedWindowIsSound
  /\ SavedWindowIsClosedList
  /\ RestoreStaysInBounds
  /\ RestoredTabsAreClosedTabs

=============================================================================
