------------------------------ MODULE TabStrip ------------------------------
(***************************************************************************)
(* What a list of tabs promises whoever shows it: a row of distinct tabs    *)
(* and at most one that is selected.  Nothing is said of indices, openers   *)
(* or of how the next selection is chosen, only that opening, closing,      *)
(* moving or replacing one tab does not touch the others or the selection   *)
(* of another, and that a row with a selection never loses it while it has  *)
(* a tab.  WebStateList is shown to implement it.                           *)
(***************************************************************************)
EXTENDS Naturals, SequencesExt

CONSTANTS Tabs, NoTab

VARIABLES tabs, selected

Contents == {tabs[k] : k \in 1..Len(tabs)}

StripInit == tabs = <<>> /\ selected = NoTab

Open(t, i, select) ==
  /\ t \notin Contents
  /\ tabs' = InsertAt(tabs, i, t)
  /\ selected' = IF select THEN t ELSE selected

Close(i) ==
  /\ tabs' = RemoveAt(tabs, i)
  /\ IF selected = tabs[i]
     THEN selected' \in IF Len(tabs) = 1 THEN {NoTab} ELSE Contents \ {tabs[i]}
     ELSE selected' = selected

Move(i, j) ==
  /\ tabs' = InsertAt(RemoveAt(tabs, i), j, tabs[i])
  /\ selected' = selected

Replace(i, t) ==
  /\ t \notin Contents
  /\ tabs' = [tabs EXCEPT ![i] = t]
  /\ selected' = IF selected = tabs[i] THEN t ELSE selected

Select(i) ==
  /\ selected' = tabs[i]
  /\ tabs' = tabs

StripNext ==
  \/ \E t \in Tabs, i \in 1..(Len(tabs) + 1), select \in BOOLEAN : Open(t, i, select)
  \/ \E i \in 1..Len(tabs) : Close(i)
  \/ \E i, j \in 1..Len(tabs) : Move(i, j)
  \/ \E i \in 1..Len(tabs), t \in Tabs : Replace(i, t)
  \/ \E i \in 1..Len(tabs) : Select(i)

StripSpec == StripInit /\ [][StripNext]_<<tabs, selected>>

=============================================================================
