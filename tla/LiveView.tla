------------------------------- MODULE LiveView -------------------------------
(***************************************************************************)
(* What the dashboard promises a browser tab, whatever the mechanism: a    *)
(* view shows, of every section, a state the section really had, and a     *)
(* refresh never replaces a state by an older one.  Sections may be of     *)
(* different ages (a page reads them one after the other), and a view may  *)
(* lag behind.                                                             *)
(***************************************************************************)
EXTENDS Naturals

CONSTANTS Sections, Tabs

VARIABLES
  ver,   \* ver[s]: number of states section s has gone through
  view   \* view[t][s]: the state of s that tab t displays

viewVars == <<ver, view>>

Init ==
  /\ ver = [s \in Sections |-> 0]
  /\ view = [t \in Tabs |-> [s \in Sections |-> 0]]

Update(s) ==
  /\ ver' = [ver EXCEPT ![s] = @ + 1]
  /\ UNCHANGED view

(* One tab advances, each of its sections to some state up to the current.  *)
Refresh(t) ==
  /\ view' = [view EXCEPT ![t] = view'[t]]
  /\ view'[t] \in [Sections -> Nat]
  /\ \A s \in Sections : view'[t][s] \in view[t][s]..ver[s]
  /\ UNCHANGED ver

Next ==
  \/ \E s \in Sections : Update(s)
  \/ \E t \in Tabs : Refresh(t)

Spec == Init /\ [][Next]_viewVars

=============================================================================
