---------------------------- MODULE MCDashboard ----------------------------
(* A small instance of Dashboard, and with it of Watcher: one object with a *)
(* long history, one tab.                                                   *)
EXTENDS Dashboard

CONSTANTS a, t1

OneName == {a}
OneTab == {t1}
=============================================================================
