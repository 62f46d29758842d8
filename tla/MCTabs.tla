------------------------------- MODULE MCTabs -------------------------------
(* Three tabs and a user who clicks a few times.                           *)
EXTENDS Tabs
=============================================================================
