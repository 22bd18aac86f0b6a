------------------------------ MODULE MCDrafts ------------------------------
(***************************************************************************)
(* Constants for the runs on Drafts.  A day has four slots.  The clocks at  *)
(* home are set forward after the first slot, so that the wall time 1 of    *)
(* the first day does not exist; the other zone is a slot to the east.      *)
(***************************************************************************)
EXTENDS Drafts, TLC

Home == [before |-> 0, after |-> 1, at |-> 1]
East == [before |-> 1, after |-> 1, at |-> 0]

TwoZones == {Home, East}

Alike == Permutations(Request)
=============================================================================
