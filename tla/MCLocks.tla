------------------------------ MODULE MCLocks ------------------------------
(***************************************************************************)
(* Constants for the run on Locks: an event with a reminder delivered in   *)
(* the night and its main signal to come; a routine with two occurrences,  *)
(* the first with a reminder delivered, its main signal and a repeat; and  *)
(* a second routine, so that a change of zone goes round its loop again.   *)
(***************************************************************************)
EXTENDS Locks, TLC

MCOccOf   == <<1, 1, 2, 2, 2, 3, 4>>
MCEntryOf == <<1, 2, 2, 3>>

Alike == Permutations(Process)
=============================================================================
