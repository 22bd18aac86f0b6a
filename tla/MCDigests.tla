----------------------------- MODULE MCDigests -----------------------------
(***************************************************************************)
(* Constants for the run on Digests: a day of six slots, quiet at its end  *)
(* and its start, and a digest_time that lies inside those hours or not,   *)
(* depending on what the user makes of them.                               *)
(***************************************************************************)
EXTENDS Digests

MCZone   == [before |-> 5, after |-> 5, at |-> 0]
MCOwners == {<<1, 2>>, <<2, 2>>}
Night    == [from |-> 5, to |-> 0]
Longer   == [from |-> 5, to |-> 1]
MCQuiets == {Longer}
=============================================================================
