--------------------------- MODULE MCQuietClock ---------------------------
(***************************************************************************)
(* QuietClock on a calendar of short days: a zone without a transition, a  *)
(* spring gap, an autumn fold, and offsets of both signs.                  *)
(***************************************************************************)
EXTENDS QuietClock

MCZones ==
  { [before |-> 0,  after |-> 0,  at |-> 13],
    [before |-> 1,  after |-> 3,  at |-> 13],
    [before |-> 2,  after |-> 0,  at |-> 14],
    [before |-> -3, after |-> -2, at |-> 12] }
=============================================================================
