---------------------------- MODULE MCTimezones ----------------------------
(***************************************************************************)
(* Constants for the runs on Timezones: a day of four slots, a zone one    *)
(* slot east of home, so that a journey may go either way, a daily routine *)
(* and an event.                                                           *)
(***************************************************************************)
EXTENDS Timezones

Home == [before |-> 0,  after |-> 0,  at |-> 0]
East == [before |-> 1,  after |-> 1,  at |-> 0]

MCTz    == {Home, East}
MCKind  == <<"routine", "event">>
MCFirst == <<2, 3>>
=============================================================================
