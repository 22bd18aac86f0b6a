---------------------------- MODULE MCReminders ----------------------------
(***************************************************************************)
(* Constants for the runs on Reminders.  A day has twelve slots; the zone  *)
(* is UTC, or four slots ahead of it where midnight has to fall into the   *)
(* modelled time.                                                          *)
(***************************************************************************)
EXTENDS Reminders

Utc   == [before |-> 0, after |-> 0, at |-> 0]
Ahead == [before |-> 4, after |-> 4, at |-> 0]

\* Quiet from slot 3 to slot 5 of every day; quiet only long after MaxTime.
NightInside == [from |-> 3, to |-> 5]
NightLater  == [from |-> 10, to |-> 11]

\* One important event at slot 1, main signal only.
OneSlot     == {1}
OneEntry    == {"e"}
OneEntryOf  == [o \in {1} |-> "e"]
OnePlanned  == [o \in {1} |-> 1]
OneEvent    == [e \in OneEntry |-> "event"]
OneAnchor   == [e \in OneEntry |-> 1]
MainOnly    == [e \in OneEntry |-> {0}]
NoDefaults  == [k \in EntryKind |-> {}]

\* One task at slot 6 with its morning reminder at slot 3, in the night.
NightPlanned == [o \in {1} |-> 6]
OneTask      == [e \in OneEntry |-> "task"]
Unset        == [e \in OneEntry |-> {}]

\* In the zone Ahead: quiet at the slots 3 and 4, or over midnight, 7 and 8.
NightBefore   == [from |-> 7, to |-> 9]
NightMidnight == [from |-> 11, to |-> 1]
BothNights    == {NightBefore, NightMidnight}

\* One event that may be moved from slot 2 to slot 4, reminded one slot ahead.
TwoSlots    == {1, 2}
TwoEntryOf  == [o \in TwoSlots |-> "e"]
TwoPlanned  == [o \in TwoSlots |-> 2 * o]
OnePre      == [e \in OneEntry |-> {1}]

\* The same slots as a routine's.
OneRoutine  == [e \in OneEntry |-> "routine"]
=============================================================================
