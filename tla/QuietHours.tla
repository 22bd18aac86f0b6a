----------------------------- MODULE QuietHours -----------------------------
(***************************************************************************)
(* The pure time arithmetic of the planner: wall clock to UTC around a     *)
(* daylight-saving transition, quiet hours, and the no-wake policy that    *)
(* decides when and how loudly a notification may be delivered.            *)
(*                                                                         *)
(* An instant is an integer number of slots of UTC.  A wall time is an     *)
(* integer too: Day slots make a local day, so  wall \div Day  is the      *)
(* local date and  wall % Day  the local clock.  A zone is one transition: *)
(* the offset  before  holds up to the instant  at, the offset  after      *)
(* from it on; quiet hours are a pair of local clocks.                     *)
(*                                                                         *)
(* Definitions whose comment starts with "Defect:" are not part of the     *)
(* model: each is a plausible bug in the definition that follows it, kept  *)
(* so that the properties can be seen to notice it.                        *)
(***************************************************************************)
EXTENDS Integers

CONSTANTS
  Day,         \* slots in a local day
  RollLimit    \* how far the wall-clock search of delivery rolls forward

ASSUME DayAssumption       == Day \in Nat \ {0}
ASSUME RollLimitAssumption == RollLimit \in Nat

Zone  == [before : Int, after : Int, at : Int]
Quiet == {q \in [from : 0 .. Day - 1, to : 0 .. Day - 1] : q.from # q.to}

NotificationKind == {"pre", "main", "repeat"}

-----------------------------------------------------------------------------
(* Wall clock and UTC. *)

Offset(z, t) == IF t < z.at THEN z.before ELSE z.after

Local(z, t) == t + Offset(z, t)

\* The instants a wall time names: none inside the spring gap, two inside the
\* autumn fold, one otherwise.
UtcOf(z, wall) ==
  {u \in {wall - z.before, wall - z.after} : Local(z, u) = wall}

\* delivery.resolve_local_wall: search forward, one slot at a time, for a wall
\* time that exists, then take the earlier or the later of its instants.
ResolveLocalWall(z, wall, preferLate) ==
  LET Exists(k) == UtcOf(z, wall + k) # {}
      roll == CHOOSE k \in 0 .. RollLimit :
                Exists(k) /\ \A j \in 0 .. k - 1 : ~ Exists(j)
      found == UtcOf(z, wall + roll)
  IN  CHOOSE u \in found :
        \A v \in found : IF preferLate THEN v <= u ELSE u <= v

\* scheduling.resolve_wall_time: the first reading of an ambiguous wall time;
\* a wall time that does not exist is shifted forward by the size of the gap,
\* which is what reading it with the old offset does.
ResolveWallTime(z, wall) ==
  LET valid == UtcOf(z, wall)
  IN  IF valid # {} THEN CHOOSE u \in valid : \A v \in valid : u <= v
                    ELSE wall - z.before

\* Defect: the repeated hour of autumn is read as its second pass.
WallToUtcSecondPass(z, wall) ==
  IF wall - z.after < z.at THEN wall - z.before ELSE wall - z.after

\* timezones._wall_to_utc: fold = 0 keeps the old offset in the gap and in the
\* fold, then a round trip through UTC.
WallToUtc(z, wall) ==
  IF wall - z.before < z.at \/ wall - z.after < z.at
    THEN wall - z.before
    ELSE wall - z.after

-----------------------------------------------------------------------------
(* Quiet hours. *)

\* users.is_quiet on a local clock; the interval usually crosses midnight.
IsQuiet(clockTime, q) ==
  IF q.from < q.to
    THEN q.from <= clockTime /\ clockTime < q.to
    ELSE clockTime >= q.from \/ clockTime < q.to

QuietAt(z, t, q) == IsQuiet(Local(z, t) % Day, q)

\* Defect: the interval is taken to end on the date it began.
QuietEndDateSameDay(z, t, q) == Local(z, t) \div Day

\* The local date on which the quiet interval containing t ends.
QuietEndDate(z, t, q) ==
  LET wall == Local(z, t)
  IN  IF q.from > q.to /\ wall % Day >= q.from
        THEN wall \div Day + 1
        ELSE wall \div Day

\* delivery.quiet_window(t).end_at_utc, defined when QuietAt(z, t, q).
QuietEnd(z, t, q) ==
  ResolveLocalWall(z, QuietEndDate(z, t, q) * Day + q.to, TRUE)

\* Defect: the interval is taken to begin on the date it ends.
CompletedQuietWindowSameDay(z, date, q) ==
  << ResolveLocalWall(z, date * Day + q.from, FALSE),
     ResolveLocalWall(z, date * Day + q.to, TRUE) >>

\* delivery.completed_quiet_window: bounds of the quiet interval that ends on
\* the local date.
CompletedQuietWindow(z, date, q) ==
  LET startDate == IF q.from > q.to THEN date - 1 ELSE date
  IN  << ResolveLocalWall(z, startDate * Day + q.from, FALSE),
         ResolveLocalWall(z, date * Day + q.to, TRUE) >>

\* Defect: a pre-reminder waits even past the event it announces.
ApplyQuietPolicyPastEvent(kind, fire, planned, z, q) ==
  IF ~ QuietAt(z, fire, q)
    THEN [fire |-> fire, silent |-> FALSE]
    ELSE IF kind = "main" THEN [fire |-> fire, silent |-> TRUE]
                          ELSE [fire |-> QuietEnd(z, fire, q), silent |-> FALSE]

\* delivery.apply_quiet_policy: MAIN keeps its moment and loses its sound, PRE
\* waits for the end of quiet hours only if that is still before the event,
\* REPEAT always waits.
ApplyQuietPolicy(kind, fire, planned, z, q) ==
  IF ~ QuietAt(z, fire, q)
    THEN [fire |-> fire, silent |-> FALSE]
    ELSE LET end == QuietEnd(z, fire, q)
             moved == kind = "repeat" \/ (kind = "pre" /\ end < planned)
         IN  IF moved THEN [fire |-> end,  silent |-> FALSE]
                      ELSE [fire |-> fire, silent |-> TRUE]
-----------------------------------------------------------------------------
(* The morning digest. *)

\* digests.digest_due_at_utc: the moment of a local date from which the digest
\* may go out, put off to the end of quiet hours.
DigestDue(z, date, digestTime, q) ==
  LET candidate == ResolveLocalWall(z, date * Day + digestTime, TRUE)
  IN  IF QuietAt(z, candidate, q) THEN QuietEnd(z, candidate, q) ELSE candidate

\* Defect: the digest put off from the evening before is forgotten.
DigestDueToday(z, now, digestTime, q) ==
  DigestDue(z, Local(z, now) \div Day, digestTime, q)

\* digests._digest_due_for_now: an evening digest_time inside quiet hours is
\* put off into the next morning, which is then that morning's digest.
DigestDueForNow(z, now, digestTime, q) ==
  LET date     == Local(z, now) \div Day
      previous == DigestDue(z, date - 1, digestTime, q)
  IN  IF Local(z, previous) \div Day = date
        THEN previous
        ELSE DigestDue(z, date, digestTime, q)
=============================================================================
