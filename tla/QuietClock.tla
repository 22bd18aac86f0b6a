----------------------------- MODULE QuietClock -----------------------------
(***************************************************************************)
(* The operators of QuietHours put through every zone, quiet interval and  *)
(* moment of a small calendar.  A behaviour is one user's clock: time      *)
(* passes, sometimes over a daylight-saving transition, and the user edits *)
(* the quiet hours.  The invariants compare what the code computes with    *)
(* what the words "quiet hours" mean, read off moment by moment.           *)
(***************************************************************************)
EXTENDS QuietHours

CONSTANTS
  Zones,       \* the zones explored
  MaxInstant   \* bound on the clock: a few local days past the epoch

\* No transition skips more than resolve_local_wall searches, and none repeats
\* more than a day.
ASSUME QuietClockAssumption ==
  /\ Zones \subseteq Zone /\ MaxInstant \in Nat
  /\ \A z \in Zones : z.after - z.before <= RollLimit /\ z.before - z.after <= Day

VARIABLES
  zone,    \* the user's zone
  quiet,   \* quiet_from and quiet_to of user_settings
  now

vars == <<zone, quiet, now>>

TypeOK ==
  /\ zone \in Zones
  /\ quiet \in Quiet
  /\ now \in 0 .. MaxInstant

Init ==
  /\ zone \in Zones
  /\ quiet \in Quiet
  /\ now = 0

Tick ==
  /\ now < MaxInstant
  /\ now' = now + 1
  /\ UNCHANGED <<zone, quiet>>

\* users.update_quiet_hours: equal bounds are refused, which is what keeps
\* every stored pair inside Quiet.
UpdateQuietHours ==
  /\ \E from, to \in 0 .. Day - 1 :
       /\ from # to
       /\ quiet' = [from |-> from, to |-> to]
  /\ UNCHANGED <<zone, now>>

Next == Tick \/ UpdateQuietHours

Spec == Init /\ [][Next]_vars

-----------------------------------------------------------------------------
(* Properties. *)

\* A moment whose wall time comes round twice.
Repeated(t) == \E u \in UtcOf(zone, Local(zone, t)) : u # t

\* Every row the store holds now could be rescheduled to the end of the
\* running quiet interval: that end (quiet_window) is later than now, is not
\* itself quiet, and nothing between is loud, save for wall times that the
\* autumn fold repeats.  The gap must be shorter than the time between two
\* quiet intervals: a clock that jumps over the whole of it has no loud moment.
WindowEndsQuiet ==
  LET end == QuietEnd(zone, now, quiet)
      loudSpan == (quiet.from - quiet.to) % Day
  IN  QuietAt(zone, now, quiet) /\ zone.after - zone.before < loudSpan =>
        /\ end > now
        /\ ~ QuietAt(zone, end, quiet)
        /\ \A t \in now .. end - 1 :
             QuietAt(zone, t, quiet) \/ Repeated(t)
                \/ \E u \in now .. t : Repeated(u)

\* The interval the night recap of My Day looks back on (completed_quiet_window
\* of the end date) contains every moment delivery treats as quiet
\* (quiet_window), and ends where delivery says it ends.
RecapCoversTheNight ==
  QuietAt(zone, now, quiet) =>
    LET w == CompletedQuietWindow(zone, QuietEndDate(zone, now, quiet), quiet)
    IN  /\ w[1] <= now
        /\ now < w[2]
        /\ w[2] = QuietEnd(zone, now, quiet)

\* apply_quiet_policy: whatever the kind and the planned moment, the result
\* never rings in quiet hours, a pre-reminder is not pushed to or past its
\* event, and the main signal keeps its moment.
PolicyNeverWakes ==
  \A kind \in NotificationKind, planned \in now .. now + Day :
    LET d == ApplyQuietPolicy(kind, now, planned, zone, quiet)
    IN  /\ d.silent \/ ~ QuietAt(zone, d.fire, quiet)
             \/ zone.after - zone.before >= (quiet.from - quiet.to) % Day
        /\ d.fire >= now
        /\ kind = "main" => d.fire = now
        /\ kind = "pre" /\ d.fire # now => d.fire < planned
        /\ kind = "repeat" => ~ d.silent

\* The three wall-clock resolvers of the code (scheduling, timezones,
\* delivery) name an instant with the asked-for wall time whenever there is
\* one, the first two agree everywhere, and in the spring gap they differ as
\* documented: delivery lands on the transition, the others keep the minutes.
ResolversAgree ==
  LET wall == now + zone.before
      u    == ResolveWallTime(zone, wall)
      early == ResolveLocalWall(zone, wall, FALSE)
      late == ResolveLocalWall(zone, wall, TRUE)
  IN  /\ WallToUtc(zone, wall) = u
      /\ IF UtcOf(zone, wall) # {}
           THEN /\ early = u /\ Local(zone, u) = wall
                /\ Local(zone, late) = wall /\ late >= u
           ELSE /\ early = zone.at /\ late = zone.at
                /\ Local(zone, u) = wall + (zone.after - zone.before)

\* On a local day that is all in one offset, whatever the quiet hours and
\* digest_time, there is a loud moment at which the digest may go out: no
\* setting of digest_time can starve the recap.
DigestHasItsMoment ==
  LET midnight == now - (Local(zone, now) % Day)
      plain    == zone.at \notin midnight - 2 * Day .. midnight + 2 * Day
                    \/ zone.before = zone.after
  IN  plain =>
        \A digestTime \in 0 .. Day - 1 :
          \E t \in midnight .. midnight + Day - 1 :
            /\ ~ QuietAt(zone, t, quiet)
            /\ t >= DigestDueForNow(zone, t, digestTime, quiet)

=============================================================================
