-------------------------- MODULE QuietClockProofs --------------------------
(***************************************************************************)
(* The invariants of QuietClock that hold for every day length, set of     *)
(* zones and quiet interval, not only on the calendar TLC explores.        *)
(***************************************************************************)
EXTENDS QuietClock, QuietHoursProofs

\* The zone, the quiet hours and the clock keep their types: equal bounds,
\* for which no quiet interval has an end, are never stored.
THEOREM TypeCorrect == Spec => []TypeOK
<1>1. Init => TypeOK
  BY QuietClockAssumption DEF Init, TypeOK
<1>2. TypeOK /\ [Next]_vars => TypeOK'
  <2> SUFFICES ASSUME TypeOK, [Next]_vars PROVE TypeOK'
    OBVIOUS
  <2>1. CASE Tick
    BY <2>1, QuietClockAssumption DEF TypeOK, Tick
  <2>2. CASE UpdateQuietHours
    BY <2>2 DEF TypeOK, UpdateQuietHours, Quiet
  <2>3. CASE UNCHANGED vars
    BY <2>3 DEF TypeOK, vars
  <2> QED
    BY <2>1, <2>2, <2>3 DEF Next
<1> QED
  BY <1>1, <1>2, PTL DEF Spec

\* The interval the night recap of My Day looks back on contains every moment
\* at which delivery was quiet, and ends where delivery says it ends: no moment
\* of a silent message falls between two recaps.
THEOREM RecapAlwaysCoversTheNight == Spec => []RecapCoversTheNight
<1>1. TypeOK => RecapCoversTheNight
  <2> SUFFICES ASSUME TypeOK, QuietAt(zone, now, quiet)
               PROVE  LET w == CompletedQuietWindow(zone, QuietEndDate(zone, now, quiet), quiet)
                      IN  w[1] <= now /\ now < w[2] /\ w[2] = QuietEnd(zone, now, quiet)
    BY DEF RecapCoversTheNight
  <2>1. Searchable(zone) /\ now \in Int /\ quiet \in Quiet
    BY QuietClockAssumption DEF TypeOK, Searchable
  <2>2. CompletedQuietWindow(zone, QuietEndDate(zone, now, quiet), quiet)[1] <= now
    BY <2>1, QuietBeginIsEarlier
  <2>3. QuietEnd(zone, now, quiet) > now /\ QuietEnd(zone, now, quiet) \in Int
    BY <2>1, QuietEndIsLater
  <2>4. CompletedQuietWindow(zone, QuietEndDate(zone, now, quiet), quiet)[2]
          = QuietEnd(zone, now, quiet)
    BY DEF CompletedQuietWindow, QuietEnd
  <2> QED
    BY <2>1, <2>2, <2>3, <2>4
<1> QED
  BY <1>1, TypeCorrect, PTL

\* What the theorems below use of the state.
LEMMA Typed ==
  ASSUME TypeOK
  PROVE  /\ Searchable(zone) /\ now \in Int /\ quiet \in Quiet
         /\ zone.before \in Int /\ zone.after \in Int /\ zone.at \in Int
         /\ \A t \in Int : /\ Local(zone, t) \in Int
                           /\ t < zone.at => Local(zone, t) = t + zone.before
                           /\ t >= zone.at => Local(zone, t) = t + zone.after
<1>1. zone \in Zone /\ zone.after - zone.before <= RollLimit /\ now \in Int /\ quiet \in Quiet
  BY QuietClockAssumption DEF TypeOK
<1>2. zone.before \in Int /\ zone.after \in Int /\ zone.at \in Int
  BY <1>1 DEF Zone
<1> QED
  BY <1>1, <1>2 DEF Searchable, Local, Offset

\* The end of the running interval: its wall time, read with the later reading.
LEMMA EndOfQuiet ==
  ASSUME TypeOK, QuietAt(zone, now, quiet)
  PROVE  LET date == QuietEndDate(zone, now, quiet)
             wall == date * Day + quiet.to
         IN  /\ date \in Int /\ wall \in Int /\ wall > Local(zone, now)
             /\ \A v \in Local(zone, now) .. wall - 1 : IsQuiet(v % Day, quiet)
             /\ QuietEnd(zone, now, quiet) = ResolveLocalWall(zone, wall, TRUE)
<1> DEFINE wall == Local(zone, now)  date == QuietEndDate(zone, now, quiet)
<1>1. wall \in Int /\ IsQuiet(wall % Day, quiet) /\ quiet \in Quiet
  BY Typed DEF QuietAt
<1>2. date = IF quiet.from > quiet.to /\ wall % Day >= quiet.from THEN wall \div Day + 1
                                                                 ELSE wall \div Day
  BY DEF QuietEndDate
<1>3. QuietEnd(zone, now, quiet) = ResolveLocalWall(zone, date * Day + quiet.to, TRUE)
  BY DEF QuietEnd
<1> HIDE DEF wall, date
<1>4. date \in Int
  BY <1>1, <1>2, DayDivision
<1> DEFINE end == date * Day + quiet.to
<1>5. end \in Int
  BY <1>1, <1>4, DayAssumption DEF Quiet
<1>6. end = date * Day + quiet.to
  OBVIOUS
<1> HIDE DEF end
<1>7. end > wall /\ \A v \in wall .. end - 1 : IsQuiet(v % Day, quiet)
  BY <1>1, <1>2, <1>4, <1>5, <1>6, StretchIsQuiet
<1>8. QuietEnd(zone, now, quiet) = ResolveLocalWall(zone, end, TRUE)
  BY <1>3, <1>6
<1> QED
  BY <1>4, <1>5, <1>7, <1>8, Zenon DEF end, wall, date

\* A moment before a fold and in the wall time it repeats comes round again.
LEMMA RepeatedBeforeFold ==
  ASSUME TypeOK, NEW t \in Int, t < zone.at, t + zone.before - zone.after >= zone.at
  PROVE  Repeated(t)
<1> DEFINE wall == Local(zone, t)  u == t + zone.before - zone.after
<1>1. wall = t + zone.before /\ wall \in Int /\ u \in Int /\ u # t /\ u = wall - zone.after
        /\ zone \in Zone
  BY Typed DEF Searchable
<1> HIDE DEF wall, u
<1>2. wall - zone.after >= zone.at
  BY <1>1, Typed DEF u
<1>3. u \in UtcOf(zone, wall)
  BY <1>1, <1>2, UtcOfCases
<1> QED
  BY <1>1, <1>3 DEF Repeated, wall

\* Inside quiet hours their end is later, is loud itself, and everything before it
\* is quiet but for wall times the autumn fold repeats, whatever the zone, the
\* interval and the moment: a row put off waits for the right end and not longer.
THEOREM WindowAlwaysEndsQuiet == Spec => []WindowEndsQuiet
<1>1. TypeOK => WindowEndsQuiet
  <2> DEFINE end == QuietEnd(zone, now, quiet)
             loudSpan == (quiet.from - quiet.to) % Day
             gap == zone.after - zone.before
  <2> SUFFICES ASSUME TypeOK, QuietAt(zone, now, quiet), gap < loudSpan
               PROVE  /\ end > now /\ ~ QuietAt(zone, end, quiet)
                      /\ \A t \in now .. end - 1 :
                           QuietAt(zone, t, quiet) \/ Repeated(t)
                             \/ \E u \in now .. t : Repeated(u)
    BY DEF WindowEndsQuiet
  <2> DEFINE date == QuietEndDate(zone, now, quiet)  wall == date * Day + quiet.to
  <2>2. /\ date \in Int /\ wall \in Int /\ wall > Local(zone, now)
        /\ \A v \in Local(zone, now) .. wall - 1 : IsQuiet(v % Day, quiet)
        /\ end = ResolveLocalWall(zone, wall, TRUE)
    BY EndOfQuiet
  <2> HIDE DEF date
  <2> HIDE DEF end
  <2>3. ASSUME NEW k \in Nat, k < loudSpan PROVE ~ IsQuiet((wall + k) % Day, quiet)
    BY <2>2, <2>3, Typed, AfterEndIsLoud
  <2>4. 0 \in Nat /\ wall + 0 = wall /\ 0 < loudSpan /\ loudSpan \in Int
    <3>1. quiet.from - quiet.to \in Int /\ quiet.from # quiet.to
            /\ quiet.from \in 0 .. Day - 1 /\ quiet.to \in 0 .. Day - 1
      BY Typed, DayAssumption DEF Quiet
    <3> DEFINE d == quiet.from - quiet.to
    <3>2. d \in Int /\ d # 0 /\ d > - Day /\ d < Day
      BY <3>1, DayAssumption
    <3> HIDE DEF d
    <3>3. d % Day \in 0 .. Day - 1 /\ d = (d \div Day) * Day + (d % Day) /\ d \div Day \in Int
      BY <3>2, DayDivision
    <3>4. d % Day # 0
      <4> DEFINE m == d \div Day
      <4>1. SUFFICES ASSUME d = m * Day, m \in Int PROVE FALSE
        <5>1. d % Day = 0 => d = m * Day /\ m \in Int
          BY <3>2, <3>3, DayAssumption
        <5> QED
          BY <5>1
      <4> HIDE DEF m
      <4>2. m >= 1 => m * Day >= Day
        BY <4>1, DayAssumption
      <4>3. m <= -1 => m * Day <= - Day
        BY <4>1, DayAssumption
      <4> QED
        BY <3>2, <4>1, <4>2, <4>3, DayAssumption
    <3>5. d % Day \in Nat /\ 0 < d % Day
      BY <3>3, <3>4, DayAssumption
    <3> QED
      BY <2>2, <3>5 DEF d
  <2> HIDE DEF wall, loudSpan
  <2> DEFINE exists == UtcOf(zone, wall) # {}
  <2>5. /\ end \in Int
        /\ exists => /\ end \in UtcOf(zone, wall) /\ Local(zone, end) = wall
                     /\ \A v \in UtcOf(zone, wall) : v <= end
        /\ ~ exists => /\ end = zone.at /\ Local(zone, end) = zone.at + zone.after
                       /\ wall < zone.at + zone.after /\ wall >= zone.at + zone.before
    BY <2>2, Typed, WhereWallResolves
  <2>9. /\ exists => Local(zone, end) = wall
        /\ ~ exists => /\ end = zone.at /\ Local(zone, end) = zone.at + zone.after
                       /\ wall < zone.at + zone.after /\ wall >= zone.at + zone.before
        /\ wall - zone.before < zone.at => exists /\ wall - zone.before <= end
        /\ wall - zone.after >= zone.at => exists /\ wall - zone.after <= end
    <3>1. zone \in Zone
      BY Typed DEF Searchable
    <3>2. /\ wall - zone.before < zone.at => wall - zone.before \in UtcOf(zone, wall)
          /\ wall - zone.after >= zone.at => wall - zone.after \in UtcOf(zone, wall)
      BY <2>2, <3>1, UtcOfCases
    <3> QED
      BY <2>5, <3>2
  <2>10. /\ now \in Int /\ end \in Int /\ wall \in Int
         /\ zone.before \in Int /\ zone.after \in Int /\ zone.at \in Int
         /\ end < zone.at => Local(zone, end) = end + zone.before
         /\ end >= zone.at => Local(zone, end) = end + zone.after
         /\ now < zone.at => Local(zone, now) = now + zone.before
         /\ now >= zone.at => Local(zone, now) = now + zone.after
    BY <2>2, <2>5, Typed
  <2> HIDE DEF exists
  <2>6. end > now
    BY Typed, QuietEndIsLater DEF end
  <2>7. ~ QuietAt(zone, end, quiet)
    <3>1. CASE exists
      BY <2>3, <2>4, <2>9, <3>1 DEF QuietAt
    <3>2. CASE ~ exists
      <4> DEFINE k == zone.at + zone.after - wall
      <4>1. k \in Nat /\ k < loudSpan /\ wall + k = Local(zone, end)
        BY <2>4, <2>9, <2>10, <3>2
      <4> HIDE DEF k
      <4> QED
        BY <2>3, <4>1 DEF QuietAt
    <3> QED
      BY <3>1, <3>2
  <2>8. ASSUME NEW t \in now .. end - 1
        PROVE  QuietAt(zone, t, quiet) \/ Repeated(t) \/ \E u \in now .. t : Repeated(u)
    <3>0. /\ t \in Int /\ now <= t /\ t < end
          /\ t < zone.at => Local(zone, t) = t + zone.before
          /\ t >= zone.at => Local(zone, t) = t + zone.after
      BY <2>10, Typed
    <3>1. ASSUME Local(zone, t) >= Local(zone, now), Local(zone, t) < wall
          PROVE  QuietAt(zone, t, quiet)
      <4>1. Local(zone, t) \in Local(zone, now) .. wall - 1
        BY <2>2, <3>0, <3>1, Typed
      <4> QED
        BY <2>2, <4>1 DEF QuietAt
    <3>2. CASE t < zone.at
      <4>1. Local(zone, t) >= Local(zone, now)
        BY <2>10, <3>0, <3>2
      <4>2. CASE Local(zone, t) < wall
        BY <3>1, <4>1, <4>2
      <4>3. CASE Local(zone, t) >= wall
        <5>1. wall - zone.before < zone.at
          BY <2>10, <3>0, <3>2, <4>3
        <5>2. end >= zone.at
          BY <2>9, <2>10, <3>0, <3>2, <4>3, <5>1
        <5>3. t + zone.before - zone.after >= zone.at
          BY <2>9, <2>10, <3>0, <3>2, <4>3, <5>1, <5>2
        <5> QED
          BY <3>0, <3>2, <5>3, RepeatedBeforeFold
      <4> QED
        BY <2>10, <3>0, <3>2, <4>2, <4>3
    <3>3. CASE t >= zone.at
      <4>1. Local(zone, t) < wall
        BY <2>9, <2>10, <3>0, <3>3
      <4>2. CASE Local(zone, t) >= Local(zone, now)
        BY <3>1, <4>1, <4>2
      <4>3. CASE Local(zone, t) < Local(zone, now)
        <5> DEFINE last == zone.at - 1
        <5>1. now < zone.at /\ zone.after < zone.before
          BY <2>10, <3>0, <3>3, <4>3
        <5>2. last \in now .. t /\ last < zone.at /\ last \in Int
                /\ last + zone.before - zone.after >= zone.at
          BY <2>10, <3>0, <3>3, <5>1
        <5> HIDE DEF last
        <5>3. Repeated(last)
          BY <5>2, RepeatedBeforeFold
        <5> QED
          BY <5>2, <5>3
      <4> QED
        BY <2>10, <3>0, <3>3, <4>2, <4>3
    <3> QED
      BY <2>10, <3>0, <3>2, <3>3
  <2> QED
    BY <2>6, <2>7, <2>8
<1> QED
  BY <1>1, TypeCorrect, PTL

\* apply_quiet_policy never lets a signal ring inside quiet hours or earlier than
\* due, never moves a main signal, never puts a pre-reminder at or past its event
\* and never silences a repeat: for every zone, interval, kind and planned moment.
THEOREM PolicyKeepsQuiet == Spec => []PolicyNeverWakes
<1>1. TypeOK /\ WindowEndsQuiet => PolicyNeverWakes
  <2> SUFFICES ASSUME TypeOK, WindowEndsQuiet,
                      NEW kind \in NotificationKind, NEW planned \in now .. now + Day
               PROVE  LET d == ApplyQuietPolicy(kind, now, planned, zone, quiet)
                      IN  /\ d.silent \/ ~ QuietAt(zone, d.fire, quiet)
                               \/ zone.after - zone.before >= (quiet.from - quiet.to) % Day
                          /\ d.fire >= now
                          /\ kind = "main" => d.fire = now
                          /\ kind = "pre" /\ d.fire # now => d.fire < planned
                          /\ kind = "repeat" => ~ d.silent
    BY DEF PolicyNeverWakes
  <2> DEFINE d == ApplyQuietPolicy(kind, now, planned, zone, quiet)
             end == QuietEnd(zone, now, quiet)
  <2>1. now \in Int
    BY Typed
  <2>2. CASE ~ QuietAt(zone, now, quiet)
    <3>1. d = [fire |-> now, silent |-> FALSE]
      BY <2>2 DEF ApplyQuietPolicy
    <3> QED
      BY <2>1, <2>2, <3>1
  <2>3. CASE QuietAt(zone, now, quiet)
    <3> DEFINE skips == zone.after - zone.before >= (quiet.from - quiet.to) % Day
    <3>1. end \in Int /\ end > now
      BY <2>3, Typed, QuietEndIsLater
    <3>2. ~ QuietAt(zone, end, quiet) \/ skips
      <4>1. zone.after - zone.before \in Int /\ (quiet.from - quiet.to) % Day \in Int
        <5>1. zone.before \in Int /\ zone.after \in Int /\ quiet \in Quiet
          BY Typed
        <5> DEFINE x == quiet.from - quiet.to
        <5>2. x \in Int
          BY <5>1, DayAssumption DEF Quiet
        <5> HIDE DEF x
        <5>3. x % Day \in 0 .. Day - 1
          BY <5>2, DayDivision
        <5>4. x % Day \in Int
          BY ONLY <5>3, DayAssumption
        <5> QED
          BY ONLY <5>1, <5>4 DEF x
      <4> DEFINE gap == zone.after - zone.before  span == (quiet.from - quiet.to) % Day
      <4>2. gap < span => ~ QuietAt(zone, end, quiet)
        BY <2>3 DEF WindowEndsQuiet
      <4>3. gap \in Int /\ span \in Int /\ (skips <=> gap >= span)
        BY <4>1
      <4> HIDE DEF gap, span, skips, end
      <4> QED
        BY <4>2, <4>3
    <3>3. \/ d = [fire |-> end, silent |-> FALSE] /\ (kind = "repeat" \/ (kind = "pre" /\ end < planned))
          \/ d = [fire |-> now, silent |-> TRUE] /\ kind # "repeat"
      BY <2>3 DEF ApplyQuietPolicy
    <3> HIDE DEF skips, end, d
    <3>4. /\ d.silent \/ ~ QuietAt(zone, d.fire, quiet) \/ skips
          /\ d.fire >= now
          /\ kind = "main" => d.fire = now
          /\ kind = "pre" /\ d.fire # now => d.fire < planned
          /\ kind = "repeat" => ~ d.silent
      BY <2>1, <3>1, <3>2, <3>3
    <3> QED
      BY <3>4 DEF skips, d
  <2> QED
    BY <2>2, <2>3
<1> QED
  BY <1>1, TypeCorrect, WindowAlwaysEndsQuiet, PTL

\* For every zone and wall time the two resolvers of the planner agree; where the
\* wall time exists that of delivery finds it too, and where it does not, delivery
\* goes to the end of the gap and the planner keeps the minutes past it.
THEOREM ResolversAlwaysAgree == Spec => []ResolversAgree
<1>1. TypeOK => ResolversAgree
  <2> DEFINE wall == now + zone.before
             u == ResolveWallTime(zone, wall)
             early == ResolveLocalWall(zone, wall, FALSE)
             late == ResolveLocalWall(zone, wall, TRUE)
             exists == UtcOf(zone, wall) # {}
  <2> SUFFICES ASSUME TypeOK
               PROVE  /\ WallToUtc(zone, wall) = u
                      /\ IF exists
                           THEN /\ early = u /\ Local(zone, u) = wall
                                /\ Local(zone, late) = wall /\ late >= u
                           ELSE /\ early = zone.at /\ late = zone.at
                                /\ Local(zone, u) = wall + (zone.after - zone.before)
    BY DEF ResolversAgree
  <2>1. /\ wall \in Int /\ zone \in Zone /\ Searchable(zone)
        /\ zone.before \in Int /\ zone.after \in Int /\ zone.at \in Int
    BY Typed DEF Searchable
  <2> HIDE DEF wall
  <2>2. WallToUtc(zone, wall) = u
    BY <2>1, ResolveWallTimeIsWallToUtc
  <2>3. CASE exists
    <3> DEFINE S == UtcOf(zone, wall)
    <3>1. /\ early \in S /\ Local(zone, early) = wall /\ \A v \in S : early <= v
          /\ late \in S /\ Local(zone, late) = wall
      BY <2>1, <2>3, WhereWallResolves
    <3>2. S \subseteq Int
      BY <2>1, UtcOfCases
    <3>3. u = CHOOSE x \in S : \A v \in S : x <= v
      BY <2>3 DEF ResolveWallTime
    <3> HIDE DEF S, u, early, late
    <3>4. u \in S /\ \A v \in S : u <= v
      BY <3>1, <3>3
    <3>5. u = early /\ late >= u
      BY <3>1, <3>2, <3>4
    <3> QED
      BY <2>2, <2>3, <3>1, <3>5
  <2>4. CASE ~ exists
    <3>1. early = zone.at /\ late = zone.at
      BY <2>1, <2>4, WhereWallResolves
    <3>2. wall - zone.before >= zone.at
      BY <2>1, <2>4, UtcOfCases
    <3>3. u = wall - zone.before
      BY <2>4 DEF ResolveWallTime
    <3>4. Local(zone, u) = wall + (zone.after - zone.before)
      BY <2>1, <3>2, <3>3 DEF Local, Offset
    <3> QED
      BY <2>2, <2>4, <3>1, <3>4
  <2> QED
    BY <2>3, <2>4
<1> QED
  BY <1>1, TypeCorrect, PTL

\* Two days of wall time, the given date and the one before, in one offset.
Steady(date, off) ==
  \A wall \in (date - 1) * Day .. (date + 1) * Day - 1 :
    /\ Local(zone, wall - off) = wall
    /\ ResolveLocalWall(zone, wall, TRUE) = wall - off

\* Away from a transition every wall time names the one instant.
LEMMA PlainIsSteady ==
  ASSUME TypeOK, NEW date \in Int, date = Local(zone, now) \div Day,
         NEW midnight \in Int, midnight = now - (Local(zone, now) % Day),
         NEW off \in Int, off = Offset(zone, now),
         zone.at \notin midnight - 2 * Day .. midnight + 2 * Day \/ zone.before = zone.after
  PROVE  midnight + off = date * Day /\ Steady(date, off)
<1> DEFINE wall0 == Local(zone, now)
<1>1. /\ Searchable(zone) /\ now \in Int /\ zone \in Zone
      /\ zone.before \in Int /\ zone.after \in Int /\ zone.at \in Int
      /\ Day \in Nat \ {0} /\ zone.before - zone.after <= Day
      /\ off = IF now < zone.at THEN zone.before ELSE zone.after
      /\ wall0 = now + off
  BY Typed, QuietClockAssumption, DayAssumption DEF TypeOK, Searchable, Local, Offset
<1> DEFINE start == date * Day  first0 == (date - 1) * Day  last0 == (date + 1) * Day
<1>2. /\ start \in Int /\ midnight + off = start
      /\ first0 = start - Day /\ last0 = start + Day
      /\ midnight <= now /\ now <= midnight + Day - 1
  <2>1. /\ wall0 \in Int /\ date = wall0 \div Day /\ midnight = now - (wall0 % Day)
        /\ start \in Int /\ start = date * Day
    BY <1>1
  <2>2. now \in Int /\ off \in Int /\ wall0 = now + off /\ date \in Int /\ midnight \in Int
    BY <1>1
  <2>3. (date - 1) * Day = start - Day /\ (date + 1) * Day = start + Day
    BY <1>1, <2>2
  <2> DEFINE time == wall0 % Day
  <2> HIDE DEF wall0, start
  <2>4. time \in 0 .. Day - 1 /\ wall0 = start + time /\ midnight = now - time
    BY ONLY <2>1, DayDivision
  <2> HIDE DEF time
  <2>5. midnight + off = start /\ midnight <= now /\ now <= midnight + Day - 1
    BY ONLY <1>1, <2>1, <2>2, <2>4
  <2> QED
    BY <2>1, <2>3, <2>5, Zenon
<1> HIDE DEF wall0, start, first0, last0
<1>3. ASSUME NEW wall \in first0 .. last0 - 1
      PROVE  Local(zone, wall - off) = wall /\ ResolveLocalWall(zone, wall, TRUE) = wall - off
  <2> DEFINE t == wall - off  first == wall - zone.before  second == wall - zone.after
  <2>1. wall \in Int /\ t \in Int /\ first \in Int /\ second \in Int
          /\ midnight - Day <= t /\ t <= midnight + Day - 1
    BY <1>1, <1>2
  <2>2. /\ first < zone.at => first = t
        /\ second >= zone.at => second = t
        /\ t < zone.at => t = first
        /\ t >= zone.at => t = second
    <3>1. zone.before = zone.after \/ zone.at < midnight - 2 * Day \/ zone.at > midnight + 2 * Day
      BY <1>1
    <3>2. midnight <= now /\ now <= midnight + Day - 1
      BY <1>2
    <3>3. CASE zone.before = zone.after
      BY <1>1, <3>3
    <3>4. CASE zone.at < midnight - 2 * Day
      <4>1. off = zone.after
        BY <1>1, <3>2, <3>4
      <4>2. first >= zone.at
        BY <1>1, <2>1, <3>4, <4>1
      <4> QED
        BY <1>1, <2>1, <3>4, <4>1, <4>2
    <3>5. CASE zone.at > midnight + 2 * Day
      <4>1. off = zone.before
        BY <1>1, <3>2, <3>5
      <4>2. second < zone.at
        BY <1>1, <2>1, <3>5, <4>1
      <4> QED
        BY <1>1, <2>1, <3>5, <4>1, <4>2
    <3> QED
      BY <3>1, <3>3, <3>4, <3>5
  <2>3. Local(zone, t) = wall
    BY <1>1, <2>1, <2>2 DEF Local, Offset
  <2> HIDE DEF t, first, second
  <2>4. t \in UtcOf(zone, wall)
    BY <1>1, <2>1, <2>2, <2>3 DEF UtcOf, first, second
  <2>5. ASSUME NEW u \in UtcOf(zone, wall) PROVE u = t
    <3>1. u \in {first, second} /\ Local(zone, u) = wall
      BY <2>5 DEF UtcOf, first, second
    <3>2. u < zone.at => u = first
      BY <1>1, <2>1, <3>1 DEF Local, Offset, first, second
    <3>3. u >= zone.at => u = second
      BY <1>1, <2>1, <3>1 DEF Local, Offset, first, second
    <3> QED
      BY <1>1, <2>1, <2>2, <3>1, <3>2, <3>3
  <2>6. ResolveLocalWall(zone, wall, TRUE) = t
    BY <1>1, <2>1, <2>4, <2>5, WhereWallResolves
  <2> QED
    BY <2>3, <2>6 DEF t
<1> QED
  BY <1>2, <1>3 DEF Steady, start, first0, last0

\* When the digest of a date is due, in days of one offset.
LEMMA DueWhenSteady ==
  ASSUME TypeOK, NEW date \in Int, NEW off \in Int, Steady(date, off),
         NEW d \in {date - 1, date}, NEW time \in 0 .. Day - 1,
         NEW due \in Int,
         due = (IF ~ IsQuiet(time, quiet) THEN d * Day + time
                ELSE IF quiet.from > quiet.to /\ time >= quiet.from
                       THEN (d + 1) * Day + quiet.to ELSE d * Day + quiet.to),
         due < (date + 1) * Day
  PROVE  DigestDue(zone, d, time, quiet) = due - off
<1> DEFINE wall == d * Day + time
<1>1. /\ Day \in Nat \ {0} /\ date * Day \in Int /\ d \in Int /\ d * Day \in Int
      /\ (date - 1) * Day = date * Day - Day /\ (date + 1) * Day = date * Day + Day
      /\ d * Day \in {date * Day - Day, date * Day} /\ (d + 1) * Day = d * Day + Day
      /\ quiet.from \in 0 .. Day - 1 /\ quiet.to \in 0 .. Day - 1
  BY Typed, DayAssumption DEF Quiet
<1>2. wall \in Int /\ wall % Day = time /\ wall \div Day = d
  BY <1>1, ClockTime
<1>3. wall \in (date - 1) * Day .. (date + 1) * Day - 1
  BY <1>1
<1>4. d * Day + time = wall
  OBVIOUS
<1> HIDE DEF wall
<1> DEFINE candidate == ResolveLocalWall(zone, wall, TRUE)
<1>5. candidate = wall - off /\ Local(zone, candidate) = wall
  BY <1>3 DEF Steady
<1>6. DigestDue(zone, d, time, quiet)
        = IF QuietAt(zone, candidate, quiet) THEN QuietEnd(zone, candidate, quiet) ELSE candidate
  BY <1>4 DEF DigestDue
<1>7. QuietAt(zone, candidate, quiet) <=> IsQuiet(time, quiet)
  BY <1>2, <1>5 DEF QuietAt
<1>8. QuietEndDate(zone, candidate, quiet)
        = IF quiet.from > quiet.to /\ time >= quiet.from THEN d + 1 ELSE d
  BY <1>2, <1>5 DEF QuietEndDate
<1> HIDE DEF candidate
<1>9. CASE ~ IsQuiet(time, quiet)
  BY <1>4, <1>5, <1>6, <1>7, <1>9
<1>10. CASE IsQuiet(time, quiet)
  <2>1. due = QuietEndDate(zone, candidate, quiet) * Day + quiet.to
    BY <1>8, <1>10
  <2>2. QuietEnd(zone, candidate, quiet) = ResolveLocalWall(zone, due, TRUE)
    BY <2>1 DEF QuietEnd
  <2>3. due \in (date - 1) * Day .. (date + 1) * Day - 1
    BY <1>1, <1>10
  <2>4. ResolveLocalWall(zone, due, TRUE) = due - off
    BY <2>3 DEF Steady
  <2> QED
    BY <1>6, <1>7, <1>10, <2>2, <2>4
<1> QED
  BY <1>9, <1>10

\* On a local day away from a transition, whatever the quiet hours and digest_time,
\* there is a loud moment from which the digest may go out.
THEOREM DigestAlwaysHasItsMoment == Spec => []DigestHasItsMoment
<1>1. TypeOK => DigestHasItsMoment
  <2> DEFINE midnight == now - (Local(zone, now) % Day)
             date == Local(zone, now) \div Day
             off == Offset(zone, now)
  <2> SUFFICES ASSUME TypeOK,
                      zone.at \notin midnight - 2 * Day .. midnight + 2 * Day
                        \/ zone.before = zone.after,
                      NEW time \in 0 .. Day - 1
               PROVE  \E t \in midnight .. midnight + Day - 1 :
                        /\ ~ QuietAt(zone, t, quiet)
                        /\ t >= DigestDueForNow(zone, t, time, quiet)
    BY DEF DigestHasItsMoment
  <2>1. /\ date \in Int /\ midnight \in Int /\ off \in Int
        /\ quiet \in Quiet /\ quiet.from \in 0 .. Day - 1 /\ quiet.to \in 0 .. Day - 1
        /\ quiet.from # quiet.to /\ Day \in Nat \ {0}
    <3>1. now \in Int /\ Local(zone, now) \in Int /\ off \in Int /\ quiet \in Quiet
      BY Typed DEF Offset
    <3> HIDE DEF off
    <3>2. Local(zone, now) \div Day \in Int /\ Local(zone, now) % Day \in 0 .. Day - 1
      BY <3>1, DayDivision
    <3>3. midnight \in Int
      BY <3>1, <3>2, DayAssumption
    <3> QED
      BY <3>1, <3>2, <3>3, DayAssumption DEF Quiet
  <2>2. midnight + off = date * Day /\ Steady(date, off)
    BY <2>1, PlainIsSteady
  <2> HIDE DEF midnight, date, off
  <2>3. /\ date * Day \in Int /\ (date - 1) * Day = date * Day - Day /\ date - 1 \in Int
        /\ (date + 1) * Day = date * Day + Day /\ (date - 1) + 1 = date
    BY <2>1
  <2> DEFINE quietTime == IsQuiet(time, quiet)
             clockTime == IF quietTime THEN quiet.to ELSE time
             late == quietTime /\ quiet.from > quiet.to /\ time >= quiet.from
             wall == date * Day + clockTime
             t == midnight + clockTime
  <2>4. /\ clockTime \in 0 .. Day - 1 /\ ~ IsQuiet(clockTime, quiet)
        /\ quietTime /\ ~ late => time < quiet.to
    BY <2>1 DEF IsQuiet
  <2> HIDE DEF clockTime
  <2>5. wall \in Int /\ wall % Day = clockTime /\ wall \div Day = date
    BY <2>1, <2>4, ClockTime
  <2>6. t \in midnight .. midnight + Day - 1 /\ t = wall - off /\ t \in Int
          /\ wall \in (date - 1) * Day .. (date + 1) * Day - 1
    BY <2>1, <2>2, <2>3, <2>4
  <2>7. Local(zone, t) = wall
    BY <2>2, <2>6 DEF Steady
  <2>8. ~ QuietAt(zone, t, quiet)
    BY <2>4, <2>5, <2>7 DEF QuietAt
  <2> DEFINE previous == DigestDue(zone, date - 1, time, quiet)
  <2>9. DigestDueForNow(zone, t, time, quiet)
          = IF Local(zone, previous) \div Day = date THEN previous
                                                     ELSE DigestDue(zone, date, time, quiet)
    BY <2>5, <2>7 DEF DigestDueForNow
  <2>10. wall = date * Day + clockTime
    OBVIOUS
  <2> HIDE DEF wall, t, previous
  <2>11. CASE late
    <3>1. wall = date * Day + quiet.to /\ wall < (date + 1) * Day /\ quietTime
      BY <2>1, <2>3, <2>11, <2>10 DEF clockTime
    <3>2. wall = (IF ~ IsQuiet(time, quiet) THEN (date - 1) * Day + time
                  ELSE IF quiet.from > quiet.to /\ time >= quiet.from
                         THEN ((date - 1) + 1) * Day + quiet.to ELSE (date - 1) * Day + quiet.to)
      BY <2>3, <2>11, <3>1
    <3>3. previous = wall - off
      BY <2>1, <2>2, <2>3, <2>5, <3>1, <3>2, DueWhenSteady DEF previous
    <3>4. Local(zone, previous) \div Day = date
      BY <2>5, <2>6, <2>7, <3>3
    <3> QED
      BY <2>6, <2>8, <2>9, <3>3, <3>4
  <2>12. CASE ~ late
    <3> DEFINE before == wall - Day
    <3>1. wall = (IF ~ IsQuiet(time, quiet) THEN date * Day + time
                  ELSE IF quiet.from > quiet.to /\ time >= quiet.from
                         THEN (date + 1) * Day + quiet.to ELSE date * Day + quiet.to)
            /\ wall < (date + 1) * Day
      BY <2>1, <2>3, <2>4, <2>10, <2>12 DEF clockTime
    <3>2. before = (IF ~ IsQuiet(time, quiet) THEN (date - 1) * Day + time
                    ELSE IF quiet.from > quiet.to /\ time >= quiet.from
                           THEN ((date - 1) + 1) * Day + quiet.to
                           ELSE (date - 1) * Day + quiet.to)
            /\ before < (date + 1) * Day /\ before \in Int
            /\ before \in (date - 1) * Day .. (date + 1) * Day - 1
      BY <2>1, <2>3, <2>4, <2>5, <2>10, <2>12 DEF clockTime
    <3>3. before - (date - 1) * Day \in 0 .. Day - 1
      BY <2>1, <2>3, <2>4, <2>5, <2>10
    <3> HIDE DEF before
    <3>4. previous = before - off
      BY <2>1, <2>2, <2>3, <3>2, DueWhenSteady DEF previous
    <3>5. Local(zone, previous) = before
      BY <2>2, <3>2, <3>4 DEF Steady
    <3>6. before \div Day = date - 1
      BY <2>3, <3>2, <3>3, ClockOf
    <3>7. DigestDue(zone, date, time, quiet) = wall - off
      BY <2>1, <2>2, <2>5, <3>1, DueWhenSteady
    <3>8. DigestDueForNow(zone, t, time, quiet) = t
      BY <2>1, <2>6, <2>9, <3>5, <3>6, <3>7
    <3> QED
      BY <2>6, <2>8, <3>8
  <2> QED
    BY <2>11, <2>12
<1> QED
  BY <1>1, TypeCorrect, PTL
=============================================================================
