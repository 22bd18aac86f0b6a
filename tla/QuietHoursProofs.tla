-------------------------- MODULE QuietHoursProofs --------------------------
(***************************************************************************)
(* Facts about the time arithmetic of QuietHours, for every length of day, *)
(* zone and quiet interval, and about the orders in which the code lists   *)
(* what it works through (users, slots to insert, planned signals).        *)
(***************************************************************************)
EXTENDS QuietHours, FiniteSetTheorems, TLAPS

\* A zone whose transition skips no more wall time than the search of
\* resolve_local_wall covers.
Searchable(z) == z \in Zone /\ z.after - z.before <= RollLimit

\* A wall time read with one of the two offsets names an instant exactly when
\* that offset is in force at it.
LEMMA UtcOfCases ==
  ASSUME NEW z \in Zone, NEW wall \in Int
  PROVE  /\ UtcOf(z, wall) \subseteq Int
         /\ \A u \in UtcOf(z, wall) : Local(z, u) = wall
         /\ wall - z.before < z.at => wall - z.before \in UtcOf(z, wall)
         /\ wall - z.after >= z.at => wall - z.after \in UtcOf(z, wall)
         /\ UtcOf(z, wall) = {} => wall - z.before >= z.at /\ wall - z.after < z.at
<1>1. z.before \in Int /\ z.after \in Int /\ z.at \in Int
  BY DEF Zone
<1>2. wall - z.before < z.at => Local(z, wall - z.before) = wall
  BY <1>1 DEF Local, Offset
<1>3. wall - z.after >= z.at => Local(z, wall - z.after) = wall
  BY <1>1 DEF Local, Offset
<1> QED
  BY <1>1, <1>2, <1>3 DEF UtcOf

\* resolve_local_wall finds an instant whose wall time is the one asked for or
\* the first later one that exists, and it takes the side it is asked to take.
LEMMA ResolveLocalWallFinds ==
  ASSUME NEW z, Searchable(z), NEW wall \in Int, NEW late \in BOOLEAN
  PROVE  \E k \in 0 .. RollLimit :
           LET u == ResolveLocalWall(z, wall, late)
           IN  /\ u \in UtcOf(z, wall + k)
               /\ \A v \in UtcOf(z, wall + k) : IF late THEN v <= u ELSE u <= v
               /\ \A j \in 0 .. k - 1 : UtcOf(z, wall + j) = {}
<1> DEFINE Exists(k) == UtcOf(z, wall + k) # {}
           First(k)  == Exists(k) /\ \A j \in 0 .. k - 1 : ~ Exists(j)
           roll  == CHOOSE k \in 0 .. RollLimit : First(k)
           found == UtcOf(z, wall + roll)
           Ends(u) == \A v \in found : IF late THEN v <= u ELSE u <= v
<1>0. /\ z \in Zone /\ z.before \in Int /\ z.after \in Int /\ z.at \in Int
      /\ RollLimit \in Nat /\ z.after - z.before <= RollLimit
  BY RollLimitAssumption DEF Searchable, Zone
<1>1. \E k \in 0 .. RollLimit : First(k)
  <2>1. CASE Exists(0)
    BY <2>1, <1>0
  <2>2. CASE ~ Exists(0)
    <3> DEFINE gap == z.at + z.after - wall
    <3>1. wall - z.before >= z.at /\ wall - z.after < z.at
      BY <2>2, <1>0, UtcOfCases
    <3>2. gap \in 1 .. RollLimit
      BY <3>1, <1>0
    <3>3. Exists(gap)
      <4>1. wall + gap \in Int /\ (wall + gap) - z.after >= z.at
        BY <1>0
      <4> HIDE DEF gap
      <4> QED
        BY <4>1, <1>0, UtcOfCases
    <3>4. ASSUME NEW j \in 0 .. gap - 1 PROVE ~ Exists(j)
      BY <3>1, <3>2, <1>0 DEF UtcOf, Local, Offset
    <3> HIDE DEF gap, Exists
    <3>5. First(gap)
      BY <3>3, <3>4
    <3> QED
      BY <3>2, <3>5, <1>0
  <2> QED
    BY <2>1, <2>2
<1>2. roll \in 0 .. RollLimit /\ First(roll)
  BY <1>1
<1> HIDE DEF roll
<1>3. found # {} /\ found \subseteq Int
  <2>1. wall + roll \in Int
    BY <1>2, <1>0
  <2> QED
    BY <2>1, <1>2, <1>0, UtcOfCases
<1>4. \E u \in found : Ends(u)
  <2> DEFINE a == (wall + roll) - z.before  b == (wall + roll) - z.after
  <2>1. found \subseteq {a, b}
    BY SMT DEF UtcOf
  <2>2. a \in Int /\ b \in Int
    BY <1>0, <1>2
  <2> HIDE DEF found, a, b
  <2>3. CASE a \in found /\ b \in found
    <3>1. a <= b \/ b <= a
      BY <2>2
    <3> QED
      BY <3>1, <2>1, <2>2, <2>3
  <2>4. CASE ~ (a \in found /\ b \in found)
    <3>1. PICK u : found = {u} /\ u \in Int
      BY <2>1, <2>2, <2>4, <1>3
    <3> QED
      BY <3>1
  <2> QED
    BY <2>3, <2>4
<1>5. ResolveLocalWall(z, wall, late) = CHOOSE u \in found : Ends(u)
  BY DEF ResolveLocalWall, roll
<1>6. ResolveLocalWall(z, wall, late) \in found /\ Ends(ResolveLocalWall(z, wall, late))
  BY <1>4, <1>5
<1> QED
  BY <1>2, <1>6

LEMMA DayDivision ==
  ASSUME NEW wall \in Int
  PROVE  /\ wall \div Day \in Int
         /\ wall % Day \in 0 .. Day - 1
         /\ wall = (wall \div Day) * Day + (wall % Day)
  BY DayAssumption

\* A date and a clock time make a wall time that has them.
LEMMA ClockTime ==
  ASSUME NEW date \in Int, NEW time \in 0 .. Day - 1
  PROVE  /\ date * Day + time \in Int
         /\ (date * Day + time) % Day = time
         /\ (date * Day + time) \div Day = date
<1> DEFINE wall == date * Day + time
<1>1. Day \in Nat \ {0} /\ wall \in Int
  BY DayAssumption
<1> DEFINE d == wall \div Day  m == wall % Day
<1>2. d \in Int /\ m \in 0 .. Day - 1 /\ wall = d * Day + m
  BY <1>1, DayDivision
<1>3. (d - date) * Day = time - m
  <2> HIDE DEF d, m
  <2>1. (d - date) * Day = d * Day - date * Day
    BY <1>1, <1>2
  <2> QED
    BY <1>1, <1>2, <2>1
<1>4. d - date = 0
  <2> DEFINE k == d - date
  <2>1. k \in Int /\ k * Day = time - m
    BY <1>2, <1>3
  <2> HIDE DEF k, d, m
  <2>2. k >= 1 => k * Day >= Day
    BY <1>1, <2>1
  <2>3. k <= -1 => k * Day <= - Day
    BY <1>1, <2>1
  <2>4. k = 0
    BY <1>1, <1>2, <2>1, <2>2, <2>3
  <2> QED
    BY <2>4 DEF k
<1>5. d = date
  BY <1>2, <1>4
<1> QED
  BY <1>1, <1>2, <1>5

\* The end of the quiet interval that contains a moment is an instant after
\* it, on both sides of a daylight-saving transition: a postponed notification
\* always has somewhere later to go, so no claim postpones it twice in a row
\* to the same moment.
THEOREM QuietEndIsLater ==
  ASSUME NEW z, Searchable(z), NEW t \in Int, NEW q \in Quiet, QuietAt(z, t, q)
  PROVE  QuietEnd(z, t, q) \in Int /\ QuietEnd(z, t, q) > t
<1> DEFINE wall == Local(z, t)
           end  == QuietEndDate(z, t, q) * Day + q.to
<1>1. /\ z \in Zone /\ z.before \in Int /\ z.after \in Int /\ z.at \in Int
      /\ q.from \in 0 .. Day - 1 /\ q.to \in 0 .. Day - 1 /\ q.from # q.to
      /\ Day \in Nat \ {0}
  BY DayAssumption DEF Searchable, Zone, Quiet
<1>2. wall \in Int
  BY <1>1 DEF Local, Offset
<1>3. end \in Int /\ end > wall
  <2> DEFINE date == wall \div Day  time == wall % Day
  <2>1. date \in Int /\ time \in 0 .. Day - 1 /\ wall = date * Day + time
    BY <1>2, DayDivision
  <2>2. IsQuiet(time, q)
    BY DEF QuietAt
  <2> HIDE DEF date, time
  <2>3. (date + 1) * Day = date * Day + Day /\ date * Day \in Int
    BY <1>1, <2>1
  <2>4. CASE q.from > q.to /\ time >= q.from
    <3>1. end = (date + 1) * Day + q.to
      BY <2>4 DEF QuietEndDate, date, time
    <3> QED
      BY <3>1, <2>1, <2>3, <1>1
  <2>5. CASE ~ (q.from > q.to /\ time >= q.from)
    <3>1. end = date * Day + q.to
      BY <2>5 DEF QuietEndDate, date, time
    <3>2. time < q.to
      BY <2>1, <2>2, <2>5, <1>1 DEF IsQuiet
    <3> QED
      BY <3>1, <3>2, <2>1, <2>3, <1>1
  <2> QED
    BY <2>4, <2>5
<1> HIDE DEF end
<1>4. QuietEnd(z, t, q) = ResolveLocalWall(z, end, TRUE)
  BY DEF QuietEnd, end
<1>5. PICK k \in 0 .. RollLimit :
        LET u == ResolveLocalWall(z, end, TRUE)
        IN  /\ u \in UtcOf(z, end + k)
            /\ \A v \in UtcOf(z, end + k) : v <= u
  BY <1>3, ResolveLocalWallFinds
<1> DEFINE u == QuietEnd(z, t, q)  around == UtcOf(z, end + k)
<1>6. end + k \in Int /\ end + k > wall
  BY <1>2, <1>3, RollLimitAssumption
<1>7. u \in Int /\ Local(z, u) = end + k
  <2>1. u \in around
    BY <1>4, <1>5
  <2>2. around \subseteq Int /\ \A v \in around : Local(z, v) = end + k
    BY <1>1, <1>6, UtcOfCases
  <2> QED
    BY <2>1, <2>2
\* An earlier instant with a later wall time lies before an autumn transition
\* that t is past; the same wall time then comes round again after t.
<1>8. u > t
  <2>1. SUFFICES ASSUME u <= t PROVE FALSE
    BY <1>7
  <2>2. u < z.at /\ t >= z.at
    BY <2>1, <1>1, <1>6, <1>7 DEF Local, Offset
  <2>3. (end + k) - z.after > t /\ (end + k) - z.after >= z.at
    BY <2>2, <1>1, <1>6 DEF Local, Offset
  <2>4. (end + k) - z.after \in UtcOf(z, end + k)
    BY <2>3, <1>1, <1>6, UtcOfCases
  <2>5. (end + k) - z.after <= u
    BY <2>4, <1>4, <1>5
  <2> QED
    BY <2>1, <2>3, <2>5, <1>1, <1>6, <1>7
<1> QED
  BY <1>7, <1>8

\* The beginning of the quiet interval that contains a moment is not after it:
\* what completed_quiet_window and quiet_window each take for the interval
\* overlaps at every moment delivery treats as quiet.
THEOREM QuietBeginIsEarlier ==
  ASSUME NEW z, Searchable(z), NEW t \in Int, NEW q \in Quiet, QuietAt(z, t, q)
  PROVE  CompletedQuietWindow(z, QuietEndDate(z, t, q), q)[1] <= t
<1> DEFINE wall  == Local(z, t)
           day   == QuietEndDate(z, t, q)
           begin == (IF q.from > q.to THEN day - 1 ELSE day) * Day + q.from
<1>1. /\ z \in Zone /\ z.before \in Int /\ z.after \in Int /\ z.at \in Int
      /\ q.from \in 0 .. Day - 1 /\ q.to \in 0 .. Day - 1 /\ q.from # q.to
      /\ Day \in Nat \ {0} /\ RollLimit \in Nat /\ z.after - z.before <= RollLimit
  BY DayAssumption, RollLimitAssumption DEF Searchable, Zone, Quiet
<1>2. wall \in Int
  BY <1>1 DEF Local, Offset
<1>3. begin \in Int /\ begin <= wall
  <2> DEFINE date == wall \div Day  time == wall % Day
  <2>1. date \in Int /\ time \in 0 .. Day - 1 /\ wall = date * Day + time
    BY <1>2, DayDivision
  <2>2. IsQuiet(time, q)
    BY DEF QuietAt
  <2>3. day = IF q.from > q.to /\ time >= q.from THEN date + 1 ELSE date
    BY DEF QuietEndDate
  <2> HIDE DEF date, time, day
  <2>4. (date - 1) * Day = date * Day - Day /\ date * Day \in Int
    BY <1>1, <2>1
  <2>5. CASE q.from > q.to /\ time >= q.from
    <3>1. begin = date * Day + q.from
      BY <2>1, <2>3, <2>5
    <3> QED
      BY <3>1, <2>1, <2>4, <2>5, <1>1
  <2>6. CASE q.from > q.to /\ time < q.from
    <3>1. begin = (date - 1) * Day + q.from
      BY <2>1, <2>3, <2>6, <1>1
    <3> QED
      BY <3>1, <2>1, <2>4, <1>1
  <2>7. CASE q.from < q.to
    <3>1. begin = date * Day + q.from /\ time >= q.from
      BY <2>1, <2>2, <2>3, <2>7, <1>1 DEF IsQuiet
    <3> QED
      BY <3>1, <2>1, <2>4, <1>1
  <2> QED
    BY <2>1, <2>5, <2>6, <2>7, <1>1
<1> DEFINE u == ResolveLocalWall(z, begin, FALSE)
<1>4. CompletedQuietWindow(z, QuietEndDate(z, t, q), q)[1] = u
  BY DEF CompletedQuietWindow
<1> HIDE DEF begin
<1>5. PICK k \in 0 .. RollLimit :
        /\ u \in UtcOf(z, begin + k)
        /\ \A v \in UtcOf(z, begin + k) : u <= v
        /\ \A j \in 0 .. k - 1 : UtcOf(z, begin + j) = {}
  BY <1>3, ResolveLocalWallFinds
<1> HIDE DEF u
<1>6. begin + k \in Int
  BY <1>3, <1>1
<1>7. u \in Int /\ Local(z, u) = begin + k
                /\ u \in {(begin + k) - z.before, (begin + k) - z.after}
  <2>1. u \in {(begin + k) - z.before, (begin + k) - z.after}
    BY <1>5 DEF UtcOf
  <2> QED
    BY <2>1, <1>1, <1>5, <1>6, UtcOfCases
\* The interval begins at a wall time that exists.
<1>8. CASE k = 0
  <2>1. SUFFICES ASSUME u > t PROVE FALSE
    BY <1>7, <1>4
  <2>2. u >= z.at /\ t < z.at
    BY <2>1, <1>8, <1>1, <1>3, <1>7 DEF Local, Offset
  <2>3. begin - z.before <= t
    BY <2>2, <1>1, <1>3 DEF Local, Offset
  <2>4. begin - z.before \in UtcOf(z, begin + k)
    BY <2>2, <2>3, <1>1, <1>3, <1>8, UtcOfCases
  <2>5. u <= begin - z.before
    BY <2>4, <1>5
  <2> QED
    BY <2>1, <2>3, <2>5, <1>1, <1>3, <1>7
\* It begins inside the gap, so with the first instant after it.
<1>9. CASE k # 0
  <2>1. UtcOf(z, begin) = {}
    <3>1. 0 \in 0 .. k - 1 /\ begin + 0 = begin
      BY <1>9, <1>1, <1>3
    <3>2. UtcOf(z, begin + 0) = {}
      BY <3>1, <1>5
    <3> QED
      BY <3>1, <3>2
  <2>2. begin - z.before >= z.at /\ begin - z.after < z.at
    BY <2>1, <1>1, <1>3, UtcOfCases
  <2>3. t >= z.at
    BY <2>2, <1>1, <1>3 DEF Local, Offset
  <2> DEFINE gap == z.at + z.after - begin
  <2>4. gap \in Int /\ gap \in 1 .. RollLimit
    BY <2>2, <1>1, <1>3
  <2>5. UtcOf(z, begin + gap) # {}
    <3>1. begin + gap \in Int /\ (begin + gap) - z.after >= z.at
      BY <1>1, <1>3
    <3> HIDE DEF gap
    <3> QED
      BY <3>1, <1>1, UtcOfCases
  <2>6. k <= gap
    <3> HIDE DEF gap
    <3>1. SUFFICES ASSUME k > gap PROVE FALSE
      BY <2>4
    <3>2. gap \in 0 .. k - 1
      BY <3>1, <2>4
    <3> QED
      BY <3>2, <2>5, <1>5
  <2>7. u <= z.at
    BY <2>2, <2>6, <1>1, <1>3, <1>7 DEF Local, Offset
  <2> QED
    BY <2>3, <2>7, <1>1, <1>4, <1>7
<1> QED
  BY <1>8, <1>9

\* scheduling.resolve_wall_time and timezones._wall_to_utc read every wall
\* time alike: an entry's occurrences are unfolded where its time was saved.
THEOREM ResolveWallTimeIsWallToUtc ==
  ASSUME NEW z \in Zone, NEW wall \in Int
  PROVE  ResolveWallTime(z, wall) = WallToUtc(z, wall)
<1> DEFINE first == wall - z.before  second == wall - z.after  valid == UtcOf(z, wall)
<1>1. z.before \in Int /\ z.after \in Int /\ z.at \in Int /\ first \in Int /\ second \in Int
  BY DEF Zone
<1>2. valid \subseteq {first, second}
  BY DEF UtcOf
<1>3. CASE first < z.at
  <2>1. first \in valid /\ \A v \in valid : first <= v
    BY <1>1, <1>3 DEF UtcOf, Local, Offset
  <2>2. \A u \in valid : (\A v \in valid : u <= v) => u = first
    BY <2>1, <1>1, <1>2
  <2> HIDE DEF valid
  <2>3. (CHOOSE u \in valid : \A v \in valid : u <= v) = first
    BY <2>1, <2>2
  <2> QED
    BY <2>1, <2>3, <1>3 DEF ResolveWallTime, WallToUtc, valid
<1>4. CASE first >= z.at /\ second < z.at
  <2>1. valid = {}
    BY <1>1, <1>4 DEF UtcOf, Local, Offset
  <2> QED
    BY <2>1, <1>4 DEF ResolveWallTime, WallToUtc
<1>5. CASE first >= z.at /\ second >= z.at
  <2>1. second \in valid /\ \A v \in valid : v = second
    BY <1>1, <1>5 DEF UtcOf, Local, Offset
  <2> HIDE DEF valid
  <2>2. (CHOOSE u \in valid : \A v \in valid : u <= v) = second
    BY <2>1, <1>1
  <2> QED
    BY <2>1, <2>2, <1>1, <1>5 DEF ResolveWallTime, WallToUtc, valid
<1> QED
  BY <1>1, <1>3, <1>4, <1>5
-----------------------------------------------------------------------------
(* Quiet hours read off wall times. *)

LEMMA ClockOf ==
  ASSUME NEW date \in Int, NEW wall \in Int, wall - date * Day \in 0 .. Day - 1
  PROVE  wall % Day = wall - date * Day /\ wall \div Day = date
<1> DEFINE time == wall - date * Day
<1>1. Day \in Nat /\ date * Day \in Int /\ time \in 0 .. Day - 1
  BY DayAssumption
<1>2. wall = date * Day + time
  BY <1>1
<1> HIDE DEF time
<1>3. wall % Day = time /\ wall \div Day = date
  BY <1>1, <1>2, ClockTime
<1> QED
  BY <1>3 DEF time

\* From a quiet wall time to the end of the interval every wall time is quiet.
LEMMA StretchIsQuiet ==
  ASSUME NEW wall \in Int, NEW q \in Quiet, IsQuiet(wall % Day, q), NEW last \in Int,
         last = IF q.from > q.to /\ wall % Day >= q.from THEN wall \div Day + 1
                                                         ELSE wall \div Day,
         NEW bound \in Int, bound = last * Day + q.to
  PROVE  /\ bound > wall
         /\ \A v \in wall .. bound - 1 : IsQuiet(v % Day, q)
<1> DEFINE date == wall \div Day  time == wall % Day
<1>1. /\ date \in Int /\ time \in 0 .. Day - 1 /\ wall = date * Day + time
      /\ Day \in Nat \ {0} /\ date * Day \in Int /\ (date + 1) * Day = date * Day + Day
      /\ q.from \in 0 .. Day - 1 /\ q.to \in 0 .. Day - 1 /\ q.from # q.to
      /\ IsQuiet(time, q)
  BY DayDivision, DayAssumption DEF Quiet
<1> HIDE DEF date, time
<1>2. ASSUME NEW end \in Int, end > wall,
             \/ q.from > q.to /\ time >= q.from /\ end = date * Day + Day + q.to
             \/ ~ (q.from > q.to /\ time >= q.from) /\ end = date * Day + q.to /\ time < q.to,
             NEW v \in wall .. end - 1
      PROVE  IsQuiet(v % Day, q)
  <2>1. CASE v < date * Day + Day
    <3>1. v \in Int /\ v - date * Day \in 0 .. Day - 1
      BY <1>1, <2>1
    <3>2. v % Day = v - date * Day
      BY <1>1, <3>1, ClockOf
    <3> QED
      BY <1>1, <1>2, <3>1, <3>2 DEF IsQuiet
  <2>2. CASE v >= date * Day + Day
    <3>1. q.from > q.to /\ time >= q.from /\ end = date * Day + Day + q.to
      BY <1>1, <1>2, <2>2
    <3>2. v \in Int /\ v - (date + 1) * Day \in 0 .. Day - 1 /\ date + 1 \in Int
      BY <1>1, <2>2, <3>1
    <3>3. v % Day = v - (date + 1) * Day
      BY <3>2, ClockOf
    <3> QED
      BY <1>1, <3>1, <3>2, <3>3 DEF IsQuiet
  <2> QED
    BY <1>1, <2>1, <2>2
<1>3. CASE q.from > q.to /\ time >= q.from
  <2> DEFINE end == (date + 1) * Day + q.to
  <2>1. end \in Int /\ end = date * Day + Day + q.to /\ end > wall
    BY <1>1
  <2> HIDE DEF end
  <2>2. \A v \in wall .. end - 1 : IsQuiet(v % Day, q)
    BY <1>2, <1>3, <2>1
  <2>3. bound = end
    BY <1>3 DEF date, time, end
  <2> QED
    BY <2>1, <2>2, <2>3
<1>4. CASE ~ (q.from > q.to /\ time >= q.from)
  <2> DEFINE end == date * Day + q.to
  <2>1. time < q.to
    BY <1>1, <1>4 DEF IsQuiet
  <2>2. end \in Int /\ end > wall
    BY <1>1, <2>1
  <2>3. end = date * Day + q.to
    OBVIOUS
  <2> HIDE DEF end
  <2>4. \A v \in wall .. end - 1 : IsQuiet(v % Day, q)
    BY <1>2, <1>4, <2>1, <2>2, <2>3
  <2>5. bound = end
    BY <1>4 DEF date, time, end
  <2> QED
    BY <2>2, <2>4, <2>5
<1> QED
  BY <1>3, <1>4

\* The wall times after the end of an interval are loud up to the next one.
LEMMA AfterEndIsLoud ==
  ASSUME NEW date \in Int, NEW q \in Quiet, NEW k \in Nat, k < (q.from - q.to) % Day
  PROVE  ~ IsQuiet((date * Day + q.to + k) % Day, q)
<1> DEFINE wall == date * Day + q.to + k  loud == (q.from - q.to) % Day
<1>1. /\ Day \in Nat \ {0} /\ date * Day \in Int /\ (date + 1) * Day = date * Day + Day
      /\ 0 * Day = 0 /\ (-1) * Day = - Day
      /\ q.from \in 0 .. Day - 1 /\ q.to \in 0 .. Day - 1 /\ q.from # q.to
  BY DayAssumption DEF Quiet
<1>2. loud = IF q.from > q.to THEN q.from - q.to ELSE q.from - q.to + Day
  <2> DEFINE d == q.from - q.to
  <2>1. CASE q.from > q.to
    <3>1. d \in Int /\ d - 0 * Day \in 0 .. Day - 1
      BY <1>1, <2>1
    <3>2. d % Day = d - 0 * Day
      BY <3>1, ClockOf
    <3> QED
      BY <1>1, <2>1, <3>2
  <2>2. CASE ~ (q.from > q.to)
    <3>1. d \in Int /\ d - (-1) * Day \in 0 .. Day - 1
      BY <1>1, <2>2
    <3>2. d % Day = d - (-1) * Day
      BY <3>1, ClockOf
    <3> QED
      BY <1>1, <2>2, <3>2
  <2> QED
    BY <2>1, <2>2
<1>3. wall \in Int
  BY <1>1
<1>4. k < loud /\ wall = date * Day + q.to + k
  OBVIOUS
<1> HIDE DEF loud, wall
<1>5. CASE q.to + k < Day
  <2>1. wall - date * Day \in 0 .. Day - 1
    BY <1>1, <1>4, <1>5
  <2>2. wall % Day = wall - date * Day
    BY <1>3, <2>1, ClockOf
  <2> QED
    BY <1>1, <1>2, <1>4, <1>5, <2>2 DEF IsQuiet, wall
<1>6. CASE q.to + k >= Day
  <2>1. wall - (date + 1) * Day \in 0 .. Day - 1 /\ date + 1 \in Int
    BY <1>1, <1>2, <1>4, <1>6
  <2>2. wall % Day = wall - (date + 1) * Day
    BY <1>3, <2>1, ClockOf
  <2> QED
    BY <1>1, <1>2, <1>4, <1>6, <2>2 DEF IsQuiet, wall
<1> QED
  BY <1>1, <1>5, <1>6

\* Where resolve_local_wall leads: to an instant with the wall time asked for,
\* the first or the last one, or out of the gap to its end.
LEMMA WhereWallResolves ==
  ASSUME NEW z, Searchable(z), NEW wall \in Int, NEW late \in BOOLEAN
  PROVE  LET u == ResolveLocalWall(z, wall, late)
         IN  /\ u \in Int
             /\ UtcOf(z, wall) # {} =>
                  /\ u \in UtcOf(z, wall) /\ Local(z, u) = wall
                  /\ \A v \in UtcOf(z, wall) : IF late THEN v <= u ELSE u <= v
             /\ UtcOf(z, wall) = {} =>
                  /\ u = z.at /\ Local(z, u) = z.at + z.after
                  /\ wall < z.at + z.after /\ wall >= z.at + z.before
<1> DEFINE u == ResolveLocalWall(z, wall, late)
<1>1. /\ z \in Zone /\ z.before \in Int /\ z.after \in Int /\ z.at \in Int
      /\ RollLimit \in Nat /\ z.after - z.before <= RollLimit
  BY RollLimitAssumption DEF Searchable, Zone
<1>2. PICK k \in 0 .. RollLimit :
        /\ u \in UtcOf(z, wall + k)
        /\ \A v \in UtcOf(z, wall + k) : IF late THEN v <= u ELSE u <= v
        /\ \A j \in 0 .. k - 1 : UtcOf(z, wall + j) = {}
  BY ResolveLocalWallFinds
<1> HIDE DEF u
<1>3. wall + k \in Int /\ wall + 0 = wall
  BY <1>1
<1>4. u \in Int /\ Local(z, u) = wall + k /\ u \in {wall + k - z.before, wall + k - z.after}
  <2> DEFINE w == wall + k
  <2>1. w \in Int /\ u \in UtcOf(z, w)
    BY <1>2, <1>3
  <2> HIDE DEF w
  <2>2. u \in {w - z.before, w - z.after}
    BY <2>1 DEF UtcOf
  <2>3. u \in Int /\ Local(z, u) = w
    BY <1>1, <2>1, UtcOfCases
  <2>4. w = wall + k
    BY DEF w
  <2> QED
    BY <1>1, <2>2, <2>3, <2>4
<1>5. CASE UtcOf(z, wall) # {}
  <2>1. k = 0
    <3>1. SUFFICES ASSUME k # 0 PROVE FALSE
      OBVIOUS
    <3>2. 0 \in 0 .. k - 1
      BY <1>1, <3>1
    <3> QED
      BY <1>2, <1>3, <1>5, <3>2
  <2> QED
    BY <1>2, <1>3, <1>4, <1>5, <2>1 DEF u
<1>6. CASE UtcOf(z, wall) = {}
  <2> DEFINE gap == z.at + z.after - wall
  <2>1. wall - z.before >= z.at /\ wall - z.after < z.at
    BY <1>1, <1>6, UtcOfCases
  <2>2. gap \in 1 .. RollLimit /\ wall + gap \in Int /\ wall + gap - z.after = z.at
    BY <1>1, <2>1
  <2> HIDE DEF gap
  <2>3. UtcOf(z, wall + gap) # {}
    <3> DEFINE w == wall + gap
    <3>1. w \in Int /\ w - z.after >= z.at
      BY <1>1, <2>2
    <3> HIDE DEF w
    <3>2. UtcOf(z, w) # {}
      BY <1>1, <3>1, UtcOfCases
    <3> QED
      BY <3>2 DEF w
  <2>4. k <= gap
    <3>1. SUFFICES ASSUME k > gap PROVE FALSE
      BY <2>2
    <3>2. gap \in 0 .. k - 1
      BY <2>2, <3>1
    <3> QED
      BY <1>2, <2>3, <3>2
  <2>5. u <= z.at
    BY <1>1, <1>4, <2>1, <2>2, <2>4 DEF Local, Offset
  <2>6. u = z.at
    BY <1>1, <1>3, <1>4, <2>1, <2>5 DEF Local, Offset
  <2>7. Local(z, u) = z.at + z.after
    BY <1>1, <2>6 DEF Local, Offset
  <2> QED
    BY <1>1, <1>4, <1>6, <2>1, <2>6, <2>7 DEF u
<1> QED
  BY <1>5, <1>6

-----------------------------------------------------------------------------
(* Finite sets and orders. *)

\* How much wall time a transition may skip.
Skipped(z) == IF z.after > z.before THEN z.after - z.before ELSE 0

\* From the end of a quiet interval on it is loud until the next one begins,
\* less what a transition skips.
LEMMA LoudAfterEnd ==
  ASSUME NEW z, Searchable(z), NEW t \in Int, NEW q \in Quiet, QuietAt(z, t, q),
         NEW k \in Nat, k + Skipped(z) < (q.from - q.to) % Day
  PROVE  ~ QuietAt(z, QuietEnd(z, t, q) + k, q)
<1> DEFINE date == QuietEndDate(z, t, q)
           end == date * Day + q.to
           u == ResolveLocalWall(z, end, TRUE)
           loud == (q.from - q.to) % Day
<1>1. /\ z.before \in Int /\ z.after \in Int /\ z.at \in Int
      /\ q.from \in 0 .. Day - 1 /\ q.to \in 0 .. Day - 1 /\ Day \in Nat \ {0}
  BY DayAssumption DEF Searchable, Zone, Quiet
<1>2. date \in Int
  <2>1. Local(z, t) \in Int
    BY <1>1 DEF Local, Offset
  <2>2. Local(z, t) \div Day \in Int
    BY <1>1, <2>1
  <2> QED
    BY <2>2 DEF QuietEndDate
<1>3. end \in Int
  BY <1>1, <1>2
<1>4. QuietEnd(z, t, q) = u
  BY DEF QuietEnd
<1> HIDE DEF date, end, u, loud
<1>5. /\ u \in Int
      /\ UtcOf(z, end) # {} => /\ Local(z, u) = end
                              /\ \A v \in UtcOf(z, end) : v <= u
      /\ UtcOf(z, end) = {} => /\ u = z.at
                              /\ end < z.at + z.after /\ end >= z.at + z.before
  BY <1>3, WhereWallResolves DEF u
<1>6. PICK j \in Nat : Local(z, u + k) = end + j /\ j <= k + Skipped(z)
  <2>1. CASE UtcOf(z, end) = {}
    <3> DEFINE j == z.at + z.after - end + k
    <3>1. j \in Nat /\ Local(z, u + k) = end + j /\ j <= k + Skipped(z)
      BY <1>1, <1>3, <1>5, <2>1 DEF Local, Offset, Skipped
    <3> QED
      BY <3>1
  <2>2. CASE UtcOf(z, end) # {} /\ (u >= z.at \/ u + k < z.at)
    <3>1. Local(z, u + k) = end + k /\ k <= k + Skipped(z)
      BY <1>1, <1>3, <1>5, <2>2 DEF Local, Offset, Skipped
    <3> QED
      BY <3>1
  <2>3. CASE UtcOf(z, end) # {} /\ u < z.at /\ u + k >= z.at
    <3> DEFINE j == k + z.after - z.before
    <3>1. Local(z, u + k) = end + j /\ j <= k + Skipped(z) /\ j \in Int
      BY <1>1, <1>3, <1>5, <2>3 DEF Local, Offset, Skipped
    \* Otherwise the end would come round once more, after the transition.
    <3>2. j >= 0
      <4>1. SUFFICES ASSUME j < 0 PROVE FALSE
        BY <3>1
      <4>5. u + z.before = end
        BY <1>5, <2>3 DEF Local, Offset
      <4>6. k + z.after - z.before < 0
        BY <4>1
      <4> HIDE DEF j
      <4>2. end - z.after \in Int /\ end - z.after > u /\ end - z.after >= z.at
        <5>1. /\ k \in Nat /\ u \in Int /\ end \in Int
              /\ z.before \in Int /\ z.after \in Int /\ z.at \in Int
              /\ u + k >= z.at
          BY <1>1, <1>3, <1>5, <2>3
        <5> QED
          BY ONLY <4>5, <4>6, <5>1
      <4>3. Local(z, end - z.after) = end
        <5>1. Offset(z, end - z.after) = z.after
          <6>1. ~ (end - z.after < z.at)
            BY <1>1, <4>2
          <6> QED
            BY <6>1 DEF Offset
        <5>2. end - z.after + z.after = end
          BY <1>1, <1>3
        <5> QED
          BY <5>1, <5>2 DEF Local
      <4>4. end - z.after \in UtcOf(z, end)
        BY <4>3 DEF UtcOf
      <4> QED
        BY <1>5, <2>3, <4>2, <4>4
    <3> QED
      BY <3>1, <3>2
  <2>4. u >= z.at \/ u + k < z.at \/ (u < z.at /\ u + k >= z.at)
    <3>1. u \in Int /\ u + k \in Int /\ z.at \in Int
      BY <1>1, <1>5
    <3> QED
      BY ONLY <3>1
  <2> QED
    BY <2>1, <2>2, <2>3, <2>4
<1>7. j < loud
  <2>1. loud \in Int
    <3>1. q.from - q.to \in Int
      BY <1>1
    <3> QED
      BY <1>1, <3>1 DEF loud
  <2>2. Skipped(z) \in Int
    BY <1>1 DEF Skipped
  <2> HIDE DEF Skipped
  <2>3. k + Skipped(z) < loud
    BY DEF loud
  <2> QED
    BY <1>6, <2>1, <2>2, <2>3
<1>8. ~ IsQuiet((date * Day + q.to + j) % Day, q)
  BY <1>2, <1>7, AfterEndIsLoud DEF loud
<1> QED
  BY <1>4, <1>6, <1>8 DEF QuietAt, end

\* Induction over the subsets of a finite set, for a predicate given as a set:
\* every subset but the empty one loses some element to a subset that has it.
LEMMA SubsetInduction ==
  ASSUME NEW S, IsFiniteSet(S), NEW P, {} \in P,
         \A T \in (SUBSET S) \ {{}} : \E x \in T : T \ {x} \in P => T \in P
  PROVE  \A T \in SUBSET S : T \in P
<1> DEFINE Strict == StrictSubsetOrdering(S)  bad == (SUBSET S) \ P
<1>1. FiniteSubsetsOf(S) = SUBSET S
  BY FS_FiniteSubsetsOfFinite
<1>2. IsWellFoundedOn(Strict, SUBSET S)
  BY <1>1, FS_StrictSubsetOrderingWellFounded
<1>3. SUFFICES ASSUME bad # {} PROVE FALSE
  OBVIOUS
<1>4. PICK U \in bad : \A V \in bad : ~ (<<V, U>> \in Strict)
  <2>1. bad \subseteq SUBSET S
    OBVIOUS
  <2> HIDE DEF Strict, bad
  <2> QED
    BY <1>2, <1>3, <2>1, WFMin
<1>5. PICK x \in U : U \ {x} \in P => U \in P
  OBVIOUS
<1>6. <<U \ {x}, U>> \in Strict
  BY DEF StrictSubsetOrdering
<1>7. U \ {x} \in P
  BY <1>4, <1>6
<1> QED
  BY <1>5, <1>7

\* R puts the elements of S in a line.
LineOrder(S, R) ==
  /\ \A x, y \in S : x # y => <<x, y>> \in R \/ <<y, x>> \in R
  /\ \A x, y, z \in S : <<x, y>> \in R /\ <<y, z>> \in R => <<x, z>> \in R
  /\ \A x \in S : <<x, x>> \notin R

\* A finite set has a last element in every linear order.
LEMMA LastExists ==
  ASSUME NEW S, IsFiniteSet(S), NEW R, LineOrder(S, R)
  PROVE  \A T \in (SUBSET S) \ {{}} : \E x \in T : \A y \in T \ {x} : <<y, x>> \in R
<1> DEFINE Last(T, x) == \A y \in T \ {x} : <<y, x>> \in R
           P == {T \in SUBSET S : T = {} \/ \E x \in T : Last(T, x)}
<1>1. {} \in P
  OBVIOUS
<1>2. ASSUME NEW T \in (SUBSET S) \ {{}}
      PROVE  \E x \in T : T \ {x} \in P => T \in P
  <2>1. PICK x \in T : TRUE
    OBVIOUS
  <2>2. ASSUME T \ {x} \in P PROVE \E l \in T : Last(T, l)
    <3>1. CASE T \ {x} = {}
      BY <3>1
    <3>2. CASE T \ {x} # {}
      <4>1. PICK l \in T \ {x} : Last(T \ {x}, l)
        BY <2>2, <3>2
      <4>2. CASE <<x, l>> \in R
        BY <4>1, <4>2
      <4>3. CASE <<l, x>> \in R
        BY <4>1, <4>3 DEF LineOrder
      <4> QED
        BY <4>1, <4>2, <4>3 DEF LineOrder
    <3> QED
      BY <3>1, <3>2
  <2> QED
    BY <2>2
<1> HIDE DEF P
<1>3. \A T \in SUBSET S : T \in P
  BY <1>1, <1>2, SubsetInduction
<1> QED
  BY <1>3 DEF P

\* A finite set can be listed in every linear order.
LEMMA ListExists ==
  ASSUME NEW S, IsFiniteSet(S), NEW R, LineOrder(S, R)
  PROVE  \A T \in SUBSET S :
           \E s \in [1 .. Cardinality(T) -> T] :
             \A i, j \in 1 .. Cardinality(T) : i < j => <<s[i], s[j]>> \in R
<1> DEFINE Sorted(s, n) == \A i, j \in 1 .. n : i < j => <<s[i], s[j]>> \in R
           Listed(T) == \E s \in [1 .. Cardinality(T) -> T] : Sorted(s, Cardinality(T))
           P == {T \in SUBSET S : Listed(T)}
<1>1. {} \in P
  <2>1. Cardinality({}) = 0
    BY FS_EmptySet
  <2>2. [i \in 1 .. 0 |-> i] \in [1 .. 0 -> {}]
    OBVIOUS
  <2>3. Sorted([i \in 1 .. 0 |-> i], 0)
    OBVIOUS
  <2> QED
    BY <2>1, <2>2, <2>3
<1>2. ASSUME NEW T \in (SUBSET S) \ {{}}
      PROVE  \E x \in T : T \ {x} \in P => T \in P
  <2>1. PICK x \in T : \A y \in T \ {x} : <<y, x>> \in R
    BY LastExists
  <2>2. ASSUME T \ {x} \in P PROVE Listed(T)
    <3> DEFINE n == Cardinality(T \ {x})
    <3>1. n \in Nat /\ Cardinality(T) = n + 1
      <4>1. IsFiniteSet(T) /\ IsFiniteSet(T \ {x})
        BY FS_Subset, FS_RemoveElement
      <4>2. n = Cardinality(T) - 1 /\ n \in Nat /\ Cardinality(T) \in Nat
        BY <4>1, FS_RemoveElement, FS_CardinalityType
      <4> HIDE DEF n
      <4> QED
        BY <4>2
    <3>2. PICK s \in [1 .. n -> T \ {x}] : Sorted(s, n)
      BY <2>2
    <3> HIDE DEF n
    <3> DEFINE longer == [i \in 1 .. n + 1 |-> IF i = n + 1 THEN x ELSE s[i]]
    <3>3. longer \in [1 .. n + 1 -> T]
      BY <3>1, <3>2
    <3>4. ASSUME NEW i \in 1 .. n + 1, NEW j \in 1 .. n + 1, i < j
          PROVE  <<longer[i], longer[j]>> \in R
      <4>1. i \in 1 .. n /\ longer[i] = s[i] /\ s[i] \in T \ {x}
        BY <3>1, <3>2, <3>4
      <4>2. CASE j = n + 1
        BY <4>1, <4>2, <2>1
      <4>3. CASE j # n + 1
        BY <4>1, <4>3, <3>1, <3>2, <3>4
      <4> QED
        BY <4>2, <4>3
    <3> HIDE DEF longer
    <3> QED
      BY <3>1, <3>3, <3>4
  <2> QED
    BY <2>2
<1> HIDE DEF P
<1>3. \A T \in SUBSET S : T \in P
  BY <1>1, <1>2, SubsetInduction
<1> QED
  BY <1>3 DEF P

\* A nonempty set of natural numbers has a least one.
LEMMA LeastNatural ==
  ASSUME NEW S \in SUBSET Nat, S # {}
  PROVE  \E m \in S : \A n \in S : m <= n
<1>1. PICK k \in S : TRUE
  OBVIOUS
<1> DEFINE low == S \cap (0 .. k)  Down == {p \in Nat \X Nat : p[1] > p[2]}
<1>2. IsFiniteSet(low)
  <2>1. k \in Int /\ 0 \in Int
    OBVIOUS
  <2>2. IsFiniteSet(0 .. k)
    BY ONLY <2>1, FS_Interval
  <2>3. low \in SUBSET (0 .. k)
    OBVIOUS
  <2> HIDE DEF low
  <2> QED
    BY <2>2, <2>3, FS_Subset
<1>3. LineOrder(low, Down)
  <2>1. \A x, y \in Nat : <<x, y>> \in Down <=> x > y
    OBVIOUS
  <2>2. low \subseteq Nat
    OBVIOUS
  <2> HIDE DEF low, Down
  <2> QED
    BY <2>1, <2>2 DEF LineOrder
<1>4. low # {} /\ low \in SUBSET low
  BY <1>1
<1>5. PICK m \in low : \A n \in low \ {m} : <<n, m>> \in Down
  <2> HIDE DEF low, Down
  <2> QED
    BY <1>2, <1>3, <1>4, LastExists
<1>6. ASSUME NEW n \in S PROVE m <= n
  <2>1. m \in Nat /\ n \in Nat /\ k \in Nat /\ m <= k
    OBVIOUS
  <2>2. CASE n > k
    BY <2>1, <2>2
  <2>3. CASE n <= k /\ n # m
    <3>1. n \in low \ {m}
      BY <2>1, <2>3
    <3>2. <<n, m>> \in Down
      BY <3>1, <1>5
    <3> QED
      BY <2>1, <3>2
  <2> QED
    BY <2>1, <2>2, <2>3
<1> QED
  BY <1>6
=============================================================================
