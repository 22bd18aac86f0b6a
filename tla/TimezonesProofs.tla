--------------------------- MODULE TimezonesProofs ---------------------------
(***************************************************************************)
(* Theorems about Timezones for every set of zones, entries and cards: what *)
(* a journey does to the entries, their occurrences and their signals.     *)
(***************************************************************************)
EXTENDS Timezones, QuietHoursProofs, SequenceTheorems

-----------------------------------------------------------------------------
(* Arithmetic. *)

\* A zone with a fixed offset translates by it, both ways.
LEMMA FixedZone ==
  ASSUME NEW z \in Tz
  PROVE  /\ z \in Zone /\ z.before \in Int
         /\ \A t \in Int : Local(z, t) = t + z.before
         /\ \A w \in Int : WallToUtc(z, w) = w - z.before /\ ResolveWallTime(z, w) = w - z.before
<1>1. z \in Zone /\ z.before \in Int /\ z.before = z.after
  BY TimezonesAssumption DEF Zone
<1>2. ASSUME NEW t \in Int PROVE Local(z, t) = t + z.before
  BY <1>1 DEF Local, Offset
<1>3. ASSUME NEW w \in Int PROVE WallToUtc(z, w) = w - z.before
  BY <1>1 DEF WallToUtc
<1>4. ASSUME NEW w \in Int PROVE ResolveWallTime(z, w) = w - z.before
  BY <1>1, <1>3, ResolveWallTimeIsWallToUtc
<1> QED
  BY <1>1, <1>2, <1>3, <1>4

\* Reading a wall time back: the instant of a date and a clock time has that
\* clock time in the zone it was made in.
LEMMA MomentHasClockTime ==
  ASSUME NEW z \in Tz, NEW date \in Int, NEW time \in 0 .. Day - 1
  PROVE  LET w == date * Day + time
         IN  /\ WallToUtc(z, w) \in Int /\ ResolveWallTime(z, w) = WallToUtc(z, w)
             /\ Local(z, WallToUtc(z, w)) % Day = time
<1> DEFINE w == date * Day + time
<1>1. w \in Int /\ w % Day = time
  BY ClockTime
<1> HIDE DEF w
<1>2. z.before \in Int /\ WallToUtc(z, w) = w - z.before /\ ResolveWallTime(z, w) = w - z.before
  BY <1>1, FixedZone
<1>3. WallToUtc(z, w) \in Int
  BY <1>1, <1>2
<1>4. Local(z, WallToUtc(z, w)) = WallToUtc(z, w) + z.before
  BY <1>3, FixedZone
<1>5. Local(z, WallToUtc(z, w)) = w
  BY <1>1, <1>2, <1>4
<1>6. Local(z, WallToUtc(z, w)) % Day = time
  BY <1>1, <1>5
<1> QED
  BY <1>2, <1>3, <1>6 DEF w

LEMMA LocalType ==
  ASSUME NEW z \in Tz, NEW t \in Int
  PROVE  /\ Local(z, t) \in Int
         /\ Local(z, t) \div Day \in Int
         /\ Local(z, t) % Day \in 0 .. Day - 1
<1>1. Local(z, t) \in Int
  <2>1. z.before \in Int /\ Local(z, t) = t + z.before
    BY FixedZone
  <2> QED
    BY <2>1
<1> QED
  BY <1>1, DayDivision

-----------------------------------------------------------------------------
(* The plan and the horizon. *)

Slot == [entry : Entry, at : Int]

\* What the plan of a moment may hold: its main signal, and pre-reminders at
\* the distances asked for.
PlanRow(r, at) ==
  /\ r \in Row /\ r.status = "pending"
  /\ \/ r.kind = "main" /\ r.fire = at
     \/ r.kind = "pre" /\ at - r.fire \in PreOffsets

\* The standard plan holds such rows only, and the main signal among them.
LEMMA PlanHolds ==
  ASSUME NEW at \in Int
  PROVE  /\ Plan(at) \in Seq(Row)
         /\ \A n \in DOMAIN Plan(at) : PlanRow(Plan(at)[n], at)
         /\ \E n \in DOMAIN Plan(at) :
              Plan(at)[n] = [kind |-> "main", fire |-> at, status |-> "pending"]
<1> DEFINE n0 == Cardinality(PreOffsets)
           Falling(s) == \A i, j \in DOMAIN s : i < j => s[i] > s[j]
           pres == CHOOSE s \in [1 .. n0 -> PreOffsets] : Falling(s)
           R == {p \in Nat \X Nat : p[1] > p[2]}
           before == [i \in DOMAIN pres |->
                        [kind |-> "pre", fire |-> at - pres[i], status |-> "pending"]]
           main == [kind |-> "main", fire |-> at, status |-> "pending"]
<1>1. PreOffsets \subseteq Nat /\ IsFiniteSet(PreOffsets)
  BY TimezonesAssumption
<1>2. n0 \in Nat
  BY <1>1, FS_CardinalityType
<1>3. LineOrder(PreOffsets, R)
  BY <1>1 DEF LineOrder
<1>4. \E s \in [1 .. n0 -> PreOffsets] : Falling(s)
  <2>1. PICK s \in [1 .. n0 -> PreOffsets] : \A i, j \in 1 .. n0 : i < j => <<s[i], s[j]>> \in R
    <3> HIDE DEF R
    <3>1. PreOffsets \in SUBSET PreOffsets
      OBVIOUS
    <3> QED
      BY <1>1, <1>3, <3>1, ListExists
  <2>2. Falling(s)
    BY <2>1
  <2> QED
    BY <2>2
<1>5. pres \in [1 .. n0 -> PreOffsets]
  BY <1>4
<1>6. Plan(at) = Append(before, main)
  BY DEF Plan, InOrder
<1> HIDE DEF pres
<1>7. before \in Seq(Row) /\ Len(before) = n0 /\ \A i \in 1 .. n0 : PlanRow(before[i], at)
  <2>1. ASSUME NEW i \in 1 .. n0
        PROVE  /\ before[i] = [kind |-> "pre", fire |-> at - pres[i], status |-> "pending"]
               /\ pres[i] \in Nat /\ pres[i] \in PreOffsets
    BY <1>1, <1>5
  <2>2. ASSUME NEW i \in 1 .. n0 PROVE before[i] \in Row /\ PlanRow(before[i], at)
    <3> DEFINE Pre(p) == [kind |-> "pre", fire |-> at - p, status |-> "pending"]
    <3>1. ASSUME NEW p \in Nat, p \in PreOffsets
          PROVE  Pre(p) \in Row /\ PlanRow(Pre(p), at)
      <4>1. at - p \in Int /\ at - (at - p) = p
        OBVIOUS
      <4>2. Pre(p) \in Row /\ Pre(p).kind = "pre" /\ Pre(p).fire = at - p
                           /\ Pre(p).status = "pending"
        BY <4>1 DEF Row
      <4> QED
        BY <3>1, <4>1, <4>2 DEF PlanRow
    <3> QED
      BY <2>1, <3>1
  <2>3. before \in [1 .. n0 -> Row]
    BY <1>5, <2>2
  <2> HIDE DEF before
  <2>4. before \in Seq(Row)
    BY <1>2, <2>3, SeqDef
  <2>5. Len(before) = n0
    BY <1>2, <2>3, <2>4, LenProperties
  <2> QED
    BY <2>2, <2>4, <2>5
<1>8. main \in Row /\ PlanRow(main, at)
  BY DEF Row, PlanRow
<1> HIDE DEF before, main
<1>9. /\ Append(before, main) \in Seq(Row)
      /\ Len(Append(before, main)) = n0 + 1
      /\ \A i \in 1 .. n0 : Append(before, main)[i] = before[i]
      /\ Append(before, main)[n0 + 1] = main
  BY <1>7, <1>8, AppendProperties
<1>10. DOMAIN Plan(at) = 1 .. n0 + 1
  BY <1>6, <1>9, LenProperties
<1> QED
  BY <1>2, <1>6, <1>7, <1>8, <1>9, <1>10 DEF main

\* The list of the slots to insert exists and lists moments the entries ask for.
LEMMA NewSlotsListed ==
  ASSUME NEW occs, NEW entries, NEW from \in Int, clock \in Int
  PROVE  LET s == NewSlots(occs, entries, from)
         IN  \E n \in Nat :
               /\ s \in [1 .. n -> Slot]
               /\ \A i \in 1 .. n :
                    s[i].at \in Moments(s[i].entry, entries[s[i].entry], from, clock + Horizon)
<1> DEFINE to == clock + Horizon
           wanted == UNION {{[entry |-> e, at |-> t] : t \in Moments(e, entries[e], from, to)}
                              : e \in Entry}
           taken  == {[entry |-> occs[i].entry, at |-> occs[i].at] : i \in DOMAIN occs}
           new    == wanted \ taken
           Ordered(s) == \A i, j \in DOMAIN s : i < j => Before(s[i], s[j])
           n0 == Cardinality(new)
           R == {p \in Slot \X Slot : Before(p[1], p[2])}
<1>1. to \in Int
  BY TimezonesAssumption
<1>2. \A w \in wanted : /\ w \in [entry : Entry, at : from .. to]
                        /\ w.at \in Moments(w.entry, entries[w.entry], from, to)
  BY DEF Moments
<1>3. IsFiniteSet([entry : Entry, at : from .. to])
  <2> DEFINE f == [p \in Entry \X (from .. to) |-> [entry |-> p[1], at |-> p[2]]]
             S == Entry \X (from .. to)  T == [entry : Entry, at : from .. to]
  <2>1. IsFiniteSet(from .. to) /\ IsFiniteSet(Entry)
    BY <1>1, FS_Interval, TimezonesAssumption
  <2>2. IsFiniteSet(S)
    BY <2>1, FS_Product
  <2>3. f \in [S -> T]
    OBVIOUS
  <2>4. ASSUME NEW r \in T PROVE \E p \in S : f[p] = r
    <3>1. <<r.entry, r.at>> \in S /\ f[<<r.entry, r.at>>] = r
      OBVIOUS
    <3> QED
      BY <3>1
  <2>5. f \in Surjection(S, T)
    BY <2>3, <2>4 DEF Surjection
  <2> HIDE DEF f, S, T
  <2>6. IsFiniteSet(T)
    BY <2>2, <2>5, FS_Surjection
  <2> QED
    BY <2>6 DEF T
<1> HIDE DEF wanted, to
<1>4. new \in SUBSET [entry : Entry, at : from .. to] /\ new \subseteq wanted
  BY <1>2
<1>5. IsFiniteSet(new)
  <2> HIDE DEF new
  <2> QED
    BY <1>3, <1>4, FS_Subset
<1>6. new \subseteq Slot
  BY <1>1, <1>4 DEF Slot
<1>7. LineOrder(new, R)
  <2>1. Entry \subseteq Nat
    BY TimezonesAssumption
  <2>2. \A x, y \in new : <<x, y>> \in R <=> Before(x, y)
    BY <1>6
  <2>3. \A x \in new : x.entry \in Nat /\ x.at \in Int /\ x = [entry |-> x.entry, at |-> x.at]
    BY <1>6, <2>1 DEF Slot
  <2>4. \A x, y \in new : x # y => Before(x, y) \/ Before(y, x)
    BY <2>3 DEF Before
  <2>5. \A x, y, z \in new : Before(x, y) /\ Before(y, z) => Before(x, z)
    BY <2>3 DEF Before
  <2>6. \A x \in new : ~ Before(x, x)
    BY <2>3 DEF Before
  <2> HIDE DEF R, new
  <2> QED
    BY <2>2, <2>4, <2>5, <2>6 DEF LineOrder
<1>8. n0 \in Nat
  BY <1>5, FS_CardinalityType
<1>9. \E s \in [1 .. n0 -> new] : Ordered(s)
  <2>1. \A i, j \in new : <<i, j>> \in R => Before(i, j)
    BY <1>6
  <2> HIDE DEF R, new
  <2>2. new \in SUBSET new
    OBVIOUS
  <2>3. PICK s \in [1 .. n0 -> new] : \A i, j \in 1 .. n0 : i < j => <<s[i], s[j]>> \in R
    BY <1>5, <1>7, <2>2, ListExists
  <2>4. Ordered(s)
    BY <2>1, <2>3
  <2> QED
    BY <2>4
<1> DEFINE s == NewSlots(occs, entries, from)
<1>10. s = CHOOSE l \in [1 .. n0 -> new] : Ordered(l)
  BY DEF NewSlots, InOrder, wanted, to
<1>11. s \in [1 .. n0 -> new]
  BY <1>9, <1>10
<1> HIDE DEF s, new, n0
<1>12. s \in [1 .. n0 -> Slot]
  BY <1>6, <1>11
<1>13. \A i \in 1 .. n0 : s[i].at \in Moments(s[i].entry, entries[s[i].entry], from, to)
  BY <1>2, <1>4, <1>11
<1> QED
  BY <1>8, <1>12, <1>13 DEF s, to

\* What is new in the horizon comes after the rest, each occurrence at a moment
\* its entry asks for.
LEMMA RebuiltAppends ==
  ASSUME NEW occs \in Seq(Occurrence), NEW entries, NEW from \in Int, clock \in Int
  PROVE  LET all == Rebuilt(occs, entries, from)
         IN  /\ all \in Seq(Occurrence)
             /\ DOMAIN occs \subseteq DOMAIN all
             /\ \A i \in DOMAIN occs : all[i] = occs[i]
             /\ \A i \in DOMAIN all \ DOMAIN occs :
                  \E e \in Entry, t \in Int :
                    /\ t \in Moments(e, entries[e], from, clock + Horizon)
                    /\ all[i] = NewOccurrence(e, t, FALSE)
<1> DEFINE s == NewSlots(occs, entries, from)
           more == [i \in DOMAIN s |-> NewOccurrence(s[i].entry, s[i].at, FALSE)]
           Asked(r) == r.at \in Moments(r.entry, entries[r.entry], from, clock + Horizon)
<1>1. PICK n \in Nat : s \in [1 .. n -> Slot] /\ \A i \in 1 .. n : Asked(s[i])
  BY NewSlotsListed
<1>2. Rebuilt(occs, entries, from) = occs \o more
  BY DEF Rebuilt
<1> HIDE DEF s
<1>3. ASSUME NEW e \in Entry, NEW t \in Int
      PROVE  NewOccurrence(e, t, FALSE) \in Occurrence
  <2>1. Plan(t) \in Seq(Row)
    BY PlanHolds
  <2> QED
    BY <2>1 DEF NewOccurrence, Occurrence
<1>4. ASSUME NEW i \in 1 .. n
      PROVE  /\ more[i] = NewOccurrence(s[i].entry, s[i].at, FALSE)
             /\ s[i].entry \in Entry /\ s[i].at \in Int /\ Asked(s[i])
  BY <1>1 DEF Slot
<1>5. more \in [1 .. n -> Occurrence]
  <2>1. DOMAIN s = 1 .. n
    BY <1>1
  <2> QED
    BY <2>1, <1>3, <1>4
<1> HIDE DEF more
<1>6. more \in Seq(Occurrence) /\ Len(more) = n
  <2>1. more \in Seq(Occurrence)
    BY <1>5, SeqDef
  <2> QED
    BY <2>1, <1>5, LenProperties
<1>7. /\ occs \o more \in Seq(Occurrence)
      /\ Len(occs \o more) = Len(occs) + n
      /\ \A i \in 1 .. Len(occs) + n :
           (occs \o more)[i] = IF i <= Len(occs) THEN occs[i] ELSE more[i - Len(occs)]
  BY <1>6, ConcatProperties
<1>8. Len(occs) \in Nat /\ DOMAIN occs = 1 .. Len(occs)
        /\ DOMAIN (occs \o more) = 1 .. Len(occs) + n
  BY <1>7, LenProperties
<1> DEFINE all == occs \o more
<1> HIDE DEF all
<1>9. DOMAIN occs \subseteq DOMAIN all /\ \A i \in DOMAIN occs : all[i] = occs[i]
  BY <1>1, <1>7, <1>8 DEF all
<1>10. ASSUME NEW i \in DOMAIN all \ DOMAIN occs
       PROVE  \E e \in Entry, t \in Int :
                t \in Moments(e, entries[e], from, clock + Horizon)
                  /\ all[i] = NewOccurrence(e, t, FALSE)
  <2> DEFINE k == i - Len(occs)
  <2>1. k \in 1 .. n /\ all[i] = more[k]
    BY <1>1, <1>7, <1>8 DEF all
  <2> HIDE DEF k
  <2> QED
    BY <2>1, <1>4
<1> QED
  BY <1>2, <1>7, <1>9, <1>10 DEF all

\* The rows the upsert adds are rows of the plan whose keys were free.
LEMMA UpsertAppends ==
  ASSUME NEW o \in Occurrence
  PROVE  LET new == WithPlan(o)
         IN  /\ new \in Occurrence
             /\ new.entry = o.entry /\ new.at = o.at
             /\ new.status = o.status /\ new.moved = o.moved
             /\ DOMAIN o.rows \subseteq DOMAIN new.rows
             /\ \A n \in DOMAIN o.rows : new.rows[n] = o.rows[n]
             /\ \A n \in DOMAIN new.rows \ DOMAIN o.rows : PlanRow(new.rows[n], o.at)
<1>1. CASE o.status # "pending"
  BY <1>1 DEF WithPlan
<1>2. CASE o.status = "pending"
  <2> DEFINE free == Missing(o)
             n0 == Cardinality(free)
             Rising(s) == \A i, j \in DOMAIN s : i < j => Sooner(s[i], s[j])
             R == {p \in Row \X Row : Sooner(p[1], p[2])}
             s == InOrder(free, Sooner)
             all == o.rows \o s
  <2>1. o.at \in Int /\ o.rows \in Seq(Row)
    BY DEF Occurrence
  <2> DEFINE plan == Plan(o.at)
  <2>2. plan \in Seq(Row) /\ \A n \in DOMAIN plan : PlanRow(plan[n], o.at)
    BY <2>1, PlanHolds
  <2>3. Len(plan) \in Nat /\ DOMAIN plan = 1 .. Len(plan)
    BY <2>2, LenProperties
  <2>4. \A r \in free : r \in Row /\ PlanRow(r, o.at)
    BY <2>2 DEF Missing, PlanRow
  <2>5. IsFiniteSet(free)
    <3> DEFINE rows == {plan[k] : k \in DOMAIN plan}
    <3>1. plan \in Surjection(1 .. Len(plan), rows)
      BY <2>2, <2>3, LenProperties DEF Surjection
    <3>2. IsFiniteSet(1 .. Len(plan))
      BY <2>3, FS_Interval
    <3>3. free \in SUBSET rows
      BY DEF Missing
    <3> HIDE DEF rows, free, plan
    <3>4. IsFiniteSet(rows)
      BY <3>1, <3>2, FS_Surjection
    <3> QED
      BY <3>3, <3>4, FS_Subset
  <2>6. LineOrder(free, R)
    <3> DEFINE T == free
    <3>1. \A x, y \in T : <<x, y>> \in R <=> x.fire < y.fire
      BY <2>4 DEF Sooner
    <3>2. ASSUME NEW r \in T
          PROVE  /\ r.fire \in Int /\ r = [kind |-> r.kind, fire |-> r.fire, status |-> "pending"]
                 /\ \/ r.kind = "main" /\ r.fire = o.at
                    \/ r.kind = "pre" /\ r.fire < o.at
      <4>1. r \in Row /\ PlanRow(r, o.at)
        BY <2>4
      <4>2. r.fire \in Int /\ r = [kind |-> r.kind, fire |-> r.fire, status |-> r.status]
        BY <4>1 DEF Row
      <4>3. o.at - r.fire \in PreOffsets => r.fire < o.at
        BY <2>1, <4>2, TimezonesAssumption
      <4> QED
        BY <4>1, <4>2, <4>3 DEF PlanRow
    <3>3. \A x, y \in T : x.fire = y.fire => x = y
      BY <3>2, <2>1
    <3>4. \A x \in T : x.fire \in Int
      BY <3>2
    <3> HIDE DEF T, R
    <3>5. LineOrder(T, R)
      BY <3>1, <3>3, <3>4 DEF LineOrder
    <3> QED
      BY <3>5 DEF T
  <2>7. n0 \in Nat
    BY <2>5, FS_CardinalityType
  <2>8. \E l \in [1 .. n0 -> free] : Rising(l)
    <3>1. \A x, y \in free : <<x, y>> \in R => Sooner(x, y)
      BY <2>4
    <3> HIDE DEF R, free
    <3>2. free \in SUBSET free
      OBVIOUS
    <3>3. PICK l \in [1 .. n0 -> free] : \A i, j \in 1 .. n0 : i < j => <<l[i], l[j]>> \in R
      BY <2>5, <2>6, <3>2, ListExists
    <3>4. Rising(l)
      BY <3>1, <3>3
    <3> QED
      BY <3>4
  <2>9. s \in [1 .. n0 -> free]
    <3>1. s = CHOOSE l \in [1 .. n0 -> free] : Rising(l)
      BY DEF InOrder
    <3> QED
      BY <3>1, <2>8
  <2>10. s \in Seq(Row) /\ Len(s) = n0 /\ \A i \in 1 .. n0 : PlanRow(s[i], o.at)
    <3> HIDE DEF s, free, n0
    <3>1. s \in [1 .. n0 -> Row]
      BY <2>4, <2>9
    <3>2. s \in Seq(Row)
      BY <3>1, <2>7, SeqDef
    <3>3. Len(s) = n0
      BY <3>1, <3>2, <2>7, LenProperties
    <3> QED
      BY <3>2, <3>3, <2>4, <2>9
  <2> HIDE DEF s, n0
  <2>11. /\ all \in Seq(Row) /\ Len(all) = Len(o.rows) + n0
         /\ \A i \in 1 .. Len(o.rows) + n0 :
              all[i] = IF i <= Len(o.rows) THEN o.rows[i] ELSE s[i - Len(o.rows)]
    BY <2>1, <2>10, ConcatProperties
  <2>12. /\ Len(o.rows) \in Nat /\ DOMAIN o.rows = 1 .. Len(o.rows)
         /\ DOMAIN all = 1 .. Len(o.rows) + n0
    BY <2>1, <2>11, LenProperties
  <2>13. WithPlan(o) = [o EXCEPT !.rows = all]
    BY <1>2 DEF WithPlan, s
  <2> HIDE DEF all
  <2>14. DOMAIN o.rows \subseteq DOMAIN all /\ \A n \in DOMAIN o.rows : all[n] = o.rows[n]
    BY <2>7, <2>11, <2>12
  <2>15. ASSUME NEW n \in DOMAIN all \ DOMAIN o.rows PROVE PlanRow(all[n], o.at)
    <3> DEFINE k == n - Len(o.rows)
    <3>1. k \in 1 .. n0 /\ all[n] = s[k]
      BY <2>7, <2>11, <2>12
    <3> QED
      BY <3>1, <2>10
  <2> QED
    BY <2>11, <2>13, <2>14, <2>15 DEF Occurrence
<1> QED
  BY <1>1, <1>2

-----------------------------------------------------------------------------
(* What every occurrence keeps: the body of SignalsFollow, and that of         *)
(* RoutineKeepsLocalTime for a zone z and the entries of a state.              *)

Signalled(o, now) ==
  o.status = "pending" =>
    /\ o.at > now => \E n \in DOMAIN o.rows : o.rows[n].kind = "main"
                       /\ o.rows[n].fire = o.at /\ o.rows[n].status = "pending"
    /\ \A n \in DOMAIN o.rows : o.rows[n].status = "pending" =>
         o.at - o.rows[n].fire \in IF o.rows[n].kind = "main" THEN {0} ELSE PreOffsets

OnTime(o, z, entries, now) ==
  o.entry \in Routines /\ o.status = "pending" /\ o.at > now /\ ~ o.moved =>
    Local(z, o.at) % Day = entries[o.entry].local

LEMMA NewOccurrenceFits ==
  ASSUME NEW e \in Entry, NEW t \in Int, NEW moved \in BOOLEAN, NEW now
  PROVE  LET o == NewOccurrence(e, t, moved)
         IN  /\ o \in Occurrence /\ Signalled(o, now)
             /\ o.entry = e /\ o.at = t /\ o.moved = moved /\ o.status = "pending"
<1> DEFINE o == NewOccurrence(e, t, moved)
<1>1. /\ Plan(t) \in Seq(Row)
      /\ \A n \in DOMAIN Plan(t) : PlanRow(Plan(t)[n], t)
      /\ \E n \in DOMAIN Plan(t) :
           Plan(t)[n] = [kind |-> "main", fire |-> t, status |-> "pending"]
  BY PlanHolds
<1>2. o \in Occurrence /\ o.rows = Plan(t) /\ o.at = t
        /\ o.entry = e /\ o.moved = moved /\ o.status = "pending"
  BY <1>1 DEF NewOccurrence, Occurrence
<1> HIDE DEF o
<1>3. \A n \in DOMAIN o.rows :
        t - o.rows[n].fire \in IF o.rows[n].kind = "main" THEN {0} ELSE PreOffsets
  <2> SUFFICES ASSUME NEW n \in DOMAIN Plan(t)
               PROVE  t - Plan(t)[n].fire \in IF Plan(t)[n].kind = "main" THEN {0} ELSE PreOffsets
    BY <1>2
  <2>1. PlanRow(Plan(t)[n], t)
    BY <1>1
  <2> QED
    BY <2>1 DEF PlanRow, Row
<1>4. \E n \in DOMAIN o.rows : o.rows[n].kind = "main" /\ o.rows[n].fire = t
                                 /\ o.rows[n].status = "pending"
  BY <1>1, <1>2
<1> QED
  BY <1>2, <1>3, <1>4 DEF Signalled, o

\* The upsert keeps an occurrence signalled: what it adds is as planned.
LEMMA UpsertFits ==
  ASSUME NEW o \in Occurrence, NEW now, Signalled(o, now)
  PROVE  Signalled(WithPlan(o), now)
<1> DEFINE new == WithPlan(o)
<1>1. /\ new \in Occurrence /\ new.at = o.at /\ new.status = o.status
      /\ DOMAIN o.rows \subseteq DOMAIN new.rows
      /\ \A n \in DOMAIN o.rows : new.rows[n] = o.rows[n]
      /\ \A n \in DOMAIN new.rows \ DOMAIN o.rows : PlanRow(new.rows[n], o.at)
  BY UpsertAppends
<1> HIDE DEF new
<1>2. SUFFICES ASSUME o.status = "pending" PROVE Signalled(new, now)
  BY <1>1 DEF Signalled, new
<1>3. ASSUME NEW n \in DOMAIN new.rows, new.rows[n].status = "pending"
      PROVE  o.at - new.rows[n].fire \in IF new.rows[n].kind = "main" THEN {0} ELSE PreOffsets
  <2>1. CASE n \in DOMAIN o.rows
    BY <1>1, <1>2, <1>3, <2>1 DEF Signalled
  <2>2. CASE n \notin DOMAIN o.rows
    <3>1. PlanRow(new.rows[n], o.at)
      BY <1>1, <2>2
    <3> QED
      BY <3>1 DEF PlanRow, Row
  <2> QED
    BY <2>1, <2>2
<1>4. ASSUME o.at > now
      PROVE  \E n \in DOMAIN new.rows : new.rows[n].kind = "main"
               /\ new.rows[n].fire = o.at /\ new.rows[n].status = "pending"
  <2>1. PICK n \in DOMAIN o.rows : o.rows[n].kind = "main"
               /\ o.rows[n].fire = o.at /\ o.rows[n].status = "pending"
    BY <1>2, <1>4 DEF Signalled
  <2> QED
    BY <2>1, <1>1
<1> QED
  BY <1>1, <1>3, <1>4 DEF Signalled

\* An occurrence of the rebuilt horizon was there before, or is signalled and,
\* for a routine in its owner's zone, at the routine's local time.
LEMMA RebuiltFits ==
  ASSUME NEW occs \in Seq(Occurrence), NEW entries \in [Entry -> EntryState],
         NEW from \in Int, clock \in Int, NEW z \in Tz,
         \A e \in Routines : entries[e].tz = z
  PROVE  LET all == Rebuilt(occs, entries, from)
         IN  /\ all \in Seq(Occurrence)
             /\ DOMAIN occs \subseteq DOMAIN all
             /\ \A i \in DOMAIN occs : all[i] = occs[i]
             /\ \A i \in DOMAIN all \ DOMAIN occs :
                  Signalled(all[i], clock) /\ OnTime(all[i], z, entries, clock)
<1> DEFINE all == Rebuilt(occs, entries, from)  to == clock + Horizon
<1>1. /\ all \in Seq(Occurrence)
      /\ DOMAIN occs \subseteq DOMAIN all
      /\ \A i \in DOMAIN occs : all[i] = occs[i]
      /\ \A i \in DOMAIN all \ DOMAIN occs :
           \E e \in Entry, t \in Int :
             t \in Moments(e, entries[e], from, to) /\ all[i] = NewOccurrence(e, t, FALSE)
  BY RebuiltAppends
<1>2. to \in Int
  BY TimezonesAssumption
<1> HIDE DEF all, to
<1>3. ASSUME NEW i \in DOMAIN all \ DOMAIN occs
      PROVE  Signalled(all[i], clock) /\ OnTime(all[i], z, entries, clock)
  <2>1. PICK e \in Entry, t \in Int :
          t \in Moments(e, entries[e], from, to) /\ all[i] = NewOccurrence(e, t, FALSE)
    BY <1>1
  <2>2. Signalled(all[i], clock) /\ all[i].entry = e /\ all[i].at = t
    <3> DEFINE o == NewOccurrence(e, t, FALSE)
    <3>1. Signalled(o, clock) /\ o.entry = e /\ o.at = t
      BY NewOccurrenceFits
    <3> HIDE DEF o
    <3> QED
      BY <2>1, <3>1 DEF o
  <2>3. ASSUME e \in Routines PROVE Local(z, t) % Day = entries[e].local
    <3> DEFINE s == entries[e]
    <3>1. s.tz = z /\ s.local \in 0 .. Day - 1 /\ s.at \in Int
      BY <2>3 DEF EntryState
    <3> HIDE DEF s
    <3>2. Local(z, s.at) \div Day \in Int /\ Local(z, to) \div Day \in Int
      BY <1>2, <3>1, LocalType
    <3>3. PICK d \in Local(z, s.at) \div Day .. Local(z, to) \div Day :
            t = ResolveWallTime(z, d * Day + s.local)
      BY <2>1, <2>3, <3>1 DEF Moments, Routines, s
    <3>4. d \in Int
      BY <3>2
    <3>5. ResolveWallTime(z, d * Day + s.local) = WallToUtc(z, d * Day + s.local)
            /\ Local(z, WallToUtc(z, d * Day + s.local)) % Day = s.local
      BY <3>1, <3>4, MomentHasClockTime
    <3> QED
      BY <3>3, <3>5 DEF s
  <2> QED
    BY <2>2, <2>3 DEF OnTime
<1> QED
  BY <1>1, <1>3 DEF all

\* Reconciliation: all of that, and every open occurrence has its whole plan.
LEMMA ReconciledFits ==
  ASSUME NEW occs \in Seq(Occurrence), NEW entries \in [Entry -> EntryState],
         clock \in Int, NEW z \in Tz, \A e \in Routines : entries[e].tz = z
  PROVE  LET all == Reconciled(occs, entries)
         IN  /\ all \in Seq(Occurrence)
             /\ DOMAIN occs \subseteq DOMAIN all
             /\ \A i \in DOMAIN occs : all[i] = WithPlan(occs[i])
             /\ \A i \in DOMAIN all \ DOMAIN occs :
                  Signalled(all[i], clock) /\ OnTime(all[i], z, entries, clock)
<1> DEFINE mid == Rebuilt(occs, entries, clock - Lookback)
           all == [i \in DOMAIN mid |-> WithPlan(mid[i])]
<1>1. clock - Lookback \in Int
  BY TimezonesAssumption
<1>2. /\ mid \in Seq(Occurrence)
      /\ DOMAIN occs \subseteq DOMAIN mid
      /\ \A i \in DOMAIN occs : mid[i] = occs[i]
      /\ \A i \in DOMAIN mid \ DOMAIN occs :
           Signalled(mid[i], clock) /\ OnTime(mid[i], z, entries, clock)
  BY <1>1, RebuiltFits
<1>3. Reconciled(occs, entries) = all
  BY DEF Reconciled
<1> HIDE DEF mid
<1>4. Len(mid) \in Nat /\ DOMAIN mid = 1 .. Len(mid)
        /\ \A i \in DOMAIN mid : mid[i] \in Occurrence
  BY <1>2, LenProperties
<1>5. ASSUME NEW i \in DOMAIN mid
      PROVE  /\ all[i] = WithPlan(mid[i]) /\ all[i] \in Occurrence
             /\ all[i].entry = mid[i].entry /\ all[i].at = mid[i].at
             /\ all[i].status = mid[i].status /\ all[i].moved = mid[i].moved
  BY <1>4, UpsertAppends
<1>6. all \in [1 .. Len(mid) -> Occurrence] /\ DOMAIN all = DOMAIN mid
  BY <1>4, <1>5
<1> HIDE DEF all
<1>7. all \in Seq(Occurrence)
  BY <1>4, <1>6, SeqDef
<1>8. ASSUME NEW i \in DOMAIN all \ DOMAIN occs
      PROVE  Signalled(all[i], clock) /\ OnTime(all[i], z, entries, clock)
  <2>1. mid[i] \in Occurrence /\ Signalled(mid[i], clock) /\ OnTime(mid[i], z, entries, clock)
    BY <1>2, <1>4, <1>6
  <2>2. Signalled(all[i], clock)
    BY <2>1, <1>5, <1>6, UpsertFits
  <2>3. OnTime(all[i], z, entries, clock)
    BY <2>1, <1>5, <1>6 DEF OnTime
  <2> QED
    BY <2>2, <2>3
<1> QED
  BY <1>2, <1>3, <1>5, <1>6, <1>7, <1>8

-----------------------------------------------------------------------------
(* Rebasing. *)

LEMMA OccurrenceType ==
  ASSUME TypeOK
  PROVE  /\ Len(occ) \in Nat /\ DOMAIN occ = 1 .. Len(occ)
         /\ \A i \in DOMAIN occ :
              /\ occ[i] \in Occurrence /\ occ[i].entry \in Entry /\ occ[i].at \in Int
              /\ occ[i].moved \in BOOLEAN /\ occ[i].rows \in Seq(Row)
              /\ entry[occ[i].entry] \in EntryState
<1>1. Len(occ) \in Nat /\ DOMAIN occ = 1 .. Len(occ) /\ \A i \in DOMAIN occ : occ[i] \in Occurrence
  BY LenProperties DEF TypeOK
<1> QED
  BY <1>1 DEF TypeOK, Occurrence

\* The moment in the other zone, and its clock time there: the entry's, as long
\* as the entry is in the old zone.
LEMMA MomentInFits ==
  ASSUME TypeOK, NEW i \in DOMAIN occ, NEW from \in Tz, NEW to \in Tz
  PROVE  /\ MomentIn(i, from, to) \in Int
         /\ entry[occ[i].entry].tz = from =>
              Local(to, MomentIn(i, from, to)) % Day = entry[occ[i].entry].local
<1> DEFINE state == entry[occ[i].entry]
           wall  == Local(from, occ[i].at)
           time  == IF state.tz = from THEN state.local ELSE wall % Day
           date  == wall \div Day
<1>1. occ[i].at \in Int /\ state.local \in 0 .. Day - 1
  BY OccurrenceType DEF EntryState
<1>2. date \in Int /\ time \in 0 .. Day - 1
  BY <1>1, LocalType
<1>3. MomentIn(i, from, to) = WallToUtc(to, date * Day + time)
  BY DEF MomentIn
<1> HIDE DEF date
<1>4. WallToUtc(to, date * Day + time) \in Int
        /\ Local(to, WallToUtc(to, date * Day + time)) % Day = time
  BY <1>2, MomentHasClockTime
<1> QED
  BY <1>3, <1>4

\* Moving an occurrence ahead takes what is pending along.
LEMMA MovedByFits ==
  ASSUME NEW o \in Occurrence, NEW shift \in Int
  PROVE  LET new == MovedBy(o, shift)
         IN  /\ new \in Occurrence /\ new.at = o.at + shift
             /\ new.entry = o.entry /\ new.status = o.status /\ new.moved = o.moved
             /\ \A now \in Int : o.at > now /\ Signalled(o, now) => Signalled(new, now)
<1> DEFINE new == MovedBy(o, shift)
           Shifted(r) == IF r.status = "pending" THEN [r EXCEPT !.fire = @ + shift] ELSE r
           rows == [n \in DOMAIN o.rows |-> Shifted(o.rows[n])]
<1>1. o.at \in Int /\ o.rows \in Seq(Row)
  BY DEF Occurrence
<1>2. Len(o.rows) \in Nat /\ DOMAIN o.rows = 1 .. Len(o.rows) /\ \A n \in DOMAIN o.rows : o.rows[n] \in Row
  BY <1>1, LenProperties
<1>3. ASSUME NEW r \in Row
      PROVE  /\ Shifted(r) \in Row /\ Shifted(r).kind = r.kind /\ Shifted(r).status = r.status
             /\ r.fire \in Int
             /\ r.status = "pending" => Shifted(r).fire = r.fire + shift
  BY DEF Row
<1>4. new = [o EXCEPT !.at = @ + shift, !.rows = rows]
  BY DEF MovedBy
<1> HIDE DEF Shifted
<1>5. /\ DOMAIN rows = DOMAIN o.rows
      /\ \A n \in DOMAIN o.rows : rows[n] = Shifted(o.rows[n])
      /\ rows \in [1 .. Len(o.rows) -> Row]
  BY <1>2, <1>3
<1> HIDE DEF rows
<1>6. rows \in Seq(Row)
  BY <1>2, <1>5, SeqDef
<1>7. /\ new \in Occurrence /\ new.at = o.at + shift /\ new.rows = rows
      /\ new.entry = o.entry /\ new.status = o.status /\ new.moved = o.moved
  <2> HIDE DEF new
  <2>1. o.at + shift \in Int
    BY <1>1
  <2>2. /\ new.at = o.at + shift /\ new.rows = rows
        /\ new.entry = o.entry /\ new.status = o.status /\ new.moved = o.moved
    BY <1>4 DEF Occurrence
  <2>3. new \in Occurrence
    BY <1>4, <1>6, <2>1 DEF Occurrence
  <2> QED
    BY <2>2, <2>3
<1> HIDE DEF new
<1>8. ASSUME NEW now \in Int, o.at > now, Signalled(o, now) PROVE Signalled(new, now)
  <2>1. SUFFICES ASSUME o.status = "pending" PROVE Signalled(new, now)
    BY <1>7 DEF Signalled
  <2>2. ASSUME NEW n \in DOMAIN o.rows
        PROVE  /\ rows[n].kind = o.rows[n].kind /\ rows[n].status = o.rows[n].status
               /\ o.rows[n].fire \in Int
               /\ o.rows[n].status = "pending" => rows[n].fire = o.rows[n].fire + shift
    BY <1>2, <1>3, <1>5
  <2>3. PICK m \in DOMAIN o.rows : o.rows[m].kind = "main"
          /\ o.rows[m].fire = o.at /\ o.rows[m].status = "pending"
    BY <1>8, <2>1 DEF Signalled
  <2>4. rows[m].kind = "main" /\ rows[m].fire = new.at /\ rows[m].status = "pending"
    BY <1>7, <2>2, <2>3
  <2>5. ASSUME NEW n \in DOMAIN rows, rows[n].status = "pending"
        PROVE  new.at - rows[n].fire \in IF rows[n].kind = "main" THEN {0} ELSE PreOffsets
    <3>1. n \in DOMAIN o.rows /\ o.rows[n].status = "pending"
      BY <1>5, <2>2, <2>5
    <3>2. o.at - o.rows[n].fire \in IF o.rows[n].kind = "main" THEN {0} ELSE PreOffsets
      BY <1>8, <2>1, <3>1 DEF Signalled
    <3>3. new.at - rows[n].fire = o.at - o.rows[n].fire
      BY <1>1, <1>7, <2>2, <3>1
    <3> QED
      BY <2>2, <3>1, <3>2, <3>3
  <2> QED
    BY <1>5, <1>7, <2>3, <2>4, <2>5 DEF Signalled
<1> QED
  BY <1>7, <1>8 DEF new

LEMMA OccAfterFits ==
  ASSUME TypeOK, NEW E \in SUBSET Entry, NEW from \in Tz, NEW to \in Tz
  PROVE  LET new == OccAfter(E, from, to)
         IN  /\ new \in Seq(Occurrence) /\ DOMAIN new = DOMAIN occ
             /\ \A i \in DOMAIN occ :
                  /\ i \notin Rebased(E) => new[i] = occ[i]
                  /\ i \in Rebased(E) => new[i].at = MomentIn(i, from, to)
                  /\ new[i].entry = occ[i].entry /\ new[i].status = occ[i].status
                  /\ new[i].moved = occ[i].moved
                  /\ Signalled(occ[i], clock) => Signalled(new[i], clock)
<1> DEFINE new == OccAfter(E, from, to)
<1>1. /\ Len(occ) \in Nat /\ DOMAIN occ = 1 .. Len(occ)
      /\ \A i \in DOMAIN occ : occ[i] \in Occurrence /\ occ[i].at \in Int
  BY OccurrenceType
<1>2. clock \in Int
  BY TimezonesAssumption DEF TypeOK
<1>3. DOMAIN new = DOMAIN occ
  BY DEF OccAfter
<1>4. ASSUME NEW i \in DOMAIN occ
      PROVE  /\ i \notin Rebased(E) => new[i] = occ[i]
             /\ i \in Rebased(E) => new[i] = MovedBy(occ[i], MomentIn(i, from, to) - occ[i].at)
  BY DEF OccAfter
<1> HIDE DEF new
<1>5. ASSUME NEW i \in DOMAIN occ
      PROVE  /\ new[i] \in Occurrence
             /\ i \in Rebased(E) => new[i].at = MomentIn(i, from, to)
             /\ new[i].entry = occ[i].entry /\ new[i].status = occ[i].status
             /\ new[i].moved = occ[i].moved
             /\ Signalled(occ[i], clock) => Signalled(new[i], clock)
  <2>1. CASE i \notin Rebased(E)
    BY <1>1, <1>4, <2>1
  <2>2. CASE i \in Rebased(E)
    <3> DEFINE shift == MomentIn(i, from, to) - occ[i].at
    <3>1. MomentIn(i, from, to) \in Int /\ occ[i].at \in Int
      BY <1>1, MomentInFits
    <3>2. shift \in Int /\ occ[i].at + shift = MomentIn(i, from, to)
      BY <3>1
    <3>3. new[i] = MovedBy(occ[i], shift)
      BY <1>4, <2>2
    <3>4. occ[i].at > clock
      BY <2>2 DEF Rebased
    <3> HIDE DEF shift
    <3> DEFINE o == occ[i]
    <3>5. o \in Occurrence /\ o.at > clock /\ new[i] = MovedBy(o, shift)
            /\ o.at + shift = MomentIn(i, from, to)
      BY <1>1, <3>2, <3>3, <3>4
    <3> HIDE DEF o
    <3>6. /\ new[i] \in Occurrence /\ new[i].at = o.at + shift
          /\ new[i].entry = o.entry /\ new[i].status = o.status /\ new[i].moved = o.moved
          /\ Signalled(o, clock) => Signalled(new[i], clock)
      BY <1>2, <3>2, <3>5, MovedByFits
    <3> QED
      BY <3>5, <3>6 DEF o
  <2> QED
    BY <2>1, <2>2
<1>6. new \in [1 .. Len(occ) -> Occurrence]
  <2>1. new = [i \in DOMAIN occ |-> new[i]]
    BY DEF OccAfter, new
  <2> QED
    BY <1>1, <1>5, <2>1
<1>7. new \in Seq(Occurrence)
  BY <1>1, <1>6, SeqDef
<1> QED
  BY <1>3, <1>4, <1>5, <1>7 DEF new

-----------------------------------------------------------------------------
(* Type correctness. *)

LEMMA EntryMoved ==
  ASSUME TypeOK, NEW e \in Entry, NEW from \in Tz, NEW to \in Tz
  PROVE  /\ RoutineIn(e, to) \in EntryState /\ RoutineIn(e, to).tz = to
         /\ RoutineIn(e, to).local = entry[e].local
         /\ Local(to, RoutineIn(e, to).at) % Day = RoutineIn(e, to).local
         /\ ReviewedEntry(e, from, to) \in EntryState /\ ReviewedEntry(e, from, to).tz = to
         /\ Local(to, ReviewedEntry(e, from, to).at) % Day = ReviewedEntry(e, from, to).local
<1> DEFINE state == entry[e]
<1>1. state \in EntryState /\ state.tz \in Tz /\ state.local \in 0 .. Day - 1 /\ state.at \in Int
  BY DEF TypeOK, EntryState
<1>2. /\ RoutineIn(e, to) \in EntryState /\ RoutineIn(e, to).tz = to
      /\ RoutineIn(e, to).local = state.local
      /\ Local(to, RoutineIn(e, to).at) % Day = state.local
  <2> DEFINE date == Local(state.tz, state.at) \div Day
             at == WallToUtc(to, date * Day + state.local)
  <2>1. date \in Int
    BY <1>1, LocalType
  <2>2. RoutineIn(e, to) = [state EXCEPT !.at = at, !.tz = to]
    BY DEF RoutineIn
  <2> HIDE DEF state, date
  <2>3. at \in Int /\ Local(to, at) % Day = state.local
    BY <1>1, <2>1, MomentHasClockTime
  <2> HIDE DEF at
  <2> QED
    BY <1>1, <2>2, <2>3 DEF EntryState
<1>3. /\ ReviewedEntry(e, from, to) \in EntryState /\ ReviewedEntry(e, from, to).tz = to
      /\ Local(to, ReviewedEntry(e, from, to).at) % Day = ReviewedEntry(e, from, to).local
  <2> DEFINE wall == Local(from, state.at)
             time == IF state.tz = from THEN state.local ELSE wall % Day
             date == wall \div Day
             at == WallToUtc(to, date * Day + time)
             new == [tz |-> to, at |-> at, local |-> Local(to, at) % Day]
  <2>1. date \in Int /\ time \in 0 .. Day - 1
    BY <1>1, LocalType
  <2>2. ReviewedEntry(e, from, to) = new
    BY DEF ReviewedEntry
  <2> HIDE DEF date, time
  <2>3. at \in Int
    BY <2>1, MomentHasClockTime
  <2> HIDE DEF at
  <2>4. Local(to, at) % Day \in 0 .. Day - 1
    BY <2>3, LocalType
  <2> QED
    BY <2>2, <2>3, <2>4 DEF EntryState
<1> QED
  BY <1>2, <1>3

LEMMA ClosedFits ==
  ASSUME TypeOK, NEW i \in DOMAIN occ, NEW status \in {"closed", "moved"}
  PROVE  LET new == ClosedAs(i, status)
         IN  /\ new \in Seq(Occurrence) /\ DOMAIN new = DOMAIN occ
             /\ \A j \in DOMAIN occ \ {i} : new[j] = occ[j]
             /\ new[i].status = status /\ new[i].at = occ[i].at /\ new[i].entry = occ[i].entry
<1> DEFINE o == occ[i]
           Row1(r) == IF r.status = "pending" THEN [r EXCEPT !.status = "cancelled"] ELSE r
           rows == Cancelled(o.rows)
           closed == [o EXCEPT !.status = status, !.rows = rows]
<1>1. /\ Len(occ) \in Nat /\ DOMAIN occ = 1 .. Len(occ)
      /\ \A j \in DOMAIN occ : occ[j] \in Occurrence
      /\ o \in Occurrence /\ o.rows \in Seq(Row)
  BY OccurrenceType
<1>2. rows \in Seq(Row)
  <2>1. Len(o.rows) \in Nat /\ DOMAIN o.rows = 1 .. Len(o.rows)
          /\ \A n \in DOMAIN o.rows : o.rows[n] \in Row
    BY <1>1, LenProperties
  <2>2. rows = [n \in DOMAIN o.rows |-> Row1(o.rows[n])]
    BY DEF Cancelled
  <2>3. \A r \in Row : Row1(r) \in Row
    BY DEF Row
  <2> HIDE DEF o, Row1, rows
  <2>4. rows \in [1 .. Len(o.rows) -> Row]
    BY <2>1, <2>2, <2>3
  <2> QED
    BY <2>1, <2>4, SeqDef
<1>3. ClosedAs(i, status) = [occ EXCEPT ![i] = closed]
  BY DEF ClosedAs
<1> HIDE DEF rows
<1>4. closed \in Occurrence /\ closed.status = status /\ closed.at = o.at /\ closed.entry = o.entry
  <2> HIDE DEF o
  <2> QED
    BY <1>1, <1>2 DEF Occurrence
<1> HIDE DEF closed
<1> DEFINE new == [occ EXCEPT ![i] = closed]
<1>5. new \in [1 .. Len(occ) -> Occurrence]
  BY <1>1, <1>4
<1>6. new \in Seq(Occurrence)
  BY <1>1, <1>5, SeqDef
<1> QED
  BY <1>1, <1>3, <1>4, <1>6

LEMMA InitHorizon ==
  ASSUME Init
  PROVE  /\ TypeOK
         /\ \A e \in Entry : entry[e].tz = HomeTz
                               /\ Local(entry[e].tz, entry[e].at) % Day = entry[e].local
         /\ \A i \in DOMAIN occ : Signalled(occ[i], clock) /\ OnTime(occ[i], HomeTz, entry, clock)
<1>1. HomeTz \in Tz /\ clock = 0 /\ clock \in 0 .. MaxTime
  BY TimezonesAssumption DEF Init
<1>2. ASSUME NEW e \in Entry
      PROVE  /\ entry[e] \in EntryState /\ entry[e].tz = HomeTz
             /\ Local(entry[e].tz, entry[e].at) % Day = entry[e].local
  <2>1. FirstAt[e] \in Int
    BY TimezonesAssumption
  <2>2. Local(HomeTz, FirstAt[e]) % Day \in 0 .. Day - 1
    BY <1>1, <2>1, LocalType
  <2>3. entry[e] = [tz |-> HomeTz, at |-> FirstAt[e], local |-> Local(HomeTz, FirstAt[e]) % Day]
    BY DEF Init
  <2> QED
    BY <1>1, <2>1, <2>2, <2>3 DEF EntryState
<1>3. entry \in [Entry -> EntryState]
  BY <1>2 DEF Init
<1>4. \A e \in Routines : entry[e].tz = HomeTz
  BY <1>2 DEF Routines
<1> DEFINE none == << >>
<1>5. none \in Seq(Occurrence) /\ DOMAIN none = {} /\ cards \in Seq(Card) /\ changes \in Seq(Change)
  BY DEF Init
<1>6. occ = Reconciled(none, entry)
  BY DEF Init
<1> HIDE DEF none
<1>7. occ \in Seq(Occurrence)
        /\ \A i \in DOMAIN occ \ DOMAIN none :
             Signalled(occ[i], clock) /\ OnTime(occ[i], HomeTz, entry, clock)
  <2>1. clock \in Int
    BY <1>1
  <2> QED
    BY <2>1, <1>1, <1>3, <1>4, <1>5, <1>6, ReconciledFits
<1>8. tz \in Tz /\ aborted \in BOOLEAN
  BY <1>1 DEF Init
<1> QED
  BY <1>1, <1>2, <1>3, <1>5, <1>7, <1>8 DEF TypeOK

LEMMA ChangesType ==
  ASSUME TypeOK
  PROVE  /\ Len(changes) \in Nat /\ DOMAIN changes = 1 .. Len(changes)
         /\ \A k \in DOMAIN changes :
              /\ changes[k] \in Change /\ changes[k].from \in Tz /\ changes[k].to \in Tz
              /\ changes[k].snapshot \subseteq Entry /\ changes[k].decided \subseteq Entry
         /\ \A c \in DOMAIN cards : cards[c].from \in Tz /\ cards[c].to \in Tz /\ c \in Nat
<1>1. Len(changes) \in Nat /\ DOMAIN changes = 1 .. Len(changes)
        /\ \A k \in DOMAIN changes : changes[k] \in Change
  BY LenProperties DEF TypeOK
<1>2. ASSUME NEW c \in DOMAIN cards PROVE cards[c].from \in Tz /\ cards[c].to \in Tz /\ c \in Nat
  BY LenProperties DEF TypeOK, Card
<1> QED
  BY <1>1, <1>2 DEF Change

LEMMA DecisionRecorded ==
  ASSUME TypeOK, NEW k \in DOMAIN changes, NEW e \in Entry
  PROVE  LET new == WithDecision(k, e)
         IN  /\ new \in Seq(Change) /\ Len(new) = Len(changes)
             /\ DOMAIN new = DOMAIN changes
             /\ \A j \in DOMAIN changes \ {k} : new[j] = changes[j]
             /\ new[k].from = changes[k].from /\ new[k].to = changes[k].to
             /\ new[k].card = changes[k].card
             /\ new[k].snapshot = changes[k].snapshot
             /\ new[k].decided = changes[k].decided \cup {e}
             /\ new[k].reviewed <=> changes[k].snapshot \subseteq changes[k].decided \cup {e}
<1> DEFINE c == changes[k]
           decided == c.decided \cup {e}
           done == c.snapshot \subseteq decided
           row == [c EXCEPT !.decided = decided, !.reviewed = done]
           new == [changes EXCEPT ![k] = row]
<1>1. /\ Len(changes) \in Nat /\ DOMAIN changes = 1 .. Len(changes) /\ c \in Change
      /\ \A j \in DOMAIN changes : changes[j] \in Change
  BY ChangesType
<1>2. WithDecision(k, e) = new
  BY DEF WithDecision
<1>3. decided \in SUBSET Entry /\ done \in BOOLEAN
  BY <1>1 DEF Change
<1> HIDE DEF c, decided, done
<1>4. /\ row \in Change /\ row.from = c.from /\ row.to = c.to /\ row.card = c.card
      /\ row.snapshot = c.snapshot /\ row.decided = decided /\ row.reviewed = done
  BY <1>1, <1>3 DEF Change
<1> HIDE DEF row
<1>5. new \in [1 .. Len(changes) -> Change]
  BY <1>1, <1>4
<1>6. new \in Seq(Change) /\ Len(new) = Len(changes)
  <2>1. new \in Seq(Change)
    BY <1>1, <1>5, SeqDef
  <2> QED
    BY <2>1, <1>1, <1>5, LenProperties
<1> QED
  BY <1>1, <1>2, <1>4, <1>6 DEF c, decided, done

\* What the rebuild of the horizon returns in each of the operations.
LEMMA HorizonType ==
  ASSUME TypeOK, NEW occs \in Seq(Occurrence), NEW entries
  PROVE  Rebuilt(occs, entries, clock - Rebuild) \in Seq(Occurrence)
<1>1. clock \in Int /\ clock - Rebuild \in Int
  BY TimezonesAssumption DEF TypeOK
<1> QED
  BY <1>1, RebuiltAppends

\* A confirmation, a decision and a move, as they change entries and occurrences.
LEMMA ConfirmType ==
  ASSUME TypeOK, NEW c \in DOMAIN cards, Confirm(c)
  PROVE  TypeOK'
<1> DEFINE to == cards[c].to
<1>1. to \in Tz /\ c \in Nat /\ tz \in Tz
  BY ChangesType DEF TypeOK
<1>2. tz' = to /\ clock' = clock /\ cards' = cards /\ aborted' = aborted
  BY DEF Confirm
<1>3. entry' \in [Entry -> EntryState]
  <2>1. entry' = [e \in Entry |-> IF e \in Routines THEN RoutineIn(e, to) ELSE entry[e]]
    BY DEF Confirm
  <2>2. ASSUME NEW e \in Entry PROVE RoutineIn(e, to) \in EntryState /\ entry[e] \in EntryState
    BY <1>1, EntryMoved DEF TypeOK
  <2> QED
    BY <2>1, <2>2
<1>4. changes' \in Seq(Change)
  <2> DEFINE row == [card |-> c, from |-> tz, to |-> to, reviewed |-> ToReview = {},
                     snapshot |-> ToReview, decided |-> {}]
  <2>1. changes' = Append(changes, row)
    BY DEF Confirm
  <2>2. ToReview \in SUBSET Entry
    BY DEF ToReview, OneOffs
  <2>3. row \in Change
    BY <1>1, <2>2 DEF Change
  <2> HIDE DEF row
  <2> QED
    BY <2>1, <2>3, AppendProperties DEF TypeOK
<1>5. occ' \in Seq(Occurrence)
  <2>1. occ' = Rebuilt(OccAfter(Routines, tz, to), entry', clock - Rebuild)
    BY DEF Confirm
  <2>2. Routines \in SUBSET Entry
    BY DEF Routines
  <2>3. OccAfter(Routines, tz, to) \in Seq(Occurrence)
    BY <1>1, <2>2, OccAfterFits
  <2> QED
    BY <2>1, <2>3, HorizonType
<1> QED
  BY <1>1, <1>2, <1>3, <1>4, <1>5 DEF TypeOK

LEMMA KeepLocalType ==
  ASSUME TypeOK, NEW k \in DOMAIN changes, NEW e \in Entry, KeepLocal(k, e)
  PROVE  TypeOK'
<1> DEFINE from == changes[k].from  to == changes[k].to
<1>1. from \in Tz /\ to \in Tz
  BY ChangesType
<1>2. tz' = tz /\ clock' = clock /\ cards' = cards /\ aborted' = aborted
  BY DEF KeepLocal
<1>3. entry' \in [Entry -> EntryState]
  <2>1. entry' = [entry EXCEPT ![e] = ReviewedEntry(e, from, to)]
    BY DEF KeepLocal
  <2>2. ReviewedEntry(e, from, to) \in EntryState
    BY <1>1, EntryMoved
  <2> QED
    BY <2>1, <2>2 DEF TypeOK
<1>4. changes' \in Seq(Change)
  BY DecisionRecorded DEF KeepLocal
<1>5. occ' \in Seq(Occurrence)
  <2>1. occ' = Rebuilt(OccAfter({e}, from, to), entry', clock - Rebuild)
    BY DEF KeepLocal
  <2>2. OccAfter({e}, from, to) \in Seq(Occurrence)
    BY <1>1, OccAfterFits
  <2> QED
    BY <2>1, <2>2, HorizonType
<1> QED
  BY <1>2, <1>3, <1>4, <1>5 DEF TypeOK

\* Where a move puts the successor: an instant, and after it the new row.
LEMMA MoveFits ==
  ASSUME TypeOK, NEW i \in DOMAIN occ, Move(i)
  PROVE  \E t \in Int :
           LET e == occ[i].entry
               new == NewOccurrence(e, t, TRUE)
               state == [tz |-> tz, at |-> t, local |-> Local(tz, t) % Day]
           IN  /\ occ' = Append(ClosedAs(i, "moved"), new)
               /\ e \in Entry /\ new \in Occurrence /\ state \in EntryState
               /\ entry' = IF e \in OneOffs THEN [entry EXCEPT ![e] = state] ELSE entry
<1> DEFINE e == occ[i].entry
<1>1. tz \in Tz /\ e \in Entry /\ occ[i].at \in Int /\ clock \in Int
  BY OccurrenceType, TimezonesAssumption DEF TypeOK
<1>2. PICK t \in FreeTomorrow(i) :
        /\ occ' = Append(ClosedAs(i, "moved"), NewOccurrence(e, t, TRUE))
        /\ entry' = IF e \in OneOffs
             THEN [entry EXCEPT ![e] = [tz |-> tz, at |-> t, local |-> Local(tz, t) % Day]]
             ELSE entry
  BY DEF Move
<1>3. t \in Int
  <2> DEFINE date == Local(tz, occ[i].at) \div Day
             now  == Local(tz, clock) \div Day
             day  == (IF date < now THEN now ELSE date) + 1
             time == Local(tz, occ[i].at) % Day
             wall == day * Day + time
  <2>1. date \in Int /\ now \in Int /\ time \in 0 .. Day - 1
    BY <1>1, LocalType
  <2>2. PICK j \in 0 .. MoveTries : t = ResolveWallTime(tz, wall + j)
    BY <1>2 DEF FreeTomorrow
  <2> HIDE DEF date, now, time
  <2>3. day \in Int
    BY <2>1
  <2> HIDE DEF day
  <2>4. wall \in Int
    BY <2>1, <2>3, ClockTime
  <2>5. j \in Int
    BY TimezonesAssumption
  <2> HIDE DEF wall
  <2>6. wall + j \in Int /\ tz.before \in Int
    BY <1>1, <2>4, <2>5, FixedZone
  <2> DEFINE w == wall + j
  <2> HIDE DEF w
  <2>7. w \in Int /\ t = ResolveWallTime(tz, w)
    BY <2>2, <2>6 DEF w
  <2>8. t = w - tz.before
    BY <1>1, <2>7, FixedZone
  <2> QED
    BY <2>6, <2>7, <2>8
<1>4. NewOccurrence(e, t, TRUE) \in Occurrence
  BY <1>1, <1>3, NewOccurrenceFits
<1>5. [tz |-> tz, at |-> t, local |-> Local(tz, t) % Day] \in EntryState
  <2>1. Local(tz, t) % Day \in 0 .. Day - 1
    BY <1>1, <1>3, LocalType
  <2> QED
    BY <1>1, <1>3, <2>1 DEF EntryState
<1> QED
  BY <1>1, <1>2, <1>3, <1>4, <1>5

LEMMA DeliveredFits ==
  ASSUME TypeOK, NEW i \in DOMAIN occ, NEW n \in DOMAIN occ[i].rows, Deliver(i, n)
  PROVE  /\ occ' \in Seq(Occurrence) /\ DOMAIN occ' = DOMAIN occ
         /\ \A j \in DOMAIN occ \ {i} : occ'[j] = occ[j]
         /\ occ'[i].entry = occ[i].entry /\ occ'[i].at = occ[i].at
         /\ occ'[i].status = occ[i].status /\ occ'[i].moved = occ[i].moved
         /\ Signalled(occ[i], clock) => Signalled(occ'[i], clock)
<1> DEFINE o == occ[i]
           r == o.rows[n]
           row == [r EXCEPT !.status = "sent"]
           rows == [o.rows EXCEPT ![n] = row]
           new == [o EXCEPT !.rows = rows]
<1>1. /\ Len(occ) \in Nat /\ DOMAIN occ = 1 .. Len(occ)
      /\ \A j \in DOMAIN occ : occ[j] \in Occurrence
      /\ o \in Occurrence /\ o.rows \in Seq(Row) /\ o.at \in Int
  BY OccurrenceType
<1>2. Len(o.rows) \in Nat /\ DOMAIN o.rows = 1 .. Len(o.rows)
        /\ \A m \in DOMAIN o.rows : o.rows[m] \in Row
  BY <1>1, LenProperties
<1>3. r \in Row /\ r.status = "pending" /\ r.fire <= clock
  BY <1>2 DEF Deliver
<1>4. occ' = [occ EXCEPT ![i] = new]
  BY DEF Deliver
<1> HIDE DEF r
<1>5. row \in Row /\ row.status = "sent"
  BY <1>3 DEF Row
<1> HIDE DEF row
<1> HIDE DEF o
<1>6. rows \in Seq(Row) /\ DOMAIN rows = DOMAIN o.rows
        /\ rows[n] = row /\ \A m \in DOMAIN o.rows \ {n} : rows[m] = o.rows[m]
  <2>1. rows \in [1 .. Len(o.rows) -> Row]
    BY <1>2, <1>5
  <2>2. n \in DOMAIN o.rows
    BY DEF o
  <2> QED
    BY <1>2, <2>1, <2>2, SeqDef
<1> HIDE DEF rows
<1>7. new \in Occurrence /\ new.entry = o.entry /\ new.at = o.at /\ new.rows = rows
        /\ new.status = o.status /\ new.moved = o.moved
  BY <1>1, <1>6 DEF Occurrence
<1> HIDE DEF new
<1>8. ASSUME Signalled(o, clock) PROVE Signalled(new, clock)
  <2>1. SUFFICES ASSUME o.status = "pending" PROVE Signalled(new, clock)
    BY <1>7 DEF Signalled
  <2>2. ASSUME NEW m \in DOMAIN rows, rows[m].status = "pending"
        PROVE  m \in DOMAIN o.rows /\ rows[m] = o.rows[m]
    BY <1>5, <1>6, <2>2
  <2>3. ASSUME o.at > clock
        PROVE  \E m \in DOMAIN rows : rows[m].kind = "main"
                 /\ rows[m].fire = o.at /\ rows[m].status = "pending"
    <3>1. PICK m \in DOMAIN o.rows : o.rows[m].kind = "main"
            /\ o.rows[m].fire = o.at /\ o.rows[m].status = "pending"
      BY <1>8, <2>1, <2>3 DEF Signalled
    <3>2. clock \in Int
      BY TimezonesAssumption DEF TypeOK
    <3>3. m # n
      BY <1>1, <1>3, <2>3, <3>1, <3>2 DEF r
    <3> QED
      BY <1>6, <3>1, <3>3
  <2>4. ASSUME NEW m \in DOMAIN rows, rows[m].status = "pending"
        PROVE  o.at - rows[m].fire \in IF rows[m].kind = "main" THEN {0} ELSE PreOffsets
    BY <1>8, <2>1, <2>2, <2>4 DEF Signalled
  <2> QED
    BY <1>7, <2>3, <2>4 DEF Signalled
<1>9. occ' \in [1 .. Len(occ) -> Occurrence] /\ DOMAIN occ' = DOMAIN occ
        /\ occ'[i] = new /\ \A j \in DOMAIN occ \ {i} : occ'[j] = occ[j]
  BY <1>1, <1>4, <1>7
<1>10. occ' \in Seq(Occurrence)
  BY <1>1, <1>9, SeqDef
<1> QED
  BY <1>7, <1>8, <1>9, <1>10 DEF o

\* Zones, entries, occurrences, cards and changes keep their types in every
\* operation: in particular the orders by which the horizon lists new slots and
\* the plan its signals always have a first element.
THEOREM TypeCorrect == Spec => []TypeOK
<1>1. Init => TypeOK
  BY InitHorizon
<1>2. TypeOK /\ [Next]_vars => TypeOK'
  <2> SUFFICES ASSUME TypeOK, [Next]_vars PROVE TypeOK'
    OBVIOUS
  <2>1. CASE Preview
    <3>1. PICK z \in Tz \ {tz} : cards' = Append(cards, [from |-> tz, to |-> z])
      BY <2>1 DEF Preview
    <3>2. [from |-> tz, to |-> z] \in Card
      BY DEF TypeOK, Card
    <3>3. cards' \in Seq(Card)
      BY <3>1, <3>2, AppendProperties DEF TypeOK
    <3> QED
      BY <2>1, <3>3 DEF TypeOK, Preview
  <2>2. CASE \E c \in DOMAIN cards : Confirm(c)
    BY <2>2, ConfirmType
  <2>3. CASE \E c \in DOMAIN cards : ConfirmAborts(c)
    BY <2>3 DEF TypeOK, ConfirmAborts
  <2>4. CASE \E k \in DOMAIN changes, e \in Entry : KeepAbsolute(k, e)
    <3>1. PICK k \in DOMAIN changes, e \in Entry : KeepAbsolute(k, e)
      BY <2>4
    <3>2. changes' \in Seq(Change)
      BY <3>1, DecisionRecorded DEF KeepAbsolute
    <3>3. occ' \in Seq(Occurrence)
      BY <3>1, HorizonType DEF KeepAbsolute, TypeOK
    <3> QED
      BY <3>1, <3>2, <3>3 DEF TypeOK, KeepAbsolute
  <2>5. CASE \E k \in DOMAIN changes, e \in Entry : KeepLocal(k, e)
    BY <2>5, KeepLocalType
  <2>6. CASE Replay
    <3>1. occ' \in Seq(Occurrence)
      BY <2>6, HorizonType DEF Replay, TypeOK
    <3> QED
      BY <2>6, <3>1 DEF TypeOK, Replay
  <2>7. CASE Reconcile
    <3>1. clock - Lookback \in Int /\ clock \in Int
      BY TimezonesAssumption DEF TypeOK
    <3> DEFINE mid == Rebuilt(occ, entry, clock - Lookback)
    <3>2. mid \in Seq(Occurrence)
      BY <3>1, RebuiltAppends DEF TypeOK
    <3>3. occ' = [i \in DOMAIN mid |-> WithPlan(mid[i])]
      BY <2>7 DEF Reconcile, Reconciled
    <3> HIDE DEF mid
    <3>4. Len(mid) \in Nat /\ DOMAIN mid = 1 .. Len(mid) /\ \A i \in DOMAIN mid : mid[i] \in Occurrence
      BY <3>2, LenProperties
    <3>5. \A i \in DOMAIN mid : WithPlan(mid[i]) \in Occurrence
      BY <3>4, UpsertAppends
    <3>6. occ' \in [1 .. Len(mid) -> Occurrence]
      BY <3>3, <3>4, <3>5
    <3>7. occ' \in Seq(Occurrence)
      BY <3>4, <3>6, SeqDef
    <3> QED
      BY <2>7, <3>7 DEF TypeOK, Reconcile
  <2>8. CASE \E i \in DOMAIN occ : \E n \in DOMAIN occ[i].rows : Deliver(i, n)
    <3> PICK i \in DOMAIN occ : \E n \in DOMAIN occ[i].rows : Deliver(i, n)
      BY <2>8
    <3>1. PICK n \in DOMAIN occ[i].rows : Deliver(i, n)
      OBVIOUS
    <3>2. occ' \in Seq(Occurrence)
      BY <3>1, DeliveredFits
    <3> QED
      BY <3>1, <3>2 DEF TypeOK, Deliver
  <2>9. CASE \E i \in DOMAIN occ : Close(i)
    <3>1. occ' \in Seq(Occurrence)
      BY <2>9, ClosedFits DEF Close
    <3> QED
      BY <2>9, <3>1 DEF TypeOK, Close
  <2>10. CASE \E i \in DOMAIN occ : Move(i)
    <3>1. PICK i \in DOMAIN occ : Move(i)
      BY <2>10
    <3>2. PICK t \in Int :
            LET e == occ[i].entry
                new == NewOccurrence(e, t, TRUE)
                state == [tz |-> tz, at |-> t, local |-> Local(tz, t) % Day]
            IN  /\ occ' = Append(ClosedAs(i, "moved"), new)
                /\ e \in Entry /\ new \in Occurrence /\ state \in EntryState
                /\ entry' = IF e \in OneOffs THEN [entry EXCEPT ![e] = state] ELSE entry
      BY <3>1, MoveFits
    <3>3. occ' \in Seq(Occurrence)
      <4>1. ClosedAs(i, "moved") \in Seq(Occurrence)
        BY ClosedFits
      <4> QED
        BY <3>2, <4>1, AppendProperties
    <3>4. entry' \in [Entry -> EntryState]
      BY <3>2 DEF TypeOK
    <3> QED
      BY <3>1, <3>3, <3>4 DEF TypeOK, Move
  <2>11. CASE Advance
    BY <2>11, TimezonesAssumption DEF TypeOK, Advance
  <2>12. CASE UNCHANGED vars
    BY <2>12 DEF TypeOK, vars
  <2> QED
    BY <2>1, <2>2, <2>3, <2>4, <2>5, <2>6, <2>7, <2>8, <2>9, <2>10, <2>11, <2>12 DEF Next
<1> QED
  BY <1>1, <1>2, PTL DEF Spec

-----------------------------------------------------------------------------
(* The journal of the changes. *)

\* Decisions are about entries under review, which are one-off entries; with the
\* journal this makes the invariant inductive.
Journal ==
  /\ JournalIsAPath
  /\ \A k \in DOMAIN changes : /\ changes[k].decided \subseteq changes[k].snapshot
                               /\ changes[k].snapshot \subseteq OneOffs

\* A confirmation appends the one link that fits, once every review is over.
LEMMA ConfirmExtends ==
  ASSUME TypeOK, Journal, NEW c \in DOMAIN cards, Confirm(c)
  PROVE  Journal'
<1> DEFINE last == Len(changes)
           row == [card |-> c, from |-> tz, to |-> cards[c].to, reviewed |-> ToReview = {},
                   snapshot |-> ToReview, decided |-> {}]
<1>1. last \in Nat /\ DOMAIN changes = 1 .. last /\ changes \in Seq(Change)
  BY ChangesType DEF TypeOK
<1>2. ToReview \subseteq OneOffs
  BY DEF ToReview
<1>3. row \in Change
  BY <1>2, ChangesType DEF TypeOK, Change, OneOffs
<1>4. /\ row.from = tz /\ row.to = cards[c].to /\ row.snapshot = ToReview
      /\ row.decided = {} /\ row.reviewed = (ToReview = {})
  OBVIOUS
<1>5. changes' = Append(changes, row) /\ tz' = cards[c].to
        /\ \A k \in DOMAIN changes : changes[k].reviewed
  BY DEF Confirm, Confirmable
<1> HIDE DEF row
<1>6. /\ Len(changes') = last + 1
      /\ \A k \in 1 .. last : changes'[k] = changes[k]
      /\ changes'[last + 1] = row
      /\ DOMAIN changes' = 1 .. last + 1
  <2>1. changes' \in Seq(Change)
    BY <1>1, <1>3, <1>5, AppendProperties
  <2> QED
    BY <1>1, <1>3, <1>5, <2>1, AppendProperties, LenProperties
<1>7. row.from = IF last = 0 THEN HomeTz ELSE changes[last].to
  BY <1>4 DEF Journal, JournalIsAPath
<1>8. row.reviewed <=> row.snapshot = row.decided
  BY <1>4
<1>9. ASSUME NEW k \in 1 .. last + 1
      PROVE  /\ changes'[k].from = IF k = 1 THEN HomeTz ELSE changes'[k - 1].to
             /\ k < last + 1 => changes'[k].reviewed
             /\ changes'[k].reviewed <=> changes'[k].snapshot = changes'[k].decided
             /\ changes'[k].decided \subseteq changes'[k].snapshot
             /\ changes'[k].snapshot \subseteq OneOffs
  <2>1. CASE k \in 1 .. last
    <3>1. k # 1 => k - 1 \in 1 .. last
      BY <1>1, <2>1
    <3> QED
      BY <1>1, <1>5, <1>6, <2>1, <3>1 DEF Journal, JournalIsAPath
  <2>2. CASE k = last + 1
    <3>1. k # 1 => last # 0 /\ k - 1 \in 1 .. last /\ k - 1 = last
      BY <1>1, <2>2
    <3>2. changes'[k] = row
      BY <1>6, <2>2
    <3>3. changes'[k].from = IF k = 1 THEN HomeTz ELSE changes'[k - 1].to
      BY <1>1, <1>6, <1>7, <2>2, <3>1
    <3>4. row.decided \subseteq row.snapshot /\ row.snapshot \subseteq OneOffs
      BY <1>2, <1>4
    <3>5. ~ (k < last + 1)
      BY <1>1, <2>2
    <3> QED
      BY <1>8, <3>2, <3>3, <3>4, <3>5
  <2> QED
    BY <1>1, <2>1, <2>2
<1> QED
  BY <1>1, <1>4, <1>5, <1>6, <1>9 DEF Journal, JournalIsAPath

\* A decision belongs to the last change, the only one under review.
LEMMA DecisionExtends ==
  ASSUME TypeOK, Journal, NEW k \in DOMAIN changes, NEW e \in Entry, Undecided(k, e),
         changes' = WithDecision(k, e), tz' = tz
  PROVE  Journal'
<1>1. /\ Len(changes') = Len(changes) /\ DOMAIN changes' = DOMAIN changes
      /\ \A j \in DOMAIN changes \ {k} : changes'[j] = changes[j]
      /\ changes'[k].from = changes[k].from /\ changes'[k].to = changes[k].to
      /\ changes'[k].snapshot = changes[k].snapshot
      /\ changes'[k].decided = changes[k].decided \cup {e}
      /\ changes'[k].reviewed <=> changes[k].snapshot \subseteq changes[k].decided \cup {e}
  BY DecisionRecorded
<1>2. Len(changes) \in Nat /\ DOMAIN changes = 1 .. Len(changes)
  BY ChangesType
<1>3. e \in changes[k].snapshot /\ e \notin changes[k].decided
        /\ changes[k].decided \subseteq changes[k].snapshot /\ changes[k].snapshot \subseteq OneOffs
  BY DEF Undecided, Journal
<1>4. ~ changes[k].reviewed /\ k = Len(changes)
  BY <1>2, <1>3 DEF Journal, JournalIsAPath
<1>5. \A j \in DOMAIN changes :
        changes'[j].from = changes[j].from /\ changes'[j].to = changes[j].to
  BY <1>1
<1>6. ASSUME NEW j \in 1 .. Len(changes)
      PROVE  /\ changes'[j].from = IF j = 1 THEN HomeTz ELSE changes'[j - 1].to
             /\ j < Len(changes) => changes'[j].reviewed
             /\ changes'[j].reviewed <=> changes'[j].snapshot = changes'[j].decided
             /\ changes'[j].decided \subseteq changes'[j].snapshot
             /\ changes'[j].snapshot \subseteq OneOffs
  <2>1. changes'[j].from = IF j = 1 THEN HomeTz ELSE changes'[j - 1].to
    <3>1. j # 1 => j - 1 \in DOMAIN changes
      BY <1>2
    <3> QED
      BY <1>2, <1>5, <3>1 DEF Journal, JournalIsAPath
  <2>2. CASE j = k
    <3>1. changes[k].snapshot \subseteq changes[k].decided \cup {e}
            <=> changes[k].snapshot = changes[k].decided \cup {e}
      BY <1>3
    <3>2. changes'[k].reviewed <=> changes'[k].snapshot = changes'[k].decided
      BY <1>1, <3>1
    <3>3. changes'[k].decided \subseteq changes'[k].snapshot /\ changes'[k].snapshot \subseteq OneOffs
      BY <1>1, <1>3
    <3>4. ~ (j < Len(changes))
      BY <1>2, <1>4, <2>2
    <3> QED
      BY <2>1, <2>2, <3>2, <3>3, <3>4
  <2>3. CASE j # k
    BY <1>1, <1>2, <2>1, <2>3 DEF Journal, JournalIsAPath
  <2> QED
    BY <2>2, <2>3
<1>7. tz' = IF Len(changes) = 0 THEN HomeTz ELSE changes'[Len(changes)].to
  BY <1>2, <1>5 DEF Journal, JournalIsAPath
<1> QED
  BY <1>1, <1>2, <1>6, <1>7 DEF Journal, JournalIsAPath

LEMMA JournalKept ==
  ASSUME TypeOK, Journal, [Next]_vars
  PROVE  Journal'
<1>1. CASE \E c \in DOMAIN cards : Confirm(c)
  BY <1>1, ConfirmExtends
<1>2. CASE \E k \in DOMAIN changes, e \in Entry : KeepAbsolute(k, e) \/ KeepLocal(k, e)
  BY <1>2, DecisionExtends DEF KeepAbsolute, KeepLocal
<1>3. CASE UNCHANGED <<tz, changes>>
  BY <1>3 DEF Journal, JournalIsAPath
<1> QED
  BY <1>1, <1>2, <1>3
     DEF Next, vars, Preview, ConfirmAborts, Replay, Reconcile, Deliver, Close, Move, Advance

LEMMA JournalInvariant == Spec => []Journal
<1>1. Init => Journal
  BY DEF Init, Journal, JournalIsAPath
<1>2. TypeOK /\ Journal /\ [Next]_vars => Journal'
  BY JournalKept
<1> QED
  BY <1>1, <1>2, TypeCorrect, PTL DEF Spec

\* However many cards the owner presses, however often and in whatever order,
\* the confirmed changes lead from the first zone to the zone of the settings
\* without a gap, and only the last may be under review.
THEOREM JournalStaysAPath == Spec => []JournalIsAPath
BY JournalInvariant, PTL DEF Journal

-----------------------------------------------------------------------------
(* Entries. *)

\* Routines are always in the zone of the settings: a confirmation takes them
\* along, and what a review or a move writes is a one-off entry.
RoutinesAtHome == \A e \in Routines : entry[e].tz = tz

LEMMA EntriesKept ==
  ASSUME TypeOK, Journal, RoutinesAtHome, WallTimeConsistent, [Next]_vars
  PROVE  RoutinesAtHome' /\ WallTimeConsistent'
<1>1. \A e \in Entry : Local(entry[e].tz, entry[e].at) % Day = entry[e].local
  BY DEF WallTimeConsistent
<1>2. ASSUME NEW c \in DOMAIN cards, Confirm(c) PROVE RoutinesAtHome' /\ WallTimeConsistent'
  <2> DEFINE to == cards[c].to
  <2>1. to \in Tz
    BY ChangesType
  <2>2. tz' = to
          /\ entry' = [e \in Entry |-> IF e \in Routines THEN RoutineIn(e, to) ELSE entry[e]]
    BY <1>2 DEF Confirm
  <2>3. ASSUME NEW e \in Entry
        PROVE  /\ Local(entry'[e].tz, entry'[e].at) % Day = entry'[e].local
               /\ e \in Routines => entry'[e].tz = to
    <3>1. CASE e \in Routines
      <4>1. entry'[e] = RoutineIn(e, to)
        BY <2>2, <3>1
      <4> QED
        BY <2>1, <4>1, EntryMoved
    <3>2. CASE e \notin Routines
      <4>1. entry'[e] = entry[e]
        BY <2>2, <3>2
      <4> QED
        BY <1>1, <3>2, <4>1
    <3> QED
      BY <3>1, <3>2
  <2> QED
    BY <2>2, <2>3 DEF RoutinesAtHome, WallTimeConsistent, Routines
<1>3. ASSUME NEW k \in DOMAIN changes, NEW d \in Entry, KeepLocal(k, d)
      PROVE  RoutinesAtHome' /\ WallTimeConsistent'
  <2> DEFINE from == changes[k].from  to == changes[k].to
             state == ReviewedEntry(d, from, to)
  <2>1. d \in OneOffs
    BY <1>3 DEF KeepLocal, Undecided, Journal
  <2>2. Local(state.tz, state.at) % Day = state.local
    BY ChangesType, EntryMoved
  <2>3. tz' = tz /\ entry' = [entry EXCEPT ![d] = state]
    BY <1>3 DEF KeepLocal
  <2> HIDE DEF state
  <2>4. ASSUME NEW e \in Entry PROVE entry'[e] = IF e = d THEN state ELSE entry[e]
    BY <2>3 DEF TypeOK
  <2> QED
    BY <1>1, <2>1, <2>2, <2>3, <2>4 DEF RoutinesAtHome, WallTimeConsistent, OneOffs, Routines
<1>4. ASSUME NEW i \in DOMAIN occ, Move(i) PROVE RoutinesAtHome' /\ WallTimeConsistent'
  <2> DEFINE d == occ[i].entry
  <2>1. PICK t \in Int :
          entry' = IF d \in OneOffs
            THEN [entry EXCEPT ![d] = [tz |-> tz, at |-> t, local |-> Local(tz, t) % Day]]
            ELSE entry
    BY <1>4, MoveFits
  <2>2. tz' = tz /\ d \in Entry
    BY <1>4, OccurrenceType DEF Move
  <2> DEFINE state == [tz |-> tz, at |-> t, local |-> Local(tz, t) % Day]
  <2>3. Local(state.tz, state.at) % Day = state.local
    OBVIOUS
  <2> HIDE DEF state
  <2>4. ASSUME NEW e \in Entry
        PROVE  entry'[e] = IF d \in OneOffs /\ e = d THEN state ELSE entry[e]
    BY <2>1 DEF TypeOK, state
  <2> HIDE DEF d
  <2> QED
    BY <1>1, <2>2, <2>3, <2>4 DEF RoutinesAtHome, WallTimeConsistent, OneOffs, Routines
<1>5. CASE UNCHANGED <<tz, entry>>
  BY <1>5 DEF RoutinesAtHome, WallTimeConsistent
<1> QED
  BY <1>2, <1>3, <1>4, <1>5
     DEF Next, vars, Preview, ConfirmAborts, KeepAbsolute, Replay, Reconcile, Deliver, Close, Advance

LEMMA EntriesInvariant == Spec => [](RoutinesAtHome /\ WallTimeConsistent)
<1>1. Init => RoutinesAtHome /\ WallTimeConsistent
  BY InitHorizon DEF Init, RoutinesAtHome, WallTimeConsistent, Routines
<1>2. TypeOK /\ Journal /\ (RoutinesAtHome /\ WallTimeConsistent) /\ [Next]_vars
        => (RoutinesAtHome /\ WallTimeConsistent)'
  BY EntriesKept
<1> QED
  BY <1>1, <1>2, TypeCorrect, JournalInvariant, PTL DEF Spec

\* Whatever journeys, reviews and moves come in whatever order, the local time
\* stored with an entry is the one its moment has in the zone stored with it.
THEOREM WallTimeStaysConsistent == Spec => []WallTimeConsistent
BY EntriesInvariant, PTL

-----------------------------------------------------------------------------
(* Occurrences. *)

OccurrencesFit ==
  \A i \in DOMAIN occ : Signalled(occ[i], clock) /\ OnTime(occ[i], tz, entry, clock)

\* The rebuild of the horizon, after whatever was done to what it finds.
LEMMA RebuiltKeeps ==
  ASSUME clock \in 0 .. MaxTime, NEW occs \in Seq(Occurrence), NEW z \in Tz,
         NEW entries \in [Entry -> EntryState], \A e \in Routines : entries[e].tz = z,
         \A i \in DOMAIN occs : Signalled(occs[i], clock) /\ OnTime(occs[i], z, entries, clock)
  PROVE  LET all == Rebuilt(occs, entries, clock - Rebuild)
         IN  \A i \in DOMAIN all : Signalled(all[i], clock) /\ OnTime(all[i], z, entries, clock)
<1> DEFINE from == clock - Rebuild  all == Rebuilt(occs, entries, from)
<1>1. clock \in Int /\ from \in Int
  BY TimezonesAssumption
<1> HIDE DEF from
<1>2. /\ \A i \in DOMAIN occs : all[i] = occs[i]
      /\ \A i \in DOMAIN all \ DOMAIN occs :
           Signalled(all[i], clock) /\ OnTime(all[i], z, entries, clock)
  BY <1>1, RebuiltFits
<1> HIDE DEF all
<1>3. \A i \in DOMAIN all : Signalled(all[i], clock) /\ OnTime(all[i], z, entries, clock)
  BY <1>2
<1> QED
  BY <1>3 DEF all, from

LEMMA ConfirmFits ==
  ASSUME TypeOK, Journal, RoutinesAtHome, OccurrencesFit, NEW c \in DOMAIN cards, Confirm(c)
  PROVE  OccurrencesFit'
<1> DEFINE to == cards[c].to  occs == OccAfter(Routines, tz, to)
<1>1. /\ clock \in 0 .. MaxTime /\ clock' = clock /\ tz' = to /\ to \in Tz /\ tz \in Tz
      /\ entry' = [e \in Entry |-> IF e \in Routines THEN RoutineIn(e, to) ELSE entry[e]]
      /\ occ' = Rebuilt(occs, entry', clock - Rebuild)
  BY ChangesType DEF TypeOK, Confirm
<1>2. Routines \in SUBSET Entry
  BY DEF Routines
<1>3. /\ occs \in Seq(Occurrence) /\ DOMAIN occs = DOMAIN occ
      /\ \A i \in DOMAIN occ :
           /\ i \notin Rebased(Routines) => occs[i] = occ[i]
           /\ i \in Rebased(Routines) => occs[i].at = MomentIn(i, tz, to)
           /\ occs[i].entry = occ[i].entry /\ occs[i].status = occ[i].status
           /\ occs[i].moved = occ[i].moved
           /\ Signalled(occ[i], clock) => Signalled(occs[i], clock)
  BY <1>1, <1>2, OccAfterFits
<1> HIDE DEF occs
<1>4. entry' \in [Entry -> EntryState]
        /\ \A e \in Routines : entry'[e].tz = to /\ entry'[e].local = entry[e].local
  <2>1. ASSUME NEW e \in Routines
        PROVE  entry'[e].tz = to /\ entry'[e].local = entry[e].local
    <3>1. e \in Entry /\ entry'[e] = RoutineIn(e, to)
      BY <1>1, <1>2
    <3> QED
      BY <1>1, <3>1, EntryMoved
  <2>2. entry' \in [Entry -> EntryState]
    BY ConfirmType DEF TypeOK
  <2> QED
    BY <2>1, <2>2
<1>5. ASSUME NEW i \in DOMAIN occs
      PROVE  Signalled(occs[i], clock) /\ OnTime(occs[i], to, entry', clock)
  <2>1. Signalled(occs[i], clock)
    BY <1>3 DEF OccurrencesFit
  <2>2. CASE i \in Rebased(Routines)
    <3>1. occ[i].entry \in Routines /\ entry[occ[i].entry].tz = tz
      BY <2>2 DEF Rebased, RoutinesAtHome
    <3>2. Local(to, MomentIn(i, tz, to)) % Day = entry[occ[i].entry].local
      BY <1>1, <1>3, <3>1, MomentInFits
    <3>3. Local(to, occs[i].at) % Day = entry'[occs[i].entry].local
      BY <1>3, <1>4, <2>2, <3>1, <3>2
    <3> QED
      BY <2>1, <3>3 DEF OnTime
  <2>3. CASE i \notin Rebased(Routines)
    <3>1. occs[i] = occ[i] /\ ~ (occ[i].entry \in Routines /\ occ[i].status = "pending"
                                   /\ occ[i].at > clock)
      BY <1>3, <2>3 DEF Rebased
    <3> QED
      BY <2>1, <3>1 DEF OnTime
  <2> QED
    BY <2>2, <2>3
<1>6. \A i \in DOMAIN occ' : Signalled(occ'[i], clock) /\ OnTime(occ'[i], to, entry', clock)
  <2> DEFINE entries == entry'
  <2>1. entries \in [Entry -> EntryState] /\ \A e \in Routines : entries[e].tz = to
    BY <1>4
  <2> HIDE DEF entries
  <2> QED
    BY <1>1, <1>3, <1>5, <2>1, RebuiltKeeps DEF entries
<1> QED
  BY <1>1, <1>6 DEF OccurrencesFit

LEMMA KeepLocalFits ==
  ASSUME TypeOK, Journal, RoutinesAtHome, OccurrencesFit,
         NEW k \in DOMAIN changes, NEW d \in Entry, KeepLocal(k, d)
  PROVE  OccurrencesFit'
<1> DEFINE from == changes[k].from  to == changes[k].to  occs == OccAfter({d}, from, to)
<1>1. /\ clock \in 0 .. MaxTime /\ clock' = clock /\ tz' = tz /\ tz \in Tz
      /\ to \in Tz /\ from \in Tz /\ d \in OneOffs
      /\ entry' = [entry EXCEPT ![d] = ReviewedEntry(d, from, to)]
      /\ occ' = Rebuilt(occs, entry', clock - Rebuild)
  BY ChangesType DEF TypeOK, KeepLocal, Undecided, Journal
<1>2. /\ occs \in Seq(Occurrence) /\ DOMAIN occs = DOMAIN occ
      /\ \A i \in DOMAIN occ :
           /\ i \notin Rebased({d}) => occs[i] = occ[i]
           /\ occs[i].entry = occ[i].entry
           /\ Signalled(occ[i], clock) => Signalled(occs[i], clock)
  <2> DEFINE E == {d}
  <2>1. E \in SUBSET Entry /\ from \in Tz /\ to \in Tz
    BY <1>1
  <2> HIDE DEF E, from, to
  <2> DEFINE new == OccAfter(E, from, to)
  <2>2. /\ new \in Seq(Occurrence) /\ DOMAIN new = DOMAIN occ
        /\ \A i \in DOMAIN occ :
             /\ i \notin Rebased(E) => new[i] = occ[i]
             /\ i \in Rebased(E) => new[i].at = MomentIn(i, from, to)
             /\ new[i].entry = occ[i].entry /\ new[i].status = occ[i].status
             /\ new[i].moved = occ[i].moved
             /\ Signalled(occ[i], clock) => Signalled(new[i], clock)
    BY <2>1, OccAfterFits
  <2> QED
    BY <2>2 DEF E
<1> HIDE DEF occs
<1>3. entry' \in [Entry -> EntryState] /\ \A e \in Routines : entry'[e] = entry[e]
  <2>1. entry' \in [Entry -> EntryState]
    BY KeepLocalType DEF TypeOK
  <2> QED
    BY <1>1, <2>1 DEF TypeOK, OneOffs, Routines
<1>4. ASSUME NEW i \in DOMAIN occs
      PROVE  Signalled(occs[i], clock) /\ OnTime(occs[i], tz, entry', clock)
  <2>1. Signalled(occs[i], clock) /\ OnTime(occ[i], tz, entry, clock)
    BY <1>2 DEF OccurrencesFit
  <2>2. occs[i].entry \in Routines => occs[i] = occ[i]
    BY <1>1, <1>2 DEF Rebased, OneOffs
  <2> QED
    BY <1>2, <1>3, <2>1, <2>2 DEF OnTime
<1>5. \A i \in DOMAIN occ' : Signalled(occ'[i], clock) /\ OnTime(occ'[i], tz, entry', clock)
  <2> DEFINE entries == entry'
  <2>1. entries \in [Entry -> EntryState] /\ \A e \in Routines : entries[e].tz = tz
    BY <1>3 DEF RoutinesAtHome
  <2> HIDE DEF entries
  <2> QED
    BY <1>1, <1>2, <1>4, <2>1, RebuiltKeeps, ZenonT(40) DEF entries
<1> QED
  BY <1>1, <1>5 DEF OccurrencesFit

LEMMA OccurrencesKept ==
  ASSUME TypeOK, Journal, RoutinesAtHome, OccurrencesFit, [Next]_vars
  PROVE  OccurrencesFit'
<1>1. /\ clock \in 0 .. MaxTime /\ clock \in Int /\ tz \in Tz /\ occ \in Seq(Occurrence)
      /\ entry \in [Entry -> EntryState] /\ \A e \in Routines : entry[e].tz = tz
      /\ \A i \in DOMAIN occ : /\ occ[i] \in Occurrence
                               /\ Signalled(occ[i], clock) /\ OnTime(occ[i], tz, entry, clock)
  BY OccurrenceType, TimezonesAssumption DEF TypeOK, RoutinesAtHome, OccurrencesFit
<1>2. ASSUME NEW c \in DOMAIN cards, Confirm(c) PROVE OccurrencesFit'
  BY <1>2, ConfirmFits
<1>3. ASSUME NEW k \in DOMAIN changes, NEW e \in Entry, KeepLocal(k, e) PROVE OccurrencesFit'
  BY <1>3, KeepLocalFits
<1>4. ASSUME occ' = Rebuilt(occ, entry, clock - Rebuild), UNCHANGED <<clock, tz, entry>>
      PROVE  OccurrencesFit'
  <2>1. \A i \in DOMAIN occ' : Signalled(occ'[i], clock) /\ OnTime(occ'[i], tz, entry, clock)
    BY <1>1, <1>4, RebuiltKeeps
  <2> QED
    BY <1>4, <2>1 DEF OccurrencesFit
<1>5. CASE Reconcile
  <2>1. occ' = Reconciled(occ, entry) /\ UNCHANGED <<clock, tz, entry>>
    BY <1>5 DEF Reconcile
  <2>2. /\ \A i \in DOMAIN occ : occ'[i] = WithPlan(occ[i])
        /\ \A i \in DOMAIN occ' \ DOMAIN occ :
             Signalled(occ'[i], clock) /\ OnTime(occ'[i], tz, entry, clock)
    BY <1>1, <2>1, ReconciledFits
  <2>3. ASSUME NEW i \in DOMAIN occ
        PROVE  Signalled(WithPlan(occ[i]), clock) /\ OnTime(WithPlan(occ[i]), tz, entry, clock)
    <3> DEFINE o == occ[i]
    <3>1. o \in Occurrence /\ Signalled(o, clock) /\ OnTime(o, tz, entry, clock)
      BY <1>1
    <3> HIDE DEF o
    <3>2. Signalled(WithPlan(o), clock)
      BY <3>1, UpsertFits
    <3>3. /\ WithPlan(o).entry = o.entry /\ WithPlan(o).at = o.at
          /\ WithPlan(o).status = o.status /\ WithPlan(o).moved = o.moved
      BY <3>1, UpsertAppends
    <3>4. OnTime(WithPlan(o), tz, entry, clock)
      BY <3>1, <3>3 DEF OnTime
    <3> QED
      BY <3>2, <3>4 DEF o
  <2>4. \A i \in DOMAIN occ' : Signalled(occ'[i], clock) /\ OnTime(occ'[i], tz, entry, clock)
    BY <2>2, <2>3
  <2> QED
    BY <2>1, <2>4 DEF OccurrencesFit
<1>6. ASSUME NEW i \in DOMAIN occ, NEW n \in DOMAIN occ[i].rows, Deliver(i, n)
      PROVE  OccurrencesFit'
  <2>1. UNCHANGED <<clock, tz, entry>>
    BY <1>6 DEF Deliver
  <2>2. /\ DOMAIN occ' = DOMAIN occ
        /\ \A j \in DOMAIN occ \ {i} : occ'[j] = occ[j]
        /\ occ'[i].entry = occ[i].entry /\ occ'[i].at = occ[i].at
        /\ occ'[i].status = occ[i].status /\ occ'[i].moved = occ[i].moved
        /\ Signalled(occ[i], clock) => Signalled(occ'[i], clock)
    BY <1>6, DeliveredFits
  <2>3. Signalled(occ'[i], clock) /\ OnTime(occ'[i], tz, entry, clock)
    BY <1>1, <2>2 DEF OnTime
  <2>4. \A j \in DOMAIN occ' : Signalled(occ'[j], clock) /\ OnTime(occ'[j], tz, entry, clock)
    BY <1>1, <2>2, <2>3
  <2> QED
    BY <2>1, <2>4 DEF OccurrencesFit
<1>7. ASSUME NEW i \in DOMAIN occ, NEW status \in {"closed", "moved"}
      PROVE  \A j \in DOMAIN ClosedAs(i, status) :
               /\ Signalled(ClosedAs(i, status)[j], clock)
               /\ OnTime(ClosedAs(i, status)[j], tz, entry, clock)
  <2> DEFINE new == ClosedAs(i, status)
  <2>1. /\ DOMAIN new = DOMAIN occ
        /\ \A j \in DOMAIN occ \ {i} : new[j] = occ[j]
        /\ new[i].status = status
    BY ClosedFits
  <2> HIDE DEF new
  <2>2. Signalled(new[i], clock) /\ OnTime(new[i], tz, entry, clock)
    BY <2>1 DEF Signalled, OnTime
  <2>3. \A j \in DOMAIN new : Signalled(new[j], clock) /\ OnTime(new[j], tz, entry, clock)
    BY <1>1, <2>1, <2>2
  <2> QED
    BY <2>3 DEF new
<1>8. ASSUME NEW i \in DOMAIN occ, Close(i) PROVE OccurrencesFit'
  BY <1>7, <1>8 DEF Close, OccurrencesFit
<1>9. ASSUME NEW i \in DOMAIN occ, Move(i) PROVE OccurrencesFit'
  <2> DEFINE d == occ[i].entry  closed == ClosedAs(i, "moved")
  <2>1. PICK t \in Int :
          /\ occ' = Append(closed, NewOccurrence(d, t, TRUE)) /\ d \in Entry
          /\ entry' = IF d \in OneOffs
               THEN [entry EXCEPT ![d] = [tz |-> tz, at |-> t, local |-> Local(tz, t) % Day]]
               ELSE entry
    BY <1>9, MoveFits
  <2> DEFINE new == NewOccurrence(d, t, TRUE)
  <2>2. new \in Occurrence /\ Signalled(new, clock) /\ new.moved = TRUE
    BY <2>1, NewOccurrenceFits
  <2>9. occ' = Append(closed, new)
    BY <2>1
  <2> HIDE DEF new
  <2>3. clock' = clock /\ tz' = tz
    BY <1>9 DEF Move
  <2>4. \A e \in Routines : entry'[e] = entry[e]
    <3> DEFINE state == [tz |-> tz, at |-> t, local |-> Local(tz, t) % Day]
    <3>1. entry' = IF d \in OneOffs THEN [entry EXCEPT ![d] = state] ELSE entry
      BY <2>1
    <3> HIDE DEF state, d
    <3> QED
      BY <1>1, <3>1 DEF OneOffs, Routines
  <2>5. /\ closed \in Seq(Occurrence)
        /\ \A j \in DOMAIN closed : Signalled(closed[j], clock) /\ OnTime(closed[j], tz, entry, clock)
    BY <1>7, ClosedFits
  <2> HIDE DEF closed
  <2>8. Append(closed, new) \in Seq(Occurrence)
          /\ Len(Append(closed, new)) = Len(closed) + 1
          /\ \A j \in 1 .. Len(closed) : Append(closed, new)[j] = closed[j]
          /\ Append(closed, new)[Len(closed) + 1] = new
    BY <2>2, <2>5, AppendProperties
  <2>6. /\ Len(closed) \in Nat /\ DOMAIN closed = 1 .. Len(closed)
        /\ DOMAIN occ' = 1 .. Len(closed) + 1
        /\ \A j \in 1 .. Len(closed) : occ'[j] = closed[j]
        /\ occ'[Len(closed) + 1] = new
    BY ONLY <2>9, <2>8, <2>5, LenProperties
  <2>7. ASSUME NEW j \in DOMAIN occ'
        PROVE  Signalled(occ'[j], clock) /\ OnTime(occ'[j], tz, entry', clock)
    <3>1. CASE j \in 1 .. Len(closed)
      BY <2>4, <2>5, <2>6, <3>1 DEF OnTime
    <3>2. CASE j = Len(closed) + 1
      BY <2>2, <2>6, <3>2 DEF OnTime
    <3> QED
      BY <2>6, <3>1, <3>2
  <2> QED
    BY <2>3, <2>7 DEF OccurrencesFit
<1>10. CASE Advance
  <2>1. clock' = clock + 1 /\ UNCHANGED <<tz, entry, occ>>
    BY <1>10 DEF Advance
  <2>2. \A i \in DOMAIN occ : occ[i].at \in Int
    BY OccurrenceType
  <2>3. \A i \in DOMAIN occ : Signalled(occ[i], clock + 1) /\ OnTime(occ[i], tz, entry, clock + 1)
    BY <1>1, <2>2 DEF Signalled, OnTime
  <2> QED
    BY <2>1, <2>3 DEF OccurrencesFit
<1>11. CASE UNCHANGED <<clock, tz, entry, occ>>
  BY <1>11 DEF OccurrencesFit
<1> QED
  BY <1>2, <1>3, <1>4, <1>5, <1>6, <1>8, <1>9, <1>10, <1>11
     DEF Next, vars, Preview, ConfirmAborts, KeepAbsolute, Replay

LEMMA OccurrencesInvariant == Spec => []OccurrencesFit
<1>1. Init => OccurrencesFit
  BY InitHorizon DEF Init, OccurrencesFit
<1>2. TypeOK /\ Journal /\ (RoutinesAtHome /\ WallTimeConsistent) /\ OccurrencesFit /\ [Next]_vars
        => OccurrencesFit'
  BY OccurrencesKept
<1> QED
  BY <1>1, <1>2, TypeCorrect, JournalInvariant, EntriesInvariant, PTL DEF Spec

\* Travelling does not move the morning pills: every occurrence of a routine
\* ahead is at its local time in the zone the owner is in, whatever was rebased,
\* unfolded or moved on the way.
THEOREM RoutinesKeepLocalTime == Spec => []RoutineKeepsLocalTime
<1>1. OccurrencesFit => RoutineKeepsLocalTime
  BY DEF OccurrencesFit, OnTime, RoutineKeepsLocalTime
<1> QED
  BY <1>1, OccurrencesInvariant, PTL

\* No change of zone, review or move leaves an occurrence ahead without its main
\* signal, or a pending signal at a distance nobody asked for.
THEOREM SignalsAlwaysFollow == Spec => []SignalsFollow
<1>1. OccurrencesFit => SignalsFollow
  BY DEF OccurrencesFit, Signalled, SignalsFollow
<1> QED
  BY <1>1, OccurrencesInvariant, PTL

-----------------------------------------------------------------------------
(* One-off entries keep their moment. *)

\* The entry and all its occurrences stay where they are.
StaysPut(e) ==
  /\ entry'[e].at = entry[e].at
  /\ \A i \in DOMAIN occ : occ[i].entry = e => occ'[i].at = occ[i].at

DecidedIn(chs, e) == {k \in DOMAIN chs : e \in chs[k].decided}

\* What a rebuild finds stays as it is.
LEMMA RebuiltKeepsRows ==
  ASSUME NEW occs \in Seq(Occurrence), NEW entries \in [Entry -> EntryState],
         NEW from \in Int, clock \in Int
  PROVE  LET all == Rebuilt(occs, entries, from)
         IN  DOMAIN occs \subseteq DOMAIN all /\ \A i \in DOMAIN occs : all[i] = occs[i]
<1> DEFINE all == Rebuilt(occs, entries, from)  to == clock + Horizon
<1>1. /\ all \in Seq(Occurrence)
      /\ DOMAIN occs \subseteq DOMAIN all
      /\ \A i \in DOMAIN occs : all[i] = occs[i]
      /\ \A i \in DOMAIN all \ DOMAIN occs :
           \E e \in Entry, t \in Int :
             t \in Moments(e, entries[e], from, to) /\ all[i] = NewOccurrence(e, t, FALSE)
  BY RebuiltAppends
<1> QED
  BY <1>1

\* A rebase of entries that do not include e, and the rebuild after it.
LEMMA RebaseStaysPut ==
  ASSUME TypeOK, NEW E \in SUBSET Entry, NEW from \in Tz, NEW to \in Tz,
         NEW entries \in [Entry -> EntryState], NEW e \in Entry \ E, entry'[e] = entry[e],
         occ' = Rebuilt(OccAfter(E, from, to), entries, clock - Rebuild)
  PROVE  StaysPut(e)
<1> DEFINE occs == OccAfter(E, from, to)
<1>1. /\ occs \in Seq(Occurrence) /\ DOMAIN occs = DOMAIN occ
      /\ \A i \in DOMAIN occ : i \notin Rebased(E) => occs[i] = occ[i]
  BY OccAfterFits, ZenonT(40)
<1>2. occ' = Rebuilt(occs, entries, clock - Rebuild)
  OBVIOUS
<1> HIDE DEF occs
<1>3. clock \in Int /\ clock - Rebuild \in Int
  BY TimezonesAssumption DEF TypeOK
<1>4. \A i \in DOMAIN occs : occ'[i] = occs[i]
  BY <1>1, <1>2, <1>3, RebuiltKeepsRows
<1> QED
  BY <1>1, <1>4 DEF StaysPut, Rebased

LEMMA MomentsKept ==
  ASSUME TypeOK, Journal, [Next]_vars, NEW e \in OneOffs
  PROVE  \/ DecidedIn(changes', e) # DecidedIn(changes, e)
         \/ \E i \in DOMAIN occ : /\ occ[i].entry = e
                                  /\ occ[i].status # "moved" /\ occ'[i].status = "moved"
         \/ StaysPut(e)
<1>1. /\ clock \in Int /\ occ \in Seq(Occurrence) /\ clock - Rebuild \in Int /\ tz \in Tz
      /\ clock - Lookback \in Int
      /\ entry \in [Entry -> EntryState] /\ e \in Entry /\ e \notin Routines
      /\ \A i \in DOMAIN occ : occ[i] \in Occurrence
  BY OccurrenceType, TimezonesAssumption DEF TypeOK, OneOffs
<1>2. ASSUME NEW c \in DOMAIN cards, Confirm(c) PROVE StaysPut(e)
  <2> DEFINE to == cards[c].to
  <2>1. /\ to \in Tz /\ Routines \in SUBSET Entry
        /\ entry' = [d \in Entry |-> IF d \in Routines THEN RoutineIn(d, to) ELSE entry[d]]
        /\ occ' = Rebuilt(OccAfter(Routines, tz, to), entry', clock - Rebuild)
    BY <1>2, ChangesType DEF Confirm, Routines
  <2>2. entry'[e] = entry[e] /\ entry' \in [Entry -> EntryState]
    BY <1>1, <1>2, <2>1, ConfirmType DEF TypeOK
  <2> HIDE DEF to
  <2> QED
    BY <1>1, <2>1, <2>2, RebaseStaysPut
<1>3. ASSUME NEW from \in Int, occ' = Rebuilt(occ, entry, from), UNCHANGED entry
      PROVE  StaysPut(e)
  <2>1. \A i \in DOMAIN occ : occ'[i] = occ[i]
    BY <1>1, <1>3, RebuiltKeepsRows
  <2> QED
    BY <1>3, <2>1 DEF StaysPut
<1>4. ASSUME NEW k \in DOMAIN changes, NEW d \in Entry, KeepLocal(k, d)
      PROVE  DecidedIn(changes', e) # DecidedIn(changes, e) \/ StaysPut(e)
  <2>1. CASE d = e
    <3>1. e \notin changes[k].decided /\ changes' = WithDecision(k, e)
      BY <1>4, <2>1 DEF KeepLocal, Undecided
    <3>2. DOMAIN changes' = DOMAIN changes /\ changes'[k].decided = changes[k].decided \cup {e}
      BY <1>1, <3>1, DecisionRecorded
    <3>3. k \in DecidedIn(changes', e) /\ k \notin DecidedIn(changes, e)
      BY <3>1, <3>2 DEF DecidedIn
    <3> QED
      BY <3>3
  <2>2. CASE d # e
    <3> DEFINE E == {d}  from == changes[k].from  to == changes[k].to
    <3>1. /\ E \in SUBSET Entry /\ e \in Entry \ E /\ from \in Tz /\ to \in Tz
          /\ occ' = Rebuilt(OccAfter(E, from, to), entry', clock - Rebuild)
      BY <1>1, <1>4, <2>2, ChangesType DEF KeepLocal
    <3>2. entry'[e] = entry[e] /\ entry' \in [Entry -> EntryState]
      <4>1. entry' \in [Entry -> EntryState]
        BY <1>4, KeepLocalType DEF TypeOK
      <4> QED
        BY <1>1, <1>4, <2>2, <4>1 DEF KeepLocal
    <3> HIDE DEF E, from, to
    <3> QED
      BY <3>1, <3>2, RebaseStaysPut
  <2> QED
    BY <2>1, <2>2
<1>5. CASE Reconcile
  <2>1. occ' = Reconciled(occ, entry) /\ entry' = entry
    BY <1>5 DEF Reconcile
  <2> DEFINE all == Rebuilt(occ, entry, clock - Lookback)
  <2>2. DOMAIN occ \subseteq DOMAIN all /\ \A i \in DOMAIN occ : all[i] = occ[i]
    BY <1>1, RebuiltKeepsRows
  <2>3. occ' = [i \in DOMAIN all |-> WithPlan(all[i])]
    BY <2>1 DEF Reconciled
  <2> HIDE DEF all
  <2>4. ASSUME NEW i \in DOMAIN occ PROVE occ'[i].at = occ[i].at
    <3> DEFINE o == occ[i]
    <3>1. o \in Occurrence /\ occ'[i] = WithPlan(o)
      BY <1>1, <2>2, <2>3
    <3> HIDE DEF o
    <3>2. WithPlan(o).at = o.at
      BY <3>1, UpsertAppends
    <3> QED
      BY <3>1, <3>2 DEF o
  <2> QED
    BY <2>1, <2>4 DEF StaysPut
<1>6. ASSUME NEW i \in DOMAIN occ, NEW n \in DOMAIN occ[i].rows, Deliver(i, n)
      PROVE  StaysPut(e)
  <2>1. \A j \in DOMAIN occ : occ'[j].at = occ[j].at
    BY <1>6, DeliveredFits
  <2> QED
    BY <1>6, <2>1 DEF StaysPut, Deliver
<1>7. ASSUME NEW i \in DOMAIN occ, Close(i) PROVE StaysPut(e)
  <2>1. \A j \in DOMAIN occ : ClosedAs(i, "closed")[j].at = occ[j].at
    BY ClosedFits
  <2> QED
    BY <1>7, <2>1 DEF StaysPut, Close
<1>8. ASSUME NEW i \in DOMAIN occ, Move(i)
      PROVE  \/ /\ occ[i].entry = e
                /\ occ[i].status # "moved" /\ occ'[i].status = "moved"
             \/ StaysPut(e)
  <2> DEFINE d == occ[i].entry  closed == ClosedAs(i, "moved")
  <2>1. PICK t \in Int :
          /\ occ' = Append(closed, NewOccurrence(d, t, TRUE)) /\ d \in Entry
          /\ entry' = IF d \in OneOffs
               THEN [entry EXCEPT ![d] = [tz |-> tz, at |-> t, local |-> Local(tz, t) % Day]]
               ELSE entry
    BY <1>8, MoveFits
  <2> DEFINE new == NewOccurrence(d, t, TRUE)
  <2>2. new \in Occurrence
    BY <2>1, NewOccurrenceFits
  <2>3. occ' = Append(closed, new)
    BY <2>1
  <2>4. /\ closed \in Seq(Occurrence) /\ DOMAIN closed = DOMAIN occ
        /\ \A j \in DOMAIN occ \ {i} : closed[j] = occ[j]
        /\ closed[i].status = "moved" /\ closed[i].at = occ[i].at
    BY ClosedFits
  <2> HIDE DEF new, closed
  <2>5. \A j \in DOMAIN occ : occ'[j] = closed[j]
    BY <2>2, <2>3, <2>4, AppendProperties, LenProperties
  <2>6. occ[i].status = "pending"
    BY <1>8 DEF Move
  <2>7. CASE d = e
    BY <2>4, <2>5, <2>6, <2>7
  <2>8. CASE d # e
    <3>1. entry'[e] = entry[e]
      BY <1>1, <2>1, <2>8
    <3> QED
      BY <2>4, <2>5, <2>8, <3>1 DEF StaysPut
  <2> QED
    BY <2>7, <2>8
<1>9. CASE UNCHANGED <<entry, occ>>
  BY <1>9 DEF StaysPut
<1> QED
  BY <1>1, <1>2, <1>3, <1>4, <1>5, <1>6, <1>7, <1>8, <1>9
     DEF Next, vars, Preview, ConfirmAborts, KeepAbsolute, Replay, Advance

\* Whatever zones the owner travels through, a one-off entry and its occurrences
\* change their moment only by a decision taken then and for the first time in
\* that review, or by a move.
THEOREM OneOffsKeepTheirMoment == Spec => OneOffKeepsMoment
<1>1. TypeOK /\ Journal /\ [Next]_vars
        => [\A e \in OneOffs :
              LET decided(chs) == {k \in DOMAIN chs : e \in chs[k].decided}
                  mine         == {i \in DOMAIN occ : occ[i].entry = e}
                  moved        == \E i \in mine : occ[i].status # "moved"
                                                    /\ occ'[i].status = "moved"
              IN  \/ decided(changes') # decided(changes)
                  \/ moved
                  \/ entry'[e].at = entry[e].at
                       /\ \A i \in mine : occ'[i].at = occ[i].at]_vars
  BY MomentsKept DEF DecidedIn, StaysPut
<1> QED
  BY <1>1, TypeCorrect, JournalInvariant, PTL DEF Spec, OneOffKeepsMoment
=============================================================================
