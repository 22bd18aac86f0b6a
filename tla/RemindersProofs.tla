--------------------------- MODULE RemindersProofs ---------------------------
(***************************************************************************)
(* What the rows of Reminders may go through and what they amount to, for  *)
(* every set of workers, occurrences and settings.                         *)
(*                                                                         *)
(* First lemmas about the operators of ReminderStore, type correctness,    *)
(* how a row evolves, and that the keys stay unique.  Then, that Reminders *)
(* implements Lifecycle: what becomes of the signals and of the context of *)
(* an occurrence that is closed, the rows as their owner sees them, and    *)
(* one lemma per kind of step that names the change of Lifecycle it shows  *)
(* as.  Then what the steps leave of a snooze, and what they leave of a    *)
(* lease: when a row may be claimed, and how many messages its claims can  *)
(* have sent.  Last, what may become of a row at all, and that a success   *)
(* is followed by the repeat the owner is owed.                            *)
(***************************************************************************)
EXTENDS Reminders, QuietHoursProofs, SequenceTheorems

-----------------------------------------------------------------------------
(* What the row updates of the services return, whatever the rows, the plan  *)
(* and the settings.                                                         *)

LEMMA HomeZoneType ==
  Searchable(HomeZone) /\ HomeZone \in Zone
BY StoreAssumption, ZoneAssumption DEF Searchable

-----------------------------------------------------------------------------
(* Rows. *)

\* A row sequence keeps its type and length when every row keeps its type.
LEMMA RowsUpdated ==
  ASSUME NEW rows \in Seq(Notification), NEW new \in [DOMAIN rows -> Notification]
  PROVE  /\ new \in Seq(Notification)
         /\ Len(new) = Len(rows)
<1>1. DOMAIN rows = 1 .. Len(rows) /\ Len(rows) \in Nat
  BY LenProperties
<1>2. new \in Seq(Notification)
  BY <1>1, SeqDef
<1>3. DOMAIN new = 1 .. Len(new) /\ Len(new) \in Nat
  BY <1>2, LenProperties
<1> QED
  BY <1>1, <1>2, <1>3

LEMMA RowSet ==
  ASSUME NEW rows \in Seq(Notification), NEW n \in DOMAIN rows, NEW row \in Notification
  PROVE  /\ [rows EXCEPT ![n] = row] \in Seq(Notification)
         /\ Len([rows EXCEPT ![n] = row]) = Len(rows)
         /\ DOMAIN [rows EXCEPT ![n] = row] = DOMAIN rows
         /\ \A m \in DOMAIN rows :
              [rows EXCEPT ![n] = row][m] = IF m = n THEN row ELSE rows[m]
<1>1. n \in 1 .. Len(rows)
  BY LenProperties
<1>2. /\ [rows EXCEPT ![n] = row] \in Seq(Notification)
      /\ Len([rows EXCEPT ![n] = row]) = Len(rows)
  BY <1>1, ExceptSeq
<1> QED
  BY <1>2

\* A row added at the end leaves the others where they are.
LEMMA RowAppended ==
  ASSUME NEW rows \in Seq(Notification), NEW row \in Notification
  PROVE  /\ Append(rows, row) \in Seq(Notification)
         /\ Len(Append(rows, row)) = Len(rows) + 1
         /\ DOMAIN Append(rows, row) = DOMAIN rows \cup {Len(rows) + 1}
         /\ \A n \in DOMAIN rows : Append(rows, row)[n] = rows[n]
         /\ Append(rows, row)[Len(rows) + 1] = row
<1>1. /\ DOMAIN rows = 1 .. Len(rows) /\ Len(rows) \in Nat
      /\ DOMAIN Append(rows, row) = 1 .. Len(Append(rows, row))
  BY LenProperties, AppendProperties
<1> QED
  BY <1>1, AppendProperties

LEMMA RowType ==
  ASSUME NEW rows \in Seq(Notification), NEW n \in DOMAIN rows
  PROVE  /\ rows[n] \in Notification
         /\ rows[n].occ \in Slot /\ rows[n].kind \in NotificationKind
         /\ rows[n].fire \in Int /\ rows[n].silent \in BOOLEAN
         /\ rows[n].status \in NotificationStatus /\ rows[n].next \in Int
         /\ rows[n].att \in Nat /\ rows[n].copies \in Nat
<1>1. rows[n] \in Notification
  BY LenProperties
<1> QED
  BY <1>1 DEF Notification

LEMMA NewRowType ==
  ASSUME NEW o \in Slot, NEW kind \in NotificationKind, NEW fire \in Int,
         NEW silent \in BOOLEAN
  PROVE  NewRow(o, kind, fire, silent) \in Notification
BY DEF NewRow, Notification, NotificationStatus, NoAttempt

\* The one update three services share: a new status, a new moment to retry.
Settled(row, status, next) == [row EXCEPT !.status = status, !.next = next]

LEMMA SettledType ==
  ASSUME NEW row \in Notification, NEW status \in NotificationStatus, NEW next \in Int
  PROVE  /\ Settled(row, status, next) \in Notification
         /\ KeyOf(Settled(row, status, next)) = KeyOf(row)
         /\ Settled(row, status, next).status = status
BY DEF Settled, Notification, KeyOf

LEMMA CancelledType ==
  \A row \in Notification : Settled(row, "cancelled", NoAttempt) \in Notification
<1>1. "cancelled" \in NotificationStatus /\ NoAttempt \in Int
  BY DEF NotificationStatus, NoAttempt
<1> QED
  BY <1>1, SettledType

LEMMA CancelRepeatsType ==
  ASSUME NEW rows \in Seq(Notification), NEW o
  PROVE  /\ CancelRepeats(rows, o) \in Seq(Notification)
         /\ Len(CancelRepeats(rows, o)) = Len(rows)
<1> DEFINE new == CancelRepeats(rows, o)
<1>1. \A n \in DOMAIN rows : new[n] = rows[n] \/ new[n] = Settled(rows[n], "cancelled", NoAttempt)
  BY Zenon DEF CancelRepeats, Settled
<1>2. new \in [DOMAIN rows -> Notification]
  <2>1. \A n \in DOMAIN rows : new[n] \in Notification
    BY <1>1, CancelledType, RowType
  <2> QED
    BY <2>1 DEF CancelRepeats
<1> QED
  BY <1>2, RowsUpdated

LEMMA CancelPendingType ==
  ASSUME NEW rows \in Seq(Notification), NEW o
  PROVE  /\ CancelPending(rows, o) \in Seq(Notification)
         /\ Len(CancelPending(rows, o)) = Len(rows)
<1> DEFINE new == CancelPending(rows, o)
<1>1. \A n \in DOMAIN rows : new[n] = rows[n] \/ new[n] = Settled(rows[n], "cancelled", NoAttempt)
  BY Zenon DEF CancelPending, Settled
<1>2. new \in [DOMAIN rows -> Notification]
  <2>1. \A n \in DOMAIN rows : new[n] \in Notification
    BY <1>1, CancelledType, RowType
  <2> QED
    BY <2>1 DEF CancelPending
<1> QED
  BY <1>2, RowsUpdated

-----------------------------------------------------------------------------
(* The plan. *)

LEMMA ResolveWallTimeType ==
  ASSUME NEW wall \in Int
  PROVE  ResolveWallTime(HomeZone, wall) \in Int
<1>1. ResolveWallTime(HomeZone, wall) = WallToUtc(HomeZone, wall)
  BY HomeZoneType, ResolveWallTimeIsWallToUtc
<1> QED
  BY <1>1, HomeZoneType DEF WallToUtc, Zone

PlanSpec == [kind : {"main", "pre"}, fire : Int]

\* The image of a finite set under a function is finite.
LEMMA ImageIsFinite ==
  ASSUME NEW S, NEW T, IsFiniteSet(S), NEW f \in [S -> T],
         \A t \in T : \E s \in S : f[s] = t
  PROVE  IsFiniteSet(T)
<1>1. f \in Surjection(S, T)
  BY DEF Surjection
<1> QED
  BY <1>1, FS_Surjection

\* The standard plan of an occurrence is a finite set of main and pre signals.
LEMMA NotificationSpecsType ==
  ASSUME NEW o \in Slot
  PROVE  NotificationSpecs(o) \subseteq PlanSpec /\ IsFiniteSet(NotificationSpecs(o))
<1> DEFINE e == EntryOf[o]
           planned == PlannedAt[o]
           unset == Configured[e] = {}
           offsets == IF unset THEN DefaultOffsets[KindOf[e]]
                               ELSE {d \in Configured[e] : d > 0}
           wall == (Local(HomeZone, planned) \div Day) * Day + TaskMorning
           morning == ResolveWallTime(HomeZone, wall)
           hasMorning == KindOf[e] = "task" /\ unset /\ morning < planned
           Ahead == {[kind |-> "pre", fire |-> planned - d] : d \in offsets}
           Main == {[kind |-> "main", fire |-> planned]}
           Early == {[kind |-> "pre", fire |-> t] : t \in {u \in {morning} : hasMorning}}
<1>1. e \in Entry /\ planned \in Int /\ KindOf[e] \in EntryKind
  BY StoreAssumption
<1>2. offsets \subseteq Nat /\ IsFiniteSet(offsets)
  <2>1. Configured[e] \subseteq Nat /\ DefaultOffsets[KindOf[e]] \subseteq Nat
    BY <1>1, StoreAssumption
  <2>2. {d \in Configured[e] : d > 0} \in SUBSET Configured[e]
    OBVIOUS
  <2>3. IsFiniteSet(Configured[e]) /\ IsFiniteSet(DefaultOffsets[KindOf[e]])
    BY <1>1, FiniteAssumption
  <2>4. IsFiniteSet({d \in Configured[e] : d > 0})
    BY <2>2, <2>3, FS_Subset
  <2> QED
    BY <2>1, <2>3, <2>4
<1>3. morning \in Int
  <2>1. Local(HomeZone, planned) \in Int
    BY <1>1, HomeZoneType DEF Local, Offset, Zone
  <2>2. (Local(HomeZone, planned) \div Day) * Day \in Int
    BY <2>1, DayAssumption, DayDivision
  <2>3. wall \in Int
    BY <2>2, StoreAssumption, DayAssumption
  <2> QED
    BY <2>3, ResolveWallTimeType
<1>4. NotificationSpecs(o) = (Main \cup Ahead) \cup Early
  BY DEF NotificationSpecs
<1> HIDE DEF offsets, morning, hasMorning
<1>5. Main \subseteq PlanSpec /\ Ahead \subseteq PlanSpec /\ Early \subseteq PlanSpec
  BY <1>1, <1>2, <1>3 DEF PlanSpec
<1>6. IsFiniteSet(Ahead)
  <2> DEFINE f == [d \in offsets |-> [kind |-> "pre", fire |-> planned - d]]
  <2>1. f \in [offsets -> Ahead] /\ \A t \in Ahead : \E d \in offsets : f[d] = t
    OBVIOUS
  <2> HIDE DEF f, Ahead
  <2> QED
    BY <2>1, <1>2, ImageIsFinite
<1>7. IsFiniteSet(Early)
  <2>1. Early = {} \/ Early = {[kind |-> "pre", fire |-> morning]}
    OBVIOUS
  <2> HIDE DEF Early
  <2> QED
    BY <2>1, FS_EmptySet, FS_Singleton
<1>8. IsFiniteSet(Main)
  BY FS_Singleton
<1> HIDE DEF Main, Ahead, Early
<1>9. IsFiniteSet((Main \cup Ahead) \cup Early)
  BY <1>6, <1>7, <1>8, FS_Union
<1> QED
  BY <1>4, <1>5, <1>9

\* The keys a reconciliation upserts: finitely many, each of an occurrence of
\* its plan, and never a repeat.
LEMMA PlanKeysType ==
  ASSUME NEW plan \in SUBSET Slot
  PROVE  /\ PlanKeys(plan) \subseteq [occ : plan, kind : {"main", "pre"}, fire : Int]
         /\ IsFiniteSet(PlanKeys(plan))
<1> DEFINE Key(o, s) == [occ |-> o, kind |-> s.kind, fire |-> s.fire]
           Keys(o)   == {Key(o, s) : s \in NotificationSpecs(o)}
           All       == {Keys(o) : o \in plan}
<1>1. PlanKeys(plan) = UNION All
  BY DEF PlanKeys
<1>2. ASSUME NEW o \in plan
      PROVE  Keys(o) \subseteq [occ : plan, kind : {"main", "pre"}, fire : Int]
  <2>1. \A s \in NotificationSpecs(o) : s.kind \in {"main", "pre"} /\ s.fire \in Int
    BY NotificationSpecsType DEF PlanSpec
  <2> QED
    BY <2>1
<1>3. ASSUME NEW o \in plan PROVE IsFiniteSet(Keys(o))
  <2> DEFINE Specs == NotificationSpecs(o)
             f == [s \in Specs |-> Key(o, s)]
             T == Keys(o)
  <2>1. f \in [Specs -> T] /\ \A t \in T : \E s \in Specs : f[s] = t
    OBVIOUS
  <2>2. IsFiniteSet(Specs)
    BY NotificationSpecsType
  <2>3. IsFiniteSet(T)
    <3> HIDE DEF f, T, Specs
    <3> QED
      BY <2>1, <2>2, ImageIsFinite
  <2> QED
    BY <2>3
<1>4. IsFiniteSet(All)
  <2> DEFINE f == [o \in plan |-> Keys(o)]
  <2>1. f \in [plan -> All] /\ \A t \in All : \E o \in plan : f[o] = t
    BY Zenon
  <2>2. IsFiniteSet(plan)
    BY FiniteAssumption, FS_Subset
  <2> HIDE DEF f, All
  <2> QED
    BY <2>1, <2>2, ImageIsFinite
<1> HIDE DEF Keys
<1>5. \A T \in All : IsFiniteSet(T)
  BY <1>3
<1>6. IsFiniteSet(UNION All)
  <2> HIDE DEF All
  <2> QED
    BY <1>4, <1>5, FS_UNION
<1> QED
  BY <1>1, <1>2, <1>6

\* A cancelled row the plan brings back.
Revived(row) == [row EXCEPT !.status = "pending", !.silent = FALSE]

LEMMA RevivedType ==
  ASSUME NEW row \in Notification
  PROVE  /\ Revived(row) \in Notification
         /\ KeyOf(Revived(row)) = KeyOf(row)
         /\ Revived(row).status = "pending"
<1>1. \A status \in NotificationStatus, silent \in BOOLEAN :
        /\ [row EXCEPT !.status = status, !.silent = silent] \in Notification
        /\ KeyOf([row EXCEPT !.status = status, !.silent = silent]) = KeyOf(row)
        /\ [row EXCEPT !.status = status, !.silent = silent].status = status
  BY DEF Notification, KeyOf
<1>2. "pending" \in NotificationStatus /\ FALSE \in BOOLEAN
  BY DEF NotificationStatus
<1> QED
  BY <1>1, <1>2, Zenon DEF Revived

\* What the upsert leaves: the old rows where they were, some of the cancelled
\* ones pending again, and after them one new pending row per missing key.
LEMMA UpsertedRows ==
  ASSUME NEW rows \in Seq(Notification), NEW plan \in SUBSET Slot,
         NEW new \in Upserted(rows, plan)
  PROVE  /\ new \in Seq(Notification)
         /\ Len(rows) <= Len(new)
         /\ \A n \in DOMAIN rows :
              \/ new[n] = rows[n]
              \/ /\ rows[n].status = "cancelled" /\ KeyOf(rows[n]) \in PlanKeys(plan)
                 /\ new[n] = Revived(rows[n])
         /\ \A n \in DOMAIN new \ DOMAIN rows :
              \E k \in PlanKeys(plan) : new[n] = NewRow(k.occ, k.kind, k.fire, FALSE)
<1> DEFINE keys == PlanKeys(plan)
           missing == MissingKeys(rows, keys)
           kept == Reactivate(rows, keys)
           Fresh(s) == [i \in DOMAIN s |-> NewRow(s[i].occ, s[i].kind, s[i].fire, FALSE)]
<1>1. PICK s \in [1 .. Cardinality(missing) -> missing] : new = kept \o Fresh(s)
  BY DEF Upserted
<1>2. Cardinality(missing) \in Nat
  <2>1. missing \in SUBSET keys
    BY DEF MissingKeys
  <2> HIDE DEF missing
  <2> QED
    BY <2>1, PlanKeysType, FS_Subset, FS_CardinalityType
<1>3. DOMAIN s = 1 .. Cardinality(missing) /\ \A i \in DOMAIN s : s[i] \in keys
  BY DEF MissingKeys
<1> DEFINE fresh == Fresh(s)
<1>4. \A i \in DOMAIN s : fresh[i] \in Notification
  <2>1. \A k \in keys : NewRow(k.occ, k.kind, k.fire, FALSE) \in Notification
    <3> SUFFICES ASSUME NEW k \in keys
                 PROVE  NewRow(k.occ, k.kind, k.fire, FALSE) \in Notification
      OBVIOUS
    <3>1. k.occ \in Slot /\ k.kind \in NotificationKind /\ k.fire \in Int
      BY PlanKeysType DEF NotificationKind
    <3> QED
      BY <3>1, NewRowType
  <2> QED
    BY <1>3, <2>1
<1>5. fresh \in Seq(Notification) /\ Len(fresh) = Cardinality(missing)
  <2>1. fresh \in [1 .. Cardinality(missing) -> Notification]
    BY <1>3, <1>4
  <2> HIDE DEF fresh
  <2>2. fresh \in Seq(Notification)
    BY <1>2, <2>1, SeqDef
  <2>3. DOMAIN fresh = 1 .. Len(fresh) /\ Len(fresh) \in Nat
    BY <2>2, LenProperties
  <2> QED
    BY <1>2, <2>1, <2>2, <2>3
<1>6. \A n \in DOMAIN rows :
        \/ kept[n] = rows[n]
        \/ /\ rows[n].status = "cancelled" /\ KeyOf(rows[n]) \in keys
           /\ kept[n] = Revived(rows[n])
  BY Zenon DEF Reactivate, Revived
<1>7. kept \in Seq(Notification) /\ Len(kept) = Len(rows)
  <2>2. \A n \in DOMAIN rows : kept[n] \in Notification
    BY <1>6, RevivedType, RowType
  <2>3. kept \in [DOMAIN rows -> Notification]
    BY <2>2 DEF Reactivate
  <2> QED
    BY <2>3, RowsUpdated
<1> HIDE DEF kept, fresh, keys, missing
<1>8. new = kept \o fresh
  BY <1>1 DEF fresh
<1>9. /\ DOMAIN rows = 1 .. Len(rows) /\ Len(rows) \in Nat
      /\ new \in Seq(Notification) /\ Len(new) = Len(rows) + Len(fresh)
      /\ DOMAIN new = 1 .. Len(new) /\ Len(fresh) \in Nat
      /\ \A n \in 1 .. Len(rows) + Len(fresh) :
           new[n] = IF n <= Len(rows) THEN kept[n] ELSE fresh[n - Len(rows)]
  <2>1. kept \o fresh \in Seq(Notification)
    BY <1>5, <1>7, ConcatProperties
  <2> QED
    BY <2>1, <1>5, <1>7, <1>8, ConcatProperties, LenProperties
<1>10. ASSUME NEW n \in DOMAIN new \ DOMAIN rows
       PROVE  \E k \in keys : new[n] = NewRow(k.occ, k.kind, k.fire, FALSE)
  <2> DEFINE i == n - Len(rows)
  <2>1. i \in DOMAIN s /\ new[n] = fresh[i]
    BY <1>3, <1>5, <1>9, SMTT(20)
  <2> HIDE DEF i
  <2>2. s[i] \in keys /\ fresh[i] = NewRow(s[i].occ, s[i].kind, s[i].fire, FALSE)
    BY <1>3, <2>1 DEF fresh
  <2> QED
    BY <2>1, <2>2
<1>11. \A n \in DOMAIN rows : new[n] = kept[n]
  BY <1>9
<1>12. new \in Seq(Notification) /\ Len(rows) <= Len(new)
  BY <1>9
<1>13. \A n \in DOMAIN rows :
         \/ new[n] = rows[n]
         \/ /\ rows[n].status = "cancelled" /\ KeyOf(rows[n]) \in keys
            /\ new[n] = Revived(rows[n])
  BY <1>6, <1>11
<1> QED
  BY <1>10, <1>12, <1>13 DEF keys

-----------------------------------------------------------------------------
(* The quiet policy at a claim. *)

\* The policy never moves a notification to an earlier moment.
LEMMA PolicyType ==
  ASSUME NEW kind, NEW fire \in Int, NEW planned \in Int, NEW q \in Quiet
  PROVE  LET d == ApplyQuietPolicy(kind, fire, planned, HomeZone, q)
         IN  d.fire \in Int /\ d.silent \in BOOLEAN /\ d.fire >= fire
<1>1. CASE ~ QuietAt(HomeZone, fire, q)
  BY <1>1 DEF ApplyQuietPolicy
<1>2. CASE QuietAt(HomeZone, fire, q)
  <2>1. QuietEnd(HomeZone, fire, q) \in Int /\ QuietEnd(HomeZone, fire, q) > fire
    BY <1>2, HomeZoneType, QuietEndIsLater
  <2> QED
    BY <1>2, <2>1 DEF ApplyQuietPolicy
<1> QED
  BY <1>1, <1>2

\* What a claim at now writes into row n.
LEMMA ClaimType ==
  ASSUME StoreTypeOK, NEW n \in DOMAIN ntf, NEW now \in Int, ntf[n].fire <= now
  PROVE  /\ FireAt(n, now) \in Int /\ FireAt(n, now) >= ntf[n].fire
         /\ IsPostponed(n, now) => PostponedTo(n, now) = FireAt(n, now)
         /\ IsPostponed(n, now) \in BOOLEAN /\ SilentClaim(n, now) \in BOOLEAN
<1>1. ntf \in Seq(Notification) /\ quiet \in Quiet
  BY DEF StoreTypeOK
<1>2. ntf[n].fire \in Int /\ ntf[n].silent \in BOOLEAN /\ PlannedAt[ntf[n].occ] \in Int
  BY <1>1, RowType, StoreAssumption
<1>3. Quieted(n).fire \in Int /\ Quieted(n).silent \in BOOLEAN
  BY <1>1, <1>2, PolicyType DEF Quieted
<1>4. QuietAt(HomeZone, now, quiet) =>
        QuietEnd(HomeZone, now, quiet) \in Int /\ QuietEnd(HomeZone, now, quiet) > now
  BY <1>1, HomeZoneType, QuietEndIsLater
<1>5. FireAt(n, now) \in Int /\ FireAt(n, now) >= ntf[n].fire
  BY <1>2, <1>3, <1>4 DEF FireAt, IsPostponed, PostponedTo
<1>6. IsPostponed(n, now) => PostponedTo(n, now) = FireAt(n, now)
  BY DEF FireAt
<1>7. IsPostponed(n, now) \in BOOLEAN /\ SilentClaim(n, now) \in BOOLEAN
  BY DEF IsPostponed, SilentClaim
<1> QED
  BY <1>5, <1>6, <1>7

LEMMA RetryDelayType ==
  ASSUME NEW attempts \in Int, NEW provider \in Nat
  PROVE  RetryDelay(attempts, provider) \in Int
BY DeliveryAssumption DEF RetryDelay

LEMMA WithNextRepeatType ==
  ASSUME StoreTypeOK, NEW rows \in Seq(Notification), NEW n \in DOMAIN ntf, NEW now \in Nat
  PROVE  /\ WithNextRepeat(rows, n, now) \in Seq(Notification)
         /\ Len(rows) <= Len(WithNextRepeat(rows, n, now))
         /\ \A m \in DOMAIN rows : WithNextRepeat(rows, n, now)[m] = rows[m]
         /\ \A m \in DOMAIN WithNextRepeat(rows, n, now) \ DOMAIN rows :
              /\ WantsRepeat(n)
              /\ Len(WithNextRepeat(rows, n, now)) = Len(rows) + 1
              /\ \E fire, silent : WithNextRepeat(rows, n, now)[m]
                                     = NewRow(ntf[n].occ, "repeat", fire, silent)
<1> DEFINE o == ntf[n].occ
           d == ApplyQuietPolicy("repeat", now + RepeatEvery, PlannedAt[o], HomeZone, quiet)
           row == NewRow(o, "repeat", d.fire, d.silent)
<1>1. ntf \in Seq(Notification) /\ quiet \in Quiet
  BY DEF StoreTypeOK
<1>2. o \in Slot /\ PlannedAt[o] \in Int /\ now + RepeatEvery \in Int
  <2>1. o \in Slot
    BY <1>1, RowType
  <2>2. PlannedAt[o] \in Int
    BY <2>1, StoreAssumption
  <2>3. now + RepeatEvery \in Int
    BY DeliveryAssumption
  <2> QED
    BY <2>1, <2>2, <2>3
<1>3. d.fire \in Int /\ d.silent \in BOOLEAN
  BY <1>1, <1>2, PolicyType
<1>4. row \in Notification
  BY <1>2, <1>3, NewRowType DEF NotificationKind
<1>5. \/ WithNextRepeat(rows, n, now) = rows
      \/ WantsRepeat(n) /\ WithNextRepeat(rows, n, now) = Append(rows, row)
  BY DEF WithNextRepeat
<1> HIDE DEF row
<1>6. /\ Append(rows, row) \in Seq(Notification) /\ Len(rows) \in Nat
      /\ Len(Append(rows, row)) = Len(rows) + 1
      /\ \A m \in DOMAIN rows : Append(rows, row)[m] = rows[m]
      /\ \A m \in DOMAIN Append(rows, row) \ DOMAIN rows : Append(rows, row)[m] = row
  BY <1>4, RowAppended, LenProperties
<1> DEFINE new == WithNextRepeat(rows, n, now)
<1> HIDE DEF new, d
<1>7. /\ new \in Seq(Notification) /\ Len(rows) <= Len(new)
      /\ \A m \in DOMAIN rows : new[m] = rows[m]
      /\ \A m \in DOMAIN new \ DOMAIN rows :
           WantsRepeat(n) /\ new[m] = row /\ Len(new) = Len(rows) + 1
  BY <1>5, <1>6 DEF new
<1>8. row = NewRow(ntf[n].occ, "repeat", d.fire, d.silent)
  BY DEF row
<1> QED
  BY <1>7, <1>8 DEF new

-----------------------------------------------------------------------------
(* Type correctness. *)

\* The part of TypeOK a step that grows or edits the rows has to show.
RowsGrow == ntf' \in Seq(Notification) /\ Len(ntf) <= Len(ntf')

LEMMA OneRow ==
  ASSUME StoreTypeOK, NEW n \in DOMAIN ntf, NEW row \in Notification,
         ntf' = [ntf EXCEPT ![n] = row]
  PROVE  /\ RowsGrow
         /\ DOMAIN ntf' = DOMAIN ntf
         /\ \A m \in DOMAIN ntf : ntf'[m] = IF m = n THEN row ELSE ntf[m]
<1>1. ntf \in Seq(Notification) /\ Len(ntf) \in Nat
  BY LenProperties DEF StoreTypeOK
<1>2. /\ [ntf EXCEPT ![n] = row] \in Seq(Notification)
      /\ Len([ntf EXCEPT ![n] = row]) = Len(ntf)
      /\ DOMAIN [ntf EXCEPT ![n] = row] = DOMAIN ntf
      /\ \A m \in DOMAIN ntf : [ntf EXCEPT ![n] = row][m] = IF m = n THEN row ELSE ntf[m]
  BY <1>1, RowSet
<1> QED
  BY <1>1, <1>2 DEF RowsGrow

LEMMA GrownDomain ==
  ASSUME StoreTypeOK, RowsGrow
  PROVE  /\ DOMAIN ntf \subseteq DOMAIN ntf'
         /\ 0 .. Len(ntf) \subseteq 0 .. Len(ntf')
<1>1. ntf \in Seq(Notification) /\ ntf' \in Seq(Notification)
  BY DEF StoreTypeOK, RowsGrow
<1>2. /\ DOMAIN ntf = 1 .. Len(ntf) /\ Len(ntf) \in Nat
      /\ DOMAIN ntf' = 1 .. Len(ntf') /\ Len(ntf') \in Nat
  BY <1>1, LenProperties
<1> QED
  BY <1>2 DEF RowsGrow

-----------------------------------------------------------------------------
(* What one step may make of the rows. *)

\* A row that may still be claimed, or brought back, has attempts left.
HasAttempts(row) ==
  /\ row.att <= MaxAttempts
  /\ row.status \in {"pending", "cancelled"} => row.att < MaxAttempts

RowEvolves(old, new) ==
  /\ new.occ = old.occ /\ new.kind = old.kind /\ new.fire >= old.fire
  /\ old.status = "sent" => new.status = "sent" /\ new.fire = old.fire
  /\ new.kind = "repeat" /\ new.status = "pending" => old.status = "pending"
  /\ HasAttempts(old) => HasAttempts(new)

\* A repeat comes alone, to an occurrence nobody has reacted to and whose
\* repeats are not used up.
FreshRepeat(n) ==
  /\ Len(ntf') = Len(ntf) + 1
  /\ ntf'[n].occ \notin stopped'
  /\ Cardinality(Repeats(ntf'[n].occ)) < MaxRepeats

\* Rows evolve where they are; new ones are fresh.
RowsEvolve ==
  /\ RowsGrow
  /\ \A n \in DOMAIN ntf : RowEvolves(ntf[n], ntf'[n])
  /\ \A n \in DOMAIN ntf' \ DOMAIN ntf :
       HasAttempts(ntf'[n]) /\ (ntf'[n].kind = "repeat" => FreshRepeat(n))

LEMMA SameEvolves ==
  ASSUME NEW row \in Notification
  PROVE  RowEvolves(row, row)
<1>1. row.fire \in Int
  BY DEF Notification
<1> QED
  BY <1>1 DEF RowEvolves

LEMMA EvolvesOn ==
  ASSUME NEW a \in Notification, NEW b \in Notification, NEW c \in Notification,
         RowEvolves(a, b), RowEvolves(b, c)
  PROVE  RowEvolves(a, c)
<1>1. a.fire \in Int /\ b.fire \in Int /\ c.fire \in Int
  BY DEF Notification
<1> QED
  BY <1>1 DEF RowEvolves

\* A pending row that is cancelled, and a cancelled signal that is brought
\* back by a snooze or by the plan.
LEMMA SettledEvolves ==
  ASSUME NEW row \in Notification, NEW status \in NotificationStatus, NEW next \in Int,
         \/ row.status = "pending" /\ status = "cancelled"
         \/ row.status = "cancelled" /\ status = "pending" /\ row.kind # "repeat"
  PROVE  RowEvolves(row, Settled(row, status, next))
<1>1. /\ Settled(row, status, next).occ = row.occ
      /\ Settled(row, status, next).kind = row.kind
      /\ Settled(row, status, next).fire = row.fire /\ row.fire \in Int
      /\ Settled(row, status, next).att = row.att
      /\ Settled(row, status, next).status = status
  BY DEF Settled, Notification
<1> HIDE DEF Settled
<1> QED
  BY <1>1 DEF RowEvolves, HasAttempts

LEMMA RevivedEvolves ==
  ASSUME NEW row \in Notification, row.status = "cancelled", row.kind # "repeat"
  PROVE  RowEvolves(row, Revived(row))
<1>1. /\ Revived(row).occ = row.occ /\ Revived(row).kind = row.kind
      /\ Revived(row).fire = row.fire /\ row.fire \in Int
      /\ Revived(row).att = row.att /\ Revived(row).status = "pending"
  BY DEF Revived, Notification
<1> QED
  BY <1>1 DEF RowEvolves, HasAttempts

LEMMA NewRowHasAttempts ==
  ASSUME NEW o, NEW kind, NEW fire, NEW silent
  PROVE  HasAttempts(NewRow(o, kind, fire, silent))
BY DeliveryAssumption DEF HasAttempts, NewRow

LEMMA RowsSame ==
  ASSUME StoreTypeOK, UNCHANGED ntf
  PROVE  RowsEvolve
<1>1. ntf \in Seq(Notification) /\ Len(ntf) \in Nat
  BY LenProperties DEF StoreTypeOK
<1>2. \A n \in DOMAIN ntf : RowEvolves(ntf[n], ntf[n])
  BY <1>1, RowType, SameEvolves
<1>3. RowsGrow
  BY <1>1 DEF RowsGrow
<1> QED
  BY <1>2, <1>3 DEF RowsEvolve

LEMMA RowEvolved ==
  ASSUME StoreTypeOK, NEW n \in DOMAIN ntf, NEW row \in Notification,
         RowEvolves(ntf[n], row), ntf' = [ntf EXCEPT ![n] = row]
  PROVE  RowsEvolve
<1>1. ntf \in Seq(Notification)
  BY DEF StoreTypeOK
<1>2. \A m \in DOMAIN ntf : RowEvolves(ntf[m], ntf[m])
  BY <1>1, RowType, SameEvolves
<1>3. /\ RowsGrow
      /\ DOMAIN ntf' = DOMAIN ntf
      /\ \A m \in DOMAIN ntf : ntf'[m] = IF m = n THEN row ELSE ntf[m]
  BY OneRow
<1> QED
  BY <1>2, <1>3 DEF RowsEvolve

-----------------------------------------------------------------------------
(* Steps of a worker. *)

\* A worker that has chosen a row: what is known of it.
LEMMA Chosen ==
  ASSUME TypeOK, NEW w \in Worker
  PROVE  /\ wk[w] \in WorkerState /\ wk[w].now \in Nat /\ wk[w].left \in Nat
         /\ wk[w].silent \in BOOLEAN /\ wk[w].fatal \in BOOLEAN
         /\ wk[w].pc \notin {"idle", "tick"} =>
              wk[w].n \in DOMAIN ntf /\ wk[w].n \in Nat /\ wk[w].left > 0
<1>1. wk[w] \in WorkerState
  BY DEF TypeOK, DeliveryTypeOK
<1> QED
  BY <1>1 DEF TypeOK, DeliveryTypeOK, WorkerState

LEMMA WorkerStates ==
  ASSUME NEW s \in WorkerState
  PROVE  /\ IdleWorker \in WorkerState /\ IdleWorker.pc = "idle"
         /\ \A now, left \in Nat :
              LET t == [IdleWorker EXCEPT !.pc = "tick", !.now = now, !.left = left]
              IN  t \in WorkerState /\ t.pc = "tick"
         /\ \A pc \in {"picked", "sending", "accepted", "failed"} :
              LET t == [s EXCEPT !.pc = pc]
              IN  t \in WorkerState /\ t.n = s.n /\ t.left = s.left
BY DEF WorkerState, IdleWorker

LEMMA NextRowType ==
  ASSUME TypeOK, NEW w \in Worker, wk[w].pc \notin {"idle", "tick"}
  PROVE  NextRow(w) \in WorkerState /\ NextRow(w).pc = "tick"
<1>1. wk[w] \in WorkerState /\ wk[w].now \in Nat /\ wk[w].left - 1 \in Nat
  BY Chosen
<1> QED
  BY <1>1, WorkerStates DEF NextRow

\* What TypeOK asks of a worker's step beyond the rows.
LEMMA WorkerStepType ==
  ASSUME TypeOK, RowsGrow, NEW w \in Worker, NEW s \in WorkerState,
         wk' = [wk EXCEPT ![w] = s],
         s.pc \notin {"idle", "tick"} => s.n \in DOMAIN ntf /\ s.left > 0,
         crashes' \in 0 .. MaxCrashes,
         occ' \in [Slot -> OccurrenceStatus \cup {"none"}],
         ctx' \in [n : 0 .. Len(ntf'), exp : Int],
         UNCHANGED <<clock, quiet, anchor, stopped, ledger, rec>>
  PROVE  TypeOK'
<1>1. StoreTypeOK'
  BY DEF TypeOK, StoreTypeOK, RowsGrow
<1>2. DeliveryTypeOK'
  <2>1. DOMAIN ntf \subseteq DOMAIN ntf'
    BY GrownDomain DEF TypeOK
  <2>2. wk \in [Worker -> WorkerState]
    BY DEF TypeOK, DeliveryTypeOK
  <2>3. wk' \in [Worker -> WorkerState]
    BY <2>2
  <2>4. ASSUME NEW v \in Worker, wk'[v].pc \notin {"idle", "tick"}
        PROVE  wk'[v].n \in DOMAIN ntf' /\ wk'[v].left > 0
    <3>1. CASE v = w
      BY <2>1, <2>2, <2>4, <3>1
    <3>2. CASE v # w
      <4>1. wk'[v] = wk[v]
        BY <2>2, <3>2
      <4> QED
        BY <2>1, <2>4, <4>1 DEF TypeOK, DeliveryTypeOK
    <3> QED
      BY <3>1, <3>2
  <2> QED
    BY <2>3, <2>4 DEF DeliveryTypeOK
<1> QED
  BY <1>1, <1>2 DEF TypeOK

\* The context stays in bounds when the rows grow.
LEMMA ContextKeeps ==
  ASSUME TypeOK, RowsGrow
  PROVE  ctx \in [n : 0 .. Len(ntf'), exp : Int] /\ NoContext \in [n : 0 .. Len(ntf'), exp : Int]
<1>1. 0 .. Len(ntf) \subseteq 0 .. Len(ntf') /\ 0 \in 0 .. Len(ntf)
  <2>1. Len(ntf) \in Nat
    BY LenProperties DEF TypeOK, StoreTypeOK
  <2> QED
    BY <2>1, GrownDomain DEF TypeOK
<1>2. ctx \in [n : 0 .. Len(ntf), exp : Int]
  BY DEF TypeOK, StoreTypeOK
<1> QED
  BY <1>1, <1>2 DEF NoContext

\* Steps that only move the worker on.
LEMMA IdleStepEvolves ==
  ASSUME TypeOK, NEW w \in Worker,
         \/ StartTick(w) \/ EndTick(w) \/ SelectCandidate(w) \/ ClaimLost(w)
         \/ SendRefused(w) \/ Crash(w)
  PROVE  RowsEvolve /\ TypeOK'
<1>1. /\ StoreTypeOK /\ clock \in Nat /\ crashes \in 0 .. MaxCrashes
      /\ BatchSize \in Nat /\ MaxCrashes \in Nat
  BY DeliveryAssumption, StoreAssumption DEF TypeOK, StoreTypeOK, DeliveryTypeOK
<1>2. UNCHANGED storeVars
  BY DEF StartTick, EndTick, SelectCandidate, ClaimLost, SendRefused, Crash
<1>3. RowsEvolve
  BY <1>1, <1>2, RowsSame DEF storeVars
<1>4. /\ occ' \in [Slot -> OccurrenceStatus \cup {"none"}]
      /\ ctx' \in [n : 0 .. Len(ntf'), exp : Int]
      /\ RowsGrow /\ UNCHANGED <<clock, quiet, anchor, stopped, ledger, rec>>
  BY <1>1, <1>2, <1>3, ContextKeeps DEF RowsEvolve, storeVars, StoreTypeOK
<1>5. crashes' \in 0 .. MaxCrashes
  BY <1>1 DEF StartTick, EndTick, SelectCandidate, ClaimLost, SendRefused, Crash
<1>6. wk[w] \in WorkerState
  BY Chosen
<1>7. \E s \in WorkerState :
        /\ wk' = [wk EXCEPT ![w] = s]
        /\ s.pc \notin {"idle", "tick"} => s.n \in DOMAIN ntf /\ s.left > 0
  <2>1. CASE StartTick(w)
    <3> DEFINE s == [IdleWorker EXCEPT !.pc = "tick", !.now = clock, !.left = BatchSize]
    <3>1. s \in WorkerState /\ s.pc = "tick"
      BY <1>1, <1>6, WorkerStates
    <3>2. wk' = [wk EXCEPT ![w] = s]
      BY <2>1 DEF StartTick
    <3> HIDE DEF s
    <3> QED
      BY <3>1, <3>2
  <2>2. CASE EndTick(w) \/ ClaimLost(w) \/ Crash(w)
    <3>1. wk' = [wk EXCEPT ![w] = IdleWorker]
      BY <2>2 DEF EndTick, ClaimLost, Crash
    <3> QED
      BY <3>1, <1>6, WorkerStates
  <2>3. CASE SelectCandidate(w)
    <3>1. PICK n \in Due(wk[w].now) : wk' = [wk EXCEPT ![w].pc = "picked", ![w].n = n]
      BY <2>3 DEF SelectCandidate
    <3> DEFINE s == [wk[w] EXCEPT !.pc = "picked", !.n = n]
    <3>2. wk' = [wk EXCEPT ![w] = s]
      BY <3>1
    <3>3. n \in DOMAIN ntf /\ n \in Nat
      <4>1. n \in DOMAIN ntf
        BY DEF Due
      <4> QED
        BY <4>1, LenProperties DEF TypeOK, StoreTypeOK
    <3>4. wk[w].left > 0
      BY <2>3 DEF SelectCandidate
    <3>5. s \in WorkerState /\ s.n = n /\ s.left = wk[w].left
      BY <1>6, <3>3 DEF WorkerState
    <3> HIDE DEF s
    <3> QED
      BY <3>2, <3>3, <3>4, <3>5
  <2>4. CASE SendRefused(w)
    <3>1. PICK fatal \in BOOLEAN :
            wk' = [wk EXCEPT ![w].pc = "failed", ![w].fatal = fatal]
      BY <2>4 DEF SendRefused
    <3> DEFINE s == [wk[w] EXCEPT !.pc = "failed", !.fatal = fatal]
    <3>2. wk' = [wk EXCEPT ![w] = s]
      BY <3>1
    <3>3. wk[w].n \in DOMAIN ntf /\ wk[w].left > 0
      BY <2>4, Chosen DEF SendRefused
    <3>4. s \in WorkerState /\ s.n = wk[w].n /\ s.left = wk[w].left
      BY <1>6 DEF WorkerState
    <3> HIDE DEF s
    <3> QED
      BY <3>2, <3>3, <3>4
  <2> QED
    BY <2>1, <2>2, <2>3, <2>4
<1> QED
  BY <1>3, <1>4, <1>5, <1>7, WorkerStepType

\* What a claim may make of a pending row: settle it, or put it off.
LEMMA ClaimedEvolves ==
  ASSUME NEW row \in Notification, row.status = "pending",
         NEW status \in NotificationStatus, NEW fire \in Int, fire >= row.fire,
         NEW silent \in BOOLEAN, NEW next \in Int
  PROVE  LET ended == [row EXCEPT !.status = status, !.fire = fire, !.silent = silent,
                                  !.next = next]
             kept  == [row EXCEPT !.fire = fire, !.silent = silent, !.next = next]
             gone  == [row EXCEPT !.status = status]
         IN  /\ ended \in Notification /\ RowEvolves(row, ended)
             /\ kept \in Notification /\ RowEvolves(row, kept)
             /\ gone \in Notification /\ RowEvolves(row, gone)
<1> DEFINE ended == [row EXCEPT !.status = status, !.fire = fire, !.silent = silent,
                                !.next = next]
           kept  == [row EXCEPT !.fire = fire, !.silent = silent, !.next = next]
           gone  == [row EXCEPT !.status = status]
<1>1. /\ ended \in Notification /\ ended.occ = row.occ /\ ended.kind = row.kind
      /\ ended.fire = fire /\ ended.att = row.att
  BY DEF Notification
<1>2. /\ kept \in Notification /\ kept.occ = row.occ /\ kept.kind = row.kind
      /\ kept.fire = fire /\ kept.att = row.att /\ kept.status = row.status
  BY DEF Notification
<1>3. /\ gone \in Notification /\ gone.occ = row.occ /\ gone.kind = row.kind
      /\ gone.fire = row.fire /\ gone.att = row.att /\ row.fire \in Int
  BY DEF Notification
<1> HIDE DEF ended, kept, gone
<1>4. RowEvolves(row, ended) /\ RowEvolves(row, kept) /\ RowEvolves(row, gone)
  BY <1>1, <1>2, <1>3 DEF RowEvolves, HasAttempts
<1> QED
  BY <1>1, <1>2, <1>3, <1>4 DEF ended, kept, gone

LEMMA ClaimEvolves ==
  ASSUME TypeOK, NEW w \in Worker,
         \/ ClaimCancel(w) \/ ClaimDuplicate(w) \/ ClaimPostpone(w)
         \/ ClaimMiss(w) \/ ClaimSend(w)
  PROVE  RowsEvolve /\ TypeOK'
<1> DEFINE n == wk[w].n
           now == wk[w].now
<1>1. StillDue(w) /\ wk[w].pc = "picked"
  BY DEF ClaimCancel, ClaimDuplicate, ClaimPostpone, ClaimMiss, ClaimSend, Deliverable,
         Claimable, StillDue
<1>2. /\ wk[w] \in WorkerState /\ now \in Nat /\ n \in DOMAIN ntf /\ n \in Nat
      /\ wk[w].left > 0
  BY <1>1, Chosen
<1>3. /\ StoreTypeOK /\ ntf \in Seq(Notification)
      /\ occ \in [Slot -> OccurrenceStatus \cup {"none"}]
      /\ crashes \in 0 .. MaxCrashes
  BY DEF TypeOK, StoreTypeOK, DeliveryTypeOK
<1>4. ntf[n].status = "pending" /\ ntf[n].fire <= now
  BY <1>1 DEF StillDue, Due, Pending
<1>5. /\ ntf[n] \in Notification /\ ntf[n].occ \in Slot /\ ntf[n].fire \in Int
      /\ ntf[n].silent \in BOOLEAN /\ ntf[n].next \in Int
  BY <1>2, <1>3, RowType
<1>6. /\ FireAt(n, now) \in Int /\ FireAt(n, now) >= ntf[n].fire
      /\ IsPostponed(n, now) => PostponedTo(n, now) = FireAt(n, now)
      /\ IsPostponed(n, now) \in BOOLEAN /\ SilentClaim(n, now) \in BOOLEAN
  BY <1>2, <1>3, <1>4, ClaimType
<1>7. /\ UNCHANGED <<clock, quiet, anchor, stopped, ledger, rec>>
      /\ crashes' \in 0 .. MaxCrashes
  BY <1>3 DEF ClaimCancel, ClaimDuplicate, ClaimPostpone, ClaimMiss, ClaimSend
<1>8. /\ "cancelled" \in NotificationStatus /\ "missed" \in NotificationStatus
      /\ NoAttempt \in Int /\ now + Lease \in Int /\ now + ContextTtl \in Int
  BY <1>2, DeliveryAssumption DEF NotificationStatus, NoAttempt
<1>9. \E row \in Notification : RowEvolves(ntf[n], row) /\ ntf' = [ntf EXCEPT ![n] = row]
  <2>1. CASE ClaimCancel(w)
    <3> DEFINE row == Settled(ntf[n], "cancelled", NoAttempt)
    <3>1. ntf' = [ntf EXCEPT ![n] = row]
      BY <2>1 DEF ClaimCancel, Settled
    <3>2. row \in Notification /\ RowEvolves(ntf[n], row)
      BY <1>4, <1>5, <1>8, SettledType, SettledEvolves
    <3> HIDE DEF row
    <3> QED
      BY <3>1, <3>2
  <2>2. CASE ClaimDuplicate(w)
    <3> DEFINE row == [ntf[n] EXCEPT !.status = "cancelled"]
    <3>1. ntf' = [ntf EXCEPT ![n] = row]
      BY <2>2 DEF ClaimDuplicate
    <3>2. row \in Notification /\ RowEvolves(ntf[n], row)
      BY <1>4, <1>5, <1>6, <1>8, ClaimedEvolves
    <3> HIDE DEF row
    <3> QED
      BY <3>1, <3>2
  <2>3. CASE ClaimPostpone(w)
    <3> DEFINE row == [ntf[n] EXCEPT !.fire = FireAt(n, now), !.silent = FALSE,
                                     !.next = NoAttempt]
    <3>1. ntf' = [ntf EXCEPT ![n] = row]
      BY <2>3, <1>6 DEF ClaimPostpone
    <3>2. row \in Notification /\ RowEvolves(ntf[n], row)
      BY <1>4, <1>5, <1>6, <1>8, ClaimedEvolves, FALSE \in BOOLEAN
    <3> HIDE DEF row
    <3> QED
      BY <3>1, <3>2
  <2>4. CASE ClaimMiss(w)
    <3> DEFINE silent == ntf[n].silent /\ ~ IsPostponed(n, now)
               fire == FireAt(n, now)
               old == ntf[n]
               row == [old EXCEPT !.status = "missed", !.fire = fire,
                                  !.silent = silent, !.next = NoAttempt]
    <3>1. ntf' = [ntf EXCEPT ![n] = row]
      BY <2>4 DEF ClaimMiss
    <3>2. row \in Notification /\ RowEvolves(ntf[n], row)
      <4>1. /\ silent \in BOOLEAN /\ "missed" \in NotificationStatus /\ NoAttempt \in Int
            /\ old \in Notification /\ old.status = "pending"
            /\ fire \in Int /\ fire >= old.fire
        BY <1>4, <1>5, <1>6, <1>8
      <4> HIDE DEF silent, fire, old
      <4>2. row \in Notification /\ RowEvolves(old, row)
        BY <4>1, ClaimedEvolves
      <4> QED
        BY <4>2 DEF old
    <3> HIDE DEF row
    <3> QED
      BY <3>1, <3>2
  <2>5. CASE ClaimSend(w)
    <3> DEFINE row == [ntf[n] EXCEPT !.fire = FireAt(n, now), !.silent = SilentClaim(n, now),
                                     !.next = now + Lease]
    <3>1. ntf' = [ntf EXCEPT ![n] = row]
      BY <2>5 DEF ClaimSend
    <3>2. row \in Notification /\ RowEvolves(ntf[n], row)
      BY <1>4, <1>5, <1>6, <1>8, ClaimedEvolves
    <3> HIDE DEF row
    <3> QED
      BY <3>1, <3>2
  <2> QED
    BY <2>1, <2>2, <2>3, <2>4, <2>5
<1>10. RowsEvolve
  BY <1>2, <1>3, <1>9, RowEvolved
<1>11. occ' \in [Slot -> OccurrenceStatus \cup {"none"}]
  BY <1>3, <1>5
     DEF ClaimCancel, ClaimDuplicate, ClaimPostpone, ClaimMiss, ClaimSend, OccurrenceStatus
<1>12. ctx' \in [n : 0 .. Len(ntf'), exp : Int]
  <2>1. ctx \in [n : 0 .. Len(ntf'), exp : Int] /\ n \in 0 .. Len(ntf')
    <3>1. RowsGrow
      BY <1>10 DEF RowsEvolve
    <3>2. n \in 0 .. Len(ntf)
      BY <1>2, <1>3, LenProperties
    <3> QED
      BY <3>1, <3>2, ContextKeeps, GrownDomain DEF TypeOK
  <2>2. ctx' = ctx \/ ctx' = [n |-> n, exp |-> now + ContextTtl]
    BY DEF ClaimCancel, ClaimDuplicate, ClaimPostpone, ClaimMiss, ClaimSend
  <2> QED
    BY <1>8, <2>1, <2>2
<1>13. \E s \in WorkerState :
         /\ wk' = [wk EXCEPT ![w] = s]
         /\ s.pc \notin {"idle", "tick"} => s.n \in DOMAIN ntf /\ s.left > 0
  <2>1. CASE ClaimSend(w)
    <3> DEFINE s == [wk[w] EXCEPT !.pc = "sending", !.silent = SilentClaim(n, now)]
    <3>1. wk' = [wk EXCEPT ![w] = s]
      BY <2>1 DEF ClaimSend
    <3>2. s \in WorkerState /\ s.n = n /\ s.left = wk[w].left
      BY <1>2, <1>6 DEF WorkerState
    <3> HIDE DEF s
    <3> QED
      BY <1>2, <3>1, <3>2
  <2>2. CASE ~ ClaimSend(w)
    <3>1. wk' = [wk EXCEPT ![w] = NextRow(w)]
      BY <2>2 DEF ClaimCancel, ClaimDuplicate, ClaimPostpone, ClaimMiss
    <3>2. NextRow(w) \in WorkerState /\ NextRow(w).pc = "tick"
      BY <1>1, NextRowType
    <3> QED
      BY <3>1, <3>2
  <2> QED
    BY <2>1, <2>2
<1>14. RowsGrow
  BY <1>10 DEF RowsEvolve
<1> HIDE DEF n, now
<1> QED
  BY <1>7, <1>10, <1>11, <1>12, <1>13, <1>14, WorkerStepType

LEMMA SendAcceptedEvolves ==
  ASSUME TypeOK, NEW w \in Worker, SendAccepted(w)
  PROVE  RowsEvolve /\ TypeOK'
<1> DEFINE n == wk[w].n
           row == [ntf[n] EXCEPT !.copies = @ + 1]
<1>1. /\ wk[w] \in WorkerState /\ n \in DOMAIN ntf /\ wk[w].left > 0
  BY Chosen DEF SendAccepted
<1>2. /\ StoreTypeOK /\ ntf \in Seq(Notification) /\ crashes \in 0 .. MaxCrashes
      /\ occ \in [Slot -> OccurrenceStatus \cup {"none"}]
  BY DEF TypeOK, StoreTypeOK, DeliveryTypeOK
<1>3. ntf' = [ntf EXCEPT ![n] = row]
  BY DEF SendAccepted
<1>4. ntf[n] \in Notification
  BY <1>1, <1>2, RowType
<1>5. /\ row \in Notification /\ row.occ = ntf[n].occ /\ row.kind = ntf[n].kind
      /\ row.fire = ntf[n].fire /\ ntf[n].fire \in Int
      /\ row.att = ntf[n].att /\ row.status = ntf[n].status
  BY <1>4 DEF Notification
<1> HIDE DEF row
<1>6. RowEvolves(ntf[n], row)
  BY <1>5 DEF RowEvolves, HasAttempts
<1>7. RowsEvolve /\ RowsGrow
  BY <1>1, <1>2, <1>3, <1>5, <1>6, RowEvolved DEF RowsEvolve
<1>8. \E s \in WorkerState :
        /\ wk' = [wk EXCEPT ![w] = s]
        /\ s.n \in DOMAIN ntf /\ s.left > 0
  <2>1. PICK pc \in {"accepted", "failed"} : wk' = [wk EXCEPT ![w].pc = pc]
    BY DEF SendAccepted
  <2> DEFINE s == [wk[w] EXCEPT !.pc = pc]
  <2>2. wk' = [wk EXCEPT ![w] = s]
    BY <2>1
  <2>3. s \in WorkerState /\ s.n = n /\ s.left = wk[w].left
    BY <1>1, WorkerStates
  <2> HIDE DEF s
  <2> QED
    BY <1>1, <2>2, <2>3
<1>9. /\ UNCHANGED <<clock, quiet, anchor, stopped, ledger, rec, occ, ctx>>
      /\ crashes' = crashes
  BY DEF SendAccepted
<1> HIDE DEF n
<1> QED
  BY <1>2, <1>7, <1>8, <1>9, ContextKeeps, WorkerStepType

\* The rows that record the outcome of a send.
Reported(row, silent) ==
  [row EXCEPT !.status = "sent", !.silent = silent, !.next = NoAttempt]

Failed(row, att) ==
  [row EXCEPT !.status = "failed", !.att = att, !.next = NoAttempt]

Retried(row, att, next) == [row EXCEPT !.att = att, !.next = next]

LEMMA OutcomeTypes ==
  ASSUME NEW row \in Notification, NEW silent \in BOOLEAN, NEW att \in Nat,
         NEW next \in Int
  PROVE  /\ Reported(row, silent) \in Notification /\ Failed(row, att) \in Notification
         /\ Retried(row, att, next) \in Notification
<1>1. \A status \in NotificationStatus, t \in Int :
        /\ [row EXCEPT !.status = status, !.silent = silent, !.next = t] \in Notification
        /\ [row EXCEPT !.status = status, !.att = att, !.next = t] \in Notification
  BY DEF Notification
<1>2. "sent" \in NotificationStatus /\ "failed" \in NotificationStatus /\ NoAttempt \in Int
  BY DEF NotificationStatus, NoAttempt
<1>3. Retried(row, att, next) \in Notification
  BY DEF Notification, Retried
<1> QED
  BY <1>1, <1>2, <1>3, Zenon DEF Reported, Failed

LEMMA OutcomesEvolve ==
  ASSUME NEW row \in Notification
  PROVE  /\ \A silent : RowEvolves(row, Reported(row, silent))
         /\ row.status = "pending" =>
              /\ RowEvolves(row, Failed(row, row.att + 1))
              /\ \A next : row.att + 1 < MaxAttempts
                             => RowEvolves(row, Retried(row, row.att + 1, next))
<1>1. row.fire \in Int /\ row.att \in Nat /\ MaxAttempts \in Nat
  BY DeliveryAssumption DEF Notification
<1>2. \A silent :
        /\ Reported(row, silent).occ = row.occ /\ Reported(row, silent).kind = row.kind
        /\ Reported(row, silent).fire = row.fire /\ Reported(row, silent).att = row.att
        /\ Reported(row, silent).status = "sent"
  BY DEF Reported, Notification
<1>3. \A att :
        /\ Failed(row, att).occ = row.occ /\ Failed(row, att).kind = row.kind
        /\ Failed(row, att).fire = row.fire /\ Failed(row, att).att = att
        /\ Failed(row, att).status = "failed"
  BY DEF Failed, Notification
<1>4. \A att, next :
        /\ Retried(row, att, next).occ = row.occ /\ Retried(row, att, next).kind = row.kind
        /\ Retried(row, att, next).fire = row.fire /\ Retried(row, att, next).att = att
        /\ Retried(row, att, next).status = row.status
  BY DEF Retried, Notification
<1>5. \A silent : RowEvolves(row, Reported(row, silent))
  BY <1>1, <1>2 DEF RowEvolves, HasAttempts
<1>6. row.status = "pending" => RowEvolves(row, Failed(row, row.att + 1))
  BY <1>1, <1>3 DEF RowEvolves, HasAttempts
<1>7. \A next : row.status = "pending" /\ row.att + 1 < MaxAttempts
                   => RowEvolves(row, Retried(row, row.att + 1, next))
  BY <1>1, <1>4 DEF RowEvolves, HasAttempts
<1> QED
  BY <1>5, <1>6, <1>7

\* Recording a success ends the row and adds at most one repeat to it.
LEMMA FinalizeSentEvolves ==
  ASSUME TypeOK, NEW w \in Worker, FinalizeSent(w)
  PROVE  RowsEvolve /\ TypeOK'
<1> DEFINE n == wk[w].n
           now == wk[w].now
           row == Reported(ntf[n], wk[w].silent)
           done == [ntf EXCEPT ![n] = row]
<1>1. /\ wk[w] \in WorkerState /\ n \in DOMAIN ntf /\ now \in Nat
      /\ wk[w].silent \in BOOLEAN /\ wk[w].pc \notin {"idle", "tick"}
  BY Chosen DEF FinalizeSent
<1>2. /\ StoreTypeOK /\ ntf \in Seq(Notification) /\ crashes \in 0 .. MaxCrashes
      /\ occ \in [Slot -> OccurrenceStatus \cup {"none"}] /\ Len(ntf) \in Nat
  BY LenProperties DEF TypeOK, StoreTypeOK, DeliveryTypeOK
<1>3. ntf' = WithNextRepeat(done, n, now)
  BY DEF FinalizeSent, Reported
<1>4. ntf[n] \in Notification
  BY <1>1, <1>2, RowType
<1>5. row \in Notification
  BY <1>1, <1>4, OutcomeTypes, 0 \in Nat, 0 \in Int
<1>6. RowEvolves(ntf[n], row)
  BY <1>4, OutcomesEvolve
<1> HIDE DEF row
<1>7. /\ done \in Seq(Notification) /\ Len(done) = Len(ntf) /\ DOMAIN done = DOMAIN ntf
      /\ \A m \in DOMAIN ntf : done[m] = IF m = n THEN row ELSE ntf[m]
  BY <1>1, <1>2, <1>5, RowSet
<1> HIDE DEF done
<1>8. /\ ntf' \in Seq(Notification) /\ Len(ntf) <= Len(ntf')
      /\ \A m \in DOMAIN ntf : ntf'[m] = done[m]
      /\ \A m \in DOMAIN ntf' \ DOMAIN ntf :
           /\ WantsRepeat(n) /\ Len(ntf') = Len(ntf) + 1
           /\ \E fire, silent : ntf'[m] = NewRow(ntf[n].occ, "repeat", fire, silent)
  BY <1>1, <1>2, <1>3, <1>7, WithNextRepeatType, SMTT(20)
<1>9. ASSUME NEW m \in DOMAIN ntf
      PROVE  RowEvolves(ntf[m], ntf'[m])
  <2>1. RowEvolves(ntf[m], ntf[m])
    BY <1>2, RowType, SameEvolves
  <2> QED
    BY <1>6, <1>7, <1>8, <2>1
<1>10. UNCHANGED <<clock, quiet, anchor, stopped, ledger, rec, occ, ctx>> /\ crashes' = crashes
  BY DEF FinalizeSent
<1>11. ASSUME NEW m \in DOMAIN ntf' \ DOMAIN ntf
       PROVE  HasAttempts(ntf'[m]) /\ FreshRepeat(m)
  <2>1. /\ ntf[n].occ \notin stopped
        /\ Cardinality(Repeats(ntf[n].occ)) < MaxRepeats
        /\ Len(ntf') = Len(ntf) + 1
    BY <1>8 DEF WantsRepeat
  <2>2. PICK fire, silent : ntf'[m] = NewRow(ntf[n].occ, "repeat", fire, silent)
    BY <1>8
  <2>3. NewRow(ntf[n].occ, "repeat", fire, silent).occ = ntf[n].occ
    BY DEF NewRow
  <2> QED
    BY <1>10, <2>1, <2>2, <2>3, NewRowHasAttempts DEF FreshRepeat
<1>12. RowsEvolve /\ RowsGrow
  BY <1>8, <1>9, <1>11 DEF RowsEvolve, RowsGrow
<1>13. wk' = [wk EXCEPT ![w] = NextRow(w)]
  BY DEF FinalizeSent
<1>14. NextRow(w) \in WorkerState /\ NextRow(w).pc = "tick"
  BY <1>1, NextRowType
<1> HIDE DEF n, now
<1> QED
  BY <1>2, <1>10, <1>12, <1>13, <1>14, ContextKeeps, WorkerStepType

\* A failed attempt is counted; the row waits for the next one or is given up.
LEMMA FinalizeFailedEvolves ==
  ASSUME TypeOK, NEW w \in Worker, FinalizeFailed(w)
  PROVE  RowsEvolve /\ TypeOK'
<1> DEFINE n == wk[w].n
           attempts == ntf[n].att + 1
<1>1. /\ wk[w] \in WorkerState /\ n \in DOMAIN ntf /\ wk[w].now \in Nat
      /\ wk[w].pc \notin {"idle", "tick"}
  BY Chosen DEF FinalizeFailed
<1>2. /\ StoreTypeOK /\ ntf \in Seq(Notification) /\ crashes \in 0 .. MaxCrashes
      /\ occ \in [Slot -> OccurrenceStatus \cup {"none"}]
  BY DEF TypeOK, StoreTypeOK, DeliveryTypeOK
<1>3. ntf[n] \in Notification /\ ntf[n].att \in Nat /\ attempts \in Nat
  BY <1>1, <1>2, RowType
<1>6. RowsEvolve
  <2>1. CASE UNCHANGED ntf
    BY <1>2, <2>1, RowsSame
  <2>2. CASE /\ Pending(n)
             /\ ntf' = [ntf EXCEPT ![n].status = "failed", ![n].att = attempts,
                                   ![n].next = NoAttempt]
    <3> DEFINE row == Failed(ntf[n], attempts)
    <3>1. ntf' = [ntf EXCEPT ![n] = row]
      BY <2>2 DEF Failed
    <3>2. row \in Notification /\ RowEvolves(ntf[n], row)
      BY <1>3, <2>2, OutcomeTypes, OutcomesEvolve, FALSE \in BOOLEAN, 0 \in Int DEF Pending
    <3> HIDE DEF row
    <3> QED
      BY <1>1, <1>2, <3>1, <3>2, RowEvolved
  <2>3. CASE /\ Pending(n) /\ ~ GivesUp(attempts, wk[w].fatal)
             /\ \E provider \in ProviderDelays \cup {0} :
                  ntf' = [ntf EXCEPT ![n].att = attempts,
                                     ![n].next = wk[w].now + RetryDelay(attempts, provider)]
    <3>1. PICK provider \in ProviderDelays \cup {0} :
            ntf' = [ntf EXCEPT ![n].att = attempts,
                               ![n].next = wk[w].now + RetryDelay(attempts, provider)]
      BY <2>3
    <3> DEFINE next == wk[w].now + RetryDelay(attempts, provider)
               row == Retried(ntf[n], attempts, next)
    <3>2. ntf' = [ntf EXCEPT ![n] = row]
      BY <3>1 DEF Retried
    <3>3. next \in Int
      <4>1. provider \in Nat
        BY DeliveryAssumption
      <4>2. RetryDelay(attempts, provider) \in Int
        BY <1>3, <4>1, RetryDelayType
      <4> QED
        BY <1>1, <4>2
    <3> HIDE DEF next
    <3>4. attempts < MaxAttempts
      BY <1>3, <2>3, DeliveryAssumption DEF GivesUp
    <3>5. row \in Notification /\ RowEvolves(ntf[n], row)
      BY <1>3, <2>3, <3>3, <3>4, OutcomeTypes, OutcomesEvolve, FALSE \in BOOLEAN DEF Pending
    <3> HIDE DEF row
    <3> QED
      BY <1>1, <1>2, <3>2, <3>5, RowEvolved
  <2> QED
    BY <2>1, <2>2, <2>3 DEF FinalizeFailed
<1>7. RowsGrow
  BY <1>6 DEF RowsEvolve
<1>8. ctx' \in [n : 0 .. Len(ntf'), exp : Int]
  <2>1. ctx' = ctx \/ ctx' = NoContext
    BY DEF FinalizeFailed
  <2> QED
    BY <1>7, <2>1, ContextKeeps
<1>9. UNCHANGED <<clock, quiet, anchor, stopped, ledger, rec, occ>> /\ crashes' = crashes
  BY DEF FinalizeFailed
<1>10. wk' = [wk EXCEPT ![w] = NextRow(w)]
  BY DEF FinalizeFailed
<1>11. NextRow(w) \in WorkerState /\ NextRow(w).pc = "tick"
  BY <1>1, NextRowType
<1> HIDE DEF n, attempts
<1> QED
  BY <1>2, <1>6, <1>7, <1>8, <1>9, <1>10, <1>11, WorkerStepType

-----------------------------------------------------------------------------
(* Steps of the owner and of reconciliation. *)

\* No repeat of o is left to claim.
RepeatsEnd(o) ==
  \A n \in DOMAIN ntf' :
    ntf'[n].occ = o /\ ntf'[n].kind = "repeat" => ntf'[n].status # "pending"

LEMMA StepOutsideDelivery ==
  ASSUME TypeOK, RowsGrow, UNCHANGED deliveryVars,
         clock' \in 0 .. MaxTime, quiet' \in Quiet,
         occ' \in [Slot -> OccurrenceStatus \cup {"none"}], anchor' \in [Entry -> Slot],
         ctx' \in [n : 0 .. Len(ntf'), exp : Int], stopped' \in SUBSET Slot,
         ledger' \in SUBSET LedgerRecord,
         rec' \in [pc : {"idle", "writing"}, born : SUBSET Slot, plan : SUBSET Slot]
  PROVE  TypeOK'
<1>1. StoreTypeOK'
  BY DEF StoreTypeOK, RowsGrow
<1>2. DOMAIN ntf \subseteq DOMAIN ntf'
  BY GrownDomain DEF TypeOK
<1>3. DeliveryTypeOK'
  BY <1>2 DEF TypeOK, DeliveryTypeOK, deliveryVars
<1> QED
  BY <1>1, <1>3 DEF TypeOK

\* Rows that are edited in place, each as it may be.
LEMMA RowsEvolved ==
  ASSUME StoreTypeOK, ntf' \in Seq(Notification), Len(ntf') = Len(ntf),
         \A n \in DOMAIN ntf : RowEvolves(ntf[n], ntf'[n])
  PROVE  RowsEvolve /\ DOMAIN ntf' = DOMAIN ntf
<1>1. /\ DOMAIN ntf = 1 .. Len(ntf) /\ Len(ntf) \in Nat
      /\ DOMAIN ntf' = 1 .. Len(ntf')
  BY LenProperties DEF StoreTypeOK
<1> QED
  BY <1>1 DEF RowsEvolve, RowsGrow

LEMMA CancelRepeatsEvolves ==
  ASSUME StoreTypeOK, NEW o, ntf' = CancelRepeats(ntf, o)
  PROVE  RowsEvolve /\ RepeatsEnd(o)
<1>1. /\ ntf \in Seq(Notification) /\ ntf' \in Seq(Notification)
      /\ Len(ntf') = Len(ntf)
  BY CancelRepeatsType DEF StoreTypeOK
<1>2. "cancelled" \in NotificationStatus /\ NoAttempt \in Int
  BY DEF NotificationStatus, NoAttempt
<1>3. ASSUME NEW n \in DOMAIN ntf
      PROVE  /\ RowEvolves(ntf[n], ntf'[n])
             /\ ntf'[n].occ = o /\ ntf'[n].kind = "repeat" => ntf'[n].status # "pending"
  <2>1. ntf[n] \in Notification
    BY <1>1, RowType
  <2>2. CASE ntf[n].occ = o /\ ntf[n].kind = "repeat" /\ ntf[n].status = "pending"
    <3>1. ntf'[n] = Settled(ntf[n], "cancelled", NoAttempt)
      BY <2>2, Zenon DEF CancelRepeats, Settled
    <3> QED
      BY <1>2, <2>1, <2>2, <3>1, SettledType, SettledEvolves
  <2>3. CASE ~ (ntf[n].occ = o /\ ntf[n].kind = "repeat" /\ ntf[n].status = "pending")
    <3>1. ntf'[n] = ntf[n]
      BY <2>3, Zenon DEF CancelRepeats
    <3> QED
      BY <2>1, <2>3, <3>1, SameEvolves
  <2> QED
    BY <2>2, <2>3
<1> QED
  BY <1>1, <1>3, RowsEvolved DEF RepeatsEnd

LEMMA CancelPendingEvolves ==
  ASSUME NEW rows \in Seq(Notification), NEW o, NEW n \in DOMAIN rows
  PROVE  /\ RowEvolves(rows[n], CancelPending(rows, o)[n])
         /\ rows[n].occ = o => CancelPending(rows, o)[n].status # "pending"
         /\ CancelPending(rows, o)[n].kind = rows[n].kind
         /\ CancelPending(rows, o)[n].occ = rows[n].occ
<1>1. "cancelled" \in NotificationStatus /\ NoAttempt \in Int
  BY DEF NotificationStatus, NoAttempt
<1>2. rows[n] \in Notification
  BY RowType
<1>3. CASE rows[n].occ = o /\ rows[n].status = "pending"
  <2>1. CancelPending(rows, o)[n] = Settled(rows[n], "cancelled", NoAttempt)
    BY <1>3, Zenon DEF CancelPending, Settled
  <2>2. RowEvolves(rows[n], Settled(rows[n], "cancelled", NoAttempt))
    BY <1>1, <1>2, <1>3, SettledEvolves
  <2>3. Settled(rows[n], "cancelled", NoAttempt).status = "cancelled"
    BY <1>1, <1>2, SettledType
  <2> QED
    BY <2>1, <2>2, <2>3 DEF RowEvolves
<1>4. CASE ~ (rows[n].occ = o /\ rows[n].status = "pending")
  <2>1. CancelPending(rows, o)[n] = rows[n]
    BY <1>4, Zenon DEF CancelPending
  <2> QED
    BY <1>2, <1>4, <2>1, SameEvolves
<1> QED
  BY <1>3, <1>4

LEMMA UpsertedEvolves ==
  ASSUME NEW rows \in Seq(Notification), NEW plan \in SUBSET Slot,
         NEW new \in Upserted(rows, plan)
  PROVE  /\ new \in Seq(Notification) /\ Len(rows) <= Len(new)
         /\ \A n \in DOMAIN rows : n \in DOMAIN new /\ RowEvolves(rows[n], new[n])
         /\ \A n \in DOMAIN new \ DOMAIN rows :
              HasAttempts(new[n]) /\ new[n].kind # "repeat"
<1>1. new \in Seq(Notification) /\ Len(rows) <= Len(new)
  BY UpsertedRows
<1>2. \A k \in PlanKeys(plan) : k.kind # "repeat"
  BY PlanKeysType
<1>3. ASSUME NEW n \in DOMAIN rows
      PROVE  n \in DOMAIN new /\ RowEvolves(rows[n], new[n])
  <2>1. n \in DOMAIN new
    <3>1. /\ DOMAIN rows = 1 .. Len(rows) /\ Len(rows) \in Nat
          /\ DOMAIN new = 1 .. Len(new) /\ Len(new) \in Nat
      BY <1>1, LenProperties
    <3> QED
      BY <1>1, <3>1
  <2>2. rows[n] \in Notification
    BY RowType
  <2>3. CASE new[n] = rows[n]
    BY <2>1, <2>2, <2>3, SameEvolves
  <2>4. CASE /\ rows[n].status = "cancelled" /\ KeyOf(rows[n]) \in PlanKeys(plan)
             /\ new[n] = Revived(rows[n])
    <3>1. rows[n].kind # "repeat"
      BY <1>2, <2>4 DEF KeyOf
    <3> QED
      BY <2>1, <2>2, <2>4, <3>1, RevivedEvolves
  <2> QED
    BY <2>3, <2>4, UpsertedRows
<1>4. ASSUME NEW n \in DOMAIN new \ DOMAIN rows
      PROVE  HasAttempts(new[n]) /\ new[n].kind # "repeat"
  <2>1. PICK k \in PlanKeys(plan) : new[n] = NewRow(k.occ, k.kind, k.fire, FALSE)
    BY UpsertedRows
  <2>2. NewRow(k.occ, k.kind, k.fire, FALSE).kind = k.kind
    BY DEF NewRow
  <2> QED
    BY <1>2, <2>1, <2>2, NewRowHasAttempts
<1> QED
  BY <1>1, <1>3, <1>4

\* Reactions that only stop the repeats of one occurrence.
LEMMA AcknowledgementEvolves ==
  ASSUME TypeOK, NEW o \in Slot, UNCHANGED deliveryVars,
         ntf' = CancelRepeats(ntf, o), stopped' = stopped \cup {o},
         ctx' \in {ctx, NoContext},
         UNCHANGED <<clock, quiet, occ, anchor, ledger, rec>>
  PROVE  RowsEvolve /\ TypeOK' /\ RepeatsEnd(o)
<1>1. StoreTypeOK
  BY DEF TypeOK
<1>2. RowsEvolve /\ RepeatsEnd(o) /\ RowsGrow
  BY <1>1, CancelRepeatsEvolves DEF RowsEvolve
<1>3. ctx' \in [n : 0 .. Len(ntf'), exp : Int]
  BY <1>2, ContextKeeps
<1>4. TypeOK'
  BY <1>1, <1>2, <1>3, StepOutsideDelivery DEF StoreTypeOK
<1> QED
  BY <1>2, <1>4

\* Reactions that withdraw what is left of an occurrence's plan, and may bring
\* other signals: what they share, for the rows they leave.
LEMMA WithdrawalEvolves ==
  ASSUME TypeOK, NEW o, ntf' \in Seq(Notification), Len(ntf) <= Len(ntf'),
         \A n \in DOMAIN ntf : RowEvolves(CancelPending(ntf, o)[n], ntf'[n]),
         \A n \in DOMAIN ntf' \ DOMAIN ntf :
           HasAttempts(ntf'[n]) /\ ntf'[n].kind # "repeat"
  PROVE  RowsEvolve /\ RepeatsEnd(o)
<1>1. /\ ntf \in Seq(Notification) /\ CancelPending(ntf, o) \in Seq(Notification)
      /\ DOMAIN ntf = DOMAIN CancelPending(ntf, o)
  BY CancelPendingType DEF TypeOK, StoreTypeOK, CancelPending
<1>2. RowsGrow
  BY DEF RowsGrow
<1>3. ASSUME NEW n \in DOMAIN ntf
      PROVE  /\ RowEvolves(ntf[n], ntf'[n])
             /\ ntf'[n].occ = o /\ ntf'[n].kind = "repeat" => ntf'[n].status # "pending"
  <2>1. n \in DOMAIN ntf'
    BY <1>2, GrownDomain DEF TypeOK
  <2>2. /\ ntf[n] \in Notification /\ CancelPending(ntf, o)[n] \in Notification
        /\ ntf'[n] \in Notification
    BY <1>1, <2>1, RowType
  <2>3. /\ RowEvolves(ntf[n], CancelPending(ntf, o)[n])
        /\ ntf[n].occ = o => CancelPending(ntf, o)[n].status # "pending"
        /\ CancelPending(ntf, o)[n].occ = ntf[n].occ
    BY <1>1, CancelPendingEvolves
  <2>4. RowEvolves(CancelPending(ntf, o)[n], ntf'[n])
    OBVIOUS
  <2>5. RowEvolves(ntf[n], ntf'[n])
    BY <2>2, <2>3, <2>4, EvolvesOn
  <2>6. ntf'[n].occ = o /\ ntf'[n].kind = "repeat" => ntf'[n].status # "pending"
    BY <2>3, <2>4 DEF RowEvolves
  <2> QED
    BY <2>5, <2>6
<1> QED
  BY <1>2, <1>3 DEF RowsEvolve, RepeatsEnd

LEMMA CloseEvolves ==
  ASSUME TypeOK, NEW n \in DOMAIN ntf, NEW intent \in ReactionAction,
         NEW status \in OccurrenceStatus, Close(n, intent, status), UNCHANGED deliveryVars
  PROVE  RowsEvolve /\ TypeOK' /\ \A o \in stopped' \ stopped : RepeatsEnd(o)
<1> DEFINE o == ntf[n].occ
           rows == CancelPending(ntf, o)
<1>1. StoreTypeOK /\ ntf \in Seq(Notification) /\ n \in Nat
  BY LenProperties DEF TypeOK, StoreTypeOK
<1>2. o \in Slot /\ rows \in Seq(Notification) /\ Len(rows) = Len(ntf) /\ Len(ntf) \in Nat
  BY <1>1, RowType, CancelPendingType, LenProperties
<1>3. RowsEvolve /\ \A p \in stopped' \ stopped : RepeatsEnd(p)
  <2>1. CASE UNCHANGED <<occ, ntf, ctx, stopped>>
    BY <1>1, <2>1, RowsSame
  <2>2. CASE ntf' = rows /\ Withdraw(o)
    <3>1. \A m \in DOMAIN ntf : RowEvolves(rows[m], ntf'[m])
      <4>1. DOMAIN rows = DOMAIN ntf
        BY DEF CancelPending
      <4> QED
        BY <1>2, <2>2, <4>1, RowType, SameEvolves
    <3>2. DOMAIN ntf' = DOMAIN ntf
      BY <2>2 DEF CancelPending
    <3>3. RowsEvolve /\ RepeatsEnd(o)
      BY <1>2, <2>2, <3>1, <3>2, WithdrawalEvolves
    <3> QED
      BY <2>2, <3>3 DEF Withdraw
  <2> QED
    BY <2>1, <2>2 DEF Close
<1>4. RowsGrow
  BY <1>3 DEF RowsEvolve
<1>5. ctx' \in [n : 0 .. Len(ntf'), exp : Int]
  <2>1. ctx' = ctx \/ ctx' = NoContext
    BY DEF Close, Withdraw, ContextWithout
  <2> QED
    BY <1>4, <2>1, ContextKeeps
<1>6. /\ occ' \in [Slot -> OccurrenceStatus \cup {"none"}] /\ stopped' \in SUBSET Slot
  BY <1>1, <1>2 DEF Close, Withdraw, StoreTypeOK
<1>7. ledger' \in SUBSET LedgerRecord
  BY <1>1, 0 \in Nat DEF Close, Record, StoreTypeOK, LedgerRecord
<1>8. UNCHANGED <<clock, quiet, anchor, rec>>
  BY DEF Close
<1> HIDE DEF o, rows
<1>9. TypeOK'
  BY <1>1, <1>4, <1>5, <1>6, <1>7, <1>8, StepOutsideDelivery DEF StoreTypeOK
<1> QED
  BY <1>3, <1>9

LEMMA SnoozeEvolves ==
  ASSUME TypeOK, NEW n \in DOMAIN ntf, Snooze(n), UNCHANGED deliveryVars
  PROVE  RowsEvolve /\ TypeOK' /\ \A o \in stopped' \ stopped : RepeatsEnd(o)
<1> DEFINE o == ntf[n].occ
           target == SnoozeTarget(o)
           rows == CancelPending(ntf, o)
           new == NewRow(o, "main", target, FALSE)
<1>1. /\ StoreTypeOK /\ ntf \in Seq(Notification) /\ n \in Nat /\ Len(ntf) \in Nat
      /\ clock \in Nat
  BY LenProperties, StoreAssumption DEF TypeOK, StoreTypeOK
<1>2. /\ o \in Slot /\ rows \in Seq(Notification) /\ Len(rows) = Len(ntf)
      /\ DOMAIN rows = DOMAIN ntf
  BY <1>1, RowType, CancelPendingType DEF CancelPending
<1>3. new \in Notification
  <2>1. target \in Int
    BY <1>1, ReactionsAssumption DEF SnoozeTarget
  <2> QED
    BY <1>2, <2>1, NewRowType DEF NotificationKind
<1>4. \A m \in DOMAIN ntf : rows[m] \in Notification /\ RowEvolves(rows[m], rows[m])
  BY <1>2, RowType, SameEvolves
<1> HIDE DEF target, rows
<1>5. /\ ntf' \in Seq(Notification) /\ Len(ntf) <= Len(ntf')
      /\ \A m \in DOMAIN ntf : RowEvolves(rows[m], ntf'[m])
      /\ \A m \in DOMAIN ntf' \ DOMAIN ntf : HasAttempts(ntf'[m]) /\ ntf'[m].kind # "repeat"
      /\ \E made \in Nat : Record(n, "snooze", made)
  <2>1. CASE ntf' = Append(rows, new) /\ Record(n, "snooze", Len(ntf) + 1)
    <3>1. HasAttempts(new) /\ new.kind # "repeat"
      BY NewRowHasAttempts DEF NewRow
    <3> HIDE DEF new
    <3>2. /\ Append(rows, new) \in Seq(Notification)
          /\ Len(Append(rows, new)) = Len(rows) + 1
          /\ DOMAIN Append(rows, new) = DOMAIN rows \cup {Len(rows) + 1}
          /\ \A m \in DOMAIN rows : Append(rows, new)[m] = rows[m]
          /\ Append(rows, new)[Len(rows) + 1] = new
      BY <1>2, <1>3, RowAppended
    <3>3. Len(ntf) + 1 \in Nat
      BY <1>1
    <3> QED
      BY <1>1, <1>2, <1>4, <2>1, <3>1, <3>2, <3>3
  <2>2. CASE \E m \in RowsOf(o) :
               /\ ntf[m].kind = "main" /\ rows[m].status = "cancelled"
               /\ ntf' = [rows EXCEPT ![m].status = "pending", ![m].next = NoAttempt]
               /\ Record(n, "snooze", m)
    <3>1. PICK m \in RowsOf(o) :
            /\ ntf[m].kind = "main" /\ rows[m].status = "cancelled"
            /\ ntf' = [rows EXCEPT ![m].status = "pending", ![m].next = NoAttempt]
            /\ Record(n, "snooze", m)
      BY <2>2
    <3> DEFINE row == Settled(rows[m], "pending", NoAttempt)
    <3>2. m \in DOMAIN ntf /\ m \in Nat
      <4>1. m \in DOMAIN ntf
        BY DEF RowsOf
      <4> QED
        BY <1>1, <4>1, LenProperties
    <3>3. ntf' = [rows EXCEPT ![m] = row]
      BY <3>1 DEF Settled
    <3>4. rows[m].kind = "main"
      BY <1>1, <3>1, <3>2, CancelPendingEvolves DEF rows
    <3>5. row \in Notification /\ RowEvolves(rows[m], row)
      <4>1. "pending" \in NotificationStatus /\ NoAttempt \in Int
        BY DEF NotificationStatus, NoAttempt
      <4> QED
        BY <1>4, <3>1, <3>2, <3>4, <4>1, SettledType, SettledEvolves
    <3> HIDE DEF row
    <3>6. /\ [rows EXCEPT ![m] = row] \in Seq(Notification)
          /\ Len([rows EXCEPT ![m] = row]) = Len(rows)
          /\ DOMAIN [rows EXCEPT ![m] = row] = DOMAIN rows
          /\ \A k \in DOMAIN rows :
               [rows EXCEPT ![m] = row][k] = IF k = m THEN row ELSE rows[k]
      BY <1>2, <3>2, <3>5, RowSet
    <3>7. ntf' \in Seq(Notification) /\ Len(ntf) <= Len(ntf') /\ DOMAIN ntf' = DOMAIN ntf
      BY <1>1, <1>2, <3>3, <3>6
    <3>8. \A k \in DOMAIN ntf : RowEvolves(rows[k], ntf'[k])
      BY <1>2, <1>4, <3>3, <3>5, <3>6
    <3>9. \E made \in Nat : Record(n, "snooze", made)
      BY <3>1, <3>2
    <3> QED
      BY <3>7, <3>8, <3>9
  <2> QED
    BY <2>1, <2>2 DEF Snooze, target, rows
<1>6. RowsEvolve /\ RepeatsEnd(o) /\ RowsGrow
  <2>1. RowsEvolve /\ RepeatsEnd(o)
    BY <1>5, WithdrawalEvolves DEF rows
  <2> QED
    BY <2>1 DEF RowsEvolve
<1>7. ctx' \in [n : 0 .. Len(ntf'), exp : Int]
  <2>1. ctx' = ctx \/ ctx' = NoContext
    BY DEF Snooze, Withdraw, ContextWithout
  <2> QED
    BY <1>6, <2>1, ContextKeeps
<1>8. /\ occ' \in [Slot -> OccurrenceStatus \cup {"none"}] /\ stopped' \in SUBSET Slot
      /\ stopped' = stopped \cup {o}
  BY <1>1, <1>2 DEF Snooze, Withdraw, StoreTypeOK, OccurrenceStatus
<1>9. ledger' \in SUBSET LedgerRecord
  <2>1. PICK made \in Nat : Record(n, "snooze", made)
    BY <1>5
  <2>2. [src |-> n, intent |-> "snooze", made |-> made] \in LedgerRecord
    BY <1>1 DEF LedgerRecord, ReactionAction
  <2> QED
    BY <1>1, <2>1, <2>2 DEF Record, StoreTypeOK
<1>10. UNCHANGED <<clock, quiet, anchor, rec>>
  BY DEF Snooze
<1>11. TypeOK'
  BY <1>1, <1>6, <1>7, <1>8, <1>9, <1>10, StepOutsideDelivery DEF StoreTypeOK
<1> QED
  BY <1>6, <1>8, <1>11

LEMMA MoveEvolves ==
  ASSUME TypeOK, NEW n \in DOMAIN ntf, NEW target \in Slot, MoveTo(n, target),
         UNCHANGED deliveryVars
  PROVE  RowsEvolve /\ TypeOK' /\ \A o \in stopped' \ stopped : RepeatsEnd(o)
<1> DEFINE o == ntf[n].occ
           rows == CancelPending(ntf, o)
<1>1. StoreTypeOK /\ ntf \in Seq(Notification) /\ n \in Nat
  BY LenProperties DEF TypeOK, StoreTypeOK
<1>2. /\ o \in Slot /\ rows \in Seq(Notification) /\ Len(rows) = Len(ntf)
      /\ DOMAIN rows = DOMAIN ntf
  BY <1>1, RowType, CancelPendingType DEF CancelPending
<1>3. ntf' \in Upserted(rows, {target})
  BY DEF MoveTo
<1> HIDE DEF rows
<1>4. /\ ntf' \in Seq(Notification) /\ Len(ntf) <= Len(ntf')
      /\ \A m \in DOMAIN ntf : RowEvolves(rows[m], ntf'[m])
      /\ \A m \in DOMAIN ntf' \ DOMAIN ntf : HasAttempts(ntf'[m]) /\ ntf'[m].kind # "repeat"
  <2>1. {target} \in SUBSET Slot
    OBVIOUS
  <2> QED
    BY <1>2, <1>3, <2>1, UpsertedEvolves
<1>5. RowsEvolve /\ RepeatsEnd(o) /\ RowsGrow
  <2>1. RowsEvolve /\ RepeatsEnd(o)
    BY <1>4, WithdrawalEvolves DEF rows
  <2> QED
    BY <2>1 DEF RowsEvolve
<1>6. ctx' \in [n : 0 .. Len(ntf'), exp : Int]
  <2>1. ctx' = ctx \/ ctx' = NoContext
    BY DEF MoveTo, Withdraw, ContextWithout
  <2> QED
    BY <1>5, <2>1, ContextKeeps
<1>7. /\ occ' \in [Slot -> OccurrenceStatus \cup {"none"}] /\ stopped' \in SUBSET Slot
      /\ stopped' = stopped \cup {o} /\ anchor' \in [Entry -> Slot]
  <2>1. EntryOf[o] \in Entry
    BY <1>2, StoreAssumption
  <2>2. anchor' \in [Entry -> Slot]
    BY <1>1, <2>1 DEF MoveTo, StoreTypeOK
  <2>3. occ' \in [Slot -> OccurrenceStatus \cup {"none"}]
    BY <1>1, <1>2 DEF MoveTo, StoreTypeOK, OccurrenceStatus
  <2> QED
    BY <1>1, <1>2, <2>2, <2>3 DEF MoveTo, Withdraw, StoreTypeOK
<1>8. ledger' \in SUBSET LedgerRecord
  <2>1. [src |-> n, intent |-> "move", made |-> 0] \in LedgerRecord
    BY <1>1 DEF LedgerRecord, ReactionAction
  <2> QED
    BY <1>1, <2>1 DEF MoveTo, Record, StoreTypeOK
<1>9. UNCHANGED <<clock, quiet, rec>>
  BY DEF MoveTo
<1>10. TypeOK'
  BY <1>1, <1>5, <1>6, <1>7, <1>8, <1>9, StepOutsideDelivery DEF StoreTypeOK
<1> QED
  BY <1>5, <1>7, <1>10

LEMMA SkipOccurrenceEvolves ==
  ASSUME TypeOK, NEW o \in Slot, SkipOccurrence(o), UNCHANGED deliveryVars
  PROVE  RowsEvolve /\ TypeOK'
<1>1. StoreTypeOK /\ ntf \in Seq(Notification)
  BY DEF TypeOK, StoreTypeOK
<1>2. ASSUME NEW n \in DOMAIN ntf
      PROVE  ntf'[n] \in Notification /\ RowEvolves(ntf[n], ntf'[n])
  <2>1. ntf[n] \in Notification
    BY <1>1, RowType
  <2>2. CASE ntf[n].occ = o /\ Pending(n)
    <3> DEFINE row == [ntf[n] EXCEPT !.status = "cancelled"]
    <3>1. ntf'[n] = row
      BY <2>2, Zenon DEF SkipOccurrence
    <3>2. /\ "cancelled" \in NotificationStatus /\ ntf[n].fire \in Int
          /\ ntf[n].fire >= ntf[n].fire /\ 0 \in Int
      BY <2>1 DEF NotificationStatus, Notification
    <3>3. row \in Notification /\ RowEvolves(ntf[n], row)
      BY <2>1, <2>2, <3>2, ClaimedEvolves DEF Pending
    <3> QED
      BY <3>1, <3>3
  <2>3. CASE ~ (ntf[n].occ = o /\ Pending(n))
    <3>1. ntf'[n] = ntf[n]
      BY <2>3, Zenon DEF SkipOccurrence
    <3> QED
      BY <2>1, <3>1, SameEvolves
  <2> QED
    BY <2>2, <2>3
<1>3. ntf' \in Seq(Notification) /\ Len(ntf') = Len(ntf)
  <2>1. ntf' \in [DOMAIN ntf -> Notification]
    BY <1>2 DEF SkipOccurrence
  <2> QED
    BY <1>1, <2>1, RowsUpdated
<1>4. RowsEvolve /\ RowsGrow
  BY <1>1, <1>2, <1>3, RowsEvolved DEF RowsEvolve
<1>5. ctx' \in [n : 0 .. Len(ntf'), exp : Int]
  <2>1. ctx' = ctx \/ ctx' = NoContext
    BY DEF SkipOccurrence, ContextWithout
  <2> QED
    BY <1>4, <2>1, ContextKeeps
<1>6. occ' \in [Slot -> OccurrenceStatus \cup {"none"}]
  BY <1>1 DEF SkipOccurrence, StoreTypeOK, OccurrenceStatus
<1>7. UNCHANGED <<clock, quiet, anchor, stopped, ledger, rec>>
  BY DEF SkipOccurrence
<1> QED
  BY <1>1, <1>4, <1>5, <1>6, <1>7, StepOutsideDelivery DEF StoreTypeOK

LEMMA ReactionsEvolve ==
  ASSUME TypeOK, ReactionsNext, UNCHANGED deliveryVars
  PROVE  RowsEvolve /\ TypeOK' /\ \A o \in stopped' \ stopped : RepeatsEnd(o)
<1>1. StoreTypeOK /\ ntf \in Seq(Notification)
  BY DEF TypeOK, StoreTypeOK
<1>2. \A n \in DOMAIN ntf : ntf[n].occ \in Slot /\ n \in Nat
  BY <1>1, RowType, LenProperties
<1>3. ASSUME NEW o \in Slot, Acknowledge(o)
      PROVE  RowsEvolve /\ TypeOK' /\ \A p \in stopped' \ stopped : RepeatsEnd(p)
  <2>1. /\ ntf' = CancelRepeats(ntf, o) /\ stopped' = stopped \cup {o}
        /\ ctx' \in {ctx, NoContext} /\ UNCHANGED <<clock, quiet, occ, anchor, ledger, rec>>
    BY <1>3 DEF Acknowledge, ContextWithout
  <2> QED
    BY <2>1, AcknowledgementEvolves
<1>4. ASSUME NEW o \in Slot, SkipOccurrence(o)
      PROVE  RowsEvolve /\ TypeOK' /\ \A p \in stopped' \ stopped : RepeatsEnd(p)
  <2>1. stopped' = stopped
    BY <1>4 DEF SkipOccurrence
  <2> QED
    BY <1>4, <2>1, SkipOccurrenceEvolves
<1>5. ASSUME ReactToMessage
      PROVE  RowsEvolve /\ TypeOK' /\ \A p \in stopped' \ stopped : RepeatsEnd(p)
  <2>1. /\ ctx' \in {ctx, NoContext}
        /\ UNCHANGED <<clock, quiet, occ, anchor, ledger, rec>>
    BY <1>5 DEF ReactToMessage
  <2>2. CASE UNCHANGED <<ntf, stopped>>
    <3>1. RowsEvolve /\ RowsGrow
      BY <1>1, <2>2, RowsSame DEF RowsEvolve
    <3>2. ctx' \in [n : 0 .. Len(ntf'), exp : Int]
      BY <2>1, <3>1, ContextKeeps
    <3>3. TypeOK'
      BY <1>1, <2>1, <2>2, <3>1, <3>2, StepOutsideDelivery DEF StoreTypeOK
    <3> QED
      BY <2>2, <3>1, <3>3
  <2>3. CASE /\ ntf' = CancelRepeats(ntf, ntf[ctx.n].occ)
             /\ stopped' = stopped \cup {ntf[ctx.n].occ}
    <3>1. ctx.n \in DOMAIN ntf
      <4>1. ctx.n \in 1 .. Len(ntf)
        <5>1. ctx.n \in 0 .. Len(ntf) /\ ctx.n # 0 /\ Len(ntf) \in Nat
          BY <1>1, <1>5, LenProperties DEF StoreTypeOK, ReactToMessage
        <5> QED
          BY <5>1
      <4> QED
        BY <1>1, <4>1, LenProperties
    <3> QED
      BY <1>2, <2>1, <2>3, <3>1, AcknowledgementEvolves
  <2> QED
    BY <1>5, <2>2, <2>3 DEF ReactToMessage
<1>6. ASSUME NEW n \in DOMAIN ntf, ReactToNotification(n) \/ PreviewMove(n)
      PROVE  RowsEvolve /\ TypeOK' /\ \A p \in stopped' \ stopped : RepeatsEnd(p)
  <2>1. /\ ntf' = CancelRepeats(ntf, ntf[n].occ) /\ stopped' = stopped \cup {ntf[n].occ}
        /\ ctx' \in {ctx, NoContext} /\ UNCHANGED <<clock, quiet, occ, anchor, ledger, rec>>
    BY <1>6 DEF ReactToNotification, PreviewMove, ContextWithout
  <2> QED
    BY <1>2, <2>1, AcknowledgementEvolves
<1>7. ASSUME NEW n \in DOMAIN ntf, Complete(n) \/ SkipFromNotification(n)
      PROVE  RowsEvolve /\ TypeOK' /\ \A p \in stopped' \ stopped : RepeatsEnd(p)
  <2>1. /\ "complete" \in ReactionAction /\ "skip" \in ReactionAction
        /\ "done" \in OccurrenceStatus /\ "skipped" \in OccurrenceStatus
    BY DEF ReactionAction, OccurrenceStatus
  <2> QED
    BY <1>7, <2>1, CloseEvolves DEF Complete, SkipFromNotification
<1>8. ASSUME UpdateQuietHours
      PROVE  RowsEvolve /\ TypeOK' /\ \A p \in stopped' \ stopped : RepeatsEnd(p)
  <2>1. quiet' \in Quiet /\ UNCHANGED <<clock, occ, anchor, ntf, ctx, stopped, ledger, rec>>
    BY <1>8, StoreAssumption DEF UpdateQuietHours
  <2>2. RowsEvolve /\ RowsGrow
    BY <1>1, <2>1, RowsSame DEF RowsEvolve
  <2>3. ctx' \in [n : 0 .. Len(ntf'), exp : Int]
    BY <2>1, <2>2, ContextKeeps
  <2>4. TypeOK'
    BY <1>1, <2>1, <2>2, <2>3, StepOutsideDelivery DEF StoreTypeOK
  <2> QED
    BY <2>1, <2>2, <2>4
<1> QED
  BY <1>3, <1>4, <1>5, <1>6, <1>7, <1>8, SnoozeEvolves, MoveEvolves DEF ReactionsNext

LEMMA SchedulingEvolves ==
  ASSUME TypeOK, SchedulingNext, UNCHANGED deliveryVars
  PROVE  RowsEvolve /\ TypeOK' /\ UNCHANGED stopped
<1>1. StoreTypeOK /\ ntf \in Seq(Notification)
  BY DEF TypeOK, StoreTypeOK
<1>2. NoReconcile \in [pc : {"idle", "writing"}, born : SUBSET Slot, plan : SUBSET Slot]
  BY DEF NoReconcile
<1>3. UNCHANGED <<clock, quiet, anchor, ctx, stopped, ledger>>
  BY DEF SchedulingNext, ReconcileRead, ReconcileWrite, ReconcileAbort
<1>4. rec' \in [pc : {"idle", "writing"}, born : SUBSET Slot, plan : SUBSET Slot]
  <2>1. Unfolded \in SUBSET Slot /\ Schedulable \in SUBSET Slot
    BY DEF Unfolded, Schedulable
  <2> QED
    BY <1>2, <2>1 DEF SchedulingNext, ReconcileRead, ReconcileWrite, ReconcileAbort
<1>5. occ' \in [Slot -> OccurrenceStatus \cup {"none"}]
  BY <1>1 DEF SchedulingNext, ReconcileRead, ReconcileWrite, ReconcileAbort, StoreTypeOK,
              OccurrenceStatus
<1>6. RowsEvolve
  <2>1. CASE UNCHANGED ntf
    BY <1>1, <2>1, RowsSame
  <2>2. CASE ntf' \in Upserted(ntf, rec.plan)
    <3>1. rec.plan \in SUBSET Slot
      BY <1>1 DEF StoreTypeOK
    <3> QED
      BY <1>1, <2>2, <3>1, UpsertedEvolves DEF RowsEvolve, RowsGrow
  <2> QED
    BY <2>1, <2>2 DEF SchedulingNext, ReconcileRead, ReconcileWrite, ReconcileAbort
<1>7. RowsGrow
  BY <1>6 DEF RowsEvolve
<1>8. ctx' \in [n : 0 .. Len(ntf'), exp : Int]
  BY <1>3, <1>7, ContextKeeps
<1> QED
  BY <1>1, <1>3, <1>4, <1>5, <1>6, <1>7, <1>8, StepOutsideDelivery DEF StoreTypeOK

-----------------------------------------------------------------------------
(* The whole system. *)

LEMMA InitType ==
  ASSUME Init
  PROVE  TypeOK
<1>1. NoContext \in [n : 0 .. Len(<< >>), exp : Int] /\ << >> \in Seq(Notification)
  BY DEF NoContext
<1>2. NoReconcile \in [pc : {"idle", "writing"}, born : SUBSET Slot, plan : SUBSET Slot]
  BY DEF NoReconcile
<1>3. StoreTypeOK
  BY <1>1, <1>2, StoreAssumption DEF Init, StoreInit, StoreTypeOK
<1>4. IdleWorker \in WorkerState /\ IdleWorker.pc = "idle"
  BY DEF IdleWorker, WorkerState
<1>5. DeliveryTypeOK
  BY <1>4, DeliveryAssumption DEF Init, DeliveryInit, DeliveryTypeOK
<1> QED
  BY <1>3, <1>5 DEF TypeOK

LEMMA StepEvolves ==
  ASSUME TypeOK, [Next]_vars
  PROVE  RowsEvolve /\ TypeOK' /\ \A o \in stopped' \ stopped : RepeatsEnd(o)
<1>1. StoreTypeOK
  BY DEF TypeOK
<1>2. CASE DeliveryNext
  <2>1. PICK w \in Worker : WorkerStep(w) \/ Crash(w)
    BY <1>2 DEF DeliveryNext
  <2>2. UNCHANGED stopped
    BY <2>1 DEF WorkerStep, StartTick, EndTick, SelectCandidate, ClaimLost, ClaimCancel,
                ClaimDuplicate, ClaimPostpone, ClaimMiss, ClaimSend, SendAccepted,
                SendRefused, FinalizeSent, FinalizeFailed, Crash, storeVars
  <2> QED
    BY <2>1, <2>2, IdleStepEvolves, ClaimEvolves, SendAcceptedEvolves,
       FinalizeSentEvolves, FinalizeFailedEvolves DEF WorkerStep
<1>3. CASE ReactionsNext /\ UNCHANGED deliveryVars
  BY <1>3, ReactionsEvolve
<1>4. CASE SchedulingNext /\ UNCHANGED deliveryVars
  BY <1>4, SchedulingEvolves
<1>5. CASE Advance \/ UNCHANGED vars
  <2>1. /\ UNCHANGED <<quiet, occ, anchor, ntf, ctx, stopped, ledger, rec, deliveryVars>>
        /\ clock' \in 0 .. MaxTime
    BY <1>1, <1>5, StoreAssumption DEF Advance, vars, storeVars, StoreTypeOK
  <2>2. RowsEvolve /\ RowsGrow
    BY <1>1, <2>1, RowsSame DEF RowsEvolve
  <2>3. ctx' \in [n : 0 .. Len(ntf'), exp : Int]
    BY <2>1, <2>2, ContextKeeps
  <2> QED
    BY <1>1, <2>1, <2>2, <2>3, StepOutsideDelivery DEF StoreTypeOK
<1> QED
  BY <1>2, <1>3, <1>4, <1>5 DEF Next

\* Every variable keeps its type: no service ever stores a row, a lease, a
\* context or a worker position outside its domain, and a worker's chosen row
\* is one that exists.
THEOREM TypeCorrect == Spec => []TypeOK
<1>1. Init => TypeOK
  BY InitType
<1>2. TypeOK /\ [Next]_vars => TypeOK'
  BY StepEvolves
<1> QED
  BY <1>1, <1>2, PTL DEF Spec

\* AttemptsLeft and ReactionEndsRepeats speak of rows still to be delivered.
\* A cancelled row may become one again, so its attempts have to be bounded
\* too.
RowsInvariant ==
  /\ TypeOK
  /\ \A n \in DOMAIN ntf : HasAttempts(ntf[n])
  /\ ReactionEndsRepeats

LEMMA RowsInvariantHolds == Spec => []RowsInvariant
<1>1. ASSUME Init PROVE RowsInvariant
  <2>1. DOMAIN ntf = {}
    BY <1>1 DEF Init, StoreInit
  <2> QED
    BY <1>1, <2>1, InitType DEF RowsInvariant, ReactionEndsRepeats
<1>2. ASSUME RowsInvariant, [Next]_vars PROVE RowsInvariant'
  <2>1. RowsEvolve /\ TypeOK' /\ \A o \in stopped' \ stopped : RepeatsEnd(o)
    BY <1>2, StepEvolves DEF RowsInvariant
  <2>2. \A n \in DOMAIN ntf' : HasAttempts(ntf'[n])
    BY <1>2, <2>1 DEF RowsInvariant, RowsEvolve, RowEvolves
  <2>3. ASSUME NEW n \in DOMAIN ntf', ntf'[n].occ \in stopped', ntf'[n].kind = "repeat"
        PROVE  ntf'[n].status # "pending"
    <3>1. CASE n \notin DOMAIN ntf
      BY <2>1, <2>3, <3>1 DEF RowsEvolve, FreshRepeat
    <3>2. CASE ntf'[n].occ \notin stopped
      BY <2>1, <2>3, <3>2 DEF RepeatsEnd
    <3>3. CASE n \in DOMAIN ntf /\ ntf'[n].occ \in stopped
      <4>1. RowEvolves(ntf[n], ntf'[n])
        BY <2>1, <3>3 DEF RowsEvolve
      <4>2. ntf[n].status # "pending"
        BY <1>2, <2>3, <3>3, <4>1 DEF RowsInvariant, ReactionEndsRepeats, RowEvolves, Pending
      <4> QED
        BY <2>3, <4>1, <4>2 DEF RowEvolves
    <3> QED
      BY <3>1, <3>2, <3>3
  <2> QED
    BY <2>1, <2>2, <2>3 DEF RowsInvariant, ReactionEndsRepeats, Pending
<1> QED
  BY <1>1, <1>2, PTL DEF Spec

\* However retries, reactivations by the plan, snoozes and other workers
\* interleave, no notification is tried more often than the policy allows,
\* and one that is still to be tried has an attempt left.
THEOREM AttemptsAlwaysLeft == Spec => []AttemptsLeft
<1>1. RowsInvariant => AttemptsLeft
  BY DEF RowsInvariant, AttemptsLeft, HasAttempts, Pending
<1> QED
  BY <1>1, RowsInvariantHolds, PTL

\* After the owner has reacted to an occurrence there is never a repeat of it
\* left to claim, though a worker may be recording a success just then.
THEOREM ReactionAlwaysEndsRepeats == Spec => []ReactionEndsRepeats
<1>1. RowsInvariant => ReactionEndsRepeats
  BY DEF RowsInvariant
<1> QED
  BY <1>1, RowsInvariantHolds, PTL

\* The repeats of an occurrence after a step: those it had, and at most one.
LEMMA RepeatsGrow ==
  ASSUME TypeOK, RowsEvolve, NEW o \in Slot, Cardinality(Repeats(o)) <= MaxRepeats
  PROVE  Cardinality(Repeats(o)') <= MaxRepeats
<1>1. /\ ntf \in Seq(Notification) /\ DOMAIN ntf \subseteq DOMAIN ntf'
      /\ MaxRepeats \in Nat
  BY GrownDomain, DeliveryAssumption DEF TypeOK, StoreTypeOK, RowsEvolve
<1>2. IsFiniteSet(Repeats(o)) /\ Cardinality(Repeats(o)) \in Nat
  <2>1. IsFiniteSet(DOMAIN ntf)
    <3>1. DOMAIN ntf = 1 .. Len(ntf) /\ Len(ntf) \in Nat
      BY <1>1, LenProperties
    <3> QED
      BY <3>1, FS_Interval
  <2>2. Repeats(o) \in SUBSET DOMAIN ntf
    BY DEF Repeats, RowsOf
  <2> QED
    BY <2>1, <2>2, FS_Subset, FS_CardinalityType
<1>3. \A n \in DOMAIN ntf : n \in Repeats(o)' <=> n \in Repeats(o)
  BY <1>1 DEF Repeats, RowsOf, RowsEvolve, RowEvolves
<1>4. CASE Repeats(o)' \subseteq DOMAIN ntf
  <2>1. Repeats(o)' = Repeats(o)
    BY <1>3, <1>4 DEF Repeats, RowsOf
  <2> QED
    BY <2>1
<1>5. CASE ~ (Repeats(o)' \subseteq DOMAIN ntf)
  <2>1. PICK n \in Repeats(o)' : n \notin DOMAIN ntf
    BY <1>5
  <2>2. n \in DOMAIN ntf' \ DOMAIN ntf /\ ntf'[n].occ = o /\ ntf'[n].kind = "repeat"
    BY <2>1 DEF Repeats, RowsOf
  <2>3. Len(ntf') = Len(ntf) + 1 /\ Cardinality(Repeats(o)) < MaxRepeats
    BY <2>2 DEF RowsEvolve, FreshRepeat
  <2>4. DOMAIN ntf' = DOMAIN ntf \cup {n}
    <3>1. /\ DOMAIN ntf = 1 .. Len(ntf) /\ Len(ntf) \in Nat
          /\ DOMAIN ntf' = 1 .. Len(ntf')
      BY <1>1, LenProperties DEF RowsEvolve, RowsGrow
    <3> QED
      BY <2>2, <2>3, <3>1
  <2>5. Repeats(o)' = Repeats(o) \cup {n} /\ n \notin Repeats(o)
    BY <1>3, <2>1, <2>2, <2>4 DEF Repeats, RowsOf
  <2>6. Cardinality(Repeats(o) \cup {n}) = Cardinality(Repeats(o)) + 1
    BY <1>2, <2>5, FS_AddElement
  <2> QED
    BY <1>1, <1>2, <2>3, <2>5, <2>6
<1> QED
  BY <1>4, <1>5

\* However many workers record a success for an occurrence, and whatever became
\* of the repeats it was given before, it never gets more of them than the
\* policy allows.
THEOREM RepeatsStayBounded == Spec => []RepeatsBounded
<1>1. ASSUME Init PROVE RepeatsBounded
  <2>1. \A o \in Slot : Repeats(o) = {}
    BY <1>1 DEF Init, StoreInit, Repeats, RowsOf
  <2> QED
    BY <2>1, FS_EmptySet, DeliveryAssumption DEF RepeatsBounded
<1>2. ASSUME TypeOK, RepeatsBounded, [Next]_vars PROVE RepeatsBounded'
  <2>1. RowsEvolve
    BY <1>2, StepEvolves
  <2>2. \A o \in Slot : Cardinality(Repeats(o)') <= MaxRepeats
    BY <1>2, <2>1, RepeatsGrow DEF RepeatsBounded
  <2> QED
    BY <2>2 DEF RepeatsBounded
<1> QED
  BY <1>1, <1>2, TypeCorrect, PTL DEF Spec

\* A delivery once recorded is never undone or moved, by whatever service.
THEOREM SentStaysSent == Spec => SentIsFinal
<1>1. ASSUME TypeOK, [Next]_vars
      PROVE  [\A n \in DOMAIN ntf :
                ntf[n].status = "sent" =>
                  ntf'[n].status = "sent" /\ KeyOf(ntf'[n]) = KeyOf(ntf[n])]_ntf
  <2>1. \A n \in DOMAIN ntf : RowEvolves(ntf[n], ntf'[n])
    BY <1>1, StepEvolves DEF RowsEvolve
  <2> QED
    BY <2>1 DEF RowEvolves, KeyOf
<1> QED
  BY <1>1, TypeCorrect, PTL DEF Spec, SentIsFinal

\* Quiet hours only put a notification off, whatever zone and interval they
\* are computed in and however often the owner edits them.
THEOREM RowsAlwaysMoveLater == Spec => RowsOnlyMoveLater
<1>1. ASSUME TypeOK, [Next]_vars
      PROVE  [\A n \in DOMAIN ntf :
                /\ n \in DOMAIN ntf'
                /\ ntf'[n].occ = ntf[n].occ /\ ntf'[n].kind = ntf[n].kind
                /\ ntf'[n].fire >= ntf[n].fire]_ntf
  <2>1. RowsGrow /\ \A n \in DOMAIN ntf : RowEvolves(ntf[n], ntf'[n])
    BY <1>1, StepEvolves DEF RowsEvolve
  <2>2. DOMAIN ntf \subseteq DOMAIN ntf'
    BY <1>1, <2>1, GrownDomain DEF TypeOK
  <2> QED
    BY <2>1, <2>2 DEF RowEvolves
<1> QED
  BY <1>1, TypeCorrect, PTL DEF Spec, RowsOnlyMoveLater

-----------------------------------------------------------------------------
(* Occurrences. *)

\* What a reconciliation found unborn is unborn when it writes: user_settings
\* keeps moves, the only other source of occurrences, out of the gap.
BornIsUnborn ==
  /\ rec.pc = "idle" => rec.born = {}
  /\ \A o \in rec.born : occ[o] = "none"

OccurrenceKept(o) ==
  (Closed(o) => occ'[o] = occ[o]) /\ (occ[o] # "none" => occ'[o] # "none")

\* One slot of the occurrences changes, and was open or unborn.
LEMMA OneOccurrence ==
  ASSUME TypeOK, BornIsUnborn, UNCHANGED rec, NEW o \in Slot, NEW status,
         occ' = [occ EXCEPT ![o] = status], status # "none",
         ~ Closed(o), occ[o] # "none"
  PROVE  BornIsUnborn' /\ \A p \in Slot : OccurrenceKept(p)
<1>1. occ \in [Slot -> OccurrenceStatus \cup {"none"}] /\ rec.born \in SUBSET Slot
  BY DEF TypeOK, StoreTypeOK
<1> QED
  BY <1>1 DEF BornIsUnborn, OccurrenceKept, Closed

LEMMA OccurrencesKept ==
  ASSUME TypeOK, BornIsUnborn, [Next]_vars
  PROVE  BornIsUnborn' /\ \A o \in Slot : OccurrenceKept(o)
<1>1. /\ occ \in [Slot -> OccurrenceStatus \cup {"none"}] /\ ntf \in Seq(Notification)
      /\ rec.born \in SUBSET Slot
  BY DEF TypeOK, StoreTypeOK
<1>2. CASE UNCHANGED <<occ, rec>>
  BY <1>2 DEF BornIsUnborn, OccurrenceKept
<1>3. CASE DeliveryNext
  <2>1. PICK w \in Worker : WorkerStep(w) \/ Crash(w)
    BY <1>3 DEF DeliveryNext
  <2>2. CASE ClaimMiss(w)
    <3> DEFINE n == wk[w].n
    <3>1. /\ wk[w].pc = "picked" /\ ~ ClaimCancels(n) /\ UNCHANGED rec
          /\ \/ occ' = [occ EXCEPT ![ntf[n].occ] = "missed"]
             \/ occ' = occ
      BY <2>2 DEF ClaimMiss, Deliverable, Claimable, StillDue
    <3>2. n \in DOMAIN ntf
      BY <3>1, Chosen
    <3>3. ntf[n].occ \in Slot /\ occ[ntf[n].occ] = "pending"
      BY <1>1, <3>1, <3>2, RowType DEF ClaimCancels
    <3> QED
      BY <1>2, <3>1, <3>3, OneOccurrence DEF Closed
  <2>3. CASE ~ ClaimMiss(w)
    BY <1>2, <2>1, <2>3
       DEF WorkerStep, StartTick, EndTick, SelectCandidate, ClaimLost, ClaimCancel,
           ClaimDuplicate, ClaimPostpone, ClaimSend, SendAccepted, SendRefused,
           FinalizeSent, FinalizeFailed, Crash, storeVars
  <2> QED
    BY <2>2, <2>3
<1>4. ASSUME NEW n \in DOMAIN ntf, NEW intent, NEW status \in {"done", "skipped"},
             Close(n, intent, status)
      PROVE  BornIsUnborn' /\ \A o \in Slot : OccurrenceKept(o)
  <2>1. ntf[n].occ \in Slot
    BY <1>1, RowType
  <2> QED
    BY <1>2, <1>4, <2>1, OneOccurrence DEF Close, Actionable, Closed
<1>5. ASSUME NEW n \in DOMAIN ntf, Snooze(n)
      PROVE  BornIsUnborn' /\ \A o \in Slot : OccurrenceKept(o)
  <2>1. ntf[n].occ \in Slot
    BY <1>1, RowType
  <2> QED
    BY <1>5, <2>1, OneOccurrence DEF Snooze, Actionable, Closed
<1>6. ASSUME NEW n \in DOMAIN ntf, NEW target \in Slot, MoveTo(n, target)
      PROVE  BornIsUnborn' /\ \A o \in Slot : OccurrenceKept(o)
  <2>1. ntf[n].occ \in Slot
    BY <1>1, RowType
  <2>2. /\ rec.pc = "idle" /\ UNCHANGED rec
        /\ occ[ntf[n].occ] \in {"pending", "missed"} /\ occ[target] = "none"
        /\ occ' = [occ EXCEPT ![ntf[n].occ] = "moved", ![target] = "pending"]
    BY <1>6 DEF MoveTo, SourceLocked, SettingsFree, Actionable
  <2>3. BornIsUnborn'
    BY <2>2 DEF BornIsUnborn
  <2>4. \A o \in Slot : OccurrenceKept(o)
    BY <1>1, <2>1, <2>2 DEF OccurrenceKept, Closed
  <2> QED
    BY <2>3, <2>4
<1>7. ASSUME NEW o \in Slot, SkipOccurrence(o)
      PROVE  BornIsUnborn' /\ \A p \in Slot : OccurrenceKept(p)
  BY <1>7, OneOccurrence DEF SkipOccurrence, Closed
<1>8. CASE ReactionsNext
  BY <1>2, <1>4, <1>5, <1>6, <1>7, <1>8
     DEF ReactionsNext, Acknowledge, ReactToMessage, ReactToNotification, PreviewMove,
         Complete, SkipFromNotification, UpdateQuietHours
<1>9. CASE SchedulingNext
  <2>1. CASE ReconcileRead
    BY <1>1, <2>1 DEF ReconcileRead, Unfolded, BornIsUnborn, OccurrenceKept
  <2>2. CASE ReconcileWrite
    BY <1>1, <2>2 DEF ReconcileWrite, NoReconcile, BornIsUnborn, OccurrenceKept, Closed
  <2>3. CASE ReconcileAbort
    BY <1>1, <2>3 DEF ReconcileAbort, NoReconcile, BornIsUnborn, OccurrenceKept
  <2> QED
    BY <1>9, <2>1, <2>2, <2>3 DEF SchedulingNext
<1>10. CASE Advance \/ UNCHANGED vars
  BY <1>2, <1>10 DEF Advance, vars, storeVars
<1> QED
  BY <1>3, <1>8, <1>9, <1>10 DEF Next

\* An occurrence done, skipped or moved stays so, and none that exists is
\* unfolded anew, though reconciliation reads and writes in separate steps
\* and skips and claims come in between.
THEOREM ClosedStaysClosed == Spec => ClosedIsFinal
<1>1. Init => BornIsUnborn
  BY DEF Init, StoreInit, NoReconcile, BornIsUnborn
<1>2. TypeOK /\ BornIsUnborn /\ [Next]_vars => BornIsUnborn'
  BY OccurrencesKept
<1>3. TypeOK /\ BornIsUnborn /\ [Next]_vars =>
        [\A o \in Slot : (Closed(o) => occ'[o] = occ[o])
                            /\ (occ[o] # "none" => occ'[o] # "none")]_occ
  BY OccurrencesKept DEF OccurrenceKept
<1> QED
  BY <1>1, <1>2, <1>3, TypeCorrect, PTL DEF Spec, ClosedIsFinal

-----------------------------------------------------------------------------
(* Missed occurrences that are reopened. *)

\* There is a signal for o that lies ahead after the step.
FreshSignal(o) ==
  \E n \in DOMAIN ntf' : /\ ntf'[n].occ = o /\ ntf'[n].kind = "main"
                         /\ ntf'[n].status = "pending" /\ ntf'[n].fire > clock

LEMMA SnoozeSignals ==
  ASSUME TypeOK, NEW n \in DOMAIN ntf, Snooze(n)
  PROVE  FreshSignal(ntf[n].occ)
<1> DEFINE o == ntf[n].occ
           target == SnoozeTarget(o)
           rows == CancelPending(ntf, o)
           new == NewRow(o, "main", target, FALSE)
<1>1. ntf \in Seq(Notification) /\ clock \in Nat /\ SnoozeFor \in Nat \ {0}
  BY StoreAssumption, ReactionsAssumption DEF TypeOK, StoreTypeOK
<1>2. o \in Slot /\ rows \in Seq(Notification) /\ DOMAIN rows = DOMAIN ntf
  BY <1>1, RowType, CancelPendingType DEF CancelPending
<1>3. target \in Int /\ target > clock
  BY <1>1 DEF SnoozeTarget
<1>4. \A m \in DOMAIN ntf : rows[m] \in Notification
  BY <1>2, RowType
<1> HIDE DEF target, rows
<1>5. CASE ntf' = Append(rows, new)
  <2>1. /\ new \in Notification /\ new.occ = o /\ new.kind = "main"
        /\ new.status = "pending" /\ new.fire = target
    <3>1. new \in Notification
      BY <1>2, <1>3, NewRowType DEF NotificationKind
    <3> QED
      BY <3>1 DEF NewRow
  <2> HIDE DEF new
  <2>2. /\ DOMAIN Append(rows, new) = DOMAIN rows \cup {Len(rows) + 1}
        /\ Append(rows, new)[Len(rows) + 1] = new
    BY <1>2, <2>1, RowAppended
  <2> QED
    BY <1>3, <1>5, <2>1, <2>2 DEF FreshSignal
<1>6. CASE \E m \in RowsOf(o) :
             /\ ntf[m].kind = "main" /\ ntf[m].fire = target
             /\ ntf' = [rows EXCEPT ![m].status = "pending", ![m].next = NoAttempt]
  <2>1. PICK m \in RowsOf(o) :
          /\ ntf[m].kind = "main" /\ ntf[m].fire = target
          /\ ntf' = [rows EXCEPT ![m].status = "pending", ![m].next = NoAttempt]
    BY <1>6
  <2> DEFINE row == Settled(rows[m], "pending", NoAttempt)
  <2>2. m \in DOMAIN ntf /\ ntf[m].occ = o
    BY DEF RowsOf
  <2>3. rows[m].occ = o /\ rows[m].kind = "main" /\ rows[m].fire = target
    <3>1. rows[m] = ntf[m] \/ rows[m] = Settled(ntf[m], "cancelled", NoAttempt)
      BY <2>2, Zenon DEF rows, CancelPending, Settled
    <3>2. ntf[m] \in Notification
      BY <1>1, <2>2, RowType
    <3> QED
      BY <2>1, <2>2, <3>1, <3>2 DEF Settled, Notification
  <2>4. /\ row.occ = o /\ row.kind = "main" /\ row.status = "pending" /\ row.fire = target
    BY <1>4, <2>2, <2>3 DEF Settled, Notification
  <2>5. ntf' = [rows EXCEPT ![m] = row]
    BY <2>1 DEF Settled
  <2> HIDE DEF row
  <2>6. m \in DOMAIN ntf' /\ ntf'[m] = row
    BY <1>2, <2>2, <2>5
  <2> QED
    BY <1>3, <2>4, <2>6 DEF FreshSignal
<1> QED
  BY <1>5, <1>6 DEF Snooze, target, rows

\* A missed occurrence becomes pending again only together with a main signal
\* for it that is pending and still lies ahead.
THEOREM ReopensWithSignal == Spec => ReopenedWithSignal
<1>1. Init => BornIsUnborn
  BY DEF Init, StoreInit, NoReconcile, BornIsUnborn
<1>2. TypeOK /\ BornIsUnborn /\ [Next]_vars => BornIsUnborn'
  BY OccurrencesKept
<1>3. ASSUME TypeOK, BornIsUnborn, [Next]_vars, NEW o \in Slot,
             occ[o] = "missed", occ'[o] = "pending"
      PROVE  FreshSignal(o)
  <2>1. /\ occ \in [Slot -> OccurrenceStatus \cup {"none"}] /\ ntf \in Seq(Notification)
    BY <1>3 DEF TypeOK, StoreTypeOK
  <2>2. CASE DeliveryNext
    <3>1. PICK w \in Worker : WorkerStep(w) \/ Crash(w)
      BY <2>2 DEF DeliveryNext
    <3>2. occ' = occ \/ occ' = [occ EXCEPT ![ntf[wk[w].n].occ] = "missed"]
      BY <3>1
         DEF WorkerStep, StartTick, EndTick, SelectCandidate, ClaimLost, ClaimCancel,
             ClaimDuplicate, ClaimPostpone, ClaimMiss, ClaimSend, SendAccepted,
             SendRefused, FinalizeSent, FinalizeFailed, Crash, storeVars
    <3> QED
      BY <1>3, <2>1, <3>2
  <2>3. CASE ReactionsNext
    <3>1. ASSUME NEW n \in DOMAIN ntf, Snooze(n) PROVE FreshSignal(o)
      <4>1. occ' = [occ EXCEPT ![ntf[n].occ] = "pending"] /\ FreshSignal(ntf[n].occ)
        BY <1>3, <3>1, SnoozeSignals DEF Snooze
      <4> QED
        BY <1>3, <2>1, <4>1
    <3>2. ASSUME NEW n \in DOMAIN ntf, NEW target \in Slot, MoveTo(n, target)
          PROVE  FALSE
      <4>1. /\ occ' = [occ EXCEPT ![ntf[n].occ] = "moved", ![target] = "pending"]
            /\ occ[target] = "none"
        BY <3>2 DEF MoveTo
      <4> QED
        BY <1>3, <2>1, <4>1
    <3>3. ASSUME NEW n \in DOMAIN ntf, NEW intent, NEW status \in {"done", "skipped"},
                 Close(n, intent, status)
          PROVE  FALSE
      <4>1. occ' = occ \/ occ' = [occ EXCEPT ![ntf[n].occ] = status]
        BY <3>3 DEF Close
      <4> QED
        BY <1>3, <2>1, <4>1
    <3>4. ASSUME NEW p \in Slot, SkipOccurrence(p) PROVE FALSE
      <4>1. occ' = [occ EXCEPT ![p] = "skipped"]
        BY <3>4 DEF SkipOccurrence
      <4> QED
        BY <1>3, <2>1, <4>1
    <3>5. CASE UNCHANGED occ
      BY <1>3, <3>5
    <3> QED
      BY <2>3, <3>1, <3>2, <3>3, <3>4, <3>5
         DEF ReactionsNext, Acknowledge, ReactToMessage, ReactToNotification, PreviewMove,
             Complete, SkipFromNotification, UpdateQuietHours
  <2>4. CASE SchedulingNext
    <3>1. occ' = occ \/ occ' = [p \in Slot |-> IF p \in rec.born THEN "pending" ELSE occ[p]]
      BY <2>4 DEF SchedulingNext, ReconcileRead, ReconcileWrite, ReconcileAbort
    <3> QED
      BY <1>3, <3>1 DEF BornIsUnborn
  <2>5. CASE Advance \/ UNCHANGED vars
    BY <1>3, <2>5 DEF Advance, vars, storeVars
  <2> QED
    BY <1>3, <2>2, <2>3, <2>4, <2>5 DEF Next
<1>4. TypeOK /\ BornIsUnborn /\ [Next]_vars =>
        [\A o \in Slot : occ[o] = "missed" /\ occ'[o] = "pending" =>
           \E n \in DOMAIN ntf' : /\ ntf'[n].occ = o /\ ntf'[n].kind = "main"
                                  /\ ntf'[n].status = "pending"
                                  /\ ntf'[n].fire > clock]_occ
  BY <1>3 DEF FreshSignal
<1> QED
  BY <1>1, <1>2, <1>4, TypeCorrect, PTL DEF Spec, ReopenedWithSignal

-----------------------------------------------------------------------------
(* UNIQUE(occurrence_id, fire_at_utc, kind): no service ever runs into it.   *)

Distinct(rows) ==
  \A n, m \in DOMAIN rows : KeyOf(rows[n]) = KeyOf(rows[m]) => n = m

\* Rows that keep their keys, one row that takes a free one, and a row added
\* under a free one.
LEMMA KeysKept ==
  ASSUME NEW rows, NEW new, Distinct(rows), DOMAIN new = DOMAIN rows,
         \A n \in DOMAIN rows : KeyOf(new[n]) = KeyOf(rows[n])
  PROVE  Distinct(new)
BY DEF Distinct

LEMMA KeyMoved ==
  ASSUME NEW rows, Distinct(rows), NEW n \in DOMAIN rows, NEW row,
         \A m \in DOMAIN rows : m # n => KeyOf(rows[m]) # KeyOf(row)
  PROVE  Distinct([rows EXCEPT ![n] = row])
BY DEF Distinct

LEMMA KeyAppended ==
  ASSUME NEW rows \in Seq(Notification), Distinct(rows), NEW row \in Notification,
         \A m \in DOMAIN rows : KeyOf(rows[m]) # KeyOf(row)
  PROVE  Distinct(Append(rows, row))
BY RowAppended DEF Distinct

-----------------------------------------------------------------------------
(* The upsert of a plan. *)

LEMMA KeyBeforeIrreflexive ==
  ASSUME NEW plan \in SUBSET Slot, NEW k \in PlanKeys(plan)
  PROVE  ~ KeyBefore(k, k)
<1>1. k.occ \in Nat /\ k.fire \in Int
  BY PlanKeysType, StoreAssumption
<1> QED
  BY <1>1 DEF KeyBefore

\* It adds the keys that are missing, each once, and leaves the others.
LEMMA UpsertedKeys ==
  ASSUME NEW rows \in Seq(Notification), NEW plan \in SUBSET Slot,
         NEW new \in Upserted(rows, plan), Distinct(rows)
  PROVE  Distinct(new)
<1> DEFINE keys == PlanKeys(plan)
           missing == MissingKeys(rows, keys)
           kept == Reactivate(rows, keys)
           Fresh(s) == [i \in DOMAIN s |-> NewRow(s[i].occ, s[i].kind, s[i].fire, FALSE)]
<1>1. PICK s \in [1 .. Cardinality(missing) -> missing] :
        /\ \A i, j \in DOMAIN s : i < j => KeyBefore(s[i], s[j])
        /\ new = kept \o Fresh(s)
  BY DEF Upserted
<1>2. Cardinality(missing) \in Nat
  <2>1. missing \in SUBSET keys
    BY DEF MissingKeys
  <2> HIDE DEF missing
  <2> QED
    BY <2>1, PlanKeysType, FS_Subset, FS_CardinalityType
<1>3. /\ DOMAIN s = 1 .. Cardinality(missing)
      /\ \A i \in DOMAIN s : s[i] \in keys /\ s[i] \in missing
  BY DEF MissingKeys
<1> DEFINE fresh == Fresh(s)
<1>4. \A i \in DOMAIN s : fresh[i] \in Notification /\ KeyOf(fresh[i]) = s[i]
  <2>1. \A k \in keys : LET row == NewRow(k.occ, k.kind, k.fire, FALSE)
                        IN  row \in Notification /\ KeyOf(row) = k
    <3> SUFFICES ASSUME NEW k \in keys
                 PROVE  LET row == NewRow(k.occ, k.kind, k.fire, FALSE)
                        IN  row \in Notification /\ KeyOf(row) = k
      OBVIOUS
    <3>1. k \in [occ : plan, kind : {"main", "pre"}, fire : Int]
      BY PlanKeysType
    <3>2. k.occ \in Slot /\ k.kind \in NotificationKind /\ k.fire \in Int
      BY <3>1 DEF NotificationKind
    <3>3. k = [occ |-> k.occ, kind |-> k.kind, fire |-> k.fire]
      BY <3>1
    <3>4. KeyOf(NewRow(k.occ, k.kind, k.fire, FALSE))
            = [occ |-> k.occ, kind |-> k.kind, fire |-> k.fire]
      BY DEF KeyOf, NewRow
    <3> QED
      BY <3>2, <3>3, <3>4, NewRowType
  <2> QED
    BY <1>3, <2>1
<1>5. fresh \in Seq(Notification) /\ Len(fresh) = Cardinality(missing)
  <2>1. fresh \in [1 .. Cardinality(missing) -> Notification]
    BY <1>3, <1>4
  <2> HIDE DEF fresh
  <2>2. fresh \in Seq(Notification)
    BY <1>2, <2>1, SeqDef
  <2>3. DOMAIN fresh = 1 .. Len(fresh) /\ Len(fresh) \in Nat
    BY <2>2, LenProperties
  <2> QED
    BY <1>2, <2>1, <2>2, <2>3
<1>6. ASSUME NEW n \in DOMAIN rows
      PROVE  kept[n] \in Notification /\ KeyOf(kept[n]) = KeyOf(rows[n])
  <2>1. kept[n] = rows[n] \/ kept[n] = Revived(rows[n])
    BY Zenon DEF Reactivate, Revived
  <2>2. rows[n] \in Notification
    BY RowType
  <2>3. Revived(rows[n]) \in Notification /\ KeyOf(Revived(rows[n])) = KeyOf(rows[n])
    <3>1. Revived(rows[n]) \in Notification
      BY <2>2, RevivedType
    <3>2. KeyOf(Revived(rows[n])) = KeyOf(rows[n])
      BY <2>2 DEF KeyOf, Revived, Notification
    <3> QED
      BY <3>1, <3>2
  <2> QED
    BY <2>1, <2>2, <2>3
<1>7. kept \in Seq(Notification) /\ Len(kept) = Len(rows)
  <2>1. kept \in [DOMAIN rows -> Notification]
    BY <1>6 DEF Reactivate
  <2> QED
    BY <2>1, RowsUpdated
<1>8. \A k \in missing, n \in DOMAIN rows : KeyOf(rows[n]) # k
  BY DEF MissingKeys
<1>9. \A i, j \in DOMAIN s : i # j => s[i] # s[j]
  <2>1. ASSUME NEW i \in DOMAIN s, NEW j \in DOMAIN s, i < j
        PROVE  s[i] # s[j]
    BY <1>1, <1>3, <2>1, KeyBeforeIrreflexive
  <2>2. \A i, j \in DOMAIN s : i # j => i < j \/ j < i
    BY <1>2, <1>3
  <2> QED
    BY <2>1, <2>2
<1> HIDE DEF kept, fresh, keys, missing
<1>10. /\ DOMAIN rows = 1 .. Len(rows) /\ Len(rows) \in Nat
       /\ DOMAIN new = 1 .. Len(rows) + Len(fresh) /\ Len(fresh) \in Nat
       /\ \A n \in 1 .. Len(rows) + Len(fresh) :
            new[n] = IF n <= Len(rows) THEN kept[n] ELSE fresh[n - Len(rows)]
  <2>1. new = kept \o fresh
    BY <1>1 DEF fresh
  <2>2. /\ kept \o fresh \in Seq(Notification)
        /\ Len(kept \o fresh) = Len(rows) + Len(fresh)
    BY <1>5, <1>7, ConcatProperties
  <2> QED
    BY <2>1, <2>2, <1>5, <1>7, ConcatProperties, LenProperties
<1>11. ASSUME NEW n \in DOMAIN new
       PROVE  \/ n \in DOMAIN rows /\ KeyOf(new[n]) = KeyOf(rows[n])
              \/ /\ n \notin DOMAIN rows /\ n - Len(rows) \in DOMAIN s
                 /\ KeyOf(new[n]) = s[n - Len(rows)]
  <2>1. CASE n \in DOMAIN rows
    <3>1. new[n] = kept[n]
      BY <1>10, <2>1
    <3> QED
      BY <1>6, <2>1, <3>1
  <2>2. CASE n \notin DOMAIN rows
    <3>1. new[n] = fresh[n - Len(rows)] /\ n - Len(rows) \in DOMAIN s
      BY <1>3, <1>5, <1>10, <2>2
    <3> QED
      BY <1>4, <2>2, <3>1
  <2> QED
    BY <2>1, <2>2
<1> SUFFICES ASSUME NEW n \in DOMAIN new, NEW m \in DOMAIN new,
                    KeyOf(new[n]) = KeyOf(new[m])
             PROVE  n = m
  BY DEF Distinct
<1>12. n \in Int /\ m \in Int
  BY <1>10
<1>13. CASE n \in DOMAIN rows /\ m \in DOMAIN rows
  BY <1>11, <1>13 DEF Distinct
<1>14. CASE n \notin DOMAIN rows /\ m \notin DOMAIN rows
  <2>1. n - Len(rows) = m - Len(rows)
    BY <1>9, <1>11, <1>14
  <2> QED
    BY <1>10, <1>12, <2>1
<1>15. CASE ~ (n \in DOMAIN rows <=> m \in DOMAIN rows)
  BY <1>3, <1>8, <1>11, <1>15
<1> QED
  BY <1>13, <1>14, <1>15

-----------------------------------------------------------------------------
(* Steps of a worker. *)

LEMMA ClaimsDistinct ==
  ASSUME TypeOK, Distinct(ntf), NEW w \in Worker,
         \/ ClaimCancel(w) \/ ClaimDuplicate(w) \/ ClaimPostpone(w)
         \/ ClaimMiss(w) \/ ClaimSend(w)
  PROVE  Distinct(ntf')
<1> DEFINE n == wk[w].n
           now == wk[w].now
<1>1. StillDue(w) /\ wk[w].pc = "picked"
  BY DEF ClaimCancel, ClaimDuplicate, ClaimPostpone, ClaimMiss, ClaimSend, Deliverable,
         Claimable, StillDue
<1>2. /\ ntf \in Seq(Notification) /\ n \in DOMAIN ntf /\ ntf[n] \in Notification
  BY <1>1, Chosen, RowType DEF TypeOK, StoreTypeOK
<1>3. ASSUME NEW row, ntf' = [ntf EXCEPT ![n] = row],
             row.occ = ntf[n].occ, row.kind = ntf[n].kind, row.fire = ntf[n].fire
      PROVE  Distinct(ntf')
  <2>1. KeyOf(row) = KeyOf(ntf[n])
    BY <1>3 DEF KeyOf
  <2>2. \A m \in DOMAIN ntf : m # n => KeyOf(ntf[m]) # KeyOf(row)
    BY <1>2, <2>1 DEF Distinct
  <2> QED
    BY <1>2, <1>3, <2>2, KeyMoved
<1>4. ASSUME Claimable(w), NEW row, ntf' = [ntf EXCEPT ![n] = row],
             row.occ = ntf[n].occ, row.kind = ntf[n].kind, row.fire = FireAt(n, now)
      PROVE  Distinct(ntf')
  <2>1. CASE IsPostponed(n, now)
    <3>1. ~ HasTwinAt(n, PostponedTo(n, now)) /\ row.fire = PostponedTo(n, now)
      BY <1>4, <2>1 DEF Claimable, FireAt
    <3>2. KeyOf(row) = [KeyOf(ntf[n]) EXCEPT !.fire = PostponedTo(n, now)]
      BY <1>4, <3>1 DEF KeyOf
    <3>3. \A m \in DOMAIN ntf : m # n => KeyOf(ntf[m]) # KeyOf(row)
      BY <3>1, <3>2 DEF HasTwinAt
    <3> QED
      BY <1>2, <1>4, <3>3, KeyMoved
  <2>2. CASE ~ IsPostponed(n, now)
    BY <1>3, <1>4, <2>2 DEF FireAt
  <2> QED
    BY <2>1, <2>2
<1>5. CASE ClaimCancel(w)
  <2> DEFINE row == Settled(ntf[n], "cancelled", NoAttempt)
  <2>1. ntf' = [ntf EXCEPT ![n] = row]
    BY <1>5 DEF ClaimCancel, Settled
  <2>2. row.occ = ntf[n].occ /\ row.kind = ntf[n].kind /\ row.fire = ntf[n].fire
    BY <1>2 DEF Settled, Notification
  <2> HIDE DEF row
  <2> QED
    BY <1>3, <2>1, <2>2
<1>6. CASE ClaimDuplicate(w)
  <2> DEFINE row == [ntf[n] EXCEPT !.status = "cancelled"]
  <2>1. ntf' = [ntf EXCEPT ![n] = row]
    BY <1>6 DEF ClaimDuplicate
  <2>2. row.occ = ntf[n].occ /\ row.kind = ntf[n].kind /\ row.fire = ntf[n].fire
    BY <1>2 DEF Notification
  <2> HIDE DEF row
  <2> QED
    BY <1>3, <2>1, <2>2
<1>7. CASE ClaimPostpone(w)
  <2> DEFINE row == [ntf[n] EXCEPT !.fire = FireAt(n, now), !.silent = FALSE,
                                   !.next = NoAttempt]
  <2>1. ntf' = [ntf EXCEPT ![n] = row] /\ Claimable(w)
    BY <1>7 DEF ClaimPostpone, FireAt
  <2>2. row.occ = ntf[n].occ /\ row.kind = ntf[n].kind /\ row.fire = FireAt(n, now)
    BY <1>2 DEF Notification
  <2> HIDE DEF row
  <2> QED
    BY <1>4, <2>1, <2>2
<1>8. CASE ClaimMiss(w)
  <2> DEFINE silent == ntf[n].silent /\ ~ IsPostponed(n, now)
             row == [ntf[n] EXCEPT !.status = "missed", !.fire = FireAt(n, now),
                                   !.silent = silent, !.next = NoAttempt]
  <2>1. ntf' = [ntf EXCEPT ![n] = row] /\ Claimable(w)
    BY <1>8 DEF ClaimMiss, Deliverable
  <2> HIDE DEF silent
  <2>2. row.occ = ntf[n].occ /\ row.kind = ntf[n].kind /\ row.fire = FireAt(n, now)
    BY <1>2 DEF Notification
  <2> HIDE DEF row
  <2> QED
    BY <1>4, <2>1, <2>2
<1>9. CASE ClaimSend(w)
  <2> DEFINE row == [ntf[n] EXCEPT !.fire = FireAt(n, now), !.silent = SilentClaim(n, now),
                                   !.next = now + Lease]
  <2>1. ntf' = [ntf EXCEPT ![n] = row] /\ Claimable(w)
    BY <1>9 DEF ClaimSend, Deliverable
  <2>2. row.occ = ntf[n].occ /\ row.kind = ntf[n].kind /\ row.fire = FireAt(n, now)
    BY <1>2 DEF Notification
  <2> HIDE DEF row
  <2> QED
    BY <1>4, <2>1, <2>2
<1> QED
  BY <1>5, <1>6, <1>7, <1>8, <1>9

\* A success changes no key, and its repeat looks for one at its own moment.
LEMMA FinalizeSentDistinct ==
  ASSUME TypeOK, Distinct(ntf), NEW w \in Worker, FinalizeSent(w)
  PROVE  Distinct(ntf')
<1> DEFINE n == wk[w].n
           now == wk[w].now
           o == ntf[n].occ
           row == Reported(ntf[n], wk[w].silent)
           done == [ntf EXCEPT ![n] = row]
           d == ApplyQuietPolicy("repeat", now + RepeatEvery, PlannedAt[o], HomeZone, quiet)
           next == NewRow(o, "repeat", d.fire, d.silent)
<1>1. /\ n \in DOMAIN ntf /\ now \in Nat /\ wk[w].silent \in BOOLEAN
      /\ StoreTypeOK /\ ntf \in Seq(Notification) /\ quiet \in Quiet
  BY Chosen DEF FinalizeSent, TypeOK, StoreTypeOK
<1>2. ntf[n] \in Notification /\ o \in Slot
  BY <1>1, RowType
<1>3. row \in Notification /\ KeyOf(row) = KeyOf(ntf[n])
  <2>1. row \in Notification
    BY <1>1, <1>2, OutcomeTypes, 0 \in Nat, 0 \in Int
  <2>2. KeyOf(row) = KeyOf(ntf[n])
    BY <1>2 DEF Reported, KeyOf, Notification
  <2> QED
    BY <2>1, <2>2
<1>4. ntf' = WithNextRepeat(done, n, now)
  BY DEF FinalizeSent, Reported
<1> HIDE DEF row
<1>5. /\ done \in Seq(Notification) /\ DOMAIN done = DOMAIN ntf
      /\ \A m \in DOMAIN ntf : done[m] = IF m = n THEN row ELSE ntf[m]
  BY <1>1, <1>3, RowSet
<1> HIDE DEF done
<1>6. \A m \in DOMAIN ntf : KeyOf(done[m]) = KeyOf(ntf[m])
  BY <1>3, <1>5
<1>7. Distinct(done)
  BY <1>5, <1>6, KeysKept
<1>8. CASE ntf' = done
  BY <1>7, <1>8
<1>9. CASE ntf' # done
  <2>1. /\ ntf' = Append(done, next)
        /\ \A m \in Repeats(o) : ntf[m].fire # d.fire
    BY <1>4, <1>9 DEF WithNextRepeat
  <2>2. d.fire \in Int /\ d.silent \in BOOLEAN
    <3>1. now + RepeatEvery \in Int
      BY <1>1, DeliveryAssumption
    <3>2. PlannedAt[o] \in Int
      BY <1>2, StoreAssumption
    <3> QED
      BY <1>1, <3>1, <3>2, PolicyType
  <2> HIDE DEF d
  <2>3. /\ next \in Notification
        /\ KeyOf(next) = [occ |-> o, kind |-> "repeat", fire |-> d.fire]
    <3>1. "repeat" \in NotificationKind
      BY DEF NotificationKind
    <3>2. KeyOf(next) = [occ |-> o, kind |-> "repeat", fire |-> d.fire]
      BY DEF NewRow, KeyOf
    <3> QED
      BY <1>2, <2>2, <3>1, <3>2, NewRowType
  <2> HIDE DEF next
  <2>4. \A m \in DOMAIN ntf : KeyOf(ntf[m]) # KeyOf(next)
    BY <2>1, <2>3 DEF Repeats, RowsOf, KeyOf
  <2> QED
    BY <1>5, <1>6, <1>7, <2>1, <2>3, <2>4, KeyAppended
<1> QED
  BY <1>8, <1>9

LEMMA DeliveryDistinct ==
  ASSUME TypeOK, Distinct(ntf), DeliveryNext
  PROVE  Distinct(ntf')
<1>1. PICK w \in Worker : WorkerStep(w) \/ Crash(w)
  BY DEF DeliveryNext
<1>2. CASE UNCHANGED ntf
  BY <1>2
<1>3. CASE SendAccepted(w) \/ FinalizeFailed(w)
  <2> DEFINE n == wk[w].n
  <2>1. /\ ntf \in Seq(Notification) /\ n \in DOMAIN ntf /\ ntf[n] \in Notification
    BY <1>3, Chosen, RowType DEF TypeOK, StoreTypeOK, SendAccepted, FinalizeFailed
  <2>2. ASSUME NEW row, ntf' = [ntf EXCEPT ![n] = row], KeyOf(row) = KeyOf(ntf[n])
        PROVE  Distinct(ntf')
    <3>1. \A m \in DOMAIN ntf : m # n => KeyOf(ntf[m]) # KeyOf(row)
      BY <2>1, <2>2 DEF Distinct
    <3> QED
      BY <2>1, <2>2, <3>1, KeyMoved
  <2>3. ASSUME NEW copies PROVE KeyOf([ntf[n] EXCEPT !.copies = copies]) = KeyOf(ntf[n])
    BY <2>1 DEF KeyOf, Notification
  <2>4. ASSUME NEW att, NEW next
        PROVE  /\ KeyOf(Retried(ntf[n], att, next)) = KeyOf(ntf[n])
               /\ KeyOf(Failed(ntf[n], att)) = KeyOf(ntf[n])
    BY <2>1 DEF KeyOf, Notification, Retried, Failed
  <2>5. CASE SendAccepted(w)
    BY <2>2, <2>3, <2>5 DEF SendAccepted
  <2>6. CASE FinalizeFailed(w)
    <3> DEFINE att == ntf[n].att + 1
               Retry(provider) == wk[w].now + RetryDelay(att, provider)
    <3>1. CASE ntf' = [ntf EXCEPT ![n].status = "failed", ![n].att = att,
                                  ![n].next = NoAttempt]
      <4>1. ntf' = [ntf EXCEPT ![n] = Failed(ntf[n], att)]
        BY <3>1 DEF Failed
      <4> QED
        BY <2>2, <2>4, <4>1
    <3>2. ASSUME NEW provider, ntf' = [ntf EXCEPT ![n].att = att, ![n].next = Retry(provider)]
          PROVE  Distinct(ntf')
      <4>1. ntf' = [ntf EXCEPT ![n] = Retried(ntf[n], att, Retry(provider))]
        BY <3>2 DEF Retried
      <4> QED
        BY <2>2, <2>4, <4>1
    <3> QED
      BY <1>2, <2>6, <3>1, <3>2 DEF FinalizeFailed
  <2> QED
    BY <1>3, <2>5, <2>6
<1> QED
  BY <1>1, <1>2, <1>3, ClaimsDistinct, FinalizeSentDistinct
     DEF WorkerStep, StartTick, EndTick, SelectCandidate, ClaimLost, SendRefused, Crash,
         storeVars

-----------------------------------------------------------------------------
(* Steps of the owner and of reconciliation. *)

\* Cancelling keeps the keys.
LEMMA CancelledDistinct ==
  ASSUME TypeOK, Distinct(ntf), NEW o
  PROVE  /\ Distinct(CancelRepeats(ntf, o))
         /\ Distinct(CancelPending(ntf, o))
         /\ \A n \in DOMAIN ntf : KeyOf(CancelPending(ntf, o)[n]) = KeyOf(ntf[n])
<1>1. \A n \in DOMAIN ntf :
        KeyOf(Settled(ntf[n], "cancelled", NoAttempt)) = KeyOf(ntf[n])
  <2>1. "cancelled" \in NotificationStatus /\ NoAttempt \in Int
    BY DEF NotificationStatus, NoAttempt
  <2> QED
    BY <2>1, RowType, SettledType DEF TypeOK, StoreTypeOK
<1>2. \A n \in DOMAIN ntf :
        /\ CancelRepeats(ntf, o)[n] = ntf[n]
           \/ CancelRepeats(ntf, o)[n] = Settled(ntf[n], "cancelled", NoAttempt)
        /\ CancelPending(ntf, o)[n] = ntf[n]
           \/ CancelPending(ntf, o)[n] = Settled(ntf[n], "cancelled", NoAttempt)
  BY Zenon DEF CancelRepeats, CancelPending, Settled
<1>3. DOMAIN CancelRepeats(ntf, o) = DOMAIN ntf /\ DOMAIN CancelPending(ntf, o) = DOMAIN ntf
  BY DEF CancelRepeats, CancelPending
<1>4. \A n \in DOMAIN ntf : /\ KeyOf(CancelRepeats(ntf, o)[n]) = KeyOf(ntf[n])
                             /\ KeyOf(CancelPending(ntf, o)[n]) = KeyOf(ntf[n])
  BY <1>1, <1>2
<1> QED
  BY <1>3, <1>4, KeysKept

\* A snooze to a moment the occurrence has a main signal at reuses that row.
LEMMA SnoozeDistinct ==
  ASSUME TypeOK, Distinct(ntf), NEW n \in DOMAIN ntf, Snooze(n)
  PROVE  Distinct(ntf')
<1> DEFINE o == ntf[n].occ
           target == SnoozeTarget(o)
           rows == CancelPending(ntf, o)
           new == NewRow(o, "main", target, FALSE)
<1>1. /\ ntf \in Seq(Notification) /\ o \in Slot /\ target \in Int
  BY RowType, StoreAssumption, ReactionsAssumption DEF TypeOK, StoreTypeOK, SnoozeTarget
<1>2. /\ rows \in Seq(Notification) /\ DOMAIN rows = DOMAIN ntf /\ Distinct(rows)
      /\ \A m \in DOMAIN ntf : KeyOf(rows[m]) = KeyOf(ntf[m])
  BY <1>1, CancelPendingType, CancelledDistinct DEF CancelPending
<1> HIDE DEF target, rows
<1>3. CASE /\ {m \in RowsOf(o) : ntf[m].kind = "main" /\ ntf[m].fire = target} = {}
           /\ ntf' = Append(rows, new)
  <2>1. new \in Notification /\ KeyOf(new) = [occ |-> o, kind |-> "main", fire |-> target]
    <3>1. "main" \in NotificationKind
      BY DEF NotificationKind
    <3>2. KeyOf(new) = [occ |-> o, kind |-> "main", fire |-> target]
      BY DEF NewRow, KeyOf
    <3> QED
      BY <1>1, <3>1, <3>2, NewRowType
  <2> HIDE DEF new
  <2>2. \A m \in DOMAIN ntf : KeyOf(ntf[m]) # KeyOf(new)
    BY <1>3, <2>1 DEF RowsOf, KeyOf
  <2> QED
    BY <1>2, <1>3, <2>1, <2>2, KeyAppended
<1>4. CASE \E m \in RowsOf(o) :
             ntf' = [rows EXCEPT ![m].status = "pending", ![m].next = NoAttempt]
  <2>1. PICK m \in RowsOf(o) :
          ntf' = [rows EXCEPT ![m].status = "pending", ![m].next = NoAttempt]
    BY <1>4
  <2> DEFINE row == Settled(rows[m], "pending", NoAttempt)
  <2>2. m \in DOMAIN rows /\ rows[m] \in Notification
    BY <1>2, RowType DEF RowsOf
  <2>3. ntf' = [rows EXCEPT ![m] = row]
    BY <2>1 DEF Settled
  <2>4. KeyOf(row) = KeyOf(rows[m])
    BY <2>2 DEF Settled, KeyOf, Notification
  <2> HIDE DEF row
  <2>5. \A k \in DOMAIN rows : k # m => KeyOf(rows[k]) # KeyOf(row)
    BY <1>2, <2>2, <2>4 DEF Distinct
  <2> QED
    BY <1>2, <2>2, <2>3, <2>5, KeyMoved
<1> QED
  BY <1>3, <1>4 DEF Snooze, target, rows

LEMMA ReactionsDistinct ==
  ASSUME TypeOK, Distinct(ntf), ReactionsNext
  PROVE  Distinct(ntf')
<1>1. ntf \in Seq(Notification)
  BY DEF TypeOK, StoreTypeOK
<1>2. CASE UNCHANGED ntf
  BY <1>2
<1>3. ASSUME NEW o, ntf' = CancelRepeats(ntf, o) \/ ntf' = CancelPending(ntf, o)
      PROVE  Distinct(ntf')
  BY <1>3, CancelledDistinct
<1>4. ASSUME NEW o \in Slot, SkipOccurrence(o) PROVE Distinct(ntf')
  <2>1. DOMAIN ntf' = DOMAIN ntf
    BY <1>4 DEF SkipOccurrence
  <2>2. \A n \in DOMAIN ntf :
          ntf'[n] = ntf[n] \/ ntf'[n] = [ntf[n] EXCEPT !.status = "cancelled"]
    BY <1>4, Zenon DEF SkipOccurrence
  <2>3. ASSUME NEW n \in DOMAIN ntf
        PROVE  KeyOf([ntf[n] EXCEPT !.status = "cancelled"]) = KeyOf(ntf[n])
    BY <1>1, RowType DEF KeyOf, Notification
  <2>4. \A n \in DOMAIN ntf : KeyOf(ntf'[n]) = KeyOf(ntf[n])
    BY <2>2, <2>3
  <2> QED
    BY <2>1, <2>4, KeysKept
<1>5. ASSUME NEW n \in DOMAIN ntf, NEW target \in Slot, MoveTo(n, target)
      PROVE  Distinct(ntf')
  <2>1. /\ ntf' \in Upserted(CancelPending(ntf, ntf[n].occ), {target})
        /\ CancelPending(ntf, ntf[n].occ) \in Seq(Notification)
        /\ Distinct(CancelPending(ntf, ntf[n].occ)) /\ {target} \in SUBSET Slot
    BY <1>1, <1>5, CancelPendingType, CancelledDistinct DEF MoveTo
  <2> QED
    BY <2>1, UpsertedKeys
<1> QED
  BY <1>2, <1>3, <1>4, <1>5, SnoozeDistinct
     DEF ReactionsNext, Acknowledge, ReactToMessage, ReactToNotification, Complete,
         SkipFromNotification, Close, PreviewMove, UpdateQuietHours

LEMMA StepDistinct ==
  ASSUME TypeOK, Distinct(ntf), [Next]_vars
  PROVE  Distinct(ntf')
<1>1. CASE SchedulingNext
  <2>1. ntf \in Seq(Notification) /\ rec.plan \in SUBSET Slot
    BY DEF TypeOK, StoreTypeOK
  <2>2. UNCHANGED ntf \/ ntf' \in Upserted(ntf, rec.plan)
    BY <1>1 DEF SchedulingNext, ReconcileRead, ReconcileWrite, ReconcileAbort
  <2>3. CASE UNCHANGED ntf
    BY <2>3
  <2> QED
    BY <2>1, <2>2, <2>3, UpsertedKeys
<1>2. CASE Advance \/ UNCHANGED vars
  <2>1. UNCHANGED ntf
    BY <1>2 DEF Advance, vars, storeVars
  <2> QED
    BY <2>1
<1> QED
  BY <1>1, <1>2, DeliveryDistinct, ReactionsDistinct DEF Next

\* No two notifications share occurrence, kind and moment.  A claim that quiet
\* hours put off, a repeat and a snooze each look for a twin before they take a
\* moment, and the plan adds the missing keys only, each of them once.
THEOREM KeysAlwaysUnique == Spec => []UniqueKeys
<1>1. UniqueKeys <=> Distinct(ntf)
  BY DEF UniqueKeys, Distinct
<1>2. Init => Distinct(ntf)
  BY DEF Init, StoreInit, Distinct
<1>3. TypeOK /\ Distinct(ntf) /\ [Next]_vars => Distinct(ntf)'
  BY StepDistinct
<1> QED
  BY <1>1, <1>2, <1>3, TypeCorrect, PTL DEF Spec

-----------------------------------------------------------------------------
(* Signals of an occurrence that is finished. *)

Finished == {"done", "moved"}

\* A step leaves pending what was pending, or what its occurrence still wants.
OnlyWanted ==
  \A n \in DOMAIN ntf' : ntf'[n].status = "pending" =>
    \/ n \in DOMAIN ntf /\ ntf[n].status = "pending"
    \/ occ'[ntf'[n].occ] \notin Finished

\* No row of o is pending after the step.
NoneLeft(o) ==
  \A n \in DOMAIN ntf' : ntf'[n].occ = o => ntf'[n].status # "pending"

FinishedCleared ==
  \A o \in Slot : occ'[o] \in Finished => occ'[o] = occ[o] \/ NoneLeft(o)

\* What a reconciliation is about to plan is not finished meanwhile: the
\* buttons that finish an occurrence wait for user_settings.
PlanOpen ==
  /\ rec.pc = "idle" => rec.plan = {}
  /\ \A o \in rec.plan : occ[o] \notin Finished

OwedStep == OnlyWanted /\ FinishedCleared /\ PlanOpen'

-----------------------------------------------------------------------------
(* Steps of a worker. *)

\* One row is edited that was pending before.
LEMMA PendingEdited ==
  ASSUME NEW n \in DOMAIN ntf, NEW row, ntf' = [ntf EXCEPT ![n] = row],
         ntf[n].status = "pending" \/ row.status # "pending"
  PROVE  OnlyWanted
BY DEF OnlyWanted

\* Occurrences that no step of this kind finishes.
LEMMA NoneFinished ==
  ASSUME PlanOpen, UNCHANGED rec,
         \A o \in Slot : occ'[o] \in Finished => occ'[o] = occ[o], TypeOK
  PROVE  FinishedCleared /\ PlanOpen'
<1>1. rec.plan \in SUBSET Slot
  BY DEF TypeOK, StoreTypeOK
<1> QED
  BY <1>1 DEF FinishedCleared, PlanOpen

LEMMA ClaimsOwe ==
  ASSUME TypeOK, PlanOpen, NEW w \in Worker,
         \/ ClaimCancel(w) \/ ClaimDuplicate(w) \/ ClaimPostpone(w)
         \/ ClaimMiss(w) \/ ClaimSend(w)
  PROVE  OwedStep
<1> DEFINE n == wk[w].n
<1>1. StillDue(w) /\ wk[w].pc = "picked"
  BY DEF ClaimCancel, ClaimDuplicate, ClaimPostpone, ClaimMiss, ClaimSend, Deliverable,
         Claimable, StillDue
<1>2. n \in DOMAIN ntf /\ ntf[n].status = "pending"
  BY <1>1, Chosen DEF StillDue, Due, Pending
<1>3. \E row : ntf' = [ntf EXCEPT ![n] = row]
  BY DEF ClaimCancel, ClaimDuplicate, ClaimPostpone, ClaimMiss, ClaimSend
<1>4. OnlyWanted
  BY <1>2, <1>3, PendingEdited
<1>5. UNCHANGED rec /\ \A o \in Slot : occ'[o] \in Finished => occ'[o] = occ[o]
  <2>1. UNCHANGED rec
    BY DEF ClaimCancel, ClaimDuplicate, ClaimPostpone, ClaimMiss, ClaimSend
  <2>2. occ' = occ \/ occ' = [occ EXCEPT ![ntf[n].occ] = "missed"]
    BY DEF ClaimCancel, ClaimDuplicate, ClaimPostpone, ClaimMiss, ClaimSend
  <2>3. occ \in [Slot -> OccurrenceStatus \cup {"none"}]
    BY DEF TypeOK, StoreTypeOK
  <2> QED
    BY <2>1, <2>2, <2>3 DEF Finished
<1> QED
  BY <1>4, <1>5, NoneFinished DEF OwedStep

LEMMA FinalizeSentOwes ==
  ASSUME TypeOK, PlanOpen, NEW w \in Worker, FinalizeSent(w)
  PROVE  OwedStep
<1> DEFINE n == wk[w].n
           row == Reported(ntf[n], wk[w].silent)
           done == [ntf EXCEPT ![n] = row]
<1>1. /\ n \in DOMAIN ntf /\ wk[w].now \in Nat /\ wk[w].silent \in BOOLEAN
      /\ StoreTypeOK /\ ntf \in Seq(Notification)
  BY Chosen DEF FinalizeSent, TypeOK, StoreTypeOK
<1>2. ntf[n] \in Notification
  BY <1>1, RowType
<1>3. row \in Notification /\ row.status = "sent"
  <2>1. row \in Notification
    BY <1>1, <1>2, OutcomeTypes, 0 \in Nat, 0 \in Int
  <2>2. row.status = "sent"
    BY <1>2 DEF Reported, Notification
  <2> QED
    BY <2>1, <2>2
<1>4. ntf' = WithNextRepeat(done, n, wk[w].now) /\ UNCHANGED <<occ, rec>>
  BY DEF FinalizeSent, Reported
<1> HIDE DEF row
<1>5. /\ done \in Seq(Notification) /\ DOMAIN done = DOMAIN ntf
      /\ \A m \in DOMAIN ntf : done[m] = IF m = n THEN row ELSE ntf[m]
  BY <1>1, <1>3, RowSet
<1> HIDE DEF done
<1>6. /\ \A m \in DOMAIN ntf : ntf'[m] = done[m]
      /\ \A m \in DOMAIN ntf' \ DOMAIN ntf :
           /\ WantsRepeat(n)
           /\ \E fire, silent : ntf'[m] = NewRow(ntf[n].occ, "repeat", fire, silent)
  BY <1>1, <1>4, <1>5, WithNextRepeatType, SMTT(20)
<1>7. ASSUME NEW m \in DOMAIN ntf' \ DOMAIN ntf
      PROVE  occ'[ntf'[m].occ] \notin Finished
  <2>1. occ[ntf[n].occ] = "pending"
    BY <1>6 DEF WantsRepeat, Repeatable
  <2>2. PICK fire, silent : ntf'[m] = NewRow(ntf[n].occ, "repeat", fire, silent)
    BY <1>6
  <2>3. NewRow(ntf[n].occ, "repeat", fire, silent).occ = ntf[n].occ
    BY DEF NewRow
  <2> QED
    BY <1>4, <2>1, <2>2, <2>3 DEF Finished
<1>8. OnlyWanted
  BY <1>3, <1>5, <1>6, <1>7 DEF OnlyWanted
<1> QED
  BY <1>4, <1>8, NoneFinished DEF OwedStep

LEMMA DeliveryOwes ==
  ASSUME TypeOK, PlanOpen, DeliveryNext
  PROVE  OwedStep
<1>1. PICK w \in Worker : WorkerStep(w) \/ Crash(w)
  BY DEF DeliveryNext
<1>2. CASE UNCHANGED storeVars
  <2>1. OnlyWanted /\ UNCHANGED <<occ, rec>>
    BY <1>2 DEF storeVars, OnlyWanted
  <2> QED
    BY <2>1, NoneFinished DEF OwedStep
<1>3. CASE SendAccepted(w)
  <2> DEFINE row == [ntf[wk[w].n] EXCEPT !.copies = @ + 1]
  <2>1. wk[w].n \in DOMAIN ntf /\ ntf \in Seq(Notification)
    BY <1>3, Chosen DEF SendAccepted, TypeOK, StoreTypeOK
  <2>2. ntf' = [ntf EXCEPT ![wk[w].n] = row] /\ UNCHANGED <<occ, rec>>
    BY <1>3 DEF SendAccepted
  <2>3. row.status = ntf[wk[w].n].status
    BY <2>1, RowType DEF Notification
  <2> HIDE DEF row
  <2>4. OnlyWanted
    BY <2>1, <2>2, <2>3, PendingEdited
  <2> QED
    BY <2>2, <2>4, NoneFinished DEF OwedStep
<1>4. CASE FinalizeFailed(w)
  <2>1. wk[w].n \in DOMAIN ntf /\ UNCHANGED <<occ, rec>>
    BY <1>4, Chosen DEF FinalizeFailed
  <2>2. \/ UNCHANGED ntf
        \/ Pending(wk[w].n) /\ \E row : ntf' = [ntf EXCEPT ![wk[w].n] = row]
    BY <1>4 DEF FinalizeFailed
  <2>3. OnlyWanted
    <3>1. CASE UNCHANGED ntf
      BY <3>1 DEF OnlyWanted
    <3>2. CASE ~ UNCHANGED ntf
      BY <2>1, <2>2, <3>2, PendingEdited DEF Pending
    <3> QED
      BY <3>1, <3>2
  <2> QED
    BY <2>1, <2>3, NoneFinished DEF OwedStep
<1> QED
  BY <1>1, <1>2, <1>3, <1>4, ClaimsOwe, FinalizeSentOwes
     DEF WorkerStep, StartTick, EndTick, SelectCandidate, ClaimLost, SendRefused, Crash

-----------------------------------------------------------------------------
(* Steps of the owner. *)

\* Rows cancelled in place.
LEMMA RepeatsCancelled ==
  ASSUME TypeOK, PlanOpen, NEW o, ntf' = CancelRepeats(ntf, o), UNCHANGED <<occ, rec>>
  PROVE  OwedStep
<1>1. \A n \in DOMAIN ntf :
        ntf'[n] = ntf[n] \/ ntf[n].status = "pending"
  BY Zenon DEF CancelRepeats
<1>2. DOMAIN ntf' = DOMAIN ntf
  BY DEF CancelRepeats
<1>3. OnlyWanted
  BY <1>1, <1>2 DEF OnlyWanted
<1> QED
  BY <1>3, NoneFinished DEF OwedStep

\* What the withdrawal of o leaves pending is pending already, and of others.
LEMMA WithdrawalLeaves ==
  ASSUME TypeOK, NEW o, NEW n \in DOMAIN ntf,
         CancelPending(ntf, o)[n].status = "pending"
  PROVE  /\ ntf[n].status = "pending" /\ ntf[n].occ # o
         /\ CancelPending(ntf, o)[n] = ntf[n]
<1>1. ntf \in Seq(Notification)
  BY DEF TypeOK, StoreTypeOK
<1>2. ntf[n].occ # o
  BY <1>1, CancelPendingEvolves
<1>3. CancelPending(ntf, o)[n] = ntf[n]
  BY <1>2, Zenon DEF CancelPending
<1> QED
  BY <1>2, <1>3

\* One open occurrence is finished, nothing of it is left pending, and what a
\* reaction adds belongs to occurrences that are not finished.
LEMMA OneFinished ==
  ASSUME TypeOK, PlanOpen, SettingsFree, UNCHANGED rec, NEW o \in Slot,
         \A p \in Slot : occ'[p] \in Finished => occ'[p] = occ[p] \/ p = o,
         \A n \in DOMAIN ntf' : ntf'[n].status = "pending" =>
           \/ n \in DOMAIN ntf /\ CancelPending(ntf, o)[n].status = "pending"
                               /\ ntf'[n].occ = ntf[n].occ
           \/ occ'[ntf'[n].occ] \notin Finished
  PROVE  OwedStep
<1>1. OnlyWanted
  BY WithdrawalLeaves DEF OnlyWanted
<1>2. occ'[o] \in Finished => NoneLeft(o)
  BY WithdrawalLeaves DEF NoneLeft
<1>3. FinishedCleared
  BY <1>2 DEF FinishedCleared
<1>4. PlanOpen'
  BY DEF PlanOpen, SettingsFree
<1> QED
  BY <1>1, <1>3, <1>4 DEF OwedStep

LEMMA CloseOwes ==
  ASSUME TypeOK, PlanOpen, NEW n \in DOMAIN ntf, NEW intent, NEW status \in {"done", "skipped"},
         Close(n, intent, status)
  PROVE  OwedStep
<1>1. /\ ntf \in Seq(Notification) /\ occ \in [Slot -> OccurrenceStatus \cup {"none"}]
  BY DEF TypeOK, StoreTypeOK
<1>2. ntf[n].occ \in Slot /\ SettingsFree /\ UNCHANGED rec
  BY <1>1, RowType DEF Close, SourceLocked
<1>3. CASE UNCHANGED <<occ, ntf>>
  <2>1. OnlyWanted
    BY <1>3 DEF OnlyWanted
  <2> QED
    BY <1>2, <1>3, <2>1, NoneFinished DEF OwedStep
<1>4. CASE /\ occ' = [occ EXCEPT ![ntf[n].occ] = status]
           /\ ntf' = CancelPending(ntf, ntf[n].occ)
  <2>1. DOMAIN ntf' = DOMAIN ntf
    BY <1>4 DEF CancelPending
  <2>2. \A m \in DOMAIN ntf' : ntf'[m].occ = ntf[m].occ
    BY <1>1, <1>4, <2>1, CancelPendingEvolves
  <2>3. \A p \in Slot : occ'[p] \in Finished => occ'[p] = occ[p] \/ p = ntf[n].occ
    BY <1>1, <1>4
  <2> QED
    BY <1>2, <1>4, <2>1, <2>2, <2>3, OneFinished
<1> QED
  BY <1>3, <1>4 DEF Close

LEMMA SnoozeOwes ==
  ASSUME TypeOK, PlanOpen, NEW n \in DOMAIN ntf, Snooze(n)
  PROVE  OwedStep
<1> DEFINE o == ntf[n].occ
           rows == CancelPending(ntf, o)
<1>1. /\ ntf \in Seq(Notification) /\ occ \in [Slot -> OccurrenceStatus \cup {"none"}]
      /\ Len(ntf) \in Nat
  BY LenProperties DEF TypeOK, StoreTypeOK
<1>2. /\ o \in Slot /\ SettingsFree /\ UNCHANGED rec
      /\ occ' = [occ EXCEPT ![o] = "pending"]
  BY <1>1, RowType DEF Snooze, SourceLocked
<1>3. /\ rows \in Seq(Notification) /\ DOMAIN rows = DOMAIN ntf
      /\ \A m \in DOMAIN ntf : rows[m].occ = ntf[m].occ
  BY <1>1, CancelPendingType, CancelPendingEvolves DEF CancelPending
<1>4. \A p \in Slot : occ'[p] \in Finished => occ'[p] = occ[p] \/ p = o
  BY <1>1, <1>2
<1>5. occ'[o] \notin Finished
  BY <1>1, <1>2 DEF Finished
<1> HIDE DEF rows
<1>6. \A m \in DOMAIN ntf' :
        (m \in DOMAIN ntf /\ ntf'[m] = rows[m]) \/ ntf'[m].occ = o
  <2>1. CASE ntf' = Append(rows, NewRow(o, "main", SnoozeTarget(o), FALSE))
    <3> DEFINE new == NewRow(o, "main", SnoozeTarget(o), FALSE)
    <3>1. new \in Notification /\ new.occ = o
      <4>1. SnoozeTarget(o) \in Int
        BY StoreAssumption, ReactionsAssumption DEF TypeOK, StoreTypeOK, SnoozeTarget
      <4>2. new.occ = o
        BY DEF NewRow
      <4> QED
        BY <1>2, <4>1, <4>2, NewRowType DEF NotificationKind
    <3> HIDE DEF new
    <3>2. /\ DOMAIN Append(rows, new) = DOMAIN rows \cup {Len(rows) + 1}
          /\ \A m \in DOMAIN rows : Append(rows, new)[m] = rows[m]
          /\ Append(rows, new)[Len(rows) + 1] = new
      BY <1>3, <3>1, RowAppended
    <3>3. ntf' = Append(rows, new)
      BY <2>1 DEF new
    <3> QED
      BY <1>3, <3>1, <3>2, <3>3
  <2>2. CASE \E m \in RowsOf(o) :
               ntf' = [rows EXCEPT ![m].status = "pending", ![m].next = NoAttempt]
    <3>1. PICK m \in RowsOf(o) :
            ntf' = [rows EXCEPT ![m].status = "pending", ![m].next = NoAttempt]
      BY <2>2
    <3> DEFINE row == [rows[m] EXCEPT !.status = "pending", !.next = NoAttempt]
    <3>2. m \in DOMAIN ntf /\ ntf[m].occ = o /\ rows[m] \in Notification
      BY <1>3, RowType DEF RowsOf
    <3>3. ntf' = [rows EXCEPT ![m] = row]
      BY <3>1
    <3>4. row.occ = o
      BY <1>3, <3>2 DEF Notification
    <3> HIDE DEF row
    <3> QED
      BY <1>3, <3>2, <3>3, <3>4
  <2> QED
    BY <2>1, <2>2 DEF Snooze, rows
<1>7. \A m \in DOMAIN ntf' : ntf'[m].status = "pending" =>
        \/ m \in DOMAIN ntf /\ rows[m].status = "pending" /\ ntf'[m].occ = ntf[m].occ
        \/ occ'[ntf'[m].occ] \notin Finished
  BY <1>3, <1>5, <1>6
<1> QED
  BY <1>2, <1>4, <1>7, OneFinished DEF rows

\* The rows an upsert of plan makes pending belong to plan.
LEMMA UpsertedPending ==
  ASSUME NEW rows \in Seq(Notification), NEW plan \in SUBSET Slot,
         NEW new \in Upserted(rows, plan), NEW n \in DOMAIN new, new[n].status = "pending"
  PROVE  \/ n \in DOMAIN rows /\ new[n] = rows[n]
         \/ new[n].occ \in plan
<1>1. CASE n \in DOMAIN rows
  <2>1. CASE /\ KeyOf(rows[n]) \in PlanKeys(plan) /\ new[n] = Revived(rows[n])
    <3>1. KeyOf(rows[n]).occ \in plan
      BY <2>1, PlanKeysType
    <3>2. Revived(rows[n]).occ = rows[n].occ
      BY <1>1, RowType DEF Revived, Notification
    <3> QED
      BY <2>1, <3>1, <3>2 DEF KeyOf
  <2> QED
    BY <1>1, <2>1, UpsertedRows
<1>2. CASE n \notin DOMAIN rows
  <2>1. PICK k \in PlanKeys(plan) : new[n] = NewRow(k.occ, k.kind, k.fire, FALSE)
    <3>1. n \in DOMAIN new \ DOMAIN rows
      BY <1>2
    <3> QED
      BY <3>1, UpsertedRows, Zenon
  <2>2. k.occ \in plan
    BY PlanKeysType
  <2>3. NewRow(k.occ, k.kind, k.fire, FALSE).occ = k.occ
    BY DEF NewRow
  <2> QED
    BY <2>1, <2>2, <2>3
<1> QED
  BY <1>1, <1>2

LEMMA MoveOwes ==
  ASSUME TypeOK, PlanOpen, NEW n \in DOMAIN ntf, NEW target \in Slot, MoveTo(n, target)
  PROVE  OwedStep
<1> DEFINE o == ntf[n].occ
           rows == CancelPending(ntf, o)
<1>1. /\ ntf \in Seq(Notification) /\ occ \in [Slot -> OccurrenceStatus \cup {"none"}]
  BY DEF TypeOK, StoreTypeOK
<1>2. /\ o \in Slot /\ SettingsFree /\ UNCHANGED rec
      /\ occ[target] = "none" /\ occ[o] \in {"pending", "missed"}
      /\ occ' = [occ EXCEPT ![o] = "moved", ![target] = "pending"]
      /\ ntf' \in Upserted(rows, {target})
  BY <1>1, RowType DEF MoveTo, SourceLocked, Actionable
<1>3. /\ rows \in Seq(Notification) /\ DOMAIN rows = DOMAIN ntf
      /\ \A m \in DOMAIN ntf : rows[m].occ = ntf[m].occ
  BY <1>1, CancelPendingType, CancelPendingEvolves DEF CancelPending
<1>4. /\ \A p \in Slot : occ'[p] \in Finished => occ'[p] = occ[p] \/ p = o
      /\ occ'[target] \notin Finished
  BY <1>1, <1>2 DEF Finished
<1> HIDE DEF rows
<1>5. ASSUME NEW m \in DOMAIN ntf', ntf'[m].status = "pending"
      PROVE  \/ m \in DOMAIN ntf /\ rows[m].status = "pending" /\ ntf'[m].occ = ntf[m].occ
             \/ occ'[ntf'[m].occ] \notin Finished
  <2>1. \/ m \in DOMAIN rows /\ ntf'[m] = rows[m]
        \/ ntf'[m].occ \in {target}
    <3>1. {target} \in SUBSET Slot
      OBVIOUS
    <3> QED
      BY <1>2, <1>3, <1>5, <3>1, UpsertedPending
  <2> QED
    BY <1>3, <1>4, <1>5, <2>1
<1> QED
  BY <1>2, <1>4, <1>5, OneFinished DEF rows

LEMMA ReactionsOwe ==
  ASSUME TypeOK, PlanOpen, ReactionsNext
  PROVE  OwedStep
<1>1. ASSUME NEW o \in Slot, Acknowledge(o) PROVE OwedStep
  BY <1>1, RepeatsCancelled DEF Acknowledge
<1>2. ASSUME NEW n \in DOMAIN ntf, ReactToNotification(n) \/ PreviewMove(n) PROVE OwedStep
  BY <1>2, RepeatsCancelled DEF ReactToNotification, PreviewMove
<1>3. CASE UpdateQuietHours \/ ReactToMessage
  <2>1. UNCHANGED <<occ, rec>>
    BY <1>3 DEF UpdateQuietHours, ReactToMessage
  <2>2. CASE UNCHANGED ntf
    <3>1. OnlyWanted
      BY <2>2 DEF OnlyWanted
    <3> QED
      BY <2>1, <3>1, NoneFinished DEF OwedStep
  <2>3. CASE ntf' = CancelRepeats(ntf, ntf[ctx.n].occ)
    BY <2>1, <2>3, RepeatsCancelled
  <2> QED
    BY <1>3, <2>2, <2>3 DEF UpdateQuietHours, ReactToMessage
<1>4. ASSUME NEW o \in Slot, SkipOccurrence(o) PROVE OwedStep
  <2>1. /\ occ \in [Slot -> OccurrenceStatus \cup {"none"}]
        /\ occ' = [occ EXCEPT ![o] = "skipped"] /\ UNCHANGED rec
    BY <1>4 DEF SkipOccurrence, TypeOK, StoreTypeOK
  <2>2. \A p \in Slot : occ'[p] \in Finished => occ'[p] = occ[p]
    BY <2>1 DEF Finished
  <2>3. DOMAIN ntf' = DOMAIN ntf
    BY <1>4 DEF SkipOccurrence
  <2>4. \A n \in DOMAIN ntf : ntf'[n] = ntf[n] \/ ntf[n].status = "pending"
    BY <1>4, Zenon DEF SkipOccurrence, Pending
  <2>5. OnlyWanted
    BY <2>3, <2>4 DEF OnlyWanted
  <2> QED
    BY <2>1, <2>2, <2>5, NoneFinished DEF OwedStep
<1>5. ASSUME NEW n \in DOMAIN ntf, Complete(n) \/ SkipFromNotification(n) PROVE OwedStep
  BY <1>5, CloseOwes DEF Complete, SkipFromNotification
<1> QED
  BY <1>1, <1>2, <1>3, <1>4, <1>5, SnoozeOwes, MoveOwes DEF ReactionsNext

-----------------------------------------------------------------------------
(* Steps of reconciliation, and the whole. *)

LEMMA SchedulingOwes ==
  ASSUME TypeOK, PlanOpen, SchedulingNext
  PROVE  OwedStep
<1>1. /\ ntf \in Seq(Notification) /\ rec.plan \in SUBSET Slot
      /\ occ \in [Slot -> OccurrenceStatus \cup {"none"}]
  BY DEF TypeOK, StoreTypeOK
<1>2. CASE ReconcileRead
  <2>1. /\ UNCHANGED <<occ, ntf>> /\ rec'.pc = "writing" /\ rec'.plan = Schedulable
    BY <1>2 DEF ReconcileRead
  <2>2. \A o \in Schedulable : occ[o] \in {"pending", "none"}
    BY DEF Schedulable, Unfolded
  <2> QED
    BY <2>1, <2>2 DEF OwedStep, OnlyWanted, FinishedCleared, PlanOpen, Finished
<1>3. CASE ReconcileAbort
  BY <1>3 DEF ReconcileAbort, NoReconcile, OwedStep, OnlyWanted, FinishedCleared, PlanOpen
<1>4. CASE ReconcileWrite
  <2>1. /\ occ' = [o \in Slot |-> IF o \in rec.born THEN "pending" ELSE occ[o]]
        /\ ntf' \in Upserted(ntf, rec.plan) /\ rec'.plan = {}
    BY <1>4 DEF ReconcileWrite, NoReconcile
  <2>2. /\ \A o \in Slot : occ'[o] \in Finished => occ'[o] = occ[o]
        /\ \A o \in rec.plan : occ'[o] \notin Finished
    BY <1>1, <2>1 DEF PlanOpen, Finished
  <2>3. OnlyWanted
    BY <1>1, <2>1, <2>2, UpsertedPending DEF OnlyWanted
  <2> QED
    BY <2>1, <2>2, <2>3 DEF OwedStep, FinishedCleared, PlanOpen
<1> QED
  BY <1>2, <1>3, <1>4 DEF SchedulingNext

LEMMA StepOwes ==
  ASSUME TypeOK, PlanOpen, [Next]_vars
  PROVE  OwedStep
<1>1. CASE Advance \/ UNCHANGED vars
  <2>1. OnlyWanted /\ UNCHANGED <<occ, rec>>
    BY <1>1 DEF Advance, vars, storeVars, OnlyWanted
  <2> QED
    BY <2>1, NoneFinished DEF OwedStep
<1> QED
  BY <1>1, DeliveryOwes, ReactionsOwe, SchedulingOwes DEF Next

\* An occurrence the owner completed or moved never has a signal left to send,
\* though a reconciliation may be writing the plan it read before, a worker may
\* be recording a success, and a snooze may have brought rows back: none of
\* them adds to a finished occurrence, and finishing it withdraws the rest.
THEOREM FinishedOwesNothing == Spec => []ClosedOwesNothing
<1>1. ASSUME Init PROVE ClosedOwesNothing /\ PlanOpen
  BY <1>1 DEF Init, StoreInit, NoReconcile, ClosedOwesNothing, PlanOpen
<1>2. ASSUME TypeOK, ClosedOwesNothing, PlanOpen, [Next]_vars
      PROVE  ClosedOwesNothing' /\ PlanOpen'
  <2>1. RowsEvolve /\ TypeOK'
    BY <1>2, StepEvolves
  <2>2. OwedStep
    BY <1>2, StepOwes
  <2>3. ASSUME NEW n \in DOMAIN ntf', occ'[ntf'[n].occ] \in Finished,
               ntf'[n].status = "pending"
        PROVE  FALSE
    <3>1. /\ n \in DOMAIN ntf /\ ntf[n].status = "pending"
      BY <2>2, <2>3 DEF OwedStep, OnlyWanted
    <3>2. ntf'[n].occ = ntf[n].occ
      BY <2>1, <3>1 DEF RowsEvolve, RowEvolves
    <3>3. ntf[n].occ \in Slot
      BY <1>2, <3>1, RowType DEF TypeOK, StoreTypeOK
    <3>4. occ'[ntf[n].occ] = occ[ntf[n].occ]
      BY <2>2, <2>3, <3>2, <3>3 DEF OwedStep, FinishedCleared, NoneLeft
    <3> QED
      BY <1>2, <2>3, <3>1, <3>2, <3>4 DEF ClosedOwesNothing, Pending, Finished
  <2> QED
    BY <2>2, <2>3 DEF OwedStep, ClosedOwesNothing, Pending, Finished
<1> QED
  BY <1>1, <1>2, TypeCorrect, PTL DEF Spec

-----------------------------------------------------------------------------
(* The active context. *)

\* The context is dropped, kept while what it names stays open, or given to a
\* row whose occurrence is open.
ContextStep ==
  \/ ctx'.n = 0
  \/ /\ ctx' = ctx
     /\ \A o \in Slot : Closed(o)' => occ'[o] = occ[o] \/ ~ ContextOf(o)
  \/ /\ occ' = occ /\ ctx'.n \in DOMAIN ntf
     /\ occ[ntf[ctx'.n].occ] = "pending"

\* The occurrences other than o stay as they are or are open, and the context
\* of o is dropped.
LEMMA ContextDropped ==
  ASSUME NEW o, ctx' = ContextWithout(o),
         \A p \in Slot : occ'[p] = occ[p] \/ occ'[p] = "pending" \/ p = o
  PROVE  ContextStep
<1>1. CASE ContextOf(o)
  BY <1>1 DEF ContextStep, ContextWithout, NoContext
<1>2. CASE ~ ContextOf(o)
  <2>1. \A p \in Slot : Closed(p)' => occ'[p] = occ[p] \/ ~ ContextOf(p)
    BY <1>2 DEF Closed
  <2> QED
    BY <1>2, <2>1 DEF ContextStep, ContextWithout
<1> QED
  BY <1>1, <1>2

\* The occurrences stay as they are, and so does the context, unless dropped.
LEMMA ContextStays ==
  ASSUME UNCHANGED occ, ctx' = ctx \/ ctx' = NoContext
  PROVE  ContextStep
BY DEF ContextStep, NoContext

LEMMA DeliveryContext ==
  ASSUME TypeOK, DeliveryNext
  PROVE  ContextStep
<1>1. PICK w \in Worker : WorkerStep(w) \/ Crash(w)
  BY DEF DeliveryNext
<1>2. CASE ClaimSend(w)
  <2>1. wk[w].n \in DOMAIN ntf
    BY <1>2, Chosen DEF ClaimSend, Deliverable, Claimable, StillDue
  <2>2. occ[ntf[wk[w].n].occ] = "pending" /\ occ' = occ /\ ctx'.n = wk[w].n
    BY <1>2 DEF ClaimSend, Deliverable, Claimable, ClaimCancels
  <2> QED
    BY <2>1, <2>2 DEF ContextStep
<1>3. CASE ClaimMiss(w)
  <2>1. /\ occ' = occ \/ occ' = [occ EXCEPT ![ntf[wk[w].n].occ] = "missed"]
        /\ ctx' = ctx /\ occ \in [Slot -> OccurrenceStatus \cup {"none"}]
    BY <1>3 DEF ClaimMiss, TypeOK, StoreTypeOK
  <2> QED
    BY <2>1 DEF ContextStep, Closed
<1>4. CASE ~ (ClaimSend(w) \/ ClaimMiss(w))
  <2>1. UNCHANGED occ /\ (ctx' = ctx \/ ctx' = NoContext)
    BY <1>1, <1>4
       DEF WorkerStep, StartTick, EndTick, SelectCandidate, ClaimLost, ClaimCancel,
           ClaimDuplicate, ClaimPostpone, SendAccepted, SendRefused, FinalizeSent,
           FinalizeFailed, Crash, storeVars
  <2> QED
    BY <2>1, ContextStays
<1> QED
  BY <1>2, <1>3, <1>4

LEMMA ReactionsContext ==
  ASSUME TypeOK, ReactionsNext
  PROVE  ContextStep
<1>1. occ \in [Slot -> OccurrenceStatus \cup {"none"}] /\ ntf \in Seq(Notification)
  BY DEF TypeOK, StoreTypeOK
<1>2. ASSUME NEW o \in Slot, Acknowledge(o) \/ SkipOccurrence(o) PROVE ContextStep
  BY <1>1, <1>2, ContextDropped DEF Acknowledge, SkipOccurrence
<1>3. CASE ReactToMessage \/ UpdateQuietHours
  BY <1>3, ContextStays DEF ReactToMessage, UpdateQuietHours
<1>4. ASSUME NEW n \in DOMAIN ntf, ReactToNotification(n) \/ PreviewMove(n)
      PROVE  ContextStep
  BY <1>4, ContextStays DEF ReactToNotification, PreviewMove, ContextWithout
<1>5. ASSUME NEW n \in DOMAIN ntf, NEW intent, NEW status, Close(n, intent, status)
      PROVE  ContextStep
  <2>1. CASE UNCHANGED <<occ, ntf, ctx, stopped>>
    BY <2>1, ContextStays
  <2>2. CASE occ' = [occ EXCEPT ![ntf[n].occ] = status] /\ ctx' = ContextWithout(ntf[n].occ)
    BY <1>1, <2>2, ContextDropped
  <2> QED
    BY <1>5, <2>1, <2>2 DEF Close, Withdraw
<1>6. ASSUME NEW n \in DOMAIN ntf, Snooze(n) PROVE ContextStep
  <2>1. occ' = [occ EXCEPT ![ntf[n].occ] = "pending"] /\ ctx' = ContextWithout(ntf[n].occ)
    BY <1>6 DEF Snooze, Withdraw
  <2> QED
    BY <1>1, <2>1, ContextDropped
<1>7. ASSUME NEW n \in DOMAIN ntf, NEW target \in Slot, MoveTo(n, target)
      PROVE  ContextStep
  <2>1. /\ occ' = [occ EXCEPT ![ntf[n].occ] = "moved", ![target] = "pending"]
        /\ ctx' = ContextWithout(ntf[n].occ)
    BY <1>7 DEF MoveTo, Withdraw
  <2> QED
    BY <1>1, <2>1, ContextDropped
<1> QED
  BY <1>2, <1>3, <1>4, <1>5, <1>6, <1>7 DEF ReactionsNext, Complete, SkipFromNotification

LEMMA StepContext ==
  ASSUME TypeOK, [Next]_vars
  PROVE  ContextStep
<1>1. CASE SchedulingNext
  <2>1. CASE ReconcileWrite
    <3>1. /\ occ' = [o \in Slot |-> IF o \in rec.born THEN "pending" ELSE occ[o]]
          /\ ctx' = ctx
      BY <2>1 DEF ReconcileWrite
    <3> QED
      BY <3>1 DEF ContextStep, Closed
  <2>2. CASE ReconcileRead \/ ReconcileAbort
    BY <2>2, ContextStays DEF ReconcileRead, ReconcileAbort
  <2> QED
    BY <1>1, <2>1, <2>2 DEF SchedulingNext
<1>2. CASE Advance \/ UNCHANGED vars
  BY <1>2, ContextStays DEF Advance, vars, storeVars
<1> QED
  BY <1>1, <1>2, DeliveryContext, ReactionsContext DEF Next

\* The context, which any message of the owner acts on, never names an
\* occurrence that is done, skipped or moved: closing one drops its context,
\* and a claim that sets it has just seen its occurrence open.
THEOREM ContextStaysOpen == Spec => []ContextIsOpen
<1>1. Init => ContextIsOpen
  BY DEF Init, StoreInit, NoContext, ContextIsOpen
<1>2. ASSUME TypeOK, ContextIsOpen, [Next]_vars PROVE ContextIsOpen'
  <2>1. RowsEvolve /\ ContextStep /\ ntf \in Seq(Notification)
    BY <1>2, StepEvolves, StepContext DEF TypeOK, StoreTypeOK
  <2>2. SUFFICES ASSUME ctx'.n # 0 PROVE ~ Closed(ntf[ctx.n].occ)'
    BY DEF ContextIsOpen
  <2>3. ASSUME ctx'.n \in DOMAIN ntf
        PROVE  ntf'[ctx'.n].occ = ntf[ctx'.n].occ /\ ntf[ctx'.n].occ \in Slot
    BY <2>1, <2>3, RowType DEF RowsEvolve, RowEvolves
  <2>4. CASE /\ ctx' = ctx
             /\ \A o \in Slot : Closed(o)' => occ'[o] = occ[o] \/ ~ ContextOf(o)
    <3>1. ctx.n \in DOMAIN ntf
      <4>1. ctx.n \in 0 .. Len(ntf) /\ Len(ntf) \in Nat /\ DOMAIN ntf = 1 .. Len(ntf)
        BY <1>2, LenProperties DEF TypeOK, StoreTypeOK
      <4> QED
        BY <2>2, <2>4, <4>1
    <3> QED
      BY <1>2, <2>2, <2>3, <2>4, <3>1 DEF ContextIsOpen, ContextOf, Closed
  <2>5. CASE /\ occ' = occ /\ ctx'.n \in DOMAIN ntf
             /\ occ[ntf[ctx'.n].occ] = "pending"
    BY <2>3, <2>5 DEF Closed
  <2> QED
    BY <2>1, <2>2, <2>4, <2>5 DEF ContextStep
<1> QED
  BY <1>1, <1>2, TypeCorrect, PTL DEF Spec

-----------------------------------------------------------------------------
(* The rows as their owner sees them. *)

Sig(row) == [occ |-> row.occ, kind |-> row.kind, status |-> row.status]

SignalsOf(rows) == [n \in DOMAIN rows |-> Sig(rows[n])]

LEMMA SignalsAre == Signals = SignalsOf(ntf) /\ Signals' = SignalsOf(ntf')
BY DEF Signals, SignalsOf, Sig

LEMMA SignalsType ==
  ASSUME NEW rows \in Seq(Notification)
  PROVE  /\ SignalsOf(rows) \in Seq([occ : Slot, kind : NotificationKind,
                                      status : NotificationStatus])
         /\ Len(SignalsOf(rows)) = Len(rows)
         /\ DOMAIN SignalsOf(rows) = DOMAIN rows
         /\ \A n \in DOMAIN rows : SignalsOf(rows)[n] = Sig(rows[n])
<1> DEFINE Signal == [occ : Slot, kind : NotificationKind, status : NotificationStatus]
<1>1. DOMAIN rows = 1 .. Len(rows) /\ Len(rows) \in Nat
  BY LenProperties
<1>2. SignalsOf(rows) \in [1 .. Len(rows) -> Signal]
  <2>1. \A n \in DOMAIN rows : Sig(rows[n]) \in Signal
    BY RowType DEF Sig
  <2> QED
    BY <1>1, <2>1 DEF SignalsOf
<1> HIDE DEF Signal
<1>3. SignalsOf(rows) \in Seq(Signal)
  BY <1>1, <1>2, SeqDef
<1>4. DOMAIN SignalsOf(rows) = 1 .. Len(SignalsOf(rows)) /\ Len(SignalsOf(rows)) \in Nat
  BY <1>3, LenProperties
<1>5. DOMAIN SignalsOf(rows) = DOMAIN rows
      /\ \A n \in DOMAIN rows : SignalsOf(rows)[n] = Sig(rows[n])
  BY DEF SignalsOf
<1>6. Len(SignalsOf(rows)) = Len(rows)
  BY <1>1, <1>2, <1>4
<1> QED
  BY <1>3, <1>5, <1>6 DEF Signal

\* One row changes status.
LEMMA OneSignal ==
  ASSUME NEW rows \in Seq(Notification), NEW n \in DOMAIN rows, NEW row \in Notification,
         row.occ = rows[n].occ, row.kind = rows[n].kind
  PROVE  SignalsOf([rows EXCEPT ![n] = row])
           = [SignalsOf(rows) EXCEPT ![n].status = row.status]
<1>1. Sig(row) = [Sig(rows[n]) EXCEPT !.status = row.status]
  BY DEF Sig
<1> DEFINE new == [rows EXCEPT ![n] = row]
<1>2. DOMAIN new = DOMAIN rows /\ \A m \in DOMAIN rows : new[m] = IF m = n THEN row ELSE rows[m]
  BY RowSet
<1> HIDE DEF new
<1>3. \A m \in DOMAIN rows : Sig(new[m]) = IF m = n THEN Sig(row) ELSE Sig(rows[m])
  BY <1>2
<1>4. SignalsOf(new) = [SignalsOf(rows) EXCEPT ![n] = Sig(row)]
  BY <1>2, <1>3 DEF SignalsOf
<1>5. [SignalsOf(rows) EXCEPT ![n].status = row.status]
        = [SignalsOf(rows) EXCEPT ![n] = [Sig(rows[n]) EXCEPT !.status = row.status]]
  <2>1. SignalsOf(rows)[n] = Sig(rows[n])
    BY DEF SignalsOf
  <2> QED
    BY <2>1
<1> QED
  BY <1>1, <1>4, <1>5 DEF new

LEMMA SameSignal ==
  ASSUME NEW rows \in Seq(Notification), NEW n \in DOMAIN rows, NEW row \in Notification,
         row.occ = rows[n].occ, row.kind = rows[n].kind, row.status = rows[n].status
  PROVE  SignalsOf([rows EXCEPT ![n] = row]) = SignalsOf(rows)
<1>1. [SignalsOf(rows) EXCEPT ![n].status = row.status] = SignalsOf(rows)
  <2>1. [Sig(rows[n]) EXCEPT !.status = row.status] = Sig(rows[n])
    BY DEF Sig
  <2>2. [SignalsOf(rows) EXCEPT ![n] = Sig(rows[n])] = SignalsOf(rows)
    BY DEF SignalsOf
  <2> QED
    BY <2>1, <2>2 DEF SignalsOf
<1> QED
  BY <1>1, OneSignal

LEMMA SignalAppended ==
  ASSUME NEW rows \in Seq(Notification), NEW row \in Notification
  PROVE  SignalsOf(Append(rows, row)) = Append(SignalsOf(rows), Sig(row))
<1> DEFINE Signal == [occ : Slot, kind : NotificationKind, status : NotificationStatus]
           old == SignalsOf(rows)
           lhs == SignalsOf(Append(rows, row))
           rhs == Append(old, Sig(row))
<1>1. /\ Append(rows, row) \in Seq(Notification)
      /\ DOMAIN Append(rows, row) = DOMAIN rows \cup {Len(rows) + 1}
      /\ \A n \in DOMAIN rows : Append(rows, row)[n] = rows[n]
      /\ Append(rows, row)[Len(rows) + 1] = row
      /\ DOMAIN rows = 1 .. Len(rows) /\ Len(rows) \in Nat
  BY RowAppended, LenProperties
<1>2. /\ DOMAIN lhs = DOMAIN rows \cup {Len(rows) + 1}
      /\ \A n \in DOMAIN rows : lhs[n] = Sig(rows[n])
      /\ lhs[Len(rows) + 1] = Sig(row)
  BY <1>1 DEF SignalsOf
<1>3. Sig(row) \in Signal /\ old \in Seq(Signal) /\ Len(old) = Len(rows)
      /\ \A n \in DOMAIN rows : old[n] = Sig(rows[n])
  BY SignalsType DEF Sig, Notification
<1> HIDE DEF Signal, old
<1>4. /\ rhs \in Seq(Signal) /\ DOMAIN rhs = 1 .. Len(rhs) /\ Len(rhs) = Len(rows) + 1
      /\ \A n \in 1 .. Len(rows) : rhs[n] = old[n]
      /\ rhs[Len(rows) + 1] = Sig(row)
  <2>1. rhs \in Seq(Signal) /\ Len(rhs) = Len(rows) + 1
    BY <1>3, AppendProperties
  <2>2. DOMAIN rhs = 1 .. Len(rhs)
    BY <2>1, LenProperties
  <2> QED
    BY <1>3, <2>1, <2>2, AppendProperties
<1>5. DOMAIN lhs = DOMAIN rhs
  BY <1>1, <1>2, <1>4
<1>6. \A n \in DOMAIN lhs : lhs[n] = rhs[n]
  BY <1>1, <1>2, <1>3, <1>4
<1>7. lhs = [n \in DOMAIN lhs |-> lhs[n]] /\ rhs = [n \in DOMAIN rhs |-> rhs[n]]
  <2>1. lhs = [n \in DOMAIN lhs |-> lhs[n]]
    BY DEF SignalsOf
  <2>2. rhs = [n \in DOMAIN rhs |-> rhs[n]]
    <3>1. rhs \in [1 .. Len(rhs) -> Signal]
      BY <1>4, LenProperties
    <3> HIDE DEF rhs
    <3> QED
      BY <1>4, <3>1
  <2> QED
    BY <2>1, <2>2
<1> HIDE DEF lhs, rhs
<1>8. lhs = rhs
  BY <1>5, <1>6, <1>7
<1> QED
  BY <1>8 DEF lhs, rhs, old

\* The two ways of cancelling in place.
LEMMA SignalsWithdrawn ==
  ASSUME TypeOK, NEW o
  PROVE  /\ SignalsOf(CancelPending(ntf, o)) = Promise!Withdrawn(o)
         /\ SignalsOf(CancelRepeats(ntf, o)) =
              [n \in DOMAIN Signals |->
                 IF /\ Signals[n].occ = o /\ Signals[n].kind = "repeat"
                    /\ Signals[n].status = "pending"
                   THEN [Signals[n] EXCEPT !.status = "cancelled"] ELSE Signals[n]]
<1>1. ntf \in Seq(Notification)
  BY DEF TypeOK, StoreTypeOK
<1>2. /\ DOMAIN Signals = DOMAIN ntf
      /\ \A n \in DOMAIN ntf : Signals[n] = Sig(ntf[n])
  BY DEF Signals, Sig
<1>3. ASSUME NEW n \in DOMAIN ntf
      PROVE  Sig(Settled(ntf[n], "cancelled", NoAttempt))
               = [Sig(ntf[n]) EXCEPT !.status = "cancelled"]
  <2> DEFINE row == Settled(ntf[n], "cancelled", NoAttempt)
  <2>1. row.occ = ntf[n].occ /\ row.kind = ntf[n].kind /\ row.status = "cancelled"
    BY <1>1, RowType DEF Settled, Notification
  <2> HIDE DEF row
  <2>2. Sig(row) = [occ |-> ntf[n].occ, kind |-> ntf[n].kind, status |-> "cancelled"]
    BY <2>1 DEF Sig
  <2>3. [Sig(ntf[n]) EXCEPT !.status = "cancelled"]
          = [occ |-> ntf[n].occ, kind |-> ntf[n].kind, status |-> "cancelled"]
    BY DEF Sig
  <2> QED
    BY <2>2, <2>3 DEF row
<1>4. \A n \in DOMAIN ntf :
        /\ CancelPending(ntf, o)[n] =
             IF ntf[n].occ = o /\ ntf[n].status = "pending"
               THEN Settled(ntf[n], "cancelled", NoAttempt) ELSE ntf[n]
        /\ CancelRepeats(ntf, o)[n] =
             IF ntf[n].occ = o /\ ntf[n].kind = "repeat" /\ ntf[n].status = "pending"
               THEN Settled(ntf[n], "cancelled", NoAttempt) ELSE ntf[n]
  BY Zenon DEF CancelRepeats, CancelPending, Settled
<1>5. DOMAIN CancelRepeats(ntf, o) = DOMAIN ntf /\ DOMAIN CancelPending(ntf, o) = DOMAIN ntf
  BY DEF CancelRepeats, CancelPending
<1>6. \A n \in DOMAIN ntf :
        /\ Signals[n].occ = ntf[n].occ /\ Signals[n].kind = ntf[n].kind
        /\ Signals[n].status = ntf[n].status
  BY <1>2 DEF Sig
<1>7. SignalsOf(CancelPending(ntf, o)) =
        [n \in DOMAIN ntf |->
           IF ntf[n].occ = o /\ ntf[n].status = "pending"
             THEN [Sig(ntf[n]) EXCEPT !.status = "cancelled"] ELSE Sig(ntf[n])]
  BY <1>3, <1>4, <1>5 DEF SignalsOf
<1>8. SignalsOf(CancelRepeats(ntf, o)) =
        [n \in DOMAIN ntf |->
           IF ntf[n].occ = o /\ ntf[n].kind = "repeat" /\ ntf[n].status = "pending"
             THEN [Sig(ntf[n]) EXCEPT !.status = "cancelled"] ELSE Sig(ntf[n])]
  BY <1>3, <1>4, <1>5 DEF SignalsOf
<1> HIDE DEF Sig
<1>9. Promise!Withdrawn(o) =
        [n \in DOMAIN ntf |->
           IF ntf[n].occ = o /\ ntf[n].status = "pending"
             THEN [Sig(ntf[n]) EXCEPT !.status = "cancelled"] ELSE Sig(ntf[n])]
  BY <1>2, <1>6 DEF Promise!Withdrawn
<1> QED
  BY <1>2, <1>6, <1>7, <1>8, <1>9

\* A plan that is upserted adds or brings back signals of its occurrences.
LEMMA SignalsPlanned ==
  ASSUME NEW rows \in Seq(Notification), NEW plan \in SUBSET Slot,
         NEW new \in Upserted(rows, plan), NEW wide, plan \subseteq wide
  PROVE  Promise!Planned(SignalsOf(rows), SignalsOf(new), wide)
<1>1. new \in Seq(Notification) /\ Len(rows) <= Len(new)
  BY UpsertedRows
<1>2. DOMAIN rows \subseteq DOMAIN new
  <2>1. /\ DOMAIN rows = 1 .. Len(rows) /\ Len(rows) \in Nat
        /\ DOMAIN new = 1 .. Len(new) /\ Len(new) \in Nat
    BY <1>1, LenProperties
  <2> QED
    BY <1>1, <2>1
<1>3. \A k \in PlanKeys(plan) : k.occ \in wide /\ k.kind # "repeat"
  BY PlanKeysType
<1>4. ASSUME NEW n \in DOMAIN rows
      PROVE  \/ Sig(new[n]) = Sig(rows[n])
             \/ /\ Sig(rows[n]).status = "cancelled"
                /\ Sig(new[n]).occ \in wide /\ Sig(new[n]).kind # "repeat"
                /\ Sig(new[n]).status = "pending"
                /\ Sig(new[n]) = [Sig(rows[n]) EXCEPT !.status = "pending"]
  <2>1. CASE /\ rows[n].status = "cancelled" /\ KeyOf(rows[n]) \in PlanKeys(plan)
             /\ new[n] = Revived(rows[n])
    <3>1. rows[n].occ \in wide /\ rows[n].kind # "repeat"
      BY <1>3, <2>1 DEF KeyOf
    <3>2. /\ Revived(rows[n]).occ = rows[n].occ /\ Revived(rows[n]).kind = rows[n].kind
          /\ Revived(rows[n]).status = "pending"
      BY RowType DEF Revived, Notification
    <3> QED
      BY <2>1, <3>1, <3>2 DEF Sig
  <2> QED
    BY <2>1, UpsertedRows
<1>5. ASSUME NEW n \in DOMAIN new \ DOMAIN rows
      PROVE  /\ Sig(new[n]).occ \in wide /\ Sig(new[n]).kind # "repeat"
             /\ Sig(new[n]).status = "pending"
  <2>1. PICK k \in PlanKeys(plan) : new[n] = NewRow(k.occ, k.kind, k.fire, FALSE)
    BY UpsertedRows
  <2> QED
    BY <1>3, <2>1 DEF NewRow, Sig
<1>6. /\ DOMAIN SignalsOf(rows) = DOMAIN rows /\ DOMAIN SignalsOf(new) = DOMAIN new
      /\ \A n \in DOMAIN rows : SignalsOf(rows)[n] = Sig(rows[n])
      /\ \A n \in DOMAIN new : SignalsOf(new)[n] = Sig(new[n])
  BY DEF SignalsOf
<1> HIDE DEF Sig
<1> QED
  BY <1>2, <1>4, <1>5, <1>6 DEF Promise!Planned

-----------------------------------------------------------------------------
(* Steps of a worker. *)

Stutter == UNCHANGED <<occ, Signals, stopped>>

AbstractStep == Promise!Next \/ Stutter

LEMMA NothingShows ==
  ASSUME UNCHANGED <<occ, ntf, stopped>>
  PROVE  AbstractStep
BY DEF AbstractStep, Stutter, Signals

\* A row that ends without being sent.
LEMMA GivenUp ==
  ASSUME TypeOK, NEW n \in DOMAIN ntf, NEW row \in Notification,
         ntf' = [ntf EXCEPT ![n] = row], row.occ = ntf[n].occ, row.kind = ntf[n].kind,
         ntf[n].status = "pending", row.status \in {"cancelled", "missed", "failed"},
         row.status = "missed" => occ[ntf[n].occ] = "pending",
         occ' = IF row.status = "missed" /\ ntf[n].kind = "main"
                  THEN [occ EXCEPT ![ntf[n].occ] = "missed"] ELSE occ,
         UNCHANGED stopped
  PROVE  AbstractStep
<1>1. ntf \in Seq(Notification)
  BY DEF TypeOK, StoreTypeOK
<1>2. Signals' = [Signals EXCEPT ![n].status = row.status]
  BY <1>1, OneSignal, SignalsAre
<1>3. /\ DOMAIN Signals = DOMAIN ntf /\ Signals[n].occ = ntf[n].occ
      /\ Signals[n].kind = ntf[n].kind /\ Signals[n].status = ntf[n].status
  BY DEF Signals
<1>4. Promise!GiveUp(n)
  BY <1>2, <1>3 DEF Promise!GiveUp
<1> QED
  BY <1>3, <1>4 DEF AbstractStep, Promise!Next

\* A row whose owner sees no change.
LEMMA RowUnseen ==
  ASSUME TypeOK, NEW n \in DOMAIN ntf, NEW row \in Notification,
         ntf' = [ntf EXCEPT ![n] = row], row.occ = ntf[n].occ, row.kind = ntf[n].kind,
         row.status = ntf[n].status, UNCHANGED <<occ, stopped>>
  PROVE  AbstractStep
<1>1. ntf \in Seq(Notification)
  BY DEF TypeOK, StoreTypeOK
<1>2. Signals' = Signals
  BY <1>1, SameSignal, SignalsAre
<1> QED
  BY <1>2 DEF AbstractStep, Stutter

LEMMA ClaimsImplement ==
  ASSUME TypeOK, NEW w \in Worker,
         \/ ClaimCancel(w) \/ ClaimDuplicate(w) \/ ClaimPostpone(w)
         \/ ClaimMiss(w) \/ ClaimSend(w)
  PROVE  AbstractStep
<1> DEFINE n == wk[w].n
           now == wk[w].now
<1>1. StillDue(w) /\ wk[w].pc = "picked"
  BY DEF ClaimCancel, ClaimDuplicate, ClaimPostpone, ClaimMiss, ClaimSend, Deliverable,
         Claimable, StillDue
<1>2. /\ ntf \in Seq(Notification) /\ n \in DOMAIN ntf /\ ntf[n] \in Notification
      /\ now \in Nat /\ StoreTypeOK
  BY <1>1, Chosen, RowType DEF TypeOK, StoreTypeOK
<1>3. ntf[n].status = "pending" /\ ntf[n].fire <= now /\ ntf[n].silent \in BOOLEAN
  BY <1>1, <1>2, RowType DEF StillDue, Due, Pending
<1>4. /\ FireAt(n, now) \in Int /\ IsPostponed(n, now) \in BOOLEAN
      /\ IsPostponed(n, now) => PostponedTo(n, now) = FireAt(n, now)
      /\ SilentClaim(n, now) \in BOOLEAN /\ NoAttempt \in Int /\ now + Lease \in Int
  BY <1>2, <1>3, ClaimType, DeliveryAssumption DEF NoAttempt
<1>5. UNCHANGED stopped
  BY DEF ClaimCancel, ClaimDuplicate, ClaimPostpone, ClaimMiss, ClaimSend
<1>6. /\ "cancelled" \in NotificationStatus /\ "missed" \in NotificationStatus
      /\ "pending" \in NotificationStatus
  BY DEF NotificationStatus
<1>7. CASE ClaimCancel(w)
  <2> DEFINE row == Settled(ntf[n], "cancelled", NoAttempt)
  <2>1. ntf' = [ntf EXCEPT ![n] = row] /\ occ' = occ
    BY <1>7 DEF ClaimCancel, Settled
  <2>2. row \in Notification /\ row.status = "cancelled"
    BY <1>2, <1>4, <1>6, SettledType
  <2>3. row.occ = ntf[n].occ /\ row.kind = ntf[n].kind
    BY <1>2 DEF Settled, Notification
  <2> HIDE DEF row
  <2> QED
    BY <1>2, <1>3, <1>5, <2>1, <2>2, <2>3, GivenUp
<1>8. CASE ClaimDuplicate(w)
  <2> DEFINE row == [ntf[n] EXCEPT !.status = "cancelled"]
  <2>1. ntf' = [ntf EXCEPT ![n] = row] /\ occ' = occ
    BY <1>8 DEF ClaimDuplicate
  <2>2. /\ row \in Notification /\ row.occ = ntf[n].occ /\ row.kind = ntf[n].kind
        /\ row.status = "cancelled"
    BY <1>2, <1>6 DEF Notification
  <2> HIDE DEF row
  <2> QED
    BY <1>2, <1>3, <1>5, <2>1, <2>2, GivenUp
<1>9. CASE ClaimMiss(w)
  <2> DEFINE silent == ntf[n].silent /\ ~ IsPostponed(n, now)
             row == [ntf[n] EXCEPT !.status = "missed", !.fire = FireAt(n, now),
                                   !.silent = silent, !.next = NoAttempt]
  <2>1. /\ ntf' = [ntf EXCEPT ![n] = row]
        /\ occ' = IF ntf[n].kind = "main" THEN [occ EXCEPT ![ntf[n].occ] = "missed"]
                                          ELSE occ
        /\ occ[ntf[n].occ] = "pending"
    BY <1>9 DEF ClaimMiss, Deliverable, Claimable, ClaimCancels
  <2>2. silent \in BOOLEAN
    OBVIOUS
  <2> HIDE DEF silent
  <2>3. /\ row \in Notification /\ row.occ = ntf[n].occ /\ row.kind = ntf[n].kind
        /\ row.status = "missed"
    BY <1>2, <1>4, <1>6, <2>2 DEF Notification
  <2> HIDE DEF row
  <2> QED
    BY <1>2, <1>3, <1>5, <2>1, <2>3, GivenUp
<1>10. CASE ClaimPostpone(w) \/ ClaimSend(w)
  <2>1. ASSUME NEW silent \in BOOLEAN, NEW next \in Int, UNCHANGED occ,
               ntf' = [ntf EXCEPT ![n].fire = FireAt(n, now), ![n].silent = silent,
                                  ![n].next = next]
        PROVE  AbstractStep
    <3> DEFINE row == [ntf[n] EXCEPT !.fire = FireAt(n, now), !.silent = silent,
                                     !.next = next]
    <3>1. ntf' = [ntf EXCEPT ![n] = row]
      BY <2>1
    <3>2. /\ row \in Notification /\ row.occ = ntf[n].occ /\ row.kind = ntf[n].kind
          /\ row.status = ntf[n].status
      BY <1>2, <1>4 DEF Notification
    <3> HIDE DEF row
    <3> QED
      BY <1>2, <1>5, <2>1, <3>1, <3>2, RowUnseen
  <2>2. CASE ClaimPostpone(w)
    BY <1>4, <2>1, <2>2, FALSE \in BOOLEAN DEF ClaimPostpone
  <2>3. CASE ClaimSend(w)
    BY <1>4, <2>1, <2>3 DEF ClaimSend
  <2> QED
    BY <1>10, <2>2, <2>3
<1> QED
  BY <1>7, <1>8, <1>9, <1>10

LEMMA FinalizeSentImplements ==
  ASSUME TypeOK, NEW w \in Worker, FinalizeSent(w)
  PROVE  AbstractStep
<1> DEFINE n == wk[w].n
           now == wk[w].now
           o == ntf[n].occ
           row == Reported(ntf[n], wk[w].silent)
           done == [ntf EXCEPT ![n] = row]
           sent == [Signals EXCEPT ![n].status = "sent"]
           d == ApplyQuietPolicy("repeat", now + RepeatEvery, PlannedAt[o], HomeZone, quiet)
           next == NewRow(o, "repeat", d.fire, d.silent)
<1>1. /\ n \in DOMAIN ntf /\ now \in Nat /\ wk[w].silent \in BOOLEAN
      /\ ntf \in Seq(Notification) /\ quiet \in Quiet
  BY Chosen DEF FinalizeSent, TypeOK, StoreTypeOK
<1>2. ntf[n] \in Notification /\ o \in Slot
  BY <1>1, RowType
<1>3. /\ row \in Notification /\ row.occ = ntf[n].occ /\ row.kind = ntf[n].kind
      /\ row.status = "sent"
  <2>1. row \in Notification
    BY <1>1, <1>2, OutcomeTypes, 0 \in Nat, 0 \in Int
  <2>2. row.occ = ntf[n].occ /\ row.kind = ntf[n].kind /\ row.status = "sent"
    BY <1>2 DEF Reported, Notification
  <2> QED
    BY <2>1, <2>2
<1>4. ntf' = WithNextRepeat(done, n, now) /\ UNCHANGED <<occ, stopped>>
  BY DEF FinalizeSent, Reported
<1> HIDE DEF row
<1>5. done \in Seq(Notification) /\ SignalsOf(done) = sent
  BY <1>1, <1>3, RowSet, OneSignal, SignalsAre, SMTT(20)
<1>6. /\ n \in DOMAIN Signals /\ Signals[n].occ = o /\ Signals[n].kind = ntf[n].kind
  BY <1>1 DEF Signals
<1> HIDE DEF done, sent
<1>7. CASE ntf' = done
  <2>1. Signals' = sent
    BY <1>5, <1>7, SignalsAre
  <2>2. Promise!Send(n)
    BY <1>4, <2>1 DEF Promise!Send, sent
  <2> QED
    BY <1>6, <2>2 DEF AbstractStep, Promise!Next
<1>8. CASE ntf' # done
  <2>1. ntf' = Append(done, next) /\ WantsRepeat(n)
    BY <1>4, <1>8 DEF WithNextRepeat
  <2>2. d.fire \in Int /\ d.silent \in BOOLEAN
    <3>1. now + RepeatEvery \in Int
      BY <1>1, DeliveryAssumption
    <3>2. PlannedAt[o] \in Int
      BY <1>2, StoreAssumption
    <3> QED
      BY <1>1, <3>1, <3>2, PolicyType
  <2> HIDE DEF d
  <2>3. next \in Notification /\ Sig(next) = Promise!NewRow(o, "repeat")
    <3>1. next \in Notification
      BY <1>2, <2>2, NewRowType DEF NotificationKind
    <3>2. Sig(next) = Promise!NewRow(o, "repeat")
      BY DEF Sig, NewRow, Promise!NewRow
    <3> QED
      BY <3>1, <3>2
  <2> HIDE DEF next
  <2>4. Signals' = Append(sent, Promise!NewRow(o, "repeat"))
    BY <1>5, <2>1, <2>3, SignalAppended, SignalsAre
  <2>5. ntf[n].kind # "pre" /\ occ[o] = "pending" /\ o \notin stopped
    BY <2>1 DEF WantsRepeat, Repeatable
  <2> HIDE DEF o
  <2>6. Promise!Send(n)
    BY <1>4, <1>6, <2>4, <2>5 DEF Promise!Send, sent
  <2> QED
    BY <1>6, <2>6 DEF AbstractStep, Promise!Next
<1> QED
  BY <1>7, <1>8

LEMMA DeliveryImplements ==
  ASSUME TypeOK, DeliveryNext
  PROVE  AbstractStep
<1>1. PICK w \in Worker : WorkerStep(w) \/ Crash(w)
  BY DEF DeliveryNext
<1> DEFINE n == wk[w].n
<1>2. CASE UNCHANGED storeVars
  BY <1>2, NothingShows DEF storeVars
<1>3. CASE SendAccepted(w)
  <2> DEFINE row == [ntf[n] EXCEPT !.copies = @ + 1]
  <2>1. n \in DOMAIN ntf /\ ntf[n] \in Notification
    BY <1>3, Chosen, RowType DEF SendAccepted, TypeOK, StoreTypeOK
  <2>2. ntf' = [ntf EXCEPT ![n] = row] /\ UNCHANGED <<occ, stopped>>
    BY <1>3 DEF SendAccepted
  <2>3. /\ row \in Notification /\ row.occ = ntf[n].occ /\ row.kind = ntf[n].kind
        /\ row.status = ntf[n].status
    BY <2>1 DEF Notification
  <2> HIDE DEF row
  <2> QED
    BY <2>1, <2>2, <2>3, RowUnseen
<1>4. CASE FinalizeFailed(w)
  <2> DEFINE att == ntf[n].att + 1
  <2>1. /\ n \in DOMAIN ntf /\ ntf[n] \in Notification /\ att \in Nat /\ wk[w].now \in Nat
        /\ UNCHANGED <<occ, stopped>>
    <3>1. n \in DOMAIN ntf /\ wk[w].now \in Nat /\ ntf \in Seq(Notification)
      BY <1>4, Chosen DEF FinalizeFailed, TypeOK, StoreTypeOK
    <3>2. ntf[n] \in Notification /\ ntf[n].att \in Nat
      BY <3>1, RowType
    <3>3. UNCHANGED <<occ, stopped>>
      BY <1>4 DEF FinalizeFailed
    <3> QED
      BY <3>1, <3>2, <3>3
  <2>2. CASE UNCHANGED ntf
    BY <2>1, <2>2, NothingShows
  <2>3. CASE Pending(n) /\ ntf' = [ntf EXCEPT ![n].status = "failed", ![n].att = att,
                                             ![n].next = NoAttempt]
    <3> DEFINE row == Failed(ntf[n], att)
    <3>1. ntf' = [ntf EXCEPT ![n] = row]
      BY <2>3 DEF Failed
    <3>2. row \in Notification
      BY <2>1, OutcomeTypes, FALSE \in BOOLEAN, 0 \in Int
    <3>3. row.occ = ntf[n].occ /\ row.kind = ntf[n].kind /\ row.status = "failed"
      BY <2>1 DEF Failed, Notification
    <3> HIDE DEF row
    <3> QED
      BY <2>1, <2>3, <3>1, <3>2, <3>3, GivenUp DEF Pending
  <2>4. ASSUME NEW provider \in ProviderDelays \cup {0},
               ntf' = [ntf EXCEPT ![n].att = att,
                                  ![n].next = wk[w].now + RetryDelay(att, provider)]
        PROVE  AbstractStep
    <3> DEFINE next == wk[w].now + RetryDelay(att, provider)
               row == Retried(ntf[n], att, next)
    <3>1. ntf' = [ntf EXCEPT ![n] = row]
      BY <2>4 DEF Retried
    <3>2. next \in Int
      <4>1. provider \in Nat
        BY DeliveryAssumption
      <4>2. RetryDelay(att, provider) \in Int
        BY <2>1, <4>1, RetryDelayType, SMTT(20)
      <4> QED
        BY <2>1, <4>2
    <3> HIDE DEF next
    <3>3. row \in Notification
      BY <2>1, <3>2, OutcomeTypes, FALSE \in BOOLEAN
    <3>4. row.occ = ntf[n].occ /\ row.kind = ntf[n].kind /\ row.status = ntf[n].status
      BY <2>1 DEF Retried, Notification
    <3> HIDE DEF row
    <3> QED
      BY <2>1, <3>1, <3>3, <3>4, RowUnseen
  <2> QED
    BY <1>4, <2>2, <2>3, <2>4 DEF FinalizeFailed
<1> QED
  BY <1>1, <1>2, <1>3, <1>4, ClaimsImplement, FinalizeSentImplements
     DEF WorkerStep, StartTick, EndTick, SelectCandidate, ClaimLost, SendRefused, Crash

-----------------------------------------------------------------------------
(* What the promise rests on besides the types. *)

\* Every notification belongs to an occurrence, and what a reconciliation is
\* about to plan exists or is about to be born.
RowsExist == \A n \in DOMAIN ntf : occ[ntf[n].occ] # "none"

PlanBorn == \A o \in rec.plan : occ[o] = "none" => o \in rec.born

-----------------------------------------------------------------------------
(* Steps of the owner. *)

\* The repeats of an occurrence are cancelled.
LEMMA ReactionShows ==
  ASSUME TypeOK, NEW o \in Slot, occ[o] # "none", ntf' = CancelRepeats(ntf, o),
         stopped' = stopped \cup {o}, UNCHANGED occ
  PROVE  AbstractStep
<1>1. Promise!React(o)
  BY SignalsWithdrawn, SignalsAre DEF Promise!React
<1> QED
  BY <1>1 DEF AbstractStep, Promise!Next

\* An open occurrence is closed and its plan withdrawn.
LEMMA ClosingShows ==
  ASSUME TypeOK, NEW o \in Slot, NEW status \in {"done", "skipped"}, Actionable(o),
         occ' = [occ EXCEPT ![o] = status], Signals' = Promise!Withdrawn(o),
         stopped' \in {stopped, stopped \cup {o}}
  PROVE  AbstractStep
<1>1. Promise!Close(o)
  BY DEF Promise!Close, Promise!Open, Actionable
<1> QED
  BY <1>1 DEF AbstractStep, Promise!Next

LEMMA CloseImplements ==
  ASSUME TypeOK, NEW n \in DOMAIN ntf, NEW intent, NEW status \in {"done", "skipped"},
         Close(n, intent, status)
  PROVE  AbstractStep
<1> DEFINE o == ntf[n].occ
<1>1. o \in Slot
  BY RowType DEF TypeOK, StoreTypeOK
<1>2. CASE UNCHANGED <<occ, ntf, ctx, stopped>>
  BY <1>2, NothingShows
<1>3. CASE /\ Actionable(o) /\ occ' = [occ EXCEPT ![o] = status]
           /\ ntf' = CancelPending(ntf, o) /\ stopped' = stopped \cup {o}
  <2>1. Signals' = Promise!Withdrawn(o)
    BY <1>3, SignalsWithdrawn, SignalsAre
  <2> QED
    BY <1>1, <1>3, <2>1, ClosingShows
<1> QED
  BY <1>2, <1>3 DEF Close, Withdraw

LEMMA SkipOccurrenceImplements ==
  ASSUME TypeOK, NEW o \in Slot, SkipOccurrence(o)
  PROVE  AbstractStep
<1>1. /\ occ[o] = "pending" /\ occ' = [occ EXCEPT ![o] = "skipped"] /\ stopped' = stopped
  BY DEF SkipOccurrence
<1>2. Signals' = Promise!Withdrawn(o)
  <2>1. /\ DOMAIN ntf' = DOMAIN ntf /\ DOMAIN Signals = DOMAIN ntf
        /\ \A n \in DOMAIN ntf :
             /\ Signals[n] = Sig(ntf[n]) /\ Signals[n].occ = ntf[n].occ
             /\ Signals[n].status = ntf[n].status
    BY DEF SkipOccurrence, Signals, Sig
  <2>2. \A n \in DOMAIN ntf :
          ntf'[n] = IF ntf[n].occ = o /\ ntf[n].status = "pending"
                      THEN [ntf[n] EXCEPT !.status = "cancelled"] ELSE ntf[n]
    BY Zenon DEF SkipOccurrence, Pending
  <2>3. ASSUME NEW n \in DOMAIN ntf
        PROVE  Sig([ntf[n] EXCEPT !.status = "cancelled"])
                 = [Sig(ntf[n]) EXCEPT !.status = "cancelled"]
    <3> DEFINE row == [ntf[n] EXCEPT !.status = "cancelled"]
    <3>1. row.occ = ntf[n].occ /\ row.kind = ntf[n].kind /\ row.status = "cancelled"
      BY RowType DEF TypeOK, StoreTypeOK, Notification
    <3> HIDE DEF row
    <3>2. Sig(row) = [occ |-> ntf[n].occ, kind |-> ntf[n].kind, status |-> "cancelled"]
      BY <3>1 DEF Sig
    <3>3. [Sig(ntf[n]) EXCEPT !.status = "cancelled"]
            = [occ |-> ntf[n].occ, kind |-> ntf[n].kind, status |-> "cancelled"]
      BY DEF Sig
    <3> QED
      BY <3>2, <3>3 DEF row
  <2>4. Signals' = [n \in DOMAIN ntf |->
                      IF ntf[n].occ = o /\ ntf[n].status = "pending"
                        THEN [Sig(ntf[n]) EXCEPT !.status = "cancelled"] ELSE Sig(ntf[n])]
    <3>1. Signals' = [n \in DOMAIN ntf |-> Sig(ntf'[n])]
      BY <2>1, SignalsAre DEF SignalsOf
    <3>2. ASSUME NEW n \in DOMAIN ntf
          PROVE  Sig(ntf'[n]) = IF ntf[n].occ = o /\ ntf[n].status = "pending"
                                  THEN [Sig(ntf[n]) EXCEPT !.status = "cancelled"]
                                  ELSE Sig(ntf[n])
      <4> HIDE DEF Sig
      <4> QED
        BY <2>2, <2>3
    <3> HIDE DEF Sig
    <3> QED
      BY <3>1, <3>2
  <2> HIDE DEF Sig
  <2> QED
    BY <2>1, <2>4 DEF Promise!Withdrawn
<1> QED
  BY <1>1, <1>2, ClosingShows DEF Actionable

LEMMA SnoozeImplements ==
  ASSUME TypeOK, NEW n \in DOMAIN ntf, Snooze(n)
  PROVE  AbstractStep
<1> DEFINE o == ntf[n].occ
           target == SnoozeTarget(o)
           rows == CancelPending(ntf, o)
           new == NewRow(o, "main", target, FALSE)
<1>1. /\ ntf \in Seq(Notification) /\ o \in Slot /\ target \in Int
  BY RowType, StoreAssumption, ReactionsAssumption DEF TypeOK, StoreTypeOK, SnoozeTarget
<1>2. /\ rows \in Seq(Notification) /\ DOMAIN rows = DOMAIN ntf
      /\ SignalsOf(rows) = Promise!Withdrawn(o)
      /\ \A m \in DOMAIN ntf : rows[m].occ = ntf[m].occ /\ rows[m].kind = ntf[m].kind
  BY <1>1, CancelPendingType, CancelPendingEvolves, SignalsWithdrawn DEF CancelPending
<1>3. /\ Promise!Open(o) /\ stopped' = stopped \cup {o}
      /\ occ' = [occ EXCEPT ![o] = "pending"]
  BY DEF Snooze, Withdraw, Actionable, Promise!Open
<1> HIDE DEF target, rows
<1>4. CASE ntf' = Append(rows, new)
  <2>1. new \in Notification /\ Sig(new) = Promise!NewRow(o, "main")
    <3>1. new \in Notification
      BY <1>1, NewRowType DEF NotificationKind
    <3>2. Sig(new) = Promise!NewRow(o, "main")
      BY DEF Sig, NewRow, Promise!NewRow
    <3> QED
      BY <3>1, <3>2
  <2> HIDE DEF new
  <2>2. Signals' = Append(Promise!Withdrawn(o), Promise!NewRow(o, "main"))
    BY <1>2, <1>4, <2>1, SignalAppended, SignalsAre
  <2> HIDE DEF o
  <2>3. Promise!Snooze(o)
    BY <1>3, <2>2 DEF Promise!Snooze
  <2> QED
    BY <1>1, <2>3 DEF AbstractStep, Promise!Next
<1>5. CASE \E m \in RowsOf(o) :
             /\ ntf[m].kind = "main" /\ rows[m].status = "cancelled"
             /\ ntf' = [rows EXCEPT ![m].status = "pending", ![m].next = NoAttempt]
  <2>1. PICK m \in RowsOf(o) :
          /\ ntf[m].kind = "main" /\ rows[m].status = "cancelled"
          /\ ntf' = [rows EXCEPT ![m].status = "pending", ![m].next = NoAttempt]
    BY <1>5
  <2> DEFINE row == Settled(rows[m], "pending", NoAttempt)
  <2>2. m \in DOMAIN ntf /\ m \in DOMAIN rows /\ rows[m] \in Notification /\ ntf[m].occ = o
    BY <1>2, RowType DEF RowsOf
  <2>3. ntf' = [rows EXCEPT ![m] = row]
    BY <2>1 DEF Settled
  <2>4. row \in Notification /\ row.status = "pending"
    <3>1. NoAttempt \in Int
      BY DEF NoAttempt
    <3> QED
      BY <2>2, <3>1, SettledType DEF NotificationStatus
  <2>41. row.occ = rows[m].occ /\ row.kind = rows[m].kind
    BY <2>2 DEF Settled, Notification
  <2> HIDE DEF row
  <2>5. Signals' = [Promise!Withdrawn(o) EXCEPT ![m].status = "pending"]
    <3>1. SignalsOf([rows EXCEPT ![m] = row]) = [SignalsOf(rows) EXCEPT ![m].status = row.status]
      BY <1>2, <2>2, <2>4, <2>41, OneSignal, ZenonT(40)
    <3>2. Signals' = [SignalsOf(rows) EXCEPT ![m].status = "pending"]
      BY <2>3, <2>4, <3>1, SignalsAre
    <3> QED
      BY <1>2, <3>2
  <2>6. Promise!Withdrawn(o)[m].status = "cancelled"
    <3>1. SignalsOf(rows)[m].status = rows[m].status
      BY <2>2 DEF SignalsOf, Sig
    <3> QED
      BY <1>2, <2>1, <3>1
  <2>7. m \in DOMAIN Signals /\ Signals[m].occ = o /\ Signals[m].kind = "main"
    BY <2>1, <2>2 DEF Signals
  <2> HIDE DEF o
  <2>8. Promise!Snooze(o)
    BY <1>3, <2>5, <2>6, <2>7 DEF Promise!Snooze
  <2> QED
    BY <1>1, <2>8 DEF AbstractStep, Promise!Next
<1> QED
  BY <1>4, <1>5 DEF Snooze, target, rows

LEMMA MoveImplements ==
  ASSUME TypeOK, NEW n \in DOMAIN ntf, NEW target \in Slot, MoveTo(n, target)
  PROVE  AbstractStep
<1> DEFINE o == ntf[n].occ
           rows == CancelPending(ntf, o)
<1>1. ntf \in Seq(Notification) /\ o \in Slot
  BY RowType DEF TypeOK, StoreTypeOK
<1>2. /\ rows \in Seq(Notification) /\ SignalsOf(rows) = Promise!Withdrawn(o)
  BY <1>1, CancelPendingType, SignalsWithdrawn
<1>3. /\ Promise!Open(o) /\ occ[target] = "none" /\ stopped' = stopped \cup {o}
      /\ occ' = [occ EXCEPT ![o] = "moved", ![target] = "pending"]
      /\ ntf' \in Upserted(rows, {target})
  BY DEF MoveTo, Withdraw, Actionable, Promise!Open
<1> HIDE DEF rows
<1>4. Promise!Planned(SignalsOf(rows), SignalsOf(ntf'), {target})
  <2>1. {target} \in SUBSET Slot /\ {target} \subseteq {target}
    OBVIOUS
  <2> QED
    BY <1>2, <1>3, <2>1, SignalsPlanned
<1>5. Promise!Planned(Promise!Withdrawn(o), Signals', {target})
  BY <1>2, <1>4, SignalsAre
<1> HIDE DEF o
<1>6. Promise!Move(o, target)
  BY <1>3, <1>5 DEF Promise!Move
<1> QED
  BY <1>1, <1>6 DEF AbstractStep, Promise!Next

LEMMA ReactionsImplement ==
  ASSUME TypeOK, RowsExist, ReactionsNext
  PROVE  AbstractStep
<1>1. ntf \in Seq(Notification)
  BY DEF TypeOK, StoreTypeOK
<1>2. \A n \in DOMAIN ntf : ntf[n].occ \in Slot /\ occ[ntf[n].occ] # "none"
  BY <1>1, RowType DEF RowsExist
<1>3. ASSUME NEW o \in Slot, Acknowledge(o) PROVE AbstractStep
  BY <1>3, ReactionShows DEF Acknowledge
<1>4. CASE ReactToMessage
  <2>1. CASE UNCHANGED <<ntf, stopped>>
    <3>1. UNCHANGED occ
      BY <1>4 DEF ReactToMessage
    <3> QED
      BY <2>1, <3>1, NothingShows
  <2>2. CASE /\ ntf' = CancelRepeats(ntf, ntf[ctx.n].occ)
             /\ stopped' = stopped \cup {ntf[ctx.n].occ}
    <3>1. ctx.n \in DOMAIN ntf
      <4>1. /\ ctx.n \in 0 .. Len(ntf) /\ Len(ntf) \in Nat /\ DOMAIN ntf = 1 .. Len(ntf)
            /\ ctx.n # 0
        BY <1>4, LenProperties DEF TypeOK, StoreTypeOK, ReactToMessage
      <4> QED
        BY <4>1
    <3>2. UNCHANGED occ
      BY <1>4 DEF ReactToMessage
    <3> QED
      BY <1>2, <2>2, <3>1, <3>2, ReactionShows
  <2> QED
    BY <1>4, <2>1, <2>2 DEF ReactToMessage
<1>5. ASSUME NEW n \in DOMAIN ntf, ReactToNotification(n) \/ PreviewMove(n)
      PROVE  AbstractStep
  BY <1>2, <1>5, ReactionShows DEF ReactToNotification, PreviewMove
<1>6. CASE UpdateQuietHours
  BY <1>6, NothingShows DEF UpdateQuietHours
<1>7. ASSUME NEW n \in DOMAIN ntf, Complete(n) \/ SkipFromNotification(n)
      PROVE  AbstractStep
  BY <1>7, CloseImplements DEF Complete, SkipFromNotification
<1> QED
  BY <1>3, <1>4, <1>5, <1>6, <1>7, SkipOccurrenceImplements, SnoozeImplements,
     MoveImplements DEF ReactionsNext

-----------------------------------------------------------------------------
(* Steps of reconciliation. *)

LEMMA SchedulingImplements ==
  ASSUME TypeOK, PlanOpen, PlanBorn, BornIsUnborn, SchedulingNext
  PROVE  AbstractStep
<1>1. CASE ReconcileRead \/ ReconcileAbort
  BY <1>1, NothingShows DEF ReconcileRead, ReconcileAbort
<1>2. CASE ReconcileWrite
  <2> DEFINE wide == {o \in Slot : occ'[o] \in {"pending", "missed", "skipped"}}
  <2>1. /\ ntf \in Seq(Notification) /\ rec.plan \in SUBSET Slot
        /\ occ \in [Slot -> OccurrenceStatus \cup {"none"}]
    BY DEF TypeOK, StoreTypeOK
  <2>2. /\ occ' = [o \in Slot |-> IF o \in rec.born THEN "pending" ELSE occ[o]]
        /\ ntf' \in Upserted(ntf, rec.plan) /\ UNCHANGED stopped
    BY <1>2 DEF ReconcileWrite
  <2>3. rec.plan \subseteq wide
    BY <2>1, <2>2 DEF PlanOpen, PlanBorn, Finished, OccurrenceStatus
  <2>4. /\ \A o \in Slot : occ'[o] = occ[o] \/ (occ[o] = "none" /\ occ'[o] = "pending")
        /\ DOMAIN occ' = Slot
    BY <2>1, <2>2 DEF BornIsUnborn
  <2> HIDE DEF wide
  <2>5. Promise!Planned(Signals, Signals', wide)
    BY <2>1, <2>2, <2>3, SignalsPlanned, SignalsAre
  <2>6. Promise!Plan
    BY <2>2, <2>4, <2>5 DEF Promise!Plan, wide
  <2> QED
    BY <2>6 DEF AbstractStep, Promise!Next
<1> QED
  BY <1>1, <1>2 DEF SchedulingNext

LEMMA StepImplements ==
  ASSUME TypeOK, PlanOpen, PlanBorn, BornIsUnborn, RowsExist, [Next]_vars
  PROVE  AbstractStep
<1>1. CASE Advance \/ UNCHANGED vars
  BY <1>1, NothingShows DEF Advance, vars, storeVars
<1> QED
  BY <1>1, DeliveryImplements, ReactionsImplement, SchedulingImplements DEF Next

-----------------------------------------------------------------------------
(* The invariant is kept, and the promise with it. *)

LEMMA PlanBornKept ==
  ASSUME TypeOK, PlanBorn, BornIsUnborn, [Next]_vars
  PROVE  PlanBorn'
<1>1. \A o \in Slot : occ'[o] = "none" => occ[o] = "none"
  BY OccurrencesKept DEF OccurrenceKept
<1>2. rec.plan \in SUBSET Slot
  BY DEF TypeOK, StoreTypeOK
<1>3. CASE UNCHANGED rec
  BY <1>1, <1>2, <1>3 DEF PlanBorn
<1>4. CASE SchedulingNext
  <2>1. CASE ReconcileRead
    BY <2>1 DEF ReconcileRead, Schedulable, PlanBorn
  <2>2. CASE ReconcileWrite \/ ReconcileAbort
    BY <2>2 DEF ReconcileWrite, ReconcileAbort, NoReconcile, PlanBorn
  <2> QED
    BY <1>4, <2>1, <2>2 DEF SchedulingNext
<1>5. CASE DeliveryNext
  <2>1. UNCHANGED rec
    BY <1>5, ZenonT(40)
       DEF DeliveryNext, WorkerStep, StartTick, EndTick, SelectCandidate, ClaimLost,
           ClaimCancel, ClaimDuplicate, ClaimPostpone, ClaimMiss, ClaimSend, SendAccepted,
           SendRefused, FinalizeSent, FinalizeFailed, Crash, storeVars
  <2> QED
    BY <1>3, <2>1
<1>6. CASE ReactionsNext
  <2>1. UNCHANGED rec
    BY <1>6
       DEF ReactionsNext, Acknowledge, SkipOccurrence, ReactToMessage, ReactToNotification,
           Complete, SkipFromNotification, Close, Snooze, PreviewMove, MoveTo,
           UpdateQuietHours
  <2> QED
    BY <1>3, <2>1
<1>7. CASE Advance \/ UNCHANGED vars
  BY <1>3, <1>7 DEF Advance, vars, storeVars
<1> QED
  BY <1>4, <1>5, <1>6, <1>7 DEF Next

\* A signal that is added is the last row.
LEMMA LastSignal ==
  ASSUME NEW rows \in Seq(Notification), DOMAIN rows = DOMAIN ntf, NEW o \in Slot,
         NEW kind \in NotificationKind,
         Signals' = Append(SignalsOf(rows), Promise!NewRow(o, kind)),
         NEW n \in DOMAIN ntf' \ DOMAIN ntf
  PROVE  ntf'[n].occ = o
<1> DEFINE Signal == [occ : Slot, kind : NotificationKind, status : NotificationStatus]
           sig == Promise!NewRow(o, kind)
           old == SignalsOf(rows)
<1>1. old \in Seq(Signal) /\ DOMAIN old = DOMAIN rows /\ Len(old) \in Nat
  BY SignalsType, LenProperties
<1>2. sig \in Signal /\ sig.occ = o
  BY DEF Promise!NewRow, NotificationStatus
<1> HIDE DEF old, sig, Signal
<1>3. /\ Append(old, sig) \in Seq(Signal) /\ Append(old, sig)[Len(old) + 1] = sig
      /\ Len(Append(old, sig)) = Len(old) + 1
  BY <1>1, <1>2, AppendProperties
<1>4. DOMAIN old = 1 .. Len(old) /\ DOMAIN Append(old, sig) = 1 .. Len(old) + 1
  BY <1>1, <1>3, LenProperties
<1>5. Signals' = Append(old, sig)
  BY DEF old, sig
<1>6. DOMAIN Signals' = DOMAIN ntf' /\ Signals'[n].occ = ntf'[n].occ
  BY DEF Signals
<1>7. n = Len(old) + 1
  BY <1>1, <1>4, <1>5, <1>6
<1> QED
  BY <1>2, <1>3, <1>5, <1>6, <1>7

\* The signals with one of them sent are those of some rows.
LEMMA SentSignals ==
  ASSUME ntf \in Seq(Notification), NEW n \in DOMAIN ntf
  PROVE  \E rows \in Seq(Notification) :
           DOMAIN rows = DOMAIN ntf /\ SignalsOf(rows) = [Signals EXCEPT ![n].status = "sent"]
<1> DEFINE row == [ntf[n] EXCEPT !.status = "sent"]
<1>1. /\ row \in Notification /\ row.status = "sent"
      /\ row.occ = ntf[n].occ /\ row.kind = ntf[n].kind
  <2>1. ntf[n] \in Notification
    BY RowType
  <2> QED
    BY <2>1 DEF Notification, NotificationStatus
<1> HIDE DEF row
<1>2. PICK rows : rows = [ntf EXCEPT ![n] = row]
  OBVIOUS
<1>3. rows \in Seq(Notification) /\ DOMAIN rows = DOMAIN ntf
  BY <1>1, <1>2, RowSet
<1>4. SignalsOf([ntf EXCEPT ![n] = row]) = [SignalsOf(ntf) EXCEPT ![n].status = row.status]
  BY <1>1, OneSignal, SMTT(20)
<1>5. SignalsOf(rows) = [Signals EXCEPT ![n].status = "sent"]
  BY <1>1, <1>2, <1>4, SignalsAre
<1> QED
  BY <1>3, <1>5

\* Signals of existing occurrences stay so, whatever step the promise takes.
LEMMA RowsExistKept ==
  ASSUME TypeOK, RowsExist, RowsEvolve, AbstractStep,
         \A o \in Slot : occ[o] # "none" => occ'[o] # "none"
  PROVE  RowsExist'
<1>1. ntf \in Seq(Notification) /\ occ \in [Slot -> OccurrenceStatus \cup {"none"}]
  BY DEF TypeOK, StoreTypeOK
<1>2. ASSUME NEW n \in DOMAIN ntf PROVE occ'[ntf'[n].occ] # "none"
  <2>1. ntf'[n].occ = ntf[n].occ /\ ntf[n].occ \in Slot
    BY <1>1, RowType DEF RowsEvolve, RowEvolves
  <2> QED
    BY <2>1 DEF RowsExist
<1>3. /\ DOMAIN Signals = DOMAIN ntf /\ DOMAIN Signals' = DOMAIN ntf'
      /\ \A n \in DOMAIN ntf : Signals[n].occ = ntf[n].occ
      /\ \A n \in DOMAIN ntf' : Signals'[n].occ = ntf'[n].occ
  BY DEF Signals
<1>4. ASSUME NEW n \in DOMAIN ntf' \ DOMAIN ntf PROVE occ'[ntf'[n].occ] # "none"
  <2>1. n \in DOMAIN Signals' /\ n \notin DOMAIN Signals
    BY <1>3
  <2>2. CASE Promise!Plan
    BY <1>3, <2>1, <2>2 DEF Promise!Plan, Promise!Planned
  <2>3. ASSUME NEW m \in DOMAIN Signals, Promise!GiveUp(m) \/ Promise!Send(m)
        PROVE  occ'[ntf'[n].occ] # "none"
    <3>1. m \in DOMAIN ntf /\ ntf[m].occ \in Slot /\ "repeat" \in NotificationKind
      BY <1>1, <1>3, RowType DEF NotificationKind
    <3>2. DOMAIN Signals' # DOMAIN Signals
      BY <2>1
    <3>3. /\ Signals' = Append([Signals EXCEPT ![m].status = "sent"],
                               Promise!NewRow(ntf[m].occ, "repeat"))
          /\ occ' = occ
      BY <1>3, <2>3, <3>1, <3>2 DEF Promise!GiveUp, Promise!Send
    <3>4. PICK rows \in Seq(Notification) :
            DOMAIN rows = DOMAIN ntf /\ SignalsOf(rows) = [Signals EXCEPT ![m].status = "sent"]
      BY <1>1, <3>1, SentSignals
    <3>5. Signals' = Append(SignalsOf(rows), Promise!NewRow(ntf[m].occ, "repeat"))
      BY <3>3, <3>4
    <3>6. ntf'[n].occ = ntf[m].occ
      BY <3>1, <3>4, <3>5, LastSignal
    <3> QED
      BY <3>1, <3>3, <3>6 DEF RowsExist
  <2>4. ASSUME NEW o \in Slot, Promise!React(o) \/ Promise!Close(o)
        PROVE  FALSE
    <3>1. DOMAIN Signals' = DOMAIN Signals
      BY <2>4 DEF Promise!React, Promise!Close, Promise!Withdrawn
    <3> QED
      BY <2>1, <3>1
  <2>5. ASSUME NEW o \in Slot, Promise!Snooze(o)
        PROVE  occ'[ntf'[n].occ] # "none"
    <3>1. /\ DOMAIN Promise!Withdrawn(o) = DOMAIN Signals
          /\ CancelPending(ntf, o) \in Seq(Notification)
          /\ DOMAIN CancelPending(ntf, o) = DOMAIN ntf
          /\ SignalsOf(CancelPending(ntf, o)) = Promise!Withdrawn(o)
      <4>1. CancelPending(ntf, o) \in Seq(Notification)
        BY <1>1, CancelPendingType
      <4>2. SignalsOf(CancelPending(ntf, o)) = Promise!Withdrawn(o)
        BY SignalsWithdrawn
      <4>3. DOMAIN CancelPending(ntf, o) = DOMAIN ntf
        BY DEF CancelPending
      <4>4. DOMAIN Promise!Withdrawn(o) = DOMAIN Signals
        BY DEF Promise!Withdrawn
      <4> QED
        BY <4>1, <4>2, <4>3, <4>4
    <3>2. /\ Signals' = Append(Promise!Withdrawn(o), Promise!NewRow(o, "main"))
          /\ occ' = [occ EXCEPT ![o] = "pending"]
      BY <2>1, <2>5, <3>1 DEF Promise!Snooze
    <3>3. ntf'[n].occ = o
      <4>1. "main" \in NotificationKind
        BY DEF NotificationKind
      <4> QED
        BY <3>1, <3>2, <4>1, LastSignal
    <3> QED
      BY <1>1, <3>2, <3>3
  <2>6. ASSUME NEW o \in Slot, NEW target \in Slot, Promise!Move(o, target)
        PROVE  occ'[ntf'[n].occ] # "none"
    <3>1. DOMAIN Promise!Withdrawn(o) = DOMAIN Signals
      BY DEF Promise!Withdrawn
    <3>2. Signals'[n].occ \in {target}
      BY <2>1, <2>6, <3>1 DEF Promise!Move, Promise!Planned
    <3> QED
      BY <1>1, <1>3, <2>6, <3>2 DEF Promise!Move
  <2>7. CASE Stutter
    BY <2>1, <2>7 DEF Stutter
  <2> QED
    BY <2>2, <2>3, <2>4, <2>5, <2>6, <2>7 DEF AbstractStep, Promise!Next
<1> QED
  BY <1>2, <1>4 DEF RowsExist

LifecycleInv == PlanOpen /\ PlanBorn /\ BornIsUnborn /\ RowsExist

\* Workers, leases, retries, crashes, quiet hours and the gap in reconciliation
\* never show to the owner: every step of theirs is one of the changes
\* Lifecycle allows, or none at all.
THEOREM LifecycleImplemented == Spec => ImplementsLifecycle
<1>1. ASSUME Init PROVE LifecycleInv /\ Promise!Init
  <2>1. ntf = << >> /\ rec = NoReconcile
    BY <1>1 DEF Init, StoreInit
  <2>2. LifecycleInv
    BY <2>1 DEF LifecycleInv, PlanOpen, PlanBorn, BornIsUnborn, RowsExist, NoReconcile
  <2>3. Signals = << >>
    BY <2>1 DEF Signals
  <2> QED
    BY <1>1, <2>2, <2>3 DEF Promise!Init, Init, StoreInit
<1>2. ASSUME TypeOK, LifecycleInv, [Next]_vars
      PROVE  LifecycleInv' /\ (Promise!Next \/ UNCHANGED Promise!vars)
  <2>1. /\ PlanOpen /\ PlanBorn /\ BornIsUnborn /\ RowsExist
    BY <1>2 DEF LifecycleInv
  <2>2. AbstractStep
    BY <1>2, <2>1, StepImplements
  <2>3. PlanOpen' /\ PlanBorn' /\ BornIsUnborn'
    BY <1>2, <2>1, StepOwes, PlanBornKept, OccurrencesKept DEF OwedStep
  <2>4. RowsExist'
    <3>1. RowsEvolve
      BY <1>2, StepEvolves
    <3>2. \A o \in Slot : occ[o] # "none" => occ'[o] # "none"
      BY <1>2, <2>1, OccurrencesKept DEF OccurrenceKept
    <3> QED
      BY <1>2, <2>1, <2>2, <3>1, <3>2, RowsExistKept
  <2> QED
    BY <2>2, <2>3, <2>4 DEF LifecycleInv, AbstractStep, Stutter, Promise!vars
<1> QED
  BY <1>1, <1>2, TypeCorrect, PTL DEF Spec, ImplementsLifecycle, Promise!Spec

-----------------------------------------------------------------------------
(* What the steps that add or bring back rows leave, row by row. *)

\* A row that has just been added: nobody has claimed or tried it.
Fresh(row) ==
  row.status = "pending" /\ row.copies = 0 /\ row.att = 0 /\ row.next = NoAttempt

\* A success ends its row; what is added is a repeat nobody has reacted to.
LEMMA FinalizeSentRows ==
  ASSUME TypeOK, NEW w \in Worker, FinalizeSent(w)
  PROVE  /\ wk[w].n \in DOMAIN ntf
         /\ \A m \in DOMAIN ntf :
              ntf'[m] = IF m = wk[w].n THEN Reported(ntf[m], wk[w].silent) ELSE ntf[m]
         /\ \A m \in DOMAIN ntf' \ DOMAIN ntf :
              Fresh(ntf'[m]) /\ ntf'[m].occ \notin stopped
<1> DEFINE n == wk[w].n
           row == Reported(ntf[n], wk[w].silent)
           done == [ntf EXCEPT ![n] = row]
<1>1. /\ n \in DOMAIN ntf /\ wk[w].now \in Nat /\ wk[w].silent \in BOOLEAN
      /\ StoreTypeOK /\ ntf \in Seq(Notification)
  BY Chosen DEF FinalizeSent, TypeOK, StoreTypeOK
<1>2. row \in Notification
  BY <1>1, RowType, OutcomeTypes, 0 \in Nat, 0 \in Int
<1>3. ntf' = WithNextRepeat(done, n, wk[w].now)
  BY DEF FinalizeSent, Reported
<1> HIDE DEF row
<1>4. /\ done \in Seq(Notification) /\ DOMAIN done = DOMAIN ntf
      /\ \A m \in DOMAIN ntf : done[m] = IF m = n THEN row ELSE ntf[m]
  BY <1>1, <1>2, RowSet
<1> HIDE DEF done
<1>5. /\ \A m \in DOMAIN ntf : ntf'[m] = done[m]
      /\ \A m \in DOMAIN ntf' \ DOMAIN ntf :
           /\ WantsRepeat(n)
           /\ \E fire, silent : ntf'[m] = NewRow(ntf[n].occ, "repeat", fire, silent)
  BY <1>1, <1>3, <1>4, WithNextRepeatType
<1>6. ASSUME NEW m \in DOMAIN ntf' \ DOMAIN ntf
      PROVE  Fresh(ntf'[m]) /\ ntf'[m].occ \notin stopped
  <2>1. ntf[n].occ \notin stopped
    BY <1>5 DEF WantsRepeat
  <2>2. PICK fire, silent : ntf'[m] = NewRow(ntf[n].occ, "repeat", fire, silent)
    BY <1>5
  <2> QED
    BY <2>1, <2>2 DEF NewRow, Fresh
<1>7. \A m \in DOMAIN ntf :
        ntf'[m] = IF m = n THEN Reported(ntf[m], wk[w].silent) ELSE ntf[m]
  BY <1>4, <1>5 DEF row
<1> QED
  BY <1>1, <1>6, <1>7

\* A snooze withdraws what is pending and leaves one main signal ahead, either
\* new or one that was withdrawn and never claimed.
SnoozeSignal(made, o) ==
  /\ ntf'[made].occ = o /\ ntf'[made].kind = "main" /\ ntf'[made].status = "pending"
  /\ ntf'[made].fire = SnoozeTarget(o)
  /\ \/ made \notin DOMAIN ntf /\ Fresh(ntf'[made])
     \/ /\ made \in DOMAIN ntf /\ ntf[made].kind = "main"
        /\ ntf[made].fire = SnoozeTarget(o)
        /\ ntf'[made].att = ntf[made].att /\ ntf'[made].copies = ntf[made].copies

LEMMA SnoozeRows ==
  ASSUME TypeOK, NEW n \in DOMAIN ntf, Snooze(n)
  PROVE  \E made \in DOMAIN ntf' :
           /\ ledger' = ledger \cup {[src |-> n, intent |-> "snooze", made |-> made]}
           /\ \A m \in DOMAIN ntf' \ {made} :
                m \in DOMAIN ntf /\ ntf'[m] = CancelPending(ntf, ntf[n].occ)[m]
           /\ SnoozeSignal(made, ntf[n].occ)
<1> DEFINE o == ntf[n].occ
           rows == CancelPending(ntf, o)
           target == SnoozeTarget(o)
<1>1. ntf \in Seq(Notification) /\ Len(ntf) \in Nat
  BY LenProperties DEF TypeOK, StoreTypeOK
<1>2. o \in Slot /\ target \in Int
  BY <1>1, RowType, StoreAssumption, ReactionsAssumption DEF TypeOK, StoreTypeOK, SnoozeTarget
<1>3. /\ rows \in Seq(Notification) /\ DOMAIN rows = DOMAIN ntf /\ Len(rows) = Len(ntf)
      /\ \A m \in DOMAIN ntf : /\ rows[m].occ = ntf[m].occ /\ rows[m].kind = ntf[m].kind
                               /\ rows[m] = ntf[m]
                                    \/ rows[m] = Settled(ntf[m], "cancelled", NoAttempt)
  BY <1>1, CancelPendingType, CancelPendingEvolves, ZenonT(40) DEF CancelPending, Settled
<1>4. \A m \in DOMAIN ntf : /\ rows[m].fire = ntf[m].fire /\ rows[m].att = ntf[m].att
                            /\ rows[m].copies = ntf[m].copies
  BY <1>1, <1>3, RowType DEF Settled, Notification
<1> HIDE DEF target, rows
<1>5. CASE /\ ntf' = Append(rows, NewRow(o, "main", target, FALSE))
           /\ Record(n, "snooze", Len(ntf) + 1)
  <2> DEFINE new == NewRow(o, "main", target, FALSE)  made == Len(ntf) + 1
  <2>1. new \in Notification
    BY <1>2, NewRowType DEF NotificationKind
  <2>2. /\ Fresh(new) /\ new.occ = o /\ new.kind = "main" /\ new.fire = target
        /\ new.status = "pending"
    BY DEF NewRow, Fresh
  <2> HIDE DEF new
  <2>3. /\ DOMAIN ntf' = DOMAIN ntf \cup {made} /\ ntf'[made] = new
        /\ \A m \in DOMAIN ntf : ntf'[m] = rows[m]
    <3>1. ntf' = Append(rows, new)
      BY <1>5 DEF new
    <3>2. /\ DOMAIN Append(rows, new) = DOMAIN rows \cup {Len(rows) + 1}
          /\ \A m \in DOMAIN rows : Append(rows, new)[m] = rows[m]
          /\ Append(rows, new)[Len(rows) + 1] = new
      BY <1>3, <2>1, RowAppended
    <3> QED
      BY <1>3, <3>1, <3>2
  <2>4. made \notin DOMAIN ntf
    BY <1>1, LenProperties
  <2>5. ledger' = ledger \cup {[src |-> n, intent |-> "snooze", made |-> made]}
    BY <1>5 DEF Record
  <2> HIDE DEF made
  <2> QED
    BY <2>2, <2>3, <2>4, <2>5 DEF SnoozeSignal, rows, target
<1>6. CASE \E m \in RowsOf(o) :
             /\ ntf[m].kind = "main" /\ ntf[m].fire = target
             /\ ntf' = [rows EXCEPT ![m].status = "pending", ![m].next = NoAttempt]
             /\ Record(n, "snooze", m)
  <2>1. PICK m \in RowsOf(o) :
             /\ ntf[m].kind = "main" /\ ntf[m].fire = target
             /\ ntf' = [rows EXCEPT ![m].status = "pending", ![m].next = NoAttempt]
             /\ Record(n, "snooze", m)
    BY <1>6
  <2> DEFINE row == Settled(rows[m], "pending", NoAttempt)
  <2>2. m \in DOMAIN ntf /\ ntf[m].occ = o /\ rows[m] \in Notification
    BY <1>3, RowType DEF RowsOf
  <2>3. /\ row.occ = rows[m].occ /\ row.kind = rows[m].kind /\ row.fire = rows[m].fire
        /\ row.att = rows[m].att /\ row.copies = rows[m].copies /\ row.status = "pending"
        /\ row \in Notification
    <3>1. row \in Notification
      BY <2>2, SettledType DEF NotificationStatus, NoAttempt
    <3> QED
      BY <2>2, <3>1 DEF Settled, Notification
  <2>4. ntf' = [rows EXCEPT ![m] = row]
    BY <2>1 DEF Settled
  <2> HIDE DEF row
  <2>5. /\ DOMAIN ntf' = DOMAIN ntf
        /\ \A k \in DOMAIN ntf : ntf'[k] = IF k = m THEN row ELSE rows[k]
    BY <1>3, <2>2, <2>3, <2>4, RowSet
  <2>6. ledger' = ledger \cup {[src |-> n, intent |-> "snooze", made |-> m]}
    BY <2>1 DEF Record
  <2>7. SnoozeSignal(m, o)
    BY <1>3, <1>4, <2>1, <2>2, <2>3, <2>5 DEF SnoozeSignal, target
  <2> QED
    BY <2>2, <2>5, <2>6, <2>7 DEF rows
<1> QED
  BY <1>5, <1>6 DEF Snooze, rows, target

\* A move withdraws the plan of its occurrence; no row of the target is there
\* to be brought back.
LEMMA MoveRows ==
  ASSUME TypeOK, RowsExist, NEW n \in DOMAIN ntf, NEW target \in Slot, MoveTo(n, target)
  PROVE  /\ \A m \in DOMAIN ntf : /\ m \in DOMAIN ntf'
                                  /\ ntf'[m] = CancelPending(ntf, ntf[n].occ)[m]
         /\ \A m \in DOMAIN ntf' \ DOMAIN ntf :
              Fresh(ntf'[m]) /\ ntf'[m].occ = target /\ ntf'[m].kind # "repeat"
         /\ occ[target] = "none"
<1> DEFINE o == ntf[n].occ
           rows == CancelPending(ntf, o)
<1>1. ntf \in Seq(Notification) /\ DOMAIN rows = DOMAIN ntf
  BY DEF TypeOK, StoreTypeOK, CancelPending
<1>2. ntf' \in Upserted(rows, {target}) /\ occ[target] = "none"
  BY DEF MoveTo
<1>3. /\ rows \in Seq(Notification)
      /\ \A m \in DOMAIN ntf : rows[m].occ = ntf[m].occ
  BY <1>1, CancelPendingType, CancelPendingEvolves
<1>4. \A m \in DOMAIN ntf : KeyOf(rows[m]) \notin PlanKeys({target})
  BY <1>2, <1>3, PlanKeysType DEF RowsExist, KeyOf
<1> HIDE DEF rows
<1>5. /\ \A m \in DOMAIN ntf : m \in DOMAIN ntf' /\ ntf'[m] = rows[m]
      /\ \A m \in DOMAIN ntf' \ DOMAIN ntf :
              \E k \in PlanKeys({target}) : ntf'[m] = NewRow(k.occ, k.kind, k.fire, FALSE)
  <2>1. {target} \in SUBSET Slot
    OBVIOUS
  <2> DEFINE plan == {target}
  <2> HIDE DEF plan
  <2>2. ntf' \in Upserted(rows, plan) /\ plan \in SUBSET Slot
    BY <1>2, <2>1 DEF plan
  <2>3. /\ \A m \in DOMAIN rows : m \in DOMAIN ntf'
        /\ \A m \in DOMAIN rows : ntf'[m] = rows[m] \/ KeyOf(rows[m]) \in PlanKeys(plan)
        /\ \A m \in DOMAIN ntf' \ DOMAIN rows :
             \E k \in PlanKeys(plan) : ntf'[m] = NewRow(k.occ, k.kind, k.fire, FALSE)
    <3>1. \A m \in DOMAIN rows : m \in DOMAIN ntf'
      BY <1>3, <2>2, UpsertedEvolves
    <3>2. \A m \in DOMAIN rows : ntf'[m] = rows[m] \/ KeyOf(rows[m]) \in PlanKeys(plan)
      BY <1>3, <2>2, UpsertedRows
    <3>3. \A m \in DOMAIN ntf' \ DOMAIN rows :
            \E k \in PlanKeys(plan) : ntf'[m] = NewRow(k.occ, k.kind, k.fire, FALSE)
      BY <1>3, <2>2, UpsertedRows
    <3> QED
      BY <3>1, <3>2, <3>3
  <2> QED
    BY <1>1, <1>4, <2>3 DEF plan
<1>6. ASSUME NEW m \in DOMAIN ntf' \ DOMAIN ntf
      PROVE  Fresh(ntf'[m]) /\ ntf'[m].occ = target /\ ntf'[m].kind # "repeat"
  <2>1. PICK k \in PlanKeys({target}) : ntf'[m] = NewRow(k.occ, k.kind, k.fire, FALSE)
    BY <1>5
  <2>2. k.occ = target /\ k.kind # "repeat"
    BY PlanKeysType
  <2> QED
    BY <2>1, <2>2 DEF NewRow, Fresh
<1> QED
  BY <1>2, <1>5, <1>6 DEF rows

\* The write of a reconciliation revives cancelled rows of its plan and adds
\* the missing ones.
LEMMA WriteRows ==
  ASSUME TypeOK, ReconcileWrite
  PROVE  /\ \A m \in DOMAIN ntf :
              /\ m \in DOMAIN ntf'
              /\ \/ ntf'[m] = ntf[m]
                 \/ /\ ntf[m].status = "cancelled" /\ ntf[m].kind # "repeat"
                    /\ ntf[m].occ \in rec.plan /\ ntf'[m] = Revived(ntf[m])
         /\ \A m \in DOMAIN ntf' \ DOMAIN ntf :
              Fresh(ntf'[m]) /\ ntf'[m].occ \in rec.plan /\ ntf'[m].kind # "repeat"
<1>1. ntf \in Seq(Notification) /\ rec.plan \in SUBSET Slot
  BY DEF TypeOK, StoreTypeOK
<1>2. ntf' \in Upserted(ntf, rec.plan)
  BY DEF ReconcileWrite
<1>3. \A k \in PlanKeys(rec.plan) : k.occ \in rec.plan /\ k.kind # "repeat"
  BY <1>1, PlanKeysType
<1>4. ASSUME NEW m \in DOMAIN ntf' \ DOMAIN ntf
      PROVE  Fresh(ntf'[m]) /\ ntf'[m].occ \in rec.plan /\ ntf'[m].kind # "repeat"
  <2>1. PICK k \in PlanKeys(rec.plan) : ntf'[m] = NewRow(k.occ, k.kind, k.fire, FALSE)
    BY <1>1, <1>2, UpsertedRows
  <2> QED
    BY <1>3, <2>1 DEF NewRow, Fresh
<1>5. ASSUME NEW m \in DOMAIN ntf
      PROVE  /\ m \in DOMAIN ntf'
             /\ \/ ntf'[m] = ntf[m]
                \/ /\ ntf[m].status = "cancelled" /\ ntf[m].kind # "repeat"
                   /\ ntf[m].occ \in rec.plan /\ ntf'[m] = Revived(ntf[m])
  <2>1. m \in DOMAIN ntf'
    BY <1>1, <1>2, UpsertedEvolves
  <2>2. \/ ntf'[m] = ntf[m]
        \/ /\ ntf[m].status = "cancelled" /\ KeyOf(ntf[m]) \in PlanKeys(rec.plan)
           /\ ntf'[m] = Revived(ntf[m])
    BY <1>1, <1>2, UpsertedRows
  <2> QED
    BY <1>3, <2>1, <2>2 DEF KeyOf
<1> QED
  BY <1>4, <1>5

-----------------------------------------------------------------------------
(* Snoozed occurrences. *)

\* Audit records name rows that exist, a snooze is a reaction, and what a
\* reconciliation is about to plan has not been snoozed: a snooze waits for
\* user_settings.
SnoozesKnown ==
  /\ \A l \in ledger : l.src \in DOMAIN ntf
  /\ \A o \in Slot : Snoozed(o) => o \in stopped
  /\ \A o \in rec.plan : ~ Snoozed(o)

\* A pending row of a snoozed occurrence was made by a snooze and is alone.
Alone(n) ==
  /\ \E l \in ledger : l.intent = "snooze" /\ l.made = n
  /\ \A m \in DOMAIN ntf : ntf[m].occ = ntf[n].occ /\ ntf[m].status = "pending" => m = n

SnoozesAlone ==
  \A n \in DOMAIN ntf : ntf[n].status = "pending" /\ Snoozed(ntf[n].occ) => Alone(n)

\* A step that records no snooze: none of the snoozed occurrences gets a
\* pending row.
Unsnoozing ==
  /\ ledger \subseteq ledger'
  /\ \A l \in ledger' \ ledger : l.src \in DOMAIN ntf /\ l.intent # "snooze"
  /\ \A n \in DOMAIN ntf' : ntf'[n].status = "pending" =>
       \/ n \in DOMAIN ntf /\ ntf[n].status = "pending"
       \/ ~ Snoozed(ntf'[n].occ)
  /\ stopped \subseteq stopped'
  /\ \A o \in rec'.plan : o \in rec.plan \/ ~ Snoozed(o)

\* An occurrence is snoozed after such a step if it was before.
LEMMA SnoozedAsBefore ==
  ASSUME SnoozesKnown, RowsEvolve, Unsnoozing, NEW o
  PROVE  Snoozed(o)' <=> Snoozed(o)
<1>1. \A l \in ledger' : l.intent = "snooze" => l \in ledger
  BY DEF Unsnoozing
<1>2. \A l \in ledger : l \in ledger' /\ ntf'[l.src].occ = ntf[l.src].occ
  BY DEF Unsnoozing, SnoozesKnown, RowsEvolve, RowEvolves
<1> QED
  BY <1>1, <1>2 DEF Snoozed

LEMMA UnsnoozingKeeps ==
  ASSUME TypeOK, TypeOK', SnoozesKnown, SnoozesAlone, RowsEvolve, Unsnoozing
  PROVE  SnoozesKnown' /\ SnoozesAlone'
<1>1. \A o : Snoozed(o)' <=> Snoozed(o)
  BY SnoozedAsBefore
<1>2. DOMAIN ntf \subseteq DOMAIN ntf'
  BY GrownDomain DEF RowsEvolve, TypeOK
<1>3. SnoozesKnown'
  <2>1. \A l \in ledger' : l.src \in DOMAIN ntf'
    BY <1>2 DEF Unsnoozing, SnoozesKnown
  <2>2. \A o \in Slot : Snoozed(o) => o \in stopped'
    BY DEF Unsnoozing, SnoozesKnown
  <2>3. \A o \in rec'.plan : ~ Snoozed(o)
    BY DEF Unsnoozing, SnoozesKnown
  <2> QED
    BY <1>1, <2>1, <2>2, <2>3 DEF SnoozesKnown
<1>4. ASSUME NEW n \in DOMAIN ntf', ntf'[n].status = "pending", Snoozed(ntf'[n].occ)
      PROVE  Alone(n)'
  <2>1. ASSUME NEW m \in DOMAIN ntf', ntf'[m].status = "pending", ntf'[m].occ = ntf'[n].occ
        PROVE  m \in DOMAIN ntf /\ ntf[m].status = "pending" /\ ntf[m].occ = ntf'[n].occ
    <3>1. m \in DOMAIN ntf /\ ntf[m].status = "pending"
      BY <1>4, <2>1 DEF Unsnoozing
    <3>2. ntf'[m].occ = ntf[m].occ
      BY <3>1 DEF RowsEvolve, RowEvolves
    <3> QED
      BY <2>1, <3>1, <3>2
  <2>2. n \in DOMAIN ntf /\ ntf[n].status = "pending" /\ ntf[n].occ = ntf'[n].occ
    BY <1>4, <2>1
  <2>3. Alone(n)
    BY <1>4, <2>2 DEF SnoozesAlone
  <2>4. \E l \in ledger' : l.intent = "snooze" /\ l.made = n
    BY <2>3 DEF Alone, Unsnoozing
  <2>5. \A m \in DOMAIN ntf' : ntf'[m].occ = ntf'[n].occ /\ ntf'[m].status = "pending" => m = n
    BY <2>1, <2>2, <2>3 DEF Alone
  <2> QED
    BY <2>4, <2>5 DEF Alone
<1> QED
  BY <1>1, <1>3, <1>4 DEF SnoozesAlone

\* A snooze leaves its signal alone and touches no other occurrence.
LEMMA SnoozeAlone ==
  ASSUME TypeOK, TypeOK', PlanOpen, SnoozesKnown, SnoozesAlone, RowsEvolve,
         NEW n \in DOMAIN ntf, Snooze(n)
  PROVE  SnoozesKnown' /\ SnoozesAlone'
<1> DEFINE o == ntf[n].occ
           rows == CancelPending(ntf, o)
<1>1. ntf \in Seq(Notification) /\ o \in Slot /\ DOMAIN ntf \subseteq DOMAIN ntf'
  BY RowType, GrownDomain DEF RowsEvolve, TypeOK, StoreTypeOK
<1>2. /\ stopped' = stopped \cup {o} /\ rec' = rec /\ rec.pc = "idle"
  BY DEF Snooze, Withdraw, SourceLocked, SettingsFree
<1>3. PICK made \in DOMAIN ntf' :
        /\ ledger' = ledger \cup {[src |-> n, intent |-> "snooze", made |-> made]}
        /\ \A m \in DOMAIN ntf' \ {made} : m \in DOMAIN ntf /\ ntf'[m] = rows[m]
        /\ SnoozeSignal(made, o)
  BY SnoozeRows
<1>4. \A m \in DOMAIN ntf : ntf'[m].occ = ntf[m].occ
  BY DEF RowsEvolve, RowEvolves
<1>5. \A p \in Slot : Snoozed(p)' => p = o \/ Snoozed(p)
  <2>1. \A l \in ledger' : l.src = n \/ l \in ledger
    BY <1>3
  <2> QED
    BY <1>4, <2>1 DEF Snoozed, SnoozesKnown
<1>6. SnoozesKnown'
  <2>1. rec'.plan = {}
    BY <1>2 DEF PlanOpen
  <2>2. \A l \in ledger' : l.src \in DOMAIN ntf'
    BY <1>1, <1>3 DEF SnoozesKnown
  <2>3. \A p \in Slot : Snoozed(p)' => p \in stopped'
    BY <1>2, <1>5 DEF SnoozesKnown
  <2> QED
    BY <2>1, <2>2, <2>3 DEF SnoozesKnown
<1>7. ASSUME NEW m \in DOMAIN ntf', ntf'[m].status = "pending", m # made
      PROVE  /\ m \in DOMAIN ntf /\ ntf[m].status = "pending" /\ ntf[m].occ # o
             /\ ntf'[m].occ = ntf[m].occ
  <2>1. m \in DOMAIN ntf /\ rows[m].status = "pending"
    BY <1>3, <1>7
  <2> HIDE DEF rows
  <2>2. ntf[m].status = "pending" /\ ntf[m].occ # o
    BY <2>1, WithdrawalLeaves DEF rows
  <2> QED
    BY <1>4, <2>1, <2>2
<1> HIDE DEF rows
<1>8. ntf'[made].occ = o
  BY <1>3 DEF SnoozeSignal
<1>9. Alone(made)'
  <2>1. \E l \in ledger' : l.intent = "snooze" /\ l.made = made
    <3> DEFINE l == [src |-> n, intent |-> "snooze", made |-> made]
    <3>1. l \in ledger' /\ l.intent = "snooze" /\ l.made = made
      BY <1>3
    <3> HIDE DEF l
    <3> QED
      BY <3>1
  <2> QED
    BY <1>7, <1>8, <2>1 DEF Alone
<1>10. ASSUME NEW m \in DOMAIN ntf', ntf'[m].status = "pending", m # made,
              Snoozed(ntf[m].occ)'
       PROVE  Alone(m)'
  <2>1. /\ m \in DOMAIN ntf /\ ntf[m].status = "pending" /\ ntf[m].occ # o
        /\ ntf'[m].occ = ntf[m].occ /\ ntf[m].occ \in Slot
    BY <1>1, <1>7, <1>10, RowType
  <2>2. Snoozed(ntf[m].occ)
    BY <1>5, <1>10, <2>1
  <2>3. Alone(m)
    BY <2>1, <2>2 DEF SnoozesAlone
  <2>4. \E l \in ledger' : l.intent = "snooze" /\ l.made = m
    BY <1>3, <2>3 DEF Alone
  <2>5. \A k \in DOMAIN ntf' : ntf'[k].occ = ntf'[m].occ /\ ntf'[k].status = "pending" => k = m
    BY <1>7, <1>8, <2>1, <2>3 DEF Alone
  <2> QED
    BY <2>4, <2>5 DEF Alone
<1> QED
  BY <1>6, <1>9, <1>10 DEF SnoozesAlone

\* Steps that leave the audit records, the reactions and the plan alone and
\* edit one row that was pending, or none.
LEMMA OneUnsnoozing ==
  ASSUME NEW n \in DOMAIN ntf, NEW row, ntf' = [ntf EXCEPT ![n] = row],
         ntf[n].status = "pending" \/ row.status # "pending",
         UNCHANGED <<stopped, ledger, rec>>
  PROVE  Unsnoozing
BY DEF Unsnoozing

LEMMA NoneUnsnoozing ==
  ASSUME UNCHANGED <<ntf, stopped, ledger, rec>>
  PROVE  Unsnoozing
BY DEF Unsnoozing

LEMMA DeliveryUnsnoozing ==
  ASSUME TypeOK, SnoozesKnown, DeliveryNext
  PROVE  Unsnoozing
<1>1. PICK w \in Worker : WorkerStep(w) \/ Crash(w)
  BY DEF DeliveryNext
<1> DEFINE n == wk[w].n
<1>2. CASE UNCHANGED storeVars
  BY <1>2, NoneUnsnoozing DEF storeVars
<1>3. CASE \/ ClaimCancel(w) \/ ClaimDuplicate(w) \/ ClaimPostpone(w)
           \/ ClaimMiss(w) \/ ClaimSend(w)
  <2>1. StillDue(w) /\ wk[w].pc = "picked"
    BY <1>3 DEF ClaimCancel, ClaimDuplicate, ClaimPostpone, ClaimMiss, ClaimSend,
                Deliverable, Claimable, StillDue
  <2>2. n \in DOMAIN ntf /\ ntf[n].status = "pending"
    BY <2>1, Chosen DEF StillDue, Due, Pending
  <2>3. (\E row : ntf' = [ntf EXCEPT ![n] = row]) /\ UNCHANGED <<stopped, ledger, rec>>
    BY <1>3 DEF ClaimCancel, ClaimDuplicate, ClaimPostpone, ClaimMiss, ClaimSend
  <2> QED
    BY <2>2, <2>3, OneUnsnoozing
<1>4. CASE SendAccepted(w)
  <2> DEFINE row == [ntf[n] EXCEPT !.copies = @ + 1]
  <2>1. n \in DOMAIN ntf /\ ntf \in Seq(Notification)
    BY <1>4, Chosen DEF SendAccepted, TypeOK, StoreTypeOK
  <2>2. ntf' = [ntf EXCEPT ![n] = row] /\ UNCHANGED <<stopped, ledger, rec>>
    BY <1>4 DEF SendAccepted
  <2>3. row.status = ntf[n].status
    BY <2>1, RowType DEF Notification
  <2> HIDE DEF row
  <2> QED
    BY <2>1, <2>2, <2>3, OneUnsnoozing
<1>5. CASE FinalizeFailed(w)
  <2>1. n \in DOMAIN ntf /\ UNCHANGED <<stopped, ledger, rec>>
    BY <1>5, Chosen DEF FinalizeFailed
  <2>2. \/ UNCHANGED ntf
        \/ ntf[n].status = "pending" /\ \E row : ntf' = [ntf EXCEPT ![n] = row]
    BY <1>5 DEF FinalizeFailed, Pending
  <2> QED
    BY <2>1, <2>2, OneUnsnoozing, NoneUnsnoozing
<1>6. CASE FinalizeSent(w)
  <2>1. UNCHANGED <<stopped, ledger, rec>>
    BY <1>6 DEF FinalizeSent
  <2>2. ntf \in Seq(Notification) /\ ntf' \in Seq(Notification)
    BY <1>6, FinalizeSentEvolves DEF RowsEvolve, RowsGrow, TypeOK, StoreTypeOK
  <2>3. /\ \A m \in DOMAIN ntf :
             ntf'[m] = IF m = n THEN Reported(ntf[m], wk[w].silent) ELSE ntf[m]
        /\ \A m \in DOMAIN ntf' \ DOMAIN ntf : ntf'[m].occ \notin stopped
    BY <1>6, FinalizeSentRows
  <2>4. \A m \in DOMAIN ntf : Reported(ntf[m], wk[w].silent).status = "sent"
    BY <2>2, RowType DEF Reported, Notification
  <2>5. \A m \in DOMAIN ntf' : ntf'[m].occ \in Slot
    BY <2>2, RowType
  <2>6. \A m \in DOMAIN ntf' : ntf'[m].status = "pending" =>
          \/ m \in DOMAIN ntf /\ ntf[m].status = "pending"
          \/ ~ Snoozed(ntf'[m].occ)
    BY <2>3, <2>4, <2>5 DEF SnoozesKnown
  <2> QED
    BY <2>1, <2>6 DEF Unsnoozing
<1> QED
  BY <1>1, <1>2, <1>3, <1>4, <1>5, <1>6
     DEF WorkerStep, StartTick, EndTick, SelectCandidate, ClaimLost, SendRefused, Crash

\* Recording another action, cancelling repeats or a whole plan.
LEMMA RecordUnsnoozing ==
  ASSUME NEW n \in DOMAIN ntf, NEW intent, intent # "snooze", NEW made,
         Record(n, intent, made) \/ UNCHANGED ledger,
         \A m \in DOMAIN ntf' : ntf'[m].status = "pending" =>
           \/ m \in DOMAIN ntf /\ ntf[m].status = "pending"
           \/ ~ Snoozed(ntf'[m].occ),
         stopped \subseteq stopped', UNCHANGED rec
  PROVE  Unsnoozing
BY DEF Unsnoozing, Record

LEMMA WithdrawnPending ==
  ASSUME TypeOK, NEW o, ntf' = CancelRepeats(ntf, o) \/ ntf' = CancelPending(ntf, o)
  PROVE  \A m \in DOMAIN ntf' : ntf'[m].status = "pending" =>
           m \in DOMAIN ntf /\ ntf[m].status = "pending"
<1>1. \A m \in DOMAIN ntf' : m \in DOMAIN ntf /\ (ntf'[m] = ntf[m] \/ ntf[m].status = "pending")
  BY Zenon DEF CancelRepeats, CancelPending
<1> QED
  BY <1>1

LEMMA ReactionsUnsnoozing ==
  ASSUME TypeOK, RowsExist, SnoozesKnown, ReactionsNext
  PROVE  Unsnoozing \/ \E n \in DOMAIN ntf : Snooze(n)
<1>1. ASSUME NEW o, ntf' = CancelRepeats(ntf, o) \/ UNCHANGED ntf, stopped \subseteq stopped',
             UNCHANGED <<ledger, rec>>
      PROVE  Unsnoozing
  BY <1>1, WithdrawnPending DEF Unsnoozing
<1>2. ASSUME NEW o \in Slot, Acknowledge(o) PROVE Unsnoozing
  BY <1>1, <1>2 DEF Acknowledge
<1>3. ASSUME NEW n \in DOMAIN ntf, ReactToNotification(n) \/ PreviewMove(n) PROVE Unsnoozing
  BY <1>1, <1>3 DEF ReactToNotification, PreviewMove
<1>4. CASE UpdateQuietHours
  BY <1>4, NoneUnsnoozing DEF UpdateQuietHours
<1>5. CASE ReactToMessage
  <2>1. UNCHANGED <<ledger, rec>> /\ stopped \subseteq stopped'
        /\ (ntf' = CancelRepeats(ntf, ntf[ctx.n].occ) \/ UNCHANGED ntf)
    BY <1>5 DEF ReactToMessage
  <2> QED
    BY <1>1, <2>1
<1>6. ASSUME NEW o \in Slot, SkipOccurrence(o) PROVE Unsnoozing
  <2>1. UNCHANGED <<stopped, ledger, rec>>
    BY <1>6 DEF SkipOccurrence
  <2>2. \A m \in DOMAIN ntf' : m \in DOMAIN ntf /\ (ntf'[m] = ntf[m] \/ ntf[m].status = "pending")
    BY <1>6, Zenon DEF SkipOccurrence, Pending
  <2> QED
    BY <2>1, <2>2 DEF Unsnoozing
<1>7. ASSUME NEW n \in DOMAIN ntf, NEW intent \in {"complete", "skip"}, NEW status,
             Close(n, intent, status)
      PROVE  Unsnoozing
  <2>1. /\ Record(n, intent, 0) /\ UNCHANGED rec /\ stopped \subseteq stopped'
        /\ UNCHANGED ntf \/ ntf' = CancelPending(ntf, ntf[n].occ)
    BY <1>7 DEF Close, Withdraw
  <2>2. \A m \in DOMAIN ntf' : ntf'[m].status = "pending" =>
          m \in DOMAIN ntf /\ ntf[m].status = "pending"
    BY <2>1, WithdrawnPending
  <2> QED
    BY <2>1, <2>2, RecordUnsnoozing
<1>8. ASSUME NEW n \in DOMAIN ntf, NEW target \in Slot, MoveTo(n, target) PROVE Unsnoozing
  <2>1. Record(n, "move", 0) /\ UNCHANGED rec /\ stopped \subseteq stopped'
    BY <1>8 DEF MoveTo, Withdraw
  <2>2. /\ \A m \in DOMAIN ntf : ntf'[m] = CancelPending(ntf, ntf[n].occ)[m]
        /\ \A m \in DOMAIN ntf' \ DOMAIN ntf : ntf'[m].occ = target
        /\ occ[target] = "none"
    BY <1>8, MoveRows
  <2>3. ~ Snoozed(target)
    BY <2>2 DEF Snoozed, SnoozesKnown, RowsExist
  <2>4. \A m \in DOMAIN ntf : CancelPending(ntf, ntf[n].occ)[m].status = "pending" =>
          ntf[m].status = "pending"
    BY WithdrawalLeaves
  <2>5. \A m \in DOMAIN ntf' : ntf'[m].status = "pending" =>
          \/ m \in DOMAIN ntf /\ ntf[m].status = "pending"
          \/ ~ Snoozed(ntf'[m].occ)
    BY <2>2, <2>3, <2>4
  <2> QED
    BY <2>1, <2>5, RecordUnsnoozing
<1> QED
  BY <1>2, <1>3, <1>4, <1>5, <1>6, <1>7, <1>8
     DEF ReactionsNext, Complete, SkipFromNotification

LEMMA SchedulingUnsnoozing ==
  ASSUME TypeOK, SnoozesKnown, SchedulingNext
  PROVE  Unsnoozing
<1>1. CASE ReconcileRead
  BY <1>1 DEF ReconcileRead, Schedulable, Unsnoozing
<1>2. CASE ReconcileAbort
  BY <1>2 DEF ReconcileAbort, NoReconcile, Unsnoozing
<1>3. CASE ReconcileWrite
  <2>1. UNCHANGED <<stopped, ledger>> /\ rec'.plan = {}
    BY <1>3 DEF ReconcileWrite, NoReconcile
  <2>2. \A m \in DOMAIN ntf' : \/ m \in DOMAIN ntf /\ ntf'[m] = ntf[m]
                               \/ ntf'[m].occ \in rec.plan
    <3>1. \A m \in DOMAIN ntf : Revived(ntf[m]).occ = ntf[m].occ
      BY RowType DEF Revived, Notification, TypeOK, StoreTypeOK
    <3> QED
      BY <1>3, <3>1, WriteRows
  <2> QED
    BY <2>1, <2>2 DEF Unsnoozing, SnoozesKnown
<1> QED
  BY <1>1, <1>2, <1>3 DEF SchedulingNext

LEMMA SnoozesKept ==
  ASSUME TypeOK, LifecycleInv, SnoozesKnown, SnoozesAlone, [Next]_vars
  PROVE  SnoozesKnown' /\ SnoozesAlone'
<1>1. RowsEvolve /\ TypeOK' /\ PlanOpen /\ RowsExist
  BY StepEvolves DEF LifecycleInv
<1>2. Unsnoozing \/ \E n \in DOMAIN ntf : Snooze(n)
  <2>1. CASE Advance \/ UNCHANGED vars
    BY <2>1, NoneUnsnoozing DEF Advance, vars, storeVars
  <2> QED
    BY <1>1, <2>1, DeliveryUnsnoozing, ReactionsUnsnoozing, SchedulingUnsnoozing DEF Next
<1> QED
  BY <1>1, <1>2, UnsnoozingKeeps, SnoozeAlone

LEMMA LifecycleInvHolds == Spec => []LifecycleInv
<1>1. Init => LifecycleInv
  BY DEF Init, StoreInit, LifecycleInv, PlanOpen, PlanBorn, BornIsUnborn, RowsExist, NoReconcile
<1>2. ASSUME TypeOK, LifecycleInv, [Next]_vars PROVE LifecycleInv'
  <2>1. /\ PlanOpen /\ PlanBorn /\ BornIsUnborn /\ RowsExist
    BY <1>2 DEF LifecycleInv
  <2>2. PlanOpen' /\ PlanBorn' /\ BornIsUnborn'
    BY <1>2, <2>1, StepOwes, PlanBornKept, OccurrencesKept DEF OwedStep
  <2>3. \A o \in Slot : occ[o] # "none" => occ'[o] # "none"
    BY <1>2, <2>1, OccurrencesKept DEF OccurrenceKept
  <2>4. RowsExist'
    BY <1>2, <2>1, <2>3, StepEvolves, StepImplements, RowsExistKept
  <2> QED
    BY <2>2, <2>4 DEF LifecycleInv
<1> QED
  BY <1>1, <1>2, TypeCorrect, PTL DEF Spec

LEMMA SnoozesHold == Spec => [](SnoozesKnown /\ SnoozesAlone)
<1>1. Init => SnoozesKnown /\ SnoozesAlone
  BY DEF Init, StoreInit, NoReconcile, SnoozesKnown, SnoozesAlone, Snoozed
<1> QED
  BY <1>1, SnoozesKept, LifecycleInvHolds, TypeCorrect, PTL DEF Spec

\* A snooze stands for the whole plan of its occurrence: as long as the owner
\* has snoozed it, at most one signal of it is still to come, and it is one a
\* snooze has made.  No repeat is born, no reconciliation brings a withdrawn
\* row back, and no move can make the occurrence a target.
THEOREM SnoozeStaysTheOnlySignal == Spec => []SnoozeIsTheOnlySignal
<1>1. SnoozesAlone => SnoozeIsTheOnlySignal
  <2> SUFFICES ASSUME SnoozesAlone, NEW o \in Slot, Snoozed(o)
               PROVE  LET waiting == {n \in RowsOf(o) : Pending(n)}
                      IN  /\ Cardinality(waiting) <= 1
                          /\ \A n \in waiting : \E l \in ledger : l.intent = "snooze" /\ l.made = n
    BY DEF SnoozeIsTheOnlySignal
  <2> DEFINE waiting == {n \in RowsOf(o) : Pending(n)}
  <2>1. \A n \in waiting : Alone(n)
    BY DEF SnoozesAlone, RowsOf, Pending
  <2>2. \A n, m \in waiting : m = n
    BY <2>1 DEF Alone, RowsOf, Pending
  <2>3. Cardinality(waiting) <= 1
    <3> HIDE DEF waiting
    <3>1. CASE waiting = {}
      BY <3>1, FS_EmptySet
    <3>2. ASSUME NEW n \in waiting PROVE Cardinality(waiting) <= 1
      <4>1. waiting = {n}
        BY <2>2
      <4> QED
        BY <4>1, FS_Singleton
    <3> QED
      BY <3>1, <3>2
  <2> QED
    BY <2>1, <2>3 DEF Alone
<1> QED
  BY <1>1, SnoozesHold, PTL

-----------------------------------------------------------------------------
(* Leases. *)

\* The first moment a claim may read on its clock.
FreeFrom(row) ==
  LET free == IF row.next >= row.fire THEN row.next ELSE row.fire
  IN  IF free >= 0 THEN free ELSE 0

\* The row is never claimed again, unless a snooze makes its signal of it.
Spent(n) ==
  \/ ntf[n].status \in {"sent", "missed", "failed"}
  \/ occ[ntf[n].occ] # "pending"
  \/ /\ ntf[n].status = "cancelled"
     /\ ntf[n].kind = "repeat" \/ Snoozed(ntf[n].occ)

\* What a step other than a claim does to a row: it ends it, keeps it out of
\* reach at least as long as before, makes the signal of a snooze of one that
\* has not been due yet, or counts a failed attempt.
LeaseKept(n) ==
  /\ ntf[n].kind = "main" => ntf'[n].fire = ntf[n].fire
  /\ \/ /\ ntf'[n].att = ntf[n].att
        /\ \/ Spent(n)'
           \/ ~ Spent(n) /\ FreeFrom(ntf'[n]) >= FreeFrom(ntf[n])
           \/ ntf[n].kind = "main" /\ ntf[n].fire > clock
     \/ ntf'[n].att = ntf[n].att + 1

RowKept(n) == LeaseKept(n) /\ ntf'[n].copies = ntf[n].copies

RowsKept ==
  /\ \A n \in DOMAIN ntf : RowKept(n)
  /\ \A n \in DOMAIN ntf' \ DOMAIN ntf : Fresh(ntf'[n])

LEMMA FreeFromIs ==
  ASSUME NEW row \in Notification
  PROVE  /\ FreeFrom(row) \in Nat /\ FreeFrom(row) >= row.next /\ FreeFrom(row) >= row.fire
         /\ \A t \in Nat : row.next <= t /\ row.fire <= t => FreeFrom(row) <= t
BY DEF FreeFrom, Notification

\* Nothing but a snooze reopens an occurrence, so a row stays spent as long as
\* it keeps its status.
LEMMA SpentStays ==
  ASSUME SnoozesKnown, RowsEvolve, ledger \subseteq ledger', NEW n \in DOMAIN ntf, Spent(n),
         ntf'[n].status = ntf[n].status,
         occ'[ntf[n].occ] = occ[ntf[n].occ] \/ occ'[ntf[n].occ] # "pending"
  PROVE  Spent(n)'
<1>1. ntf'[n].occ = ntf[n].occ /\ ntf'[n].kind = ntf[n].kind
  BY DEF RowsEvolve, RowEvolves
<1>2. Snoozed(ntf[n].occ) => Snoozed(ntf[n].occ)'
  BY <1>1 DEF Snoozed, SnoozesKnown, RowsEvolve, RowEvolves
<1> QED
  BY <1>1, <1>2 DEF Spent

\* A row that keeps what a claim looks at.
LEMMA LeaseUntouched ==
  ASSUME TypeOK, SnoozesKnown, RowsEvolve, ledger \subseteq ledger', NEW n \in DOMAIN ntf,
         ntf'[n].status = ntf[n].status, ntf'[n].fire = ntf[n].fire,
         ntf'[n].next = ntf[n].next, ntf'[n].att = ntf[n].att,
         occ'[ntf[n].occ] = occ[ntf[n].occ] \/ occ'[ntf[n].occ] # "pending"
  PROVE  LeaseKept(n)
<1>1. ntf[n] \in Notification /\ FreeFrom(ntf[n]) \in Nat
  BY RowType, FreeFromIs DEF TypeOK, StoreTypeOK
<1>2. FreeFrom(ntf'[n]) = FreeFrom(ntf[n])
  BY DEF FreeFrom
<1> QED
  BY <1>1, <1>2, SpentStays DEF LeaseKept

LEMMA RowUntouched ==
  ASSUME TypeOK, SnoozesKnown, RowsEvolve, ledger \subseteq ledger', NEW n \in DOMAIN ntf,
         ntf'[n] = ntf[n],
         occ'[ntf[n].occ] = occ[ntf[n].occ] \/ occ'[ntf[n].occ] # "pending"
  PROVE  RowKept(n)
BY LeaseUntouched DEF RowKept

\* A row that is over: its occurrence is no longer pending, it has ended, or it
\* was withdrawn for good.
LEMMA RowSpent ==
  ASSUME RowsEvolve, NEW n \in DOMAIN ntf,
         \/ ntf'[n].status \in {"sent", "missed", "failed"}
         \/ occ'[ntf[n].occ] # "pending"
         \/ ntf'[n].status = "cancelled" /\ (ntf[n].kind = "repeat" \/ Snoozed(ntf[n].occ)'),
         ntf[n].kind = "main" => ntf'[n].fire = ntf[n].fire,
         ntf'[n].att = ntf[n].att, ntf'[n].copies = ntf[n].copies
  PROVE  RowKept(n)
<1>1. ntf'[n].occ = ntf[n].occ /\ ntf'[n].kind = ntf[n].kind
  BY DEF RowsEvolve, RowEvolves
<1>2. Spent(n)'
  BY <1>1 DEF Spent
<1> QED
  BY <1>2 DEF RowKept, LeaseKept

\* A step that edits one row and closes no occurrence but a missed one.
LEMMA EditKept ==
  ASSUME TypeOK, SnoozesKnown, RowsEvolve, UNCHANGED ledger, NEW n \in DOMAIN ntf,
         NEW row \in Notification, ntf' = [ntf EXCEPT ![n] = row],
         occ' = occ \/ \E o \in Slot : occ' = [occ EXCEPT ![o] = "missed"], RowKept(n)
  PROVE  RowsKept
<1>1. ntf \in Seq(Notification) /\ occ \in [Slot -> OccurrenceStatus \cup {"none"}]
  BY DEF TypeOK, StoreTypeOK
<1>2. \A o \in Slot : occ'[o] = occ[o] \/ occ'[o] # "pending"
  BY <1>1
<1>3. DOMAIN ntf' = DOMAIN ntf /\ \A m \in DOMAIN ntf : m # n => ntf'[m] = ntf[m]
  BY <1>1, RowSet
<1>4. ASSUME NEW m \in DOMAIN ntf, m # n PROVE RowKept(m)
  <2>1. ntf[m].occ \in Slot
    BY <1>1, RowType
  <2> QED
    BY <1>2, <1>3, <1>4, <2>1, RowUntouched
<1> QED
  BY <1>3, <1>4 DEF RowsKept

\* Main signals keep their moment, whatever the quiet hours.
LEMMA MainStays ==
  ASSUME TypeOK, NEW n \in DOMAIN ntf, ntf[n].kind = "main", NEW now
  PROVE  ~ IsPostponed(n, now) /\ FireAt(n, now) = ntf[n].fire
<1>1. ntf[n].fire \in Int
  BY RowType DEF TypeOK, StoreTypeOK
<1>2. Quieted(n).fire = ntf[n].fire
  BY DEF Quieted, ApplyQuietPolicy
<1>3. ~ IsPostponed(n, now)
  BY <1>1, <1>2 DEF IsPostponed
<1> QED
  BY <1>3 DEF FireAt

\* The edits of a row: what they write, and what they leave.
Ended(row, status, fire, silent) ==
  [row EXCEPT !.status = status, !.fire = fire, !.silent = silent, !.next = NoAttempt]

Leased(row, fire, silent, next) ==
  [row EXCEPT !.fire = fire, !.silent = silent, !.next = next]

\* What a claim has read.
LEMMA ClaimReads ==
  ASSUME TypeOK, NEW w \in Worker, StillDue(w)
  PROVE  /\ wk[w].pc = "picked" /\ wk[w].n \in DOMAIN ntf /\ wk[w].now \in Nat
         /\ ntf \in Seq(Notification) /\ ntf[wk[w].n] \in Notification
         /\ ntf[wk[w].n].status = "pending"
         /\ ntf[wk[w].n].fire <= wk[w].now /\ ntf[wk[w].n].next <= wk[w].now
         /\ FreeFrom(ntf[wk[w].n]) \in Nat /\ FreeFrom(ntf[wk[w].n]) <= wk[w].now
         /\ FireAt(wk[w].n, wk[w].now) \in Int
<1>1. wk[w].pc = "picked" /\ wk[w].n \in DOMAIN ntf /\ wk[w].now \in Nat
  BY Chosen DEF StillDue
<1>2. ntf \in Seq(Notification) /\ ntf[wk[w].n] \in Notification
  BY <1>1, RowType DEF TypeOK, StoreTypeOK
<1>3. /\ ntf[wk[w].n].status = "pending"
      /\ ntf[wk[w].n].fire <= wk[w].now /\ ntf[wk[w].n].next <= wk[w].now
  BY DEF StillDue, Due, Pending
<1>4. FreeFrom(ntf[wk[w].n]) \in Nat /\ FreeFrom(ntf[wk[w].n]) <= wk[w].now
  BY <1>1, <1>2, <1>3, FreeFromIs
<1>5. FireAt(wk[w].n, wk[w].now) \in Int
  BY <1>1, <1>3, ClaimType DEF TypeOK
<1> QED
  BY <1>1, <1>2, <1>3, <1>4, <1>5

\* A claim that does not send ends its row or puts it off past its reading of
\* the clock.
LEMMA ClaimsKeep ==
  ASSUME TypeOK, SnoozesKnown, RowsEvolve, NEW w \in Worker,
         ClaimCancel(w) \/ ClaimDuplicate(w) \/ ClaimPostpone(w) \/ ClaimMiss(w)
  PROVE  RowsKept
<1> DEFINE n == wk[w].n
           now == wk[w].now
           old == ntf[n]
           fire == FireAt(n, now)
<1>1. StillDue(w) /\ UNCHANGED ledger
  BY DEF ClaimCancel, ClaimDuplicate, ClaimPostpone, ClaimMiss, Deliverable, Claimable, StillDue
<1>2. /\ n \in DOMAIN ntf /\ now \in Nat /\ ntf \in Seq(Notification)
      /\ old \in Notification /\ old.status = "pending" /\ old.occ \in Slot
      /\ FreeFrom(old) \in Nat /\ FreeFrom(old) <= now /\ fire \in Int
  BY <1>1, ClaimReads, RowType
<1>3. CASE ClaimCancel(w)
  <2> DEFINE row == Settled(old, "cancelled", NoAttempt)
  <2>1. ntf' = [ntf EXCEPT ![n] = row] /\ occ' = occ
    BY <1>3 DEF ClaimCancel, Settled
  <2>2. /\ row \in Notification /\ row.status = "cancelled" /\ row.fire = old.fire
        /\ row.att = old.att /\ row.copies = old.copies
    <3>1. "cancelled" \in NotificationStatus /\ NoAttempt \in Int
      BY DEF NotificationStatus, NoAttempt
    <3> HIDE DEF old, n, now, fire, NotificationStatus, NoAttempt
    <3> QED
      BY <1>2, <3>1 DEF Settled, Notification
  <2> HIDE DEF row
  <2>3. ntf'[n] = row
    BY <1>2, <2>1
  <2>4. RowKept(n)
    BY <1>2, <1>3, <2>1, <2>2, <2>3, RowSpent DEF ClaimCancel, ClaimCancels
  <2> QED
    BY <1>1, <1>2, <2>1, <2>2, <2>4, EditKept
<1>4. CASE ClaimDuplicate(w)
  <2> DEFINE row == [old EXCEPT !.status = "cancelled"]
  <2>1. ntf' = [ntf EXCEPT ![n] = row] /\ occ' = occ /\ occ[old.occ] = "pending"
    BY <1>4 DEF ClaimDuplicate, ClaimCancels
  <2>2. /\ row \in Notification /\ row.fire = old.fire /\ row.next = old.next
        /\ row.att = old.att /\ row.copies = old.copies
    BY <1>2 DEF Notification, NotificationStatus
  <2> HIDE DEF row
  <2>3. ntf'[n] = row
    BY <1>2, <2>1
  <2>4. FreeFrom(row) = FreeFrom(old)
    BY <2>2 DEF FreeFrom
  <2>5. ~ Spent(n)
    BY <1>2, <2>1 DEF Spent
  <2>6. RowKept(n)
    BY <1>2, <2>2, <2>3, <2>4, <2>5 DEF RowKept, LeaseKept
  <2> QED
    BY <1>1, <1>2, <2>1, <2>2, <2>6, EditKept
<1>5. CASE ClaimPostpone(w)
  <2> DEFINE row == Leased(old, fire, FALSE, NoAttempt)
  <2>1. /\ ntf' = [ntf EXCEPT ![n] = row] /\ occ' = occ /\ occ[old.occ] = "pending"
        /\ IsPostponed(n, now) /\ fire > now
    BY <1>5 DEF ClaimPostpone, Claimable, ClaimCancels, FireAt, Leased
  <2>2. /\ row \in Notification /\ row.fire = fire
        /\ row.att = old.att /\ row.copies = old.copies
    <3>1. FALSE \in BOOLEAN /\ NoAttempt \in Int
      BY DEF NoAttempt
    <3> HIDE DEF old, n, now, fire, NotificationStatus, NoAttempt
    <3> QED
      BY <1>2, <3>1 DEF Leased, Notification
  <2> HIDE DEF row
  <2>3. ntf'[n] = row
    BY <1>2, <2>1
  <2>4. FreeFrom(row) >= FreeFrom(old)
    <3>1. FreeFrom(row) >= fire /\ FreeFrom(row) \in Nat
      BY <2>2, FreeFromIs
    <3> QED
      BY <1>2, <2>1, <3>1
  <2>5. ~ Spent(n)
    BY <1>2, <2>1 DEF Spent
  <2>6. old.kind # "main"
    BY <1>2, <2>1, MainStays
  <2>7. RowKept(n)
    BY <1>2, <2>2, <2>3, <2>4, <2>5, <2>6 DEF RowKept, LeaseKept
  <2> QED
    BY <1>1, <1>2, <2>1, <2>2, <2>7, EditKept
<1>6. CASE ClaimMiss(w)
  <2> DEFINE silent == old.silent /\ ~ IsPostponed(n, now)
             row == Ended(old, "missed", fire, silent)
  <2>1. /\ ntf' = [ntf EXCEPT ![n] = row]
        /\ occ' = occ \/ occ' = [occ EXCEPT ![old.occ] = "missed"]
    BY <1>6 DEF ClaimMiss, Ended
  <2>2. silent \in BOOLEAN
    BY <1>2 DEF Notification
  <2> HIDE DEF silent
  <2>3. /\ row \in Notification /\ row.status = "missed" /\ row.fire = fire
        /\ row.att = old.att /\ row.copies = old.copies
    <3>1. "missed" \in NotificationStatus /\ NoAttempt \in Int
      BY DEF NotificationStatus, NoAttempt
    <3> HIDE DEF old, n, now, fire, NotificationStatus, NoAttempt
    <3> QED
      BY <1>2, <2>2, <3>1 DEF Ended, Notification
  <2> HIDE DEF row
  <2>4. ntf'[n] = row
    BY <1>2, <2>1
  <2>5. RowKept(n)
    BY <1>2, <2>3, <2>4, MainStays, RowSpent
  <2> QED
    BY <1>1, <1>2, <2>1, <2>3, <2>5, EditKept
<1> QED
  BY <1>3, <1>4, <1>5, <1>6

LEMMA FinalizeSentKeeps ==
  ASSUME TypeOK, SnoozesKnown, RowsEvolve, NEW w \in Worker, FinalizeSent(w)
  PROVE  RowsKept
<1> DEFINE n == wk[w].n
<1>1. ntf \in Seq(Notification) /\ UNCHANGED <<occ, ledger>>
  BY DEF FinalizeSent, TypeOK, StoreTypeOK
<1>2. /\ n \in DOMAIN ntf
      /\ \A m \in DOMAIN ntf :
           ntf'[m] = IF m = n THEN Reported(ntf[m], wk[w].silent) ELSE ntf[m]
      /\ \A m \in DOMAIN ntf' \ DOMAIN ntf : Fresh(ntf'[m])
  BY FinalizeSentRows
<1>3. \A m \in DOMAIN ntf : m # n => RowKept(m)
  BY <1>1, <1>2, RowUntouched
<1>4. /\ ntf'[n].status = "sent" /\ ntf'[n].fire = ntf[n].fire /\ ntf'[n].att = ntf[n].att
      /\ ntf'[n].copies = ntf[n].copies
  BY <1>1, <1>2, RowType DEF Reported, Notification
<1>5. RowKept(n)
  BY <1>2, <1>4, RowSpent
<1> QED
  BY <1>2, <1>3, <1>5 DEF RowsKept

LEMMA FinalizeFailedKeeps ==
  ASSUME TypeOK, SnoozesKnown, RowsEvolve, NEW w \in Worker, FinalizeFailed(w)
  PROVE  RowsKept
<1> DEFINE n == wk[w].n
<1>1. /\ ntf \in Seq(Notification) /\ UNCHANGED <<occ, ledger>> /\ n \in DOMAIN ntf
      /\ ntf[n] \in Notification /\ wk[w].now \in Nat
  BY Chosen, RowType DEF FinalizeFailed, TypeOK, StoreTypeOK
<1>4. ntf[n].att + 1 \in Nat /\ ntf[n].att + 1 \in Int
  BY <1>1, RowType
<1>2. CASE UNCHANGED ntf
  BY <1>1, <1>2, RowUntouched DEF RowsKept
<1>3. CASE \/ ntf' = [ntf EXCEPT ![n] = Failed(ntf[n], ntf[n].att + 1)]
           \/ \E provider \in ProviderDelays \cup {0} :
                ntf' = [ntf EXCEPT ![n] = Retried(ntf[n], ntf[n].att + 1,
                          wk[w].now + RetryDelay(ntf[n].att + 1, provider))]
  <2>1. PICK row \in Notification :
          /\ ntf' = [ntf EXCEPT ![n] = row]
          /\ row.att = ntf[n].att + 1 /\ row.copies = ntf[n].copies
          /\ row.fire = ntf[n].fire
    <3>1. CASE ntf' = [ntf EXCEPT ![n] = Failed(ntf[n], ntf[n].att + 1)]
      <4> DEFINE row == Failed(ntf[n], ntf[n].att + 1)
      <4>1. /\ row \in Notification /\ row.att = ntf[n].att + 1
            /\ row.copies = ntf[n].copies /\ row.fire = ntf[n].fire
        <5>1. "failed" \in NotificationStatus /\ NoAttempt \in Int
          BY DEF NotificationStatus, NoAttempt
        <5> HIDE DEF n, NotificationStatus, NoAttempt
        <5> QED
          BY <1>1, <1>4, <5>1 DEF Failed, Notification
      <4> QED
        BY <3>1, <4>1
    <3>2. ASSUME NEW provider \in ProviderDelays \cup {0},
                 ntf' = [ntf EXCEPT ![n] = Retried(ntf[n], ntf[n].att + 1,
                           wk[w].now + RetryDelay(ntf[n].att + 1, provider))]
          PROVE  \E row \in Notification :
                   /\ ntf' = [ntf EXCEPT ![n] = row]
                   /\ row.att = ntf[n].att + 1 /\ row.copies = ntf[n].copies
                   /\ row.fire = ntf[n].fire
      <4> DEFINE next == wk[w].now + RetryDelay(ntf[n].att + 1, provider)
                 row == Retried(ntf[n], ntf[n].att + 1, next)
      <4>1. next \in Int
        <5>1. provider \in Nat
          BY DeliveryAssumption
        <5>2. RetryDelay(ntf[n].att + 1, provider) \in Int
          BY <1>4, <5>1, RetryDelayType
        <5> HIDE DEF next
        <5> QED
          BY <1>1, <5>2 DEF next
      <4>2. ntf' = [ntf EXCEPT ![n] = row]
        BY <3>2
      <4> HIDE DEF next
      <4>3. /\ row \in Notification /\ row.att = ntf[n].att + 1
            /\ row.copies = ntf[n].copies /\ row.fire = ntf[n].fire
        <5> HIDE DEF n, NotificationStatus
        <5> QED
          BY <1>1, <1>4, <4>1 DEF Retried, Notification
      <4> QED
        BY <4>2, <4>3
    <3> QED
      BY <1>3, <3>1, <3>2
  <2>2. ntf'[n] = row
    BY <1>1, <2>1
  <2>3. RowKept(n)
    BY <1>1, <2>1, <2>2 DEF RowKept, LeaseKept
  <2> QED
    BY <1>1, <2>1, <2>3, EditKept
<1> QED
  BY <1>2, <1>3 DEF FinalizeFailed, Failed, Retried

\* The rows of an occurrence that is withdrawn are over: it is closed, or a
\* snooze has replaced them.
LEMMA WithdrawnKept ==
  ASSUME TypeOK, SnoozesKnown, RowsEvolve, ledger \subseteq ledger', NEW o, NEW m \in DOMAIN ntf,
         ntf'[m] = CancelPending(ntf, o)[m],
         ntf[m].occ = o => occ'[o] # "pending" \/ Snoozed(o)',
         ntf[m].occ # o => occ'[ntf[m].occ] = occ[ntf[m].occ]
  PROVE  RowKept(m)
<1>1. ntf \in Seq(Notification) /\ ntf[m] \in Notification
  BY RowType DEF TypeOK, StoreTypeOK
<1>2. CASE ntf[m].occ # o
  <2>1. ntf'[m] = ntf[m]
    BY <1>2 DEF CancelPending
  <2> QED
    BY <1>2, <2>1, RowUntouched
<1>3. CASE ntf[m].occ = o
  <2>1. ntf'[m] = ntf[m] \/ ntf'[m] = Settled(ntf[m], "cancelled", NoAttempt)
    BY DEF CancelPending, Settled
  <2>2. /\ ntf'[m].fire = ntf[m].fire /\ ntf'[m].att = ntf[m].att
        /\ ntf'[m].copies = ntf[m].copies
    BY <1>1, <2>1 DEF Settled, Notification
  <2>3. ntf'[m].status # "pending" /\ ntf'[m].status \in NotificationStatus
    <3>1. ntf'[m].status # "pending"
      BY <1>1, <1>3, CancelPendingEvolves
    <3>2. ntf'[m].status \in NotificationStatus
      BY <1>1, <2>1 DEF Settled, Notification, NotificationStatus
    <3> QED
      BY <3>1, <3>2
  <2>4. \/ ntf'[m].status \in {"sent", "missed", "failed"}
        \/ occ'[ntf[m].occ] # "pending"
        \/ ntf'[m].status = "cancelled" /\ Snoozed(ntf[m].occ)'
    <3>1. ntf'[m].occ = o
      BY <1>3 DEF RowsEvolve, RowEvolves
    <3>2. Snoozed(o)' => Snoozed(ntf[m].occ)'
      BY <3>1 DEF Snoozed
    <3> QED
      BY <1>3, <2>3, <3>2 DEF NotificationStatus
  <2> QED
    BY <2>2, <2>4, RowSpent
<1> QED
  BY <1>2, <1>3

\* A reaction that only stops the repeats.
LEMMA RepeatsKept ==
  ASSUME TypeOK, SnoozesKnown, RowsEvolve, UNCHANGED <<occ, ledger>>, NEW o,
         ntf' = CancelRepeats(ntf, o) \/ UNCHANGED ntf
  PROVE  RowsKept
<1>1. DOMAIN ntf' = DOMAIN ntf
  BY DEF CancelRepeats
<1>2. ASSUME NEW m \in DOMAIN ntf PROVE RowKept(m)
  <2>1. CASE ntf'[m] = ntf[m]
    BY <2>1, RowUntouched
  <2>2. CASE /\ ntf'[m] = Settled(ntf[m], "cancelled", NoAttempt)
             /\ ntf[m].kind = "repeat"
    <3>1. ntf[m] \in Notification
      BY RowType DEF TypeOK, StoreTypeOK
    <3>2. /\ ntf'[m].fire = ntf[m].fire /\ ntf'[m].att = ntf[m].att
          /\ ntf'[m].copies = ntf[m].copies /\ ntf'[m].status = "cancelled"
      BY <2>2, <3>1 DEF Settled, Notification
    <3> QED
      BY <2>2, <3>2, RowSpent
  <2> QED
    BY <2>1, <2>2 DEF CancelRepeats, Settled
<1> QED
  BY <1>1, <1>2 DEF RowsKept

LEMMA CloseKeeps ==
  ASSUME TypeOK, SnoozesKnown, RowsEvolve, NEW n \in DOMAIN ntf, NEW intent,
         NEW status \in {"done", "skipped"}, Close(n, intent, status)
  PROVE  RowsKept
<1>1. ledger \subseteq ledger'
  BY DEF Close, Record
<1>2. CASE UNCHANGED <<occ, ntf>>
  BY <1>1, <1>2, RowUntouched DEF RowsKept
<1>3. CASE /\ occ' = [occ EXCEPT ![ntf[n].occ] = status]
           /\ ntf' = CancelPending(ntf, ntf[n].occ)
  <2>1. /\ ntf \in Seq(Notification) /\ occ \in [Slot -> OccurrenceStatus \cup {"none"}]
        /\ \A m \in DOMAIN ntf : ntf[m].occ \in Slot
    BY RowType DEF TypeOK, StoreTypeOK
  <2>2. \A o \in Slot : occ'[o] = IF o = ntf[n].occ THEN status ELSE occ[o]
    BY <1>3, <2>1
  <2>3. DOMAIN ntf' = DOMAIN ntf
    BY <1>3 DEF CancelPending
  <2>4. ASSUME NEW m \in DOMAIN ntf PROVE RowKept(m)
    BY <1>1, <1>3, <2>1, <2>2, WithdrawnKept
  <2> QED
    BY <2>3, <2>4 DEF RowsKept
<1> QED
  BY <1>2, <1>3 DEF Close

LEMMA SnoozeKeeps ==
  ASSUME TypeOK, SnoozesKnown, RowsEvolve, NEW n \in DOMAIN ntf, Snooze(n)
  PROVE  RowsKept
<1>1. PICK o \in Slot : o = ntf[n].occ
  BY RowType DEF TypeOK, StoreTypeOK
<1>2. /\ ntf \in Seq(Notification) /\ clock \in Nat
      /\ occ \in [Slot -> OccurrenceStatus \cup {"none"}]
      /\ \A m \in DOMAIN ntf : ntf[m].occ \in Slot
      /\ \A m \in DOMAIN ntf : m \in DOMAIN ntf'
  BY RowType, GrownDomain, StoreAssumption DEF TypeOK, StoreTypeOK, RowsEvolve
<1>3. PICK made \in DOMAIN ntf' :
        /\ ledger' = ledger \cup {[src |-> n, intent |-> "snooze", made |-> made]}
        /\ \A m \in DOMAIN ntf' \ {made} : m \in DOMAIN ntf /\ ntf'[m] = CancelPending(ntf, o)[m]
        /\ SnoozeSignal(made, o)
  BY <1>1, SnoozeRows
<1>4. ledger \subseteq ledger' /\ \A p \in Slot : p # o => occ'[p] = occ[p]
  BY <1>2, <1>3, <1>1 DEF Snooze
<1>5. Snoozed(o)'
  <2> DEFINE l == [src |-> n, intent |-> "snooze", made |-> made]
  <2>1. l \in ledger' /\ l.intent = "snooze" /\ l.src = n
    BY <1>3
  <2> HIDE DEF l
  <2>2. ntf'[n].occ = o
    BY <1>1 DEF RowsEvolve, RowEvolves
  <2> QED
    BY <2>1, <2>2 DEF Snoozed
<1>6. ASSUME NEW m \in DOMAIN ntf, m # made PROVE RowKept(m)
  BY <1>2, <1>3, <1>4, <1>5, <1>6, WithdrawnKept
<1>7. ASSUME made \in DOMAIN ntf PROVE RowKept(made)
  <2>1. SnoozeTarget(o) \in Int /\ SnoozeTarget(o) > clock
    BY <1>2, ReactionsAssumption DEF SnoozeTarget
  <2> QED
    BY <1>3, <1>7, <2>1 DEF SnoozeSignal, RowKept, LeaseKept
<1>8. ASSUME NEW m \in DOMAIN ntf' \ DOMAIN ntf PROVE Fresh(ntf'[m])
  BY <1>3, <1>8 DEF SnoozeSignal
<1> QED
  BY <1>6, <1>7, <1>8 DEF RowsKept

LEMMA MoveKeeps ==
  ASSUME TypeOK, SnoozesKnown, RowsEvolve, RowsExist, NEW n \in DOMAIN ntf, NEW target \in Slot,
         MoveTo(n, target)
  PROVE  RowsKept
<1> DEFINE o == ntf[n].occ
<1>1. /\ ntf \in Seq(Notification) /\ o \in Slot
      /\ occ \in [Slot -> OccurrenceStatus \cup {"none"}]
      /\ \A m \in DOMAIN ntf : ntf[m].occ \in Slot
  BY RowType DEF TypeOK, StoreTypeOK
<1>2. /\ \A m \in DOMAIN ntf : ntf'[m] = CancelPending(ntf, o)[m]
      /\ \A m \in DOMAIN ntf' \ DOMAIN ntf : Fresh(ntf'[m])
      /\ occ[target] = "none"
  BY MoveRows
<1>3. /\ occ' = [occ EXCEPT ![o] = "moved", ![target] = "pending"]
      /\ ledger \subseteq ledger'
  BY DEF MoveTo, Record
<1>4. \A m \in DOMAIN ntf : ntf[m].occ # target
  BY <1>2 DEF RowsExist
<1>5. \A p \in Slot : occ'[p] = IF p = target THEN "pending"
                                ELSE IF p = o THEN "moved" ELSE occ[p]
  BY <1>1, <1>3
<1>6. ASSUME NEW m \in DOMAIN ntf PROVE RowKept(m)
  BY <1>1, <1>2, <1>3, <1>4, <1>5, WithdrawnKept
<1> QED
  BY <1>2, <1>6 DEF RowsKept

LEMMA SkipOccurrenceKeeps ==
  ASSUME TypeOK, SnoozesKnown, RowsEvolve, NEW o \in Slot, SkipOccurrence(o)
  PROVE  RowsKept
<1>1. /\ ntf \in Seq(Notification) /\ occ \in [Slot -> OccurrenceStatus \cup {"none"}]
      /\ UNCHANGED ledger /\ occ' = [occ EXCEPT ![o] = "skipped"]
      /\ \A m \in DOMAIN ntf : ntf[m] \in Notification /\ ntf[m].occ \in Slot
  BY RowType DEF SkipOccurrence, TypeOK, StoreTypeOK
<1>2. \A p \in Slot : occ'[p] = IF p = o THEN "skipped" ELSE occ[p]
  BY <1>1
<1>3. /\ DOMAIN ntf' = DOMAIN ntf
      /\ \A m \in DOMAIN ntf : ntf'[m] = ntf[m] \/ ntf'[m] = [ntf[m] EXCEPT !.status = "cancelled"]
  BY DEF SkipOccurrence
<1>4. ASSUME NEW m \in DOMAIN ntf PROVE RowKept(m)
  <2>1. /\ ntf'[m].fire = ntf[m].fire /\ ntf'[m].att = ntf[m].att
        /\ ntf'[m].copies = ntf[m].copies
    BY <1>1, <1>3 DEF Notification
  <2>2. CASE ntf[m].occ = o
    BY <1>2, <2>1, <2>2, RowSpent
  <2>3. CASE ntf[m].occ # o
    <3>1. ntf'[m] = ntf[m]
      BY <2>3 DEF SkipOccurrence
    <3> QED
      BY <1>1, <1>2, <2>3, <3>1, RowUntouched
  <2> QED
    BY <2>2, <2>3
<1> QED
  BY <1>3, <1>4 DEF RowsKept

LEMMA ReactionsKeep ==
  ASSUME TypeOK, SnoozesKnown, RowsEvolve, RowsExist, ReactionsNext
  PROVE  RowsKept
<1>1. ASSUME NEW o \in Slot, Acknowledge(o) PROVE RowsKept
  BY <1>1, RepeatsKept DEF Acknowledge
<1>2. ASSUME NEW n \in DOMAIN ntf, ReactToNotification(n) \/ PreviewMove(n) PROVE RowsKept
  <2> DEFINE o == ntf[n].occ
  <2>1. ntf' = CancelRepeats(ntf, o) /\ UNCHANGED <<occ, ledger>>
    BY <1>2 DEF ReactToNotification, PreviewMove
  <2> HIDE DEF o
  <2> QED
    BY <2>1, RepeatsKept
<1>3. CASE ReactToMessage \/ UpdateQuietHours
  <2> DEFINE o == ntf[ctx.n].occ
  <2>1. (ntf' = CancelRepeats(ntf, o) \/ UNCHANGED ntf) /\ UNCHANGED <<occ, ledger>>
    BY <1>3 DEF ReactToMessage, UpdateQuietHours
  <2> HIDE DEF o
  <2> QED
    BY <2>1, RepeatsKept
<1> QED
  BY <1>1, <1>2, <1>3, CloseKeeps, SnoozeKeeps, MoveKeeps, SkipOccurrenceKeeps
     DEF ReactionsNext, Complete, SkipFromNotification

\* A row the plan brings back is as far out of reach as when it was withdrawn.
LEMMA SchedulingKeeps ==
  ASSUME TypeOK, SnoozesKnown, RowsEvolve, RowsExist, BornIsUnborn, SchedulingNext
  PROVE  RowsKept
<1>1. UNCHANGED ledger
  BY DEF SchedulingNext, ReconcileRead, ReconcileWrite, ReconcileAbort
<1>2. CASE ReconcileRead \/ ReconcileAbort
  <2>1. UNCHANGED <<occ, ntf>>
    BY <1>2 DEF ReconcileRead, ReconcileAbort
  <2> QED
    BY <1>1, <2>1, RowUntouched DEF RowsKept
<1>3. CASE ReconcileWrite
  <2>1. /\ ntf \in Seq(Notification)
        /\ \A m \in DOMAIN ntf : ntf[m] \in Notification /\ ntf[m].occ \in Slot
    BY RowType DEF TypeOK, StoreTypeOK
  <2>2. \A m \in DOMAIN ntf : occ'[ntf[m].occ] = occ[ntf[m].occ]
    BY <1>3, <2>1 DEF ReconcileWrite, RowsExist, BornIsUnborn
  <2>3. ASSUME NEW m \in DOMAIN ntf, ntf'[m] # ntf[m] PROVE RowKept(m)
    <3>1. /\ ntf[m].status = "cancelled" /\ ntf[m].kind # "repeat"
          /\ ntf[m].occ \in rec.plan /\ ntf'[m] = Revived(ntf[m])
      BY <1>3, <2>3, WriteRows
    <3>2. /\ ntf'[m].fire = ntf[m].fire /\ ntf'[m].next = ntf[m].next
          /\ ntf'[m].att = ntf[m].att /\ ntf'[m].copies = ntf[m].copies
      BY <2>1, <3>1 DEF Revived, Notification
    <3>3. CASE occ[ntf[m].occ] # "pending"
      BY <2>2, <3>2, <3>3, RowSpent
    <3>4. CASE occ[ntf[m].occ] = "pending"
      <4>1. ~ Spent(m)
        BY <3>1, <3>4 DEF Spent, SnoozesKnown
      <4>2. FreeFrom(ntf'[m]) = FreeFrom(ntf[m]) /\ FreeFrom(ntf[m]) \in Nat
        <5>1. FreeFrom(ntf'[m]) = FreeFrom(ntf[m])
          BY <3>2 DEF FreeFrom
        <5> QED
          BY <2>1, <5>1, FreeFromIs
      <4> QED
        BY <3>2, <4>1, <4>2 DEF RowKept, LeaseKept
    <3> QED
      BY <3>3, <3>4
  <2>4. \A m \in DOMAIN ntf : ntf'[m] = ntf[m] => RowKept(m)
    BY <1>1, <2>2, RowUntouched
  <2>5. \A m \in DOMAIN ntf' \ DOMAIN ntf : Fresh(ntf'[m])
    BY <1>3, WriteRows
  <2> QED
    BY <2>3, <2>4, <2>5 DEF RowsKept
<1> QED
  BY <1>2, <1>3 DEF SchedulingNext

\* The messages about a row that Telegram has accepted, or may yet accept from
\* a send under way.
Sending(n) == {w \in Worker : wk[w].pc = "sending" /\ wk[w].n = n}

Used(n) == ntf[n].copies + Cardinality(Sending(n))

\* No row comes to be in flight.
FlightsKept ==
  \A w \in Worker : InFlight(w)' =>
    /\ InFlight(w) /\ wk'[w].n = wk[w].n /\ wk'[w].now = wk[w].now
    /\ wk'[w].pc = "sending" => wk[w].pc = "sending"

\* What a step other than a claim for delivery does.
Unclaiming ==
  /\ FlightsKept
  /\ \A n \in DOMAIN ntf : LeaseKept(n) /\ Used(n)' <= Used(n)
  /\ \A n \in DOMAIN ntf' \ DOMAIN ntf : Fresh(ntf'[n])

LEMMA SendingType ==
  ASSUME NEW n
  PROVE  IsFiniteSet(Sending(n)) /\ Cardinality(Sending(n)) \in Nat
<1>1. Sending(n) \subseteq Worker /\ IsFiniteSet(Worker)
  BY DeliveryAssumption DEF Sending
<1> HIDE DEF Sending
<1> QED
  BY <1>1, FS_Subset, FS_CardinalityType

LEMMA UsedType ==
  ASSUME TypeOK, NEW n \in DOMAIN ntf
  PROVE  Used(n) \in Nat /\ ntf[n].copies \in Nat
<1>1. ntf[n].copies \in Nat
  BY RowType DEF TypeOK, StoreTypeOK
<1> QED
  BY <1>1, SendingType DEF Used

\* Fewer sends under way, or as many.
LEMMA SendingShrinks ==
  ASSUME FlightsKept, NEW n
  PROVE  /\ Sending(n)' \subseteq Sending(n)
         /\ Cardinality(Sending(n)') <= Cardinality(Sending(n))
         /\ Cardinality(Sending(n)') \in Nat
<1>1. Sending(n)' \subseteq Sending(n)
  BY DEF FlightsKept, Sending, InFlight
<1>2. IsFiniteSet(Sending(n)) /\ Cardinality(Sending(n)) \in Nat
  BY SendingType
<1> DEFINE new == Sending(n)'
<1>3. new \subseteq Sending(n)
  BY <1>1
<1> HIDE DEF new, Sending
<1>4. IsFiniteSet(new) /\ Cardinality(new) <= Cardinality(Sending(n))
  BY <1>2, <1>3, FS_Subset
<1>5. Cardinality(new) \in Nat
  BY <1>4, FS_CardinalityType
<1> QED
  BY <1>1, <1>4, <1>5 DEF new

LEMMA RowsUnclaimed ==
  ASSUME TypeOK, RowsKept, FlightsKept
  PROVE  Unclaiming
<1>1. ASSUME NEW n \in DOMAIN ntf PROVE LeaseKept(n) /\ Used(n)' <= Used(n)
  <2>1. LeaseKept(n) /\ ntf'[n].copies = ntf[n].copies
    BY DEF RowsKept, RowKept
  <2>2. /\ Cardinality(Sending(n)') <= Cardinality(Sending(n))
        /\ Cardinality(Sending(n)') \in Nat /\ Cardinality(Sending(n)) \in Nat
    BY SendingShrinks, SendingType
  <2>3. ntf[n].copies \in Nat
    BY UsedType
  <2>4. Used(n)' = ntf'[n].copies + Cardinality(Sending(n)')
    BY DEF Used
  <2>5. Used(n) = ntf[n].copies + Cardinality(Sending(n))
    BY DEF Used
  <2> QED
    BY <2>1, <2>2, <2>3, <2>4, <2>5
<1> QED
  BY <1>1 DEF Unclaiming, RowsKept

\* A worker that does not move on to sending.
LEMMA FlightEnds ==
  ASSUME TypeOK, NEW w \in Worker, NEW state,
         wk' = [wk EXCEPT ![w] = state],
         \/ state.pc \notin {"sending", "accepted", "failed"}
         \/ /\ wk[w].pc = "sending" /\ state.pc # "sending"
            /\ state.n = wk[w].n /\ state.now = wk[w].now
  PROVE  FlightsKept
<1>1. wk \in [Worker -> WorkerState]
  BY DEF TypeOK, DeliveryTypeOK
<1>2. \A v \in Worker : wk'[v] = IF v = w THEN state ELSE wk[v]
  BY <1>1
<1> QED
  BY <1>2 DEF FlightsKept, InFlight

LEMMA FlightsUntouched ==
  ASSUME UNCHANGED wk
  PROVE  FlightsKept
BY DEF FlightsKept, InFlight

\* Telegram takes the message: it is counted, and no longer under way.
LEMMA SendAcceptedUnclaiming ==
  ASSUME TypeOK, SnoozesKnown, RowsEvolve, NEW w \in Worker, SendAccepted(w)
  PROVE  Unclaiming
<1> DEFINE n == wk[w].n
           copies == ntf[n].copies + 1
           row == [ntf[n] EXCEPT !.copies = copies]
<1>1. /\ n \in DOMAIN ntf /\ wk[w].pc = "sending" /\ wk[w] \in WorkerState
      /\ ntf \in Seq(Notification) /\ ntf[n] \in Notification
      /\ wk \in [Worker -> WorkerState] /\ UNCHANGED <<occ, ledger>>
  BY Chosen, RowType DEF SendAccepted, TypeOK, StoreTypeOK, DeliveryTypeOK
<1>2. /\ ntf' = [ntf EXCEPT ![n] = row]
      /\ wk' = [wk EXCEPT ![w].pc = "accepted"] \/ wk' = [wk EXCEPT ![w].pc = "failed"]
  BY DEF SendAccepted
<1>3. /\ row \in Notification /\ row.copies = ntf[n].copies + 1 /\ row.status = ntf[n].status
      /\ row.fire = ntf[n].fire /\ row.next = ntf[n].next /\ row.att = ntf[n].att
  <2>1. copies \in Nat
    BY <1>1, RowType
  <2> HIDE DEF n, copies
  <2>2. /\ row \in Notification /\ row.copies = copies /\ row.status = ntf[n].status
        /\ row.fire = ntf[n].fire /\ row.next = ntf[n].next /\ row.att = ntf[n].att
    BY <1>1, <2>1 DEF Notification
  <2> QED
    BY <2>2 DEF copies
<1> HIDE DEF row
<1>4. /\ DOMAIN ntf' = DOMAIN ntf
      /\ \A m \in DOMAIN ntf : ntf'[m] = IF m = n THEN row ELSE ntf[m]
  BY <1>1, <1>2, <1>3, RowSet
<1>5. PICK state \in WorkerState :
        /\ wk' = [wk EXCEPT ![w] = state]
        /\ state.pc \in {"accepted", "failed"}
        /\ state.n = wk[w].n /\ state.now = wk[w].now
  <2>1. CASE wk' = [wk EXCEPT ![w].pc = "accepted"]
    <3> DEFINE state == [wk[w] EXCEPT !.pc = "accepted"]
    <3>1. /\ state \in WorkerState /\ state.pc = "accepted"
          /\ state.n = wk[w].n /\ state.now = wk[w].now
      BY <1>1 DEF WorkerState
    <3>2. wk' = [wk EXCEPT ![w] = state]
      BY <2>1
    <3> QED
      BY <3>1, <3>2
  <2>2. CASE wk' = [wk EXCEPT ![w].pc = "failed"]
    <3> DEFINE state == [wk[w] EXCEPT !.pc = "failed"]
    <3>1. /\ state \in WorkerState /\ state.pc = "failed"
          /\ state.n = wk[w].n /\ state.now = wk[w].now
      BY <1>1 DEF WorkerState
    <3>2. wk' = [wk EXCEPT ![w] = state]
      BY <2>2
    <3> QED
      BY <3>1, <3>2
  <2> QED
    BY <1>2, <2>1, <2>2
<1>6. FlightsKept
  BY <1>1, <1>5, FlightEnds
<1>7. \A m \in DOMAIN ntf : LeaseKept(m)
  BY <1>1, <1>3, <1>4, LeaseUntouched
<1>8. \A m \in DOMAIN ntf : m # n => Used(m)' <= Used(m)
  <2> TAKE m \in DOMAIN ntf
  <2> HAVE m # n
  <2>1. ntf'[m].copies = ntf[m].copies /\ ntf[m].copies \in Nat
    BY <1>4, UsedType
  <2>2. /\ Cardinality(Sending(m)') <= Cardinality(Sending(m))
        /\ Cardinality(Sending(m)') \in Nat /\ Cardinality(Sending(m)) \in Nat
    BY <1>6, SendingShrinks, SendingType
  <2>3. Used(m)' = ntf'[m].copies + Cardinality(Sending(m)')
    BY DEF Used
  <2>4. Used(m) = ntf[m].copies + Cardinality(Sending(m))
    BY DEF Used
  <2> QED
    BY <2>1, <2>2, <2>3, <2>4
<1>9. \A m \in DOMAIN ntf : m = n => Used(m)' <= Used(m)
  <2> TAKE m \in DOMAIN ntf
  <2> HAVE m = n
  <2> DEFINE old == Sending(m)  new == Sending(m)'
  <2>1. new = old \ {w} /\ w \in old
    <3>1. \A v \in Worker : wk'[v] = IF v = w THEN state ELSE wk[v]
      BY <1>1, <1>5
    <3>2. state.pc # "sending"
      BY <1>5
    <3>3. \A v : v \in new <=> v \in old /\ v # w
      BY <3>1, <3>2 DEF Sending
    <3>4. w \in old
      BY <1>1 DEF Sending
    <3> QED
      BY <3>3, <3>4
  <2>2. IsFiniteSet(old) /\ Cardinality(old) \in Nat
    BY SendingType
  <2>3. Used(m)' = ntf'[m].copies + Cardinality(new)
    BY DEF Used
  <2>4. Used(m) = ntf[m].copies + Cardinality(old)
    BY DEF Used
  <2>5. ntf'[m].copies = ntf[m].copies + 1 /\ ntf[m].copies \in Nat
    BY <1>3, <1>4, UsedType
  <2> HIDE DEF old, new
  <2>6. Cardinality(new) = Cardinality(old) - 1
    BY <2>1, <2>2, FS_RemoveElement
  <2> QED
    BY <2>2, <2>3, <2>4, <2>5, <2>6
<1> QED
  BY <1>4, <1>6, <1>7, <1>8, <1>9 DEF Unclaiming

LEMMA DeliveryUnclaiming ==
  ASSUME TypeOK, SnoozesKnown, RowsEvolve, DeliveryNext
  PROVE  Unclaiming \/ \E w \in Worker : ClaimSend(w)
<1>1. PICK w \in Worker : WorkerStep(w) \/ Crash(w)
  BY DEF DeliveryNext
<1>2. wk[w] \in WorkerState /\ wk \in [Worker -> WorkerState]
  BY Chosen DEF TypeOK, DeliveryTypeOK
<1>3. IdleWorker.pc = "idle" /\ NextRow(w).pc = "tick"
  BY DEF IdleWorker, NextRow
<1>4. CASE \/ StartTick(w) \/ EndTick(w) \/ SelectCandidate(w)
           \/ ClaimLost(w) \/ SendRefused(w) \/ Crash(w)
  <2>1. RowsKept
    <3>1. UNCHANGED <<occ, ntf, ledger>>
      BY <1>4 DEF StartTick, EndTick, SelectCandidate, ClaimLost, SendRefused, Crash, storeVars
    <3> QED
      BY <3>1, RowUntouched DEF RowsKept
  <2>2. \E state :
          /\ wk' = [wk EXCEPT ![w] = state]
          /\ \/ state.pc \notin {"sending", "accepted", "failed"}
             \/ /\ wk[w].pc = "sending" /\ state.pc # "sending"
                /\ state.n = wk[w].n /\ state.now = wk[w].now
    <3>1. CASE StartTick(w)
      <4> DEFINE state == [IdleWorker EXCEPT !.pc = "tick", !.now = clock, !.left = BatchSize]
      <4>1. wk' = [wk EXCEPT ![w] = state] /\ state.pc = "tick"
        BY <3>1 DEF StartTick, IdleWorker
      <4> QED
        BY <4>1
    <3>2. CASE EndTick(w) \/ ClaimLost(w) \/ Crash(w)
      BY <1>3, <3>2 DEF EndTick, ClaimLost, Crash
    <3>3. CASE SelectCandidate(w)
      <4>1. PICK n \in Due(wk[w].now) : wk' = [wk EXCEPT ![w].pc = "picked", ![w].n = n]
        BY <3>3 DEF SelectCandidate
      <4> DEFINE state == [wk[w] EXCEPT !.pc = "picked", !.n = n]
      <4>2. wk' = [wk EXCEPT ![w] = state]
        BY <1>2, <4>1
      <4>3. state.pc = "picked"
        BY <1>2 DEF WorkerState
      <4> QED
        BY <4>2, <4>3
    <3>4. CASE SendRefused(w)
      <4>1. PICK fatal \in BOOLEAN : wk' = [wk EXCEPT ![w].pc = "failed", ![w].fatal = fatal]
        BY <3>4 DEF SendRefused
      <4> DEFINE state == [wk[w] EXCEPT !.pc = "failed", !.fatal = fatal]
      <4>2. wk' = [wk EXCEPT ![w] = state]
        BY <1>2, <4>1
      <4>3. /\ state.pc = "failed" /\ state.n = wk[w].n /\ state.now = wk[w].now
            /\ wk[w].pc = "sending"
        BY <1>2, <3>4 DEF WorkerState, SendRefused
      <4> QED
        BY <4>2, <4>3
    <3> QED
      BY <1>4, <3>1, <3>2, <3>3, <3>4
  <2>3. FlightsKept
    BY <2>2, FlightEnds
  <2> QED
    BY <2>1, <2>3, RowsUnclaimed
<1>5. CASE ClaimCancel(w) \/ ClaimDuplicate(w) \/ ClaimPostpone(w) \/ ClaimMiss(w)
           \/ FinalizeSent(w) \/ FinalizeFailed(w)
  <2>1. RowsKept
    BY <1>5, ClaimsKeep, FinalizeSentKeeps, FinalizeFailedKeeps
  <2>2. wk' = [wk EXCEPT ![w] = NextRow(w)]
    BY <1>5 DEF ClaimCancel, ClaimDuplicate, ClaimPostpone, ClaimMiss, FinalizeSent,
                FinalizeFailed
  <2>3. FlightsKept
    BY <1>3, <2>2, FlightEnds
  <2> QED
    BY <2>1, <2>3, RowsUnclaimed
<1> QED
  BY <1>1, <1>4, <1>5, SendAcceptedUnclaiming DEF WorkerStep

-----------------------------------------------------------------------------
(* The arithmetic of leases. *)

LEMMA DivMonotone ==
  ASSUME NEW a \in Int, NEW b \in Int, a <= b, NEW L \in Nat \ {0}
  PROVE  a \div L <= b \div L
<1> DEFINE p == a \div L  q == b \div L
<1>1. p \in Int /\ q \in Int /\ L * p <= a /\ a < L * p + L /\ L * q <= b /\ b < L * q + L
  OBVIOUS
<1> HIDE DEF p, q
<1>2. SUFFICES ASSUME q + 1 <= p PROVE FALSE
  BY <1>1 DEF p, q
<1>3. L * (q + 1) <= L * p /\ L * (q + 1) = L * q + L
  BY <1>1, <1>2
<1> QED
  BY <1>1, <1>3

LEMMA DivNext ==
  ASSUME NEW a \in Int, NEW L \in Nat \ {0}
  PROVE  (a + L) \div L = a \div L + 1
<1> DEFINE p == a \div L  q == (a + L) \div L
<1>1. /\ p \in Int /\ q \in Int /\ L * p <= a /\ a < L * p + L
      /\ L * q <= a + L /\ a + L < L * q + L
  OBVIOUS
<1> HIDE DEF p, q
<1>2. L * (p + 1) = L * p + L /\ L * (p + 2) = L * p + L + L
  BY <1>1
<1>3. q < p + 2
  <2>1. SUFFICES ASSUME p + 2 <= q PROVE FALSE
    BY <1>1
  <2>2. L * (p + 2) <= L * q
    BY <1>1, <2>1
  <2> QED
    BY <1>1, <1>2, <2>2
<1>4. p < q
  <2>1. SUFFICES ASSUME q <= p PROVE FALSE
    BY <1>1
  <2>2. L * q <= L * p
    BY <1>1, <2>1
  <2> QED
    BY <1>1, <2>2
<1> QED
  BY <1>1, <1>3, <1>4 DEF p, q

LEMMA ProductGrows ==
  ASSUME NEW a \in Nat, NEW x \in Nat, NEW y \in Nat, x <= y
  PROVE  a * x <= a * y
OBVIOUS

\* How many leases fit into a stretch of time.
Leases(span) == span \div Lease

LEMMA LeasesType ==
  ASSUME NEW span \in Nat
  PROVE  /\ Leases(span) \in Nat
         /\ Leases(span + Lease) = Leases(span) + 1
         /\ \A more \in Nat : span <= more => Leases(span) <= Leases(more)
<1>1. Lease \in Nat \ {0}
  BY DeliveryAssumption
<1>2. 0 \div Lease = 0
  BY <1>1
<1>3. span \div Lease \in Int /\ 0 \div Lease <= span \div Lease
  BY <1>1, DivMonotone
<1>4. (span + Lease) \div Lease = span \div Lease + 1
  <2>1. span \in Int
    OBVIOUS
  <2> QED
    BY <1>1, <2>1, DivNext, Zenon
<1>5. \A more \in Nat : span <= more => span \div Lease <= more \div Lease
  BY <1>1, DivMonotone
<1> QED
  BY <1>2, <1>3, <1>4, <1>5 DEF Leases

\* What a row may have used of its messages, and what it may have used as long
\* as it is within reach, when the next claim is so far ahead of its moment.
Fits(used, att, span) == used <= (att + 1) * (1 + Leases(span))

Paid(used, att, span, ahead) == used <= att * (1 + Leases(span)) + Leases(ahead)

LEMMA FitsLonger ==
  ASSUME NEW used \in Nat, NEW less \in Nat, NEW att \in Nat, NEW span \in Nat, NEW more \in Nat,
         Fits(used, att, span), less <= used, span <= more
  PROVE  Fits(less, att, more)
<1> DEFINE x == 1 + Leases(span)  y == 1 + Leases(more)
<1>1. x \in Nat /\ y \in Nat /\ x <= y
  BY LeasesType
<1>2. used <= (att + 1) * x
  BY DEF Fits
<1> HIDE DEF x, y
<1>3. att + 1 \in Nat /\ (att + 1) * x <= (att + 1) * y
  BY <1>1, ProductGrows
<1>4. less <= (att + 1) * y
  <2> DEFINE p == (att + 1) * x  q == (att + 1) * y
  <2>1. p \in Nat /\ q \in Nat
    BY <1>1, <1>3
  <2>2. used <= p /\ p <= q
    BY <1>2, <1>3
  <2> HIDE DEF p, q
  <2>3. less <= q
    BY <2>1, <2>2
  <2> QED
    BY <2>3 DEF q
<1> QED
  BY <1>4 DEF Fits, y

LEMMA PaidLonger ==
  ASSUME NEW used \in Nat, NEW less \in Nat, NEW att \in Nat, NEW span \in Nat, NEW more \in Nat,
         NEW ahead \in Nat, NEW further \in Nat,
         Paid(used, att, span, ahead), less <= used, span <= more, ahead <= further
  PROVE  Paid(less, att, more, further)
<1> DEFINE x == 1 + Leases(span)  y == 1 + Leases(more)
           s == Leases(ahead)  t == Leases(further)
<1>1. x \in Nat /\ y \in Nat /\ x <= y /\ s \in Nat /\ t \in Nat /\ s <= t
  BY LeasesType
<1>2. used <= att * x + s
  BY DEF Paid
<1> HIDE DEF x, y, s, t
<1>3. att * x <= att * y
  BY <1>1, ProductGrows
<1>4. less <= att * y + t
  <2> DEFINE p == att * x  q == att * y
  <2>1. p \in Nat /\ q \in Nat
    BY <1>1
  <2>2. used <= p + s /\ p <= q
    BY <1>2, <1>3
  <2> HIDE DEF p, q
  <2>3. less <= q + t
    BY <1>1, <2>1, <2>2
  <2> QED
    BY <2>3 DEF q
<1> QED
  BY <1>4 DEF Paid, y, t

LEMMA FailurePays ==
  ASSUME NEW used \in Nat, NEW att \in Nat, NEW span \in Nat, NEW ahead \in Nat,
         Fits(used, att, span)
  PROVE  Fits(used, att + 1, span) /\ Paid(used, att + 1, span, ahead)
<1> DEFINE x == 1 + Leases(span)  t == Leases(ahead)  p == (att + 1) * x
<1>1. x \in Nat /\ t \in Nat
  BY LeasesType
<1>2. used <= p
  BY DEF Fits
<1> HIDE DEF x, t
<1>3. p \in Nat /\ (att + 1 + 1) * x = p + x
  BY <1>1
<1> HIDE DEF p
<1>4. used <= p + x /\ used <= p + t
  BY <1>1, <1>2, <1>3
<1> QED
  BY <1>3, <1>4 DEF Fits, Paid, x, t, p

LEMMA NothingUsed ==
  ASSUME NEW att \in Nat, NEW span \in Nat, NEW ahead \in Nat
  PROVE  Fits(0, att, span) /\ Paid(0, att, span, ahead)
<1> DEFINE x == 1 + Leases(span)  t == Leases(ahead)
<1>1. x \in Nat /\ t \in Nat
  BY LeasesType
<1> HIDE DEF x, t
<1>2. (att + 1) * x \in Nat /\ att * x \in Nat
  BY <1>1
<1>3. 0 <= (att + 1) * x /\ 0 <= att * x + t
  BY <1>1, <1>2
<1> QED
  BY <1>3 DEF Fits, Paid, x, t

LEMMA LeasePays ==
  ASSUME NEW used \in Nat, NEW att \in Nat, NEW span \in Nat, NEW ahead \in Nat, NEW gone \in Nat,
         Paid(used, att, span, ahead), ahead <= gone, gone <= span
  PROVE  Fits(used + 1, att, span) /\ Paid(used + 1, att, span, gone + Lease)
<1> DEFINE x == 1 + Leases(span)  s == Leases(ahead)  g == Leases(gone)  p == att * x
<1>1. x \in Nat /\ s \in Nat /\ g \in Nat /\ s <= g /\ g + 1 <= x
      /\ Leases(gone + Lease) = g + 1
  BY LeasesType
<1>2. used <= p + s
  BY DEF Paid
<1> HIDE DEF x, s, g
<1>3. p \in Nat /\ (att + 1) * x = p + x
  BY <1>1
<1> HIDE DEF p
<1>4. used + 1 <= p + x /\ used + 1 <= p + (g + 1)
  BY <1>1, <1>2, <1>3
<1> QED
  BY <1>1, <1>3, <1>4 DEF Fits, Paid, x, p

-----------------------------------------------------------------------------
(* The invariant of the leases. *)

\* The time in which a row may be claimed, how long a claim is put off past the
\* moment the count starts from.
Span(n) == IF ntf[n].kind = "main" THEN Late ELSE clock

Ahead(n) == FreeFrom(ntf[n]) - (IF ntf[n].kind = "main" THEN ntf[n].fire ELSE 0)

\* No more messages are used than the failed attempts and the leases account
\* for, with one lease to spare while the row is within reach; a main signal is
\* not sent ahead of its moment.
Counted(n) ==
  /\ Fits(Used(n), ntf[n].att, Span(n))
  /\ ~ Spent(n) => Paid(Used(n), ntf[n].att, Span(n), Ahead(n))
  /\ Used(n) > 0 /\ ntf[n].kind = "main" => ntf[n].fire <= clock

\* A row in flight that has not failed yet is over, or out of reach until its
\* lease has run out.
Covered(w) ==
  InFlight(w) =>
    /\ ntf[wk[w].n].kind = "main" => ntf[wk[w].n].fire <= clock
    /\ \/ ntf[wk[w].n].att # 0
       \/ Spent(wk[w].n)
       \/ FreeFrom(ntf[wk[w].n]) >= wk[w].now + Lease

LeaseInv ==
  /\ \A w \in Worker : wk[w].now <= clock /\ Covered(w)
  /\ \A n \in DOMAIN ntf : Counted(n)
  /\ LeaseExcludes

\* A worker's tick reads the clock when it starts, and no other time.
LEMMA TickReads ==
  ASSUME TypeOK, DeliveryNext
  PROVE  /\ UNCHANGED clock
         /\ \E w \in Worker : \E state :
              /\ wk' = [wk EXCEPT ![w] = state]
              /\ \/ state.pc = "idle" /\ state.now = 0
                 \/ state.now = clock
                 \/ wk[w].pc # "idle" /\ state.now = wk[w].now
<1>1. PICK w \in Worker : WorkerStep(w) \/ Crash(w)
  BY DEF DeliveryNext
<1>2. UNCHANGED clock
  BY <1>1 DEF WorkerStep, StartTick, EndTick, SelectCandidate, ClaimLost, SendRefused, Crash,
              ClaimCancel, ClaimDuplicate, ClaimPostpone, ClaimMiss, ClaimSend, SendAccepted,
              FinalizeSent, FinalizeFailed, storeVars
<1>3. wk[w] \in WorkerState /\ wk \in [Worker -> WorkerState]
  BY DEF TypeOK, DeliveryTypeOK
<1>4. \E state : /\ wk' = [wk EXCEPT ![w] = state]
                 /\ \/ state.pc = "idle" /\ state.now = 0
                    \/ state.now = clock
                    \/ wk[w].pc # "idle" /\ state.now = wk[w].now
  <2>1. CASE StartTick(w)
    <3> DEFINE state == [IdleWorker EXCEPT !.pc = "tick", !.now = clock, !.left = BatchSize]
    <3>1. wk' = [wk EXCEPT ![w] = state] /\ state.now = clock
      BY <2>1 DEF StartTick, IdleWorker
    <3> QED
      BY <3>1
  <2>2. CASE EndTick(w) \/ ClaimLost(w) \/ Crash(w)
    <3>1. IdleWorker.now = 0 /\ IdleWorker.pc = "idle"
      BY DEF IdleWorker
    <3> QED
      BY <2>2, <3>1 DEF EndTick, ClaimLost, Crash
  <2>3. CASE \/ ClaimCancel(w) \/ ClaimDuplicate(w) \/ ClaimPostpone(w) \/ ClaimMiss(w)
             \/ FinalizeSent(w) \/ FinalizeFailed(w)
    <3>1. NextRow(w).now = wk[w].now
      BY DEF NextRow, IdleWorker
    <3>2. wk[w].pc # "idle"
      BY <2>3 DEF ClaimCancel, ClaimDuplicate, ClaimPostpone, ClaimMiss, Deliverable,
                  Claimable, StillDue, FinalizeSent, FinalizeFailed
    <3>3. wk' = [wk EXCEPT ![w] = NextRow(w)]
      BY <2>3 DEF ClaimCancel, ClaimDuplicate, ClaimPostpone, ClaimMiss,
                  FinalizeSent, FinalizeFailed
    <3> QED
      BY <3>1, <3>2, <3>3
  <2>4. CASE SelectCandidate(w)
    <3>1. PICK n \in Due(wk[w].now) : wk' = [wk EXCEPT ![w].pc = "picked", ![w].n = n]
      BY <2>4 DEF SelectCandidate
    <3> DEFINE state == [wk[w] EXCEPT !.pc = "picked", !.n = n]
    <3>2. wk' = [wk EXCEPT ![w] = state] /\ state.now = wk[w].now
      BY <1>3, <3>1 DEF WorkerState
    <3> QED
      BY <2>4, <3>2 DEF SelectCandidate
  <2>5. CASE SendRefused(w)
    <3>1. PICK fatal \in BOOLEAN : wk' = [wk EXCEPT ![w].pc = "failed", ![w].fatal = fatal]
      BY <2>5 DEF SendRefused
    <3> DEFINE state == [wk[w] EXCEPT !.pc = "failed", !.fatal = fatal]
    <3>2. wk' = [wk EXCEPT ![w] = state] /\ state.now = wk[w].now
      BY <1>3, <3>1 DEF WorkerState
    <3> QED
      BY <2>5, <3>2 DEF SendRefused
  <2>6. CASE ClaimSend(w)
    <3> DEFINE silent == SilentClaim(wk[w].n, wk[w].now)
               state == [wk[w] EXCEPT !.pc = "sending", !.silent = silent]
    <3>1. wk' = [wk EXCEPT ![w].pc = "sending", ![w].silent = silent]
      BY <2>6 DEF ClaimSend
    <3> HIDE DEF silent
    <3>2. wk' = [wk EXCEPT ![w] = state] /\ state.now = wk[w].now
      BY <1>3, <3>1 DEF WorkerState
    <3> QED
      BY <2>6, <3>2 DEF ClaimSend, Deliverable, Claimable, StillDue
  <2>7. CASE SendAccepted(w)
    <3>1. PICK pc \in {"accepted", "failed"} : wk' = [wk EXCEPT ![w].pc = pc]
      BY <2>7 DEF SendAccepted
    <3> DEFINE state == [wk[w] EXCEPT !.pc = pc]
    <3>2. wk' = [wk EXCEPT ![w] = state] /\ state.now = wk[w].now
      BY <1>3, <3>1 DEF WorkerState
    <3> QED
      BY <2>7, <3>2 DEF SendAccepted
  <2> QED
    BY <1>1, <2>1, <2>2, <2>3, <2>4, <2>5, <2>6, <2>7 DEF WorkerStep
<1> QED
  BY <1>2, <1>4

\* The clock only moves on, and a tick does not read ahead of it.
LEMMA ClockKept ==
  ASSUME TypeOK, \A w \in Worker : wk[w].now <= clock, [Next]_vars
  PROVE  clock <= clock' /\ \A w \in Worker : wk'[w].now <= clock'
<1>1. clock \in Nat /\ wk \in [Worker -> WorkerState]
  BY StoreAssumption DEF TypeOK, StoreTypeOK, DeliveryTypeOK
<1>2. ASSUME NEW w \in Worker, NEW state, wk' = [wk EXCEPT ![w] = state],
             state.now \in {0, clock, wk[w].now}, UNCHANGED clock
      PROVE  clock <= clock' /\ \A v \in Worker : wk'[v].now <= clock'
  <2>1. \A v \in Worker : wk'[v] = IF v = w THEN state ELSE wk[v]
    BY <1>1, <1>2
  <2>2. state.now <= clock
    BY <1>1, <1>2
  <2> QED
    BY <1>1, <1>2, <2>1, <2>2
<1>3. CASE UNCHANGED wk /\ (clock' = clock \/ clock' = clock + 1)
  <2>1. \A w \in Worker : wk[w].now \in Nat
    BY Chosen
  <2> QED
    BY <1>1, <1>3, <2>1
<1>4. CASE DeliveryNext
  <2>1. /\ UNCHANGED clock
        /\ \E w \in Worker : \E state : /\ wk' = [wk EXCEPT ![w] = state]
                                    /\ state.now \in {0, clock, wk[w].now}
    BY <1>4, TickReads
  <2> QED
    BY <1>2, <2>1
<1>5. CASE \/ ReactionsNext /\ UNCHANGED deliveryVars
           \/ SchedulingNext /\ UNCHANGED deliveryVars
           \/ Advance \/ UNCHANGED vars
  <2>1. UNCHANGED wk
    BY <1>5 DEF Advance, vars, deliveryVars
  <2>2. clock' = clock \/ clock' = clock + 1
    BY <1>5 DEF Advance, vars, storeVars, SchedulingNext, ReconcileRead, ReconcileWrite,
                ReconcileAbort, ReactionsNext, Acknowledge, SkipOccurrence, ReactToMessage,
                ReactToNotification, Complete, SkipFromNotification, Close, Snooze,
                PreviewMove, MoveTo, UpdateQuietHours
  <2> QED
    BY <1>3, <2>1, <2>2
<1> QED
  BY <1>4, <1>5 DEF Next

\* The measures a count is taken by.
CountsTyped ==
  \A n \in DOMAIN ntf :
    /\ Used(n) \in Nat /\ Span(n) \in Nat /\ Ahead(n) \in Nat
    /\ ntf[n].att \in Nat /\ ntf[n].fire \in Int /\ FreeFrom(ntf[n]) \in Nat

LEMMA CountTypes == TypeOK => CountsTyped
<1> SUFFICES ASSUME TypeOK, NEW n \in DOMAIN ntf
             PROVE  /\ Used(n) \in Nat /\ Span(n) \in Nat /\ Ahead(n) \in Nat
                    /\ ntf[n].att \in Nat /\ ntf[n].fire \in Int /\ FreeFrom(ntf[n]) \in Nat
  BY DEF CountsTyped
<1>1. /\ ntf[n] \in Notification /\ ntf[n].att \in Nat /\ ntf[n].fire \in Int /\ clock \in Nat
      /\ Used(n) \in Nat
  BY RowType, UsedType, StoreAssumption DEF TypeOK, StoreTypeOK
<1>2. FreeFrom(ntf[n]) \in Nat /\ FreeFrom(ntf[n]) >= ntf[n].fire
  BY <1>1, FreeFromIs
<1>3. Span(n) \in Nat
  BY <1>1, DeliveryAssumption DEF Span
<1>4. Ahead(n) \in Nat
  BY <1>1, <1>2 DEF Ahead
<1> QED
  BY <1>1, <1>2, <1>3, <1>4

LEMMA CountTypesNext == TypeOK' => CountsTyped'
BY CountTypes, PTL

\* A step that claims nothing for delivery leaves every count right: what it
\* uses up is accounted for, and a new row has used nothing.
LEMMA CountsKept ==
  ASSUME TypeOK, TypeOK', RowsEvolve, Unclaiming, \A n \in DOMAIN ntf : Counted(n),
         clock <= clock'
  PROVE  \A n \in DOMAIN ntf' : Counted(n)'
<1>1. CountsTyped /\ CountsTyped'
  BY CountTypes, CountTypesNext
<1>2. clock \in Nat /\ clock' \in Nat
  BY StoreAssumption DEF TypeOK, StoreTypeOK
<1>3. ASSUME NEW n \in DOMAIN ntf' \ DOMAIN ntf PROVE Counted(n)'
  <2>1. Sending(n)' = {}
    <3>1. Sending(n) = {}
      BY <1>3, Chosen DEF Sending
    <3> QED
      BY <3>1, SendingShrinks DEF Unclaiming
  <2>2. Used(n)' = 0
    <3>1. ntf'[n].copies = 0
      BY <1>3 DEF Unclaiming, Fresh
    <3>2. Used(n)' = ntf'[n].copies + Cardinality(Sending(n)')
      BY DEF Used
    <3> QED
      BY <2>1, <3>1, <3>2, FS_EmptySet
  <2>3. ntf'[n].att \in Nat /\ Span(n)' \in Nat /\ Ahead(n)' \in Nat
    BY <1>1 DEF CountsTyped
  <2>4. Fits(0, ntf'[n].att, Span(n)') /\ Paid(0, ntf'[n].att, Span(n)', Ahead(n)')
    BY <2>3, NothingUsed
  <2> QED
    BY <2>2, <2>4 DEF Counted
<1>4. ASSUME NEW n \in DOMAIN ntf, n \in DOMAIN ntf' PROVE Counted(n)'
  <2> DEFINE used == Used(n)  less == Used(n)'
             att == ntf[n].att  span == Span(n)  more == Span(n)'
             ahead == Ahead(n)  further == Ahead(n)'
  <2>1. /\ used \in Nat /\ less \in Nat /\ att \in Nat /\ span \in Nat /\ more \in Nat
        /\ ahead \in Nat /\ further \in Nat /\ ntf[n].fire \in Int
        /\ FreeFrom(ntf[n]) \in Nat /\ FreeFrom(ntf'[n]) \in Nat
    BY <1>1, <1>4 DEF CountsTyped
  <2>2. /\ less <= used /\ LeaseKept(n) /\ ntf'[n].kind = ntf[n].kind
    BY DEF Unclaiming, RowsEvolve, RowEvolves
  <2>3. span <= more
    BY <2>2, <1>2, DeliveryAssumption DEF Span
  <2>4. FreeFrom(ntf'[n]) >= FreeFrom(ntf[n]) => ahead <= further
    <3>1. ntf[n].kind = "main" => ntf'[n].fire = ntf[n].fire
      BY <2>2 DEF LeaseKept
    <3> QED
      BY <2>1, <2>2, <3>1 DEF Ahead
  <2>5. /\ Fits(used, att, span)
        /\ ~ Spent(n) => Paid(used, att, span, ahead)
        /\ used > 0 /\ ntf[n].kind = "main" => ntf[n].fire <= clock
    BY DEF Counted
  <2>6. less > 0 /\ ntf'[n].kind = "main" => ntf'[n].fire <= clock'
    <3> HIDE DEF used, less
    <3> QED
      BY <1>2, <2>1, <2>2, <2>5 DEF LeaseKept
  <2> HIDE DEF used, less, att, span, more, ahead, further
  <2>7. Fits(less, att, more)
    BY <2>1, <2>2, <2>3, <2>5, FitsLonger
  <2>8. /\ Fits(less, ntf'[n].att, more)
        /\ ~ Spent(n)' => Paid(less, ntf'[n].att, more, further)
    <3>1. CASE ntf'[n].att = att /\ Spent(n)'
      BY <2>7, <3>1
    <3>2. CASE ntf'[n].att = att /\ ~ Spent(n) /\ FreeFrom(ntf'[n]) >= FreeFrom(ntf[n])
      <4>1. Paid(less, att, more, further)
        BY <2>1, <2>2, <2>3, <2>4, <2>5, <3>2, PaidLonger
      <4> QED
        BY <2>7, <3>2, <4>1
    <3>3. CASE ntf'[n].att = att /\ ntf[n].kind = "main" /\ ntf[n].fire > clock
      <4>1. less = 0
        BY <1>2, <2>1, <2>2, <2>5, <3>3
      <4>2. Paid(0, att, more, further)
        BY <2>1, NothingUsed
      <4> QED
        BY <2>7, <3>3, <4>1, <4>2
    <3>4. CASE ntf'[n].att = att + 1
      <4>1. Fits(less, att + 1, more) /\ Paid(less, att + 1, more, further)
        BY <2>1, <2>7, FailurePays
      <4> QED
        BY <3>4, <4>1
    <3> QED
      BY <2>2, <3>1, <3>2, <3>3, <3>4 DEF LeaseKept, att
  <2> QED
    BY <2>6, <2>8 DEF Counted, less, more, further
<1> QED
  BY <1>3, <1>4

\* Nor does it touch a lease in force.
LEMMA LeasesKept ==
  ASSUME TypeOK, TypeOK', RowsEvolve, Unclaiming, LeaseInv, clock <= clock'
  PROVE  (\A w \in Worker : Covered(w)') /\ LeaseExcludes'
<1>1. CountsTyped /\ CountsTyped' /\ clock \in Nat /\ clock' \in Nat
  BY CountTypes, CountTypesNext, StoreAssumption DEF TypeOK, StoreTypeOK
<1>2. ASSUME NEW w \in Worker, InFlight(w)'
      PROVE  /\ InFlight(w) /\ wk'[w].n = wk[w].n /\ wk'[w].now = wk[w].now
             /\ wk[w].n \in DOMAIN ntf /\ wk[w].now \in Nat
  BY <1>2, Chosen DEF Unclaiming, FlightsKept, InFlight
<1>3. \A n \in DOMAIN ntf : ntf'[n].att = 0 => ntf[n].att = 0
  <2>1. \A n \in DOMAIN ntf : ntf[n].att \in Nat
    BY <1>1 DEF CountsTyped
  <2> QED
    BY <2>1 DEF Unclaiming, LeaseKept
<1>4. LeaseExcludes'
  BY <1>2, <1>3 DEF LeaseInv, LeaseExcludes
<1>5. ASSUME NEW w \in Worker, InFlight(w)',
             NEW n \in DOMAIN ntf, n = wk[w].n
      PROVE  /\ ntf'[n].kind = "main" => ntf'[n].fire <= clock'
             /\ \/ ntf'[n].att # 0
                \/ Spent(n)'
                \/ FreeFrom(ntf'[n]) >= wk[w].now + Lease
  <2>1. /\ ntf[n].kind = "main" => ntf[n].fire <= clock
        /\ ntf[n].att # 0 \/ Spent(n) \/ FreeFrom(ntf[n]) >= wk[w].now + Lease
    BY <1>2, <1>5 DEF LeaseInv, Covered
  <2>2. /\ LeaseKept(n) /\ ntf'[n].kind = ntf[n].kind
        /\ ntf[n].fire \in Int /\ FreeFrom(ntf[n]) \in Nat
        /\ wk[w].now \in Nat /\ Lease \in Nat
    BY <1>1, <1>2, <1>5, DeliveryAssumption
       DEF Unclaiming, RowsEvolve, RowEvolves, CountsTyped
  <2>3. FreeFrom(ntf'[n]) \in Nat
    <3>1. n \in DOMAIN ntf'
      BY GrownDomain DEF RowsEvolve, TypeOK
    <3> QED
      BY <1>1, <3>1 DEF CountsTyped
  <2>4. ntf'[n].kind = "main" => ntf'[n].fire <= clock'
    BY <1>1, <2>1, <2>2 DEF LeaseKept
  <2>5. \/ ntf'[n].att # 0
        \/ Spent(n)'
        \/ FreeFrom(ntf'[n]) >= wk[w].now + Lease
    <3> SUFFICES ASSUME ntf'[n].att = 0, ~ Spent(n)'
                 PROVE  FreeFrom(ntf'[n]) >= wk[w].now + Lease
      OBVIOUS
    <3>1. ~ Spent(n) /\ FreeFrom(ntf'[n]) >= FreeFrom(ntf[n])
      <4>1. ~ (ntf[n].kind = "main" /\ ntf[n].fire > clock)
        BY <1>1, <2>1, <2>2
      <4>2. ntf'[n].att # ntf[n].att + 1
        BY <1>1 DEF CountsTyped
      <4> QED
        BY <2>2, <4>1, <4>2 DEF LeaseKept
    <3>2. FreeFrom(ntf[n]) >= wk[w].now + Lease
      BY <1>3, <2>1, <3>1
    <3> DEFINE f == FreeFrom(ntf[n])  g == FreeFrom(ntf'[n])  t == wk[w].now
    <3>3. f \in Nat /\ g \in Nat /\ t \in Nat /\ g >= f /\ f >= t + Lease /\ Lease \in Nat
      BY <2>2, <2>3, <3>1, <3>2
    <3> HIDE DEF f, g, t
    <3>4. g >= t + Lease
      BY <3>3
    <3> QED
      BY <3>4 DEF g, t
  <2> QED
    BY <2>4, <2>5
<1>6. ASSUME NEW w \in Worker PROVE Covered(w)'
  <2> SUFFICES ASSUME InFlight(w)'
               PROVE  Covered(w)'
    BY DEF Covered
  <2>1. PICK n \in DOMAIN ntf : n = wk[w].n /\ n = wk'[w].n
    BY <1>2
  <2>2. wk'[w].now = wk[w].now
    BY <1>2
  <2>3. Spent(n)' => Spent(wk[w].n)'
    BY <2>1 DEF Spent, Snoozed
  <2> QED
    BY <1>5, <2>1, <2>2, <2>3 DEF Covered
<1> QED
  BY <1>4, <1>6

\* A claim for delivery: the row is within reach, its lease runs from the
\* reading of the clock, and one more message may go out.
LEMMA ClaimSendLeases ==
  ASSUME TypeOK, LeaseInv, NEW w \in Worker, ClaimSend(w), NEW n \in DOMAIN ntf, n = wk[w].n
  PROVE  /\ ~ Spent(n) /\ wk[w].pc = "picked" /\ wk[w].now \in Nat /\ wk[w].now <= clock
         /\ FreeFrom(ntf[n]) <= wk[w].now /\ FreeFrom(ntf'[n]) = wk[w].now + Lease
         /\ ntf'[n].status = ntf[n].status /\ ntf'[n].kind = ntf[n].kind
         /\ ntf'[n].occ = ntf[n].occ /\ ntf'[n].att = ntf[n].att
         /\ ntf'[n].copies = ntf[n].copies
         /\ ntf[n].kind = "main" =>
              /\ ntf'[n].fire = ntf[n].fire /\ ntf[n].fire <= wk[w].now
              /\ wk[w].now - ntf[n].fire <= Late
         /\ \A m \in DOMAIN ntf : m # n => ntf'[m] = ntf[m]
         /\ DOMAIN ntf' = DOMAIN ntf
         /\ \A v \in Worker : v # w => wk'[v] = wk[v]
         /\ wk'[w].pc = "sending" /\ wk'[w].n = n /\ wk'[w].now = wk[w].now
<1> DEFINE now == wk[w].now
           fire == FireAt(n, now)
           silent == SilentClaim(n, now)
           next == now + Lease
           old == ntf[n]
           row == Leased(old, fire, silent, next)
<1>1. StillDue(w) /\ Claimable(w) /\ Deliverable(w)
  BY DEF ClaimSend, Deliverable, Claimable
<1>2. /\ wk[w].pc = "picked" /\ now \in Nat /\ ntf \in Seq(Notification)
      /\ old \in Notification /\ old.status = "pending"
      /\ FreeFrom(old) \in Nat /\ FreeFrom(old) <= now /\ fire \in Int /\ old.fire <= now
  BY <1>1, ClaimReads
<1>3. silent \in BOOLEAN
  BY <1>2, ClaimType DEF TypeOK
<1>4. next \in Int /\ Lease \in Nat /\ next >= now
  BY <1>2, DeliveryAssumption
<1>5. /\ ntf' = [ntf EXCEPT ![n] = row]
      /\ wk' = [wk EXCEPT ![w].pc = "sending", ![w].silent = silent]
  BY DEF ClaimSend, Leased
<1>6. fire <= now /\ now - fire <= Late
  BY <1>1 DEF ClaimSend, Deliverable
<1>7. ~ Spent(n)
  BY <1>1, <1>2 DEF Spent, Claimable, ClaimCancels
<1>8. ntf[n].kind = "main" => fire = ntf[n].fire
  BY MainStays
<1> HIDE DEF silent, fire, now, next, old
<1>9. /\ row \in Notification /\ row.status = old.status /\ row.kind = old.kind
      /\ row.occ = old.occ /\ row.att = old.att /\ row.copies = old.copies
      /\ row.fire = fire /\ row.next = next
  BY <1>2, <1>3, <1>4 DEF Leased, Notification
<1> HIDE DEF row
<1>10. /\ DOMAIN ntf' = DOMAIN ntf
       /\ \A m \in DOMAIN ntf : ntf'[m] = IF m = n THEN row ELSE ntf[m]
  BY <1>2, <1>5, <1>9, RowSet
<1>11. FreeFrom(row) = next
  BY <1>2, <1>4, <1>6, <1>9 DEF FreeFrom
<1>12. /\ \A v \in Worker : v # w => wk'[v] = wk[v]
       /\ wk'[w].pc = "sending" /\ wk'[w].n = n /\ wk'[w].now = wk[w].now
  BY <1>5 DEF TypeOK, DeliveryTypeOK, WorkerState
<1>13. wk[w].now <= clock
  BY DEF LeaseInv
<1>14. ntf'[n] = row
  BY <1>10
<1>15. /\ ntf'[n].status = ntf[n].status /\ ntf'[n].kind = ntf[n].kind
       /\ ntf'[n].occ = ntf[n].occ /\ ntf'[n].att = ntf[n].att
       /\ ntf'[n].copies = ntf[n].copies /\ ntf'[n].fire = fire
       /\ FreeFrom(ntf'[n]) = wk[w].now + Lease
  BY <1>9, <1>11, <1>14 DEF old, next, now
<1> QED
  BY <1>2, <1>6, <1>7, <1>8, <1>10, <1>12, <1>13, <1>15 DEF old, now

LEMMA ClaimSendKept ==
  ASSUME TypeOK, TypeOK', SnoozesKnown, RowsEvolve, LeaseInv, NEW w \in Worker, ClaimSend(w)
  PROVE  LeaseInv'
<1>1. PICK n \in DOMAIN ntf : n = wk[w].n
  BY Chosen DEF ClaimSend, Deliverable, Claimable, StillDue
<1>2. /\ ~ Spent(n) /\ wk[w].pc = "picked" /\ wk[w].now \in Nat /\ wk[w].now <= clock
      /\ FreeFrom(ntf[n]) <= wk[w].now /\ FreeFrom(ntf'[n]) = wk[w].now + Lease
      /\ ntf'[n].status = ntf[n].status /\ ntf'[n].kind = ntf[n].kind
      /\ ntf'[n].occ = ntf[n].occ /\ ntf'[n].att = ntf[n].att
      /\ ntf'[n].copies = ntf[n].copies
      /\ ntf[n].kind = "main" =>
           /\ ntf'[n].fire = ntf[n].fire /\ ntf[n].fire <= wk[w].now
           /\ wk[w].now - ntf[n].fire <= Late
      /\ \A m \in DOMAIN ntf : m # n => ntf'[m] = ntf[m]
      /\ DOMAIN ntf' = DOMAIN ntf
      /\ \A v \in Worker : v # w => wk'[v] = wk[v]
      /\ wk'[w].pc = "sending" /\ wk'[w].n = n /\ wk'[w].now = wk[w].now
  BY <1>1, ClaimSendLeases
<1>3. /\ UNCHANGED <<clock, occ, ledger>> /\ clock \in Nat /\ Lease \in Nat /\ Late \in Nat
      /\ CountsTyped /\ CountsTyped'
  <2>1. CountsTyped /\ CountsTyped'
    BY CountTypes, CountTypesNext
  <2>2. clock \in Nat
    BY StoreAssumption DEF TypeOK, StoreTypeOK
  <2> QED
    BY <2>1, <2>2, DeliveryAssumption DEF ClaimSend
<1>4. ASSUME NEW m \in DOMAIN ntf, Spent(m) PROVE Spent(m)'
  BY <1>2, <1>3, <1>4, SpentStays
<1>5. ASSUME NEW m \in DOMAIN ntf, m # n PROVE Counted(m)'
  <2>1. Sending(m)' = Sending(m)
    BY <1>1, <1>2, <1>5 DEF Sending
  <2>2. ntf'[m] = ntf[m]
    BY <1>2, <1>5
  <2>3. Used(m)' = Used(m)
    BY <2>1, <2>2 DEF Used
  <2>4. Span(m)' = Span(m) /\ Ahead(m)' = Ahead(m)
    BY <1>3, <2>2 DEF Span, Ahead, FreeFrom
  <2>5. Counted(m)
    BY DEF LeaseInv
  <2> QED
    BY <1>3, <1>4, <2>2, <2>3, <2>4, <2>5 DEF Counted
<1>6. Counted(n)'
  <2> DEFINE used == Used(n)  att == ntf[n].att  span == Span(n)  ahead == Ahead(n)
             start == IF ntf[n].kind = "main" THEN ntf[n].fire ELSE 0
             gone == wk[w].now - start
  <2>1. used \in Nat /\ att \in Nat /\ span \in Nat /\ ahead \in Nat /\ ntf[n].fire \in Int
        /\ FreeFrom(ntf[n]) \in Nat
    BY <1>3 DEF CountsTyped
  <2>2. gone \in Nat /\ ahead <= gone /\ gone <= span
    BY <1>2, <1>3, <2>1 DEF Ahead, Span
  <2>3. Span(n)' = span /\ Ahead(n)' = gone + Lease
    <3>1. Span(n)' = span
      BY <1>2, <1>3 DEF Span
    <3>2. Ahead(n)' = (wk[w].now + Lease) - start
      BY <1>2 DEF Ahead
    <3>3. start \in Int
      BY <2>1
    <3> HIDE DEF start
    <3> QED
      BY <1>2, <1>3, <3>1, <3>2, <3>3
  <2>4. Used(n)' = used + 1
    <3> DEFINE before == Sending(n)  after == Sending(n)'
    <3>1. after = before \cup {w} /\ w \notin before
      BY <1>2 DEF Sending
    <3>2. IsFiniteSet(before) /\ Cardinality(before) \in Nat
      BY SendingType
    <3>3. Used(n)' = ntf'[n].copies + Cardinality(after)
      BY DEF Used
    <3>4. used = ntf[n].copies + Cardinality(before)
      BY DEF Used
    <3>5. ntf[n].copies \in Nat
      BY UsedType
    <3> HIDE DEF before, after, used
    <3>6. Cardinality(after) = Cardinality(before) + 1
      BY <3>1, <3>2, FS_AddElement
    <3> QED
      BY <1>2, <3>2, <3>3, <3>4, <3>5, <3>6
  <2>5. Paid(used, att, span, ahead)
    BY <1>2 DEF LeaseInv, Counted
  <2>6. ntf'[n].kind = "main" => ntf'[n].fire <= clock'
    BY <1>2, <1>3, <2>1
  <2> HIDE DEF used, att, span, ahead, gone
  <2>7. Fits(used + 1, att, span) /\ Paid(used + 1, att, span, gone + Lease)
    BY <2>1, <2>2, <2>5, LeasePays
  <2>8. ntf'[n].att = att
    BY <1>2 DEF att
  <2> QED
    BY <2>3, <2>4, <2>6, <2>7, <2>8 DEF Counted
\* What an earlier claim of the row has left to this one.
<1>7. ASSUME NEW v \in Worker, v # w, InFlight(v), wk[v].n = n
      PROVE  wk[v].now \in Nat /\ (ntf[n].att # 0 \/ wk[w].now >= wk[v].now + Lease)
  <2>1. ntf[n].att # 0 \/ Spent(n) \/ FreeFrom(ntf[n]) >= wk[v].now + Lease
    BY <1>7 DEF LeaseInv, Covered
  <2>2. wk[v].now \in Nat /\ FreeFrom(ntf[n]) \in Nat
    BY <1>3, Chosen DEF CountsTyped
  <2> QED
    BY <1>2, <1>3, <2>1, <2>2
<1>8. ASSUME NEW v \in Worker, v # w, InFlight(v)'
      PROVE  InFlight(v) /\ wk'[v] = wk[v] /\ wk[v].n \in DOMAIN ntf
  BY <1>2, <1>8, Chosen DEF InFlight
<1>9. ASSUME NEW v \in Worker PROVE wk'[v].now <= clock' /\ Covered(v)'
  <2>1. wk'[v].now <= clock'
    BY <1>2, <1>3 DEF LeaseInv
  <2>2. CASE v = w
    BY <1>2, <1>3, <2>1, <2>2, Chosen DEF Covered, CountsTyped
  <2>3. CASE v # w /\ InFlight(v)'
    <3>1. PICK m \in DOMAIN ntf : m = wk[v].n /\ m = wk'[v].n
      BY <1>8, <2>3
    <3>2. InFlight(v) /\ wk'[v].now = wk[v].now
      BY <1>8, <2>3
    <3>3. /\ ntf[m].kind = "main" => ntf[m].fire <= clock
          /\ ntf[m].att # 0 \/ Spent(m) \/ FreeFrom(ntf[m]) >= wk[v].now + Lease
      BY <3>1, <3>2 DEF LeaseInv, Covered
    <3>4. /\ ntf'[m].kind = "main" => ntf'[m].fire <= clock'
          /\ ntf'[m].att # 0 \/ Spent(m)' \/ FreeFrom(ntf'[m]) >= wk[v].now + Lease
      <4>1. CASE m # n
        BY <1>2, <1>3, <1>4, <3>3, <4>1
      <4>2. CASE m = n
        <5>1. wk[v].now \in Nat /\ (ntf[n].att # 0 \/ wk[w].now >= wk[v].now + Lease)
          BY <1>7, <2>3, <3>1, <3>2, <4>2
        <5> QED
          BY <1>2, <1>3, <3>3, <4>2, <5>1
      <4> QED
        BY <4>1, <4>2
    <3>5. Spent(m)' => Spent(wk[v].n)'
      BY <3>1 DEF Spent, Snoozed
    <3> QED
      BY <2>1, <3>1, <3>2, <3>4, <3>5 DEF Covered
  <2>4. CASE ~ InFlight(v)'
    BY <2>1, <2>4 DEF Covered
  <2> QED
    BY <2>2, <2>3, <2>4
<1>10. LeaseExcludes'
  <2>1. ASSUME NEW u \in Worker, NEW v \in Worker, u # v, InFlight(u)', InFlight(v)',
               wk'[u].n = wk'[v].n, ntf'[wk'[u].n].att = 0
        PROVE  wk'[u].now >= wk'[v].now + Lease \/ wk'[v].now >= wk'[u].now + Lease
    <3>1. CASE u # w /\ v # w
      <4>1. InFlight(u) /\ wk'[u] = wk[u] /\ wk[u].n \in DOMAIN ntf
            /\ InFlight(v) /\ wk'[v] = wk[v]
        BY <1>8, <2>1, <3>1
      <4>2. ntf[wk[u].n].att = 0
        BY <1>2, <2>1, <4>1
      <4> QED
        BY <2>1, <4>1, <4>2 DEF LeaseInv, LeaseExcludes
    <3>2. CASE u = w
      <4>1. v # w /\ InFlight(v) /\ wk'[v] = wk[v] /\ wk[v].n = n /\ ntf[n].att = 0
        BY <1>2, <1>8, <2>1, <3>2
      <4> QED
        BY <1>2, <1>7, <3>2, <4>1
    <3>3. CASE v = w
      <4>1. u # w /\ InFlight(u) /\ wk'[u] = wk[u] /\ wk[u].n = n /\ ntf[n].att = 0
        BY <1>2, <1>8, <2>1, <3>3
      <4> QED
        BY <1>2, <1>7, <3>3, <4>1
    <3> QED
      BY <3>1, <3>2, <3>3
  <2> QED
    BY <2>1 DEF LeaseExcludes
<1> QED
  BY <1>2, <1>5, <1>6, <1>9, <1>10 DEF LeaseInv

LEMMA LeaseInvKept ==
  ASSUME TypeOK, LifecycleInv, SnoozesKnown, LeaseInv, [Next]_vars
  PROVE  LeaseInv'
<1>1. RowsEvolve /\ TypeOK' /\ RowsExist /\ BornIsUnborn
  BY StepEvolves DEF LifecycleInv
<1>2. clock <= clock' /\ \A w \in Worker : wk'[w].now <= clock'
  BY ClockKept DEF LeaseInv
<1>3. Unclaiming \/ \E w \in Worker : ClaimSend(w)
  <2>1. CASE DeliveryNext
    BY <1>1, <2>1, DeliveryUnclaiming
  <2>2. CASE \/ (ReactionsNext \/ SchedulingNext) /\ UNCHANGED deliveryVars
             \/ Advance \/ UNCHANGED vars
    <3>1. FlightsKept
      BY <2>2, FlightsUntouched DEF Advance, vars, deliveryVars
    <3>2. RowsKept
      <4>1. CASE Advance \/ UNCHANGED vars
        <5>1. UNCHANGED <<occ, ntf, ledger>>
          BY <4>1 DEF Advance, vars, storeVars
        <5> QED
          BY <1>1, <5>1, RowUntouched DEF RowsKept
      <4> QED
        BY <1>1, <2>2, <4>1, ReactionsKeep, SchedulingKeeps
    <3> QED
      BY <3>1, <3>2, RowsUnclaimed
  <2> QED
    BY <2>1, <2>2 DEF Next
<1>4. CASE Unclaiming
  <2>1. /\ \A n \in DOMAIN ntf' : Counted(n)'
        /\ (\A w \in Worker : Covered(w)') /\ LeaseExcludes'
    BY <1>1, <1>2, <1>4, CountsKept, LeasesKept DEF LeaseInv
  <2> QED
    BY <1>2, <2>1 DEF LeaseInv
<1> QED
  BY <1>1, <1>3, <1>4, ClaimSendKept

LEMMA LeaseInvHolds == Spec => []LeaseInv
<1>1. Init => LeaseInv
  <2> SUFFICES ASSUME Init PROVE LeaseInv
    OBVIOUS
  <2>1. /\ clock = 0 /\ ntf = << >>
        /\ \A w \in Worker : wk[w] = IdleWorker
    BY DEF Init, StoreInit, DeliveryInit
  <2>2. IdleWorker.pc = "idle" /\ IdleWorker.now = 0
    BY DEF IdleWorker
  <2>3. \A w \in Worker : wk[w].now <= clock /\ ~ InFlight(w)
    BY <2>1, <2>2 DEF InFlight
  <2> QED
    BY <2>1, <2>3 DEF LeaseInv, Covered, LeaseExcludes
<1> QED
  BY <1>1, LeaseInvKept, LifecycleInvHolds, SnoozesHold, TypeCorrect, PTL DEF Spec

\* Two ticks never have one row in flight within a lease of each other, however
\* many loops run, however slow they are and whatever crashes, as long as no
\* attempt on the row has failed.
THEOREM LeasesExclude == Spec => []LeaseExcludes
<1>1. LeaseInv => LeaseExcludes
  BY DEF LeaseInv
<1> QED
  BY <1>1, LeaseInvHolds, PTL

\* Every message beyond the first about one notification is accounted for: no
\* run of crashes, slow ticks, lost answers, snoozes and reconciliations sends
\* a row more often than its failed attempts and its leases allow.
THEOREM CopiesAreExplained == Spec => []CopiesExplained
<1>1. TypeOK /\ LeaseInv => CopiesExplained
  <2> SUFFICES ASSUME TypeOK, LeaseInv, NEW n \in DOMAIN ntf
               PROVE  ntf[n].copies <= (ntf[n].att + 1) * (1 + Span(n) \div Lease)
    BY DEF CopiesExplained, Span
  <2> DEFINE most == (ntf[n].att + 1) * (1 + Span(n) \div Lease)
  <2>1. Used(n) <= most
    BY DEF LeaseInv, Counted, Fits, Leases
  <2>2. /\ Used(n) = ntf[n].copies + Cardinality(Sending(n))
        /\ Cardinality(Sending(n)) \in Nat /\ ntf[n].copies \in Nat
    BY SendingType, UsedType DEF Used
  <2>3. most \in Int
    <3>1. Span(n) \in Nat /\ ntf[n].att \in Nat
      BY CountTypes DEF CountsTyped
    <3>2. Leases(Span(n)) \in Nat
      BY <3>1, LeasesType
    <3> QED
      BY <3>1, <3>2 DEF Leases
  <2> HIDE DEF most
  <2>4. ntf[n].copies <= most
    BY <2>1, <2>2, <2>3
  <2> QED
    BY <2>4 DEF most
<1> QED
  BY <1>1, LeaseInvHolds, TypeCorrect, PTL
-----------------------------------------------------------------------------
(* Quiet hours at the moment of sending.                                     *)

\* Every night that may come has a day after it longer than the lateness a
\* worker puts up with, whatever a transition takes away from it.
NightsApart ==
  \A q \in QuietChoices \cup {FirstQuiet} :
    Late + Skipped(HomeZone) < (q.from - q.to) % Day

\* The quiet hours in force are the first ones or ones the owner chose.
QuietChosen == quiet \in QuietChoices \cup {FirstQuiet}

LEMMA QuietStaysChosen == Spec => []QuietChosen
<1>1. Init => QuietChosen
  BY DEF Init, StoreInit, QuietChosen
<1>2. ASSUME QuietChosen, [Next]_vars PROVE QuietChosen'
  <2>1. quiet' = quiet \/ quiet' \in QuietChoices
    <3>1. ASSUME NEW w \in Worker, WorkerStep(w) \/ Crash(w) PROVE quiet' = quiet
      <4>1. CASE StartTick(w) \/ EndTick(w) \/ SelectCandidate(w) \/ ClaimLost(w)
        BY <4>1 DEF StartTick, EndTick, SelectCandidate, ClaimLost, storeVars
      <4>2. CASE ClaimCancel(w) \/ ClaimDuplicate(w) \/ ClaimPostpone(w)
        BY <4>2 DEF ClaimCancel, ClaimDuplicate, ClaimPostpone
      <4>3. CASE ClaimMiss(w) \/ ClaimSend(w)
        BY <4>3 DEF ClaimMiss, ClaimSend
      <4>4. CASE SendAccepted(w) \/ SendRefused(w) \/ Crash(w)
        BY <4>4 DEF SendAccepted, SendRefused, Crash, storeVars
      <4>5. CASE FinalizeSent(w) \/ FinalizeFailed(w)
        BY <4>5 DEF FinalizeSent, FinalizeFailed
      <4> QED
        BY <3>1, <4>1, <4>2, <4>3, <4>4, <4>5 DEF WorkerStep
    <3>2. ASSUME NEW o \in Slot, Acknowledge(o) \/ SkipOccurrence(o) PROVE quiet' = quiet
      BY <3>2 DEF Acknowledge, SkipOccurrence
    <3>3. CASE ReactToMessage \/ UpdateQuietHours
      BY <3>3 DEF ReactToMessage, UpdateQuietHours
    <3>4. ASSUME NEW n \in DOMAIN ntf,
                 \/ ReactToNotification(n) \/ Complete(n) \/ SkipFromNotification(n)
                 \/ Snooze(n) \/ PreviewMove(n) \/ \E target \in Slot : MoveTo(n, target)
          PROVE  quiet' = quiet
      <4>1. CASE ReactToNotification(n) \/ Complete(n) \/ SkipFromNotification(n)
        BY <4>1 DEF ReactToNotification, Complete, SkipFromNotification, Close
      <4>2. CASE Snooze(n) \/ PreviewMove(n)
        BY <4>2 DEF Snooze, PreviewMove
      <4>3. ASSUME NEW target \in Slot, MoveTo(n, target) PROVE quiet' = quiet
        BY <4>3 DEF MoveTo
      <4> QED
        BY <3>4, <4>1, <4>2, <4>3
    <3>5. CASE SchedulingNext
      BY <3>5 DEF SchedulingNext, ReconcileRead, ReconcileWrite, ReconcileAbort
    <3>6. CASE Advance \/ UNCHANGED vars
      BY <3>6 DEF Advance, vars, storeVars
    <3> QED
      BY <1>2, <3>1, <3>2, <3>3, <3>4, <3>5, <3>6 DEF Next, DeliveryNext, ReactionsNext
  <2> QED
    BY <1>2, <2>1 DEF QuietChosen
<1> QED
  BY <1>1, <1>2, PTL DEF Spec

\* A step other than a claim for delivery puts nothing on its way.
LEMMA OnlyClaimsSend ==
  ASSUME TypeOK, LifecycleInv, SnoozesKnown, [Next]_vars
  PROVE  FlightsKept \/ \E w \in Worker : ClaimSend(w)
<1>1. RowsEvolve
  BY StepEvolves DEF LifecycleInv
<1>2. CASE DeliveryNext
  BY <1>1, <1>2, DeliveryUnclaiming DEF Unclaiming
<1>3. CASE \/ (ReactionsNext \/ SchedulingNext) /\ UNCHANGED deliveryVars
           \/ Advance \/ UNCHANGED vars
  BY <1>3, FlightsUntouched DEF Advance, vars, deliveryVars
<1> QED
  BY <1>2, <1>3 DEF Next

\* A repeat whose turn has come at night is put off until after it.
LEMMA RepeatsWaitOut ==
  ASSUME NightsApart, TypeOK, QuietChosen, NEW w \in Worker,
         Deliverable(w), wk[w].now - FireAt(wk[w].n, wk[w].now) <= Late,
         QuietAt(HomeZone, wk[w].now, quiet)
  PROVE  ntf[wk[w].n].kind # "repeat"
<1> DEFINE n == wk[w].n  now == wk[w].now
           q == quiet  start == ntf[n].fire  end == QuietEnd(HomeZone, start, q)
<1>1. SUFFICES ASSUME ntf[n].kind = "repeat" PROVE FALSE
  OBVIOUS
<1>2. /\ n \in DOMAIN ntf /\ now \in Int /\ start \in Int /\ q \in Quiet
      /\ FireAt(n, now) <= now /\ now - FireAt(n, now) <= Late
  <2>1. n \in DOMAIN ntf
    BY DEF Deliverable, Claimable, StillDue, Due
  <2>2. now \in Int /\ q \in Quiet /\ start \in Int
    BY <2>1, RowType DEF TypeOK, StoreTypeOK, DeliveryTypeOK, WorkerState
  <2> QED
    BY <2>1, <2>2 DEF Deliverable
<1>3. IsPostponed(n, now)
  BY <1>1 DEF IsPostponed
<1>4. CASE Quieted(n).fire > start
  <2>1. QuietAt(HomeZone, start, q) /\ Quieted(n).fire = end
    <3>1. Quieted(n) = ApplyQuietPolicy("repeat", start, PlannedAt[ntf[n].occ], HomeZone, q)
      BY <1>1 DEF Quieted
    <3>2. ~ QuietAt(HomeZone, start, q) => Quieted(n).fire = start
      BY <3>1 DEF ApplyQuietPolicy
    <3>3. QuietAt(HomeZone, start, q) => Quieted(n).fire = end
      BY <3>1 DEF ApplyQuietPolicy
    <3>4. ~ (start > start)
      BY <1>2
    <3> QED
      BY <1>4, <3>2, <3>3, <3>4
  <2>2. end \in Int /\ FireAt(n, now) = end
    BY <1>2, <1>3, <1>4, <2>1, HomeZoneType, QuietEndIsLater DEF FireAt, PostponedTo
  <2> DEFINE k == now - end
  <2> HIDE DEF n, now, q, start, end
  <2>3. k \in Nat /\ k <= Late /\ end + k = now
    BY <1>2, <2>2
  <2>4. k + Skipped(HomeZone) < (q.from - q.to) % Day
    <3>1. Late + Skipped(HomeZone) < (q.from - q.to) % Day
      BY DEF NightsApart, QuietChosen, q
    <3>2. Skipped(HomeZone) \in Int
      BY HomeZoneType DEF Skipped, Zone
    <3>3. (q.from - q.to) % Day \in Int
      <4>1. q.from \in Int /\ q.to \in Int /\ Day \in Nat \ {0}
        BY <1>2, DayAssumption DEF Quiet
      <4> QED
        BY <4>1
    <3>4. Late \in Int
      BY DeliveryAssumption
    <3> HIDE DEF k
    <3> QED
      BY <2>3, <3>1, <3>2, <3>3, <3>4
  <2>5. ~ QuietAt(HomeZone, end + k, q)
    <3> HIDE DEF k
    <3>1. ~ QuietAt(HomeZone, QuietEnd(HomeZone, start, q) + k, q)
      BY <1>2, <2>1, <2>3, <2>4, HomeZoneType, LoudAfterEnd
    <3> QED
      BY <3>1 DEF end
  <2> QED
    BY <2>3, <2>5 DEF now, q
<1>5. CASE ~ (Quieted(n).fire > start)
  <2>1. FireAt(n, now) = QuietEnd(HomeZone, now, q)
    BY <1>3, <1>5 DEF FireAt, PostponedTo
  <2>2. QuietEnd(HomeZone, now, q) \in Int /\ QuietEnd(HomeZone, now, q) > now
    BY <1>2, HomeZoneType, QuietEndIsLater
  <2> QED
    BY <1>2, <2>1, <2>2
<1> QED
  BY <1>4, <1>5

\* As long as every night ends longer before the next one than a worker
\* tolerates lateness, no claim made at night puts a message on its way with
\* sound, nor a repeat at all: not by its plan, not by a clock that ran on, and
\* not after the owner has changed the quiet hours.
THEOREM ClaimsStayQuiet == NightsApart => (Spec => ClaimsRespectQuietHours)
<1> DEFINE Sent(w) ==
             wk[w].pc = "picked" /\ wk'[w].pc = "sending" =>
               LET night == QuietAt(HomeZone, wk[w].now, quiet)
               IN  night => wk'[w].silent /\ ntf[wk[w].n].kind # "repeat"
           Respected == \A w \in Worker : Sent(w)
<1> SUFFICES ASSUME NightsApart PROVE Spec => ClaimsRespectQuietHours
  OBVIOUS
<1>1. ASSUME TypeOK, LifecycleInv, SnoozesKnown, QuietChosen, [Next]_vars
      PROVE  [Respected]_wk
  <2>1. CASE FlightsKept
    BY <2>1 DEF FlightsKept, InFlight
  <2>2. ASSUME NEW v \in Worker, ClaimSend(v) PROVE Respected
    <3>1. /\ wk' = [wk EXCEPT ![v].pc = "sending",
                              ![v].silent = SilentClaim(wk[v].n, wk[v].now)]
          /\ Deliverable(v) /\ wk[v].now - FireAt(wk[v].n, wk[v].now) <= Late
      BY <2>2 DEF ClaimSend
    <3>2. wk[v] \in WorkerState /\ wk \in [Worker -> WorkerState]
      BY <1>1 DEF TypeOK, DeliveryTypeOK
    <3>3. wk'[v].silent = SilentClaim(wk[v].n, wk[v].now)
      BY <3>1, <3>2 DEF WorkerState
    <3>4. Sent(v)
      BY <1>1, <3>1, <3>3, RepeatsWaitOut DEF SilentClaim
    <3>5. ASSUME NEW w \in Worker, w # v PROVE Sent(w)
      <4>1. wk'[w] = wk[w]
        BY <3>1, <3>2, <3>5
      <4> QED
        BY <4>1
    <3> QED
      BY <3>4, <3>5
  <2> QED
    BY <1>1, <2>1, <2>2, OnlyClaimsSend
<1>2. Spec => [][Respected]_wk
  <2> HIDE DEF Respected
  <2> QED
    BY <1>1, LifecycleInvHolds, SnoozesHold, TypeCorrect, QuietStaysChosen, PTL DEF Spec
<1> QED
  BY <1>2 DEF ClaimsRespectQuietHours
-----------------------------------------------------------------------------
(* Repeats are not lost. *)

\* No tick lasts as long as a lease.
TicksAreBrief == TickSpan < Lease

\* Quiet hours, those of now and those the owner may choose, stay out of the
\* modelled time.
NoNights ==
  \A q \in QuietChoices \cup {FirstQuiet}, t \in 0 .. MaxTime : ~ QuietAt(HomeZone, t, q)

\* The owner is owed no repeat of o any more.
Gone(o) == occ[o] # "pending" \/ o \in stopped

Matters(n) == ntf[n].kind # "pre" /\ ~ Gone(ntf[n].occ)

\* Once it is so, it stays so: only a snooze reopens an occurrence, and it stops
\* the repeats.
LEMMA GoneStays ==
  ASSUME TypeOK, LifecycleInv, [Next]_vars, NEW o \in Slot, occ[o] # "none", Gone(o)
  PROVE  Gone(o)'
<1>1. AbstractStep
  BY StepImplements DEF LifecycleInv
<1>2. occ \in [Slot -> OccurrenceStatus \cup {"none"}]
  BY DEF TypeOK, StoreTypeOK
<1>3. CASE Stutter \/ Promise!Plan
  BY <1>3 DEF Stutter, Gone, Promise!Plan
<1>4. CASE \E n \in DOMAIN Signals : Promise!GiveUp(n) \/ Promise!Send(n)
  <2>1. PICK n \in DOMAIN Signals : Promise!GiveUp(n) \/ Promise!Send(n)
    BY <1>4
  <2>2. /\ UNCHANGED stopped
        /\ occ' = occ \/ occ' = [occ EXCEPT ![Signals[n].occ] = "missed"]
    BY <2>1 DEF Promise!GiveUp, Promise!Send
  <2> QED
    BY <1>2, <2>2 DEF Gone
<1>5. ASSUME NEW p \in Slot, Promise!React(p) \/ Promise!Close(p) \/ Promise!Snooze(p)
      PROVE  Gone(o)'
  BY <1>2, <1>5 DEF Gone, Promise!React, Promise!Close, Promise!Snooze
<1>6. ASSUME NEW p \in Slot, NEW target \in Slot, Promise!Move(p, target)
      PROVE  Gone(o)'
  BY <1>2, <1>6 DEF Gone, Promise!Move
<1> QED
  BY <1>1, <1>3, <1>4, <1>5, <1>6 DEF AbstractStep, Promise!Next

LEMMA MatteredBefore ==
  ASSUME TypeOK, LifecycleInv, RowsEvolve, [Next]_vars, NEW n \in DOMAIN ntf, Matters(n)'
  PROVE  Matters(n) /\ ntf'[n].occ = ntf[n].occ /\ ntf'[n].kind = ntf[n].kind
<1>1. ntf'[n].occ = ntf[n].occ /\ ntf'[n].kind = ntf[n].kind
  BY DEF RowsEvolve, RowEvolves
<1>2. PICK o \in Slot : o = ntf[n].occ
  BY RowType DEF TypeOK, StoreTypeOK
<1>3. occ[o] # "none"
  BY <1>2 DEF LifecycleInv, RowsExist
<1>4. ~ Gone(o)'
  BY <1>1, <1>2 DEF Matters, Gone
<1> QED
  BY <1>1, <1>2, <1>3, <1>4, GoneStays DEF Matters

-----------------------------------------------------------------------------
(* What may become of a row. *)

\* A worker puts row n off, gives it up or records an outcome.
Handles(w, n) ==
  /\ wk[w].n = n
  /\ \/ ClaimDuplicate(w) \/ ClaimPostpone(w) \/ ClaimMiss(w) \/ ClaimSend(w)
     \/ FinalizeSent(w) \/ FinalizeFailed(w)

\* Any other step leaves it waiting as it was, brings it back, or frees its
\* occurrence from repeats.
Fate(n) ==
  \/ /\ ntf'[n].status = ntf[n].status /\ ntf'[n].fire = ntf[n].fire
     /\ ntf'[n].next = ntf[n].next
  \/ occ'[ntf[n].occ] # "pending" \/ ntf[n].occ \in stopped'
  \/ \E w \in Worker : Handles(w, n)
  \/ /\ ntf[n].status = "cancelled" /\ ntf'[n].status = "pending"
     /\ ntf'[n].fire = ntf[n].fire

LEMMA DeliveryFates ==
  ASSUME TypeOK, DeliveryNext, NEW n \in DOMAIN ntf
  PROVE  Fate(n)
<1>1. PICK w \in Worker : WorkerStep(w) \/ Crash(w)
  BY DEF DeliveryNext
<1>2. ntf \in Seq(Notification) /\ ntf[n] \in Notification
  BY RowType DEF TypeOK, StoreTypeOK
<1>3. CASE ntf'[n] = ntf[n]
  BY <1>3 DEF Fate
<1>4. CASE \/ StartTick(w) \/ EndTick(w) \/ SelectCandidate(w)
           \/ ClaimLost(w) \/ SendRefused(w) \/ Crash(w)
  BY <1>3, <1>4 DEF StartTick, EndTick, SelectCandidate, ClaimLost, SendRefused, Crash, storeVars
<1>5. CASE ClaimCancel(w)
  <2>1. /\ ClaimCancels(wk[w].n) /\ UNCHANGED <<occ, stopped>>
        /\ \E row : ntf' = [ntf EXCEPT ![wk[w].n] = row]
    BY <1>5 DEF ClaimCancel
  <2>2. CASE n = wk[w].n
    BY <2>1, <2>2 DEF ClaimCancels, Fate
  <2> QED
    BY <1>3, <2>1, <2>2
<1>6. CASE SendAccepted(w)
  <2> DEFINE row == [ntf[wk[w].n] EXCEPT !.copies = @ + 1]
  <2>1. ntf' = [ntf EXCEPT ![wk[w].n] = row]
    BY <1>6 DEF SendAccepted
  <2>2. CASE n = wk[w].n
    <3>1. ntf'[n] = row
      BY <1>2, <2>1, <2>2
    <3>2. row.status = ntf[n].status /\ row.fire = ntf[n].fire /\ row.next = ntf[n].next
      BY <1>2, <2>2 DEF Notification
    <3> HIDE DEF row
    <3> QED
      BY <3>1, <3>2 DEF Fate
  <2> HIDE DEF row
  <2> QED
    BY <1>3, <2>1, <2>2
<1>7. CASE \/ ClaimDuplicate(w) \/ ClaimPostpone(w) \/ ClaimMiss(w) \/ ClaimSend(w)
           \/ FinalizeFailed(w)
  <2>1. \/ UNCHANGED ntf
        \/ \E row : ntf' = [ntf EXCEPT ![wk[w].n] = row]
    BY <1>7 DEF ClaimDuplicate, ClaimPostpone, ClaimMiss, ClaimSend, FinalizeFailed
  <2>2. CASE n = wk[w].n
    BY <1>7, <2>2 DEF Handles, Fate
  <2> QED
    BY <1>3, <2>1, <2>2
<1>8. CASE FinalizeSent(w)
  <2>1. CASE n = wk[w].n
    BY <1>8, <2>1 DEF Handles, Fate
  <2> QED
    BY <1>3, <1>8, <2>1, FinalizeSentRows
<1> QED
  BY <1>1, <1>4, <1>5, <1>6, <1>7, <1>8 DEF WorkerStep

\* Withdrawing the rows of an occurrence comes with a reaction or its end.
LEMMA WithdrawnFate ==
  ASSUME NEW o, NEW n \in DOMAIN ntf,
         ntf'[n] = ntf[n] \/ ntf'[n] = CancelRepeats(ntf, o)[n]
           \/ ntf'[n] = CancelPending(ntf, o)[n],
         occ'[o] # "pending" \/ o \in stopped'
  PROVE  Fate(n)
<1>1. CASE ntf[n].occ = o
  BY <1>1 DEF Fate
<1>2. CASE ntf[n].occ # o
  <2>1. ntf'[n] = ntf[n]
    BY <1>2 DEF CancelRepeats, CancelPending
  <2> QED
    BY <2>1 DEF Fate
<1> QED
  BY <1>1, <1>2

LEMMA ReactionFates ==
  ASSUME TypeOK, RowsExist, RowsEvolve, ReactionsNext, NEW n \in DOMAIN ntf
  PROVE  Fate(n)
<1>1. occ \in [Slot -> OccurrenceStatus \cup {"none"}] /\ ntf \in Seq(Notification)
  BY DEF TypeOK, StoreTypeOK
<1>2. ASSUME NEW o \in Slot, Acknowledge(o) PROVE Fate(n)
  BY <1>2, WithdrawnFate DEF Acknowledge
<1>3. ASSUME NEW o \in Slot, SkipOccurrence(o) PROVE Fate(n)
  <2>1. occ'[o] # "pending"
    BY <1>1, <1>3 DEF SkipOccurrence
  <2>2. CASE ntf[n].occ = o
    BY <2>1, <2>2 DEF Fate
  <2>3. CASE ntf[n].occ # o
    <3>1. ntf'[n] = ntf[n]
      BY <1>3, <2>3 DEF SkipOccurrence
    <3> QED
      BY <3>1 DEF Fate
  <2> QED
    BY <2>2, <2>3
<1>4. CASE ReactToMessage
  <2> DEFINE o == ntf[ctx.n].occ
  <2>1. \/ UNCHANGED ntf
        \/ ntf' = CancelRepeats(ntf, o) /\ o \in stopped'
    BY <1>4, Zenon DEF ReactToMessage
  <2>2. CASE UNCHANGED ntf
    BY <2>2 DEF Fate
  <2> QED
    BY <2>1, <2>2, WithdrawnFate
<1>5. ASSUME NEW m \in DOMAIN ntf, ReactToNotification(m) \/ PreviewMove(m) PROVE Fate(n)
  BY <1>5, WithdrawnFate DEF ReactToNotification, PreviewMove
<1>6. ASSUME NEW m \in DOMAIN ntf, NEW intent, NEW status, Close(m, intent, status)
      PROVE  Fate(n)
  <2>1. \/ UNCHANGED ntf
        \/ ntf' = CancelPending(ntf, ntf[m].occ) /\ ntf[m].occ \in stopped'
    BY <1>6 DEF Close, Withdraw
  <2>2. CASE UNCHANGED ntf
    BY <2>2 DEF Fate
  <2> QED
    BY <2>1, <2>2, WithdrawnFate
<1>7. ASSUME NEW m \in DOMAIN ntf, Snooze(m) PROVE Fate(n)
  <2>1. ntf[m].occ \in stopped'
    BY <1>7 DEF Snooze, Withdraw
  <2>2. PICK made \in DOMAIN ntf' :
          /\ \A k \in DOMAIN ntf' \ {made} :
               k \in DOMAIN ntf /\ ntf'[k] = CancelPending(ntf, ntf[m].occ)[k]
          /\ SnoozeSignal(made, ntf[m].occ)
    BY <1>7, SnoozeRows
  <2>3. n \in DOMAIN ntf' /\ ntf'[n].occ = ntf[n].occ
    BY GrownDomain DEF RowsEvolve, RowEvolves, TypeOK
  <2>4. CASE n = made
    BY <2>1, <2>2, <2>3, <2>4 DEF Fate, SnoozeSignal
  <2> QED
    BY <2>1, <2>2, <2>3, <2>4, WithdrawnFate
<1>8. ASSUME NEW m \in DOMAIN ntf, NEW target \in Slot, MoveTo(m, target) PROVE Fate(n)
  <2>1. ntf[m].occ \in stopped'
    BY <1>8 DEF MoveTo, Withdraw
  <2> QED
    BY <1>8, <2>1, MoveRows, WithdrawnFate
<1>9. CASE UpdateQuietHours
  BY <1>9 DEF UpdateQuietHours, Fate
<1> QED
  BY <1>2, <1>3, <1>4, <1>5, <1>6, <1>7, <1>8, <1>9
     DEF ReactionsNext, Complete, SkipFromNotification

LEMMA SchedulingFates ==
  ASSUME TypeOK, SchedulingNext, NEW n \in DOMAIN ntf
  PROVE  Fate(n)
<1>1. CASE ReconcileRead \/ ReconcileAbort
  BY <1>1 DEF ReconcileRead, ReconcileAbort, Fate
<1>2. CASE ReconcileWrite
  <2>1. ntf[n] \in Notification
    BY RowType DEF TypeOK, StoreTypeOK
  <2>2. /\ Revived(ntf[n]).status = "pending" /\ Revived(ntf[n]).fire = ntf[n].fire
    BY <2>1 DEF Revived, Notification
  <2> QED
    BY <1>2, <2>2, WriteRows DEF Fate
<1> QED
  BY <1>1, <1>2 DEF SchedulingNext

LEMMA RowFates ==
  ASSUME TypeOK, LifecycleInv, [Next]_vars, NEW n \in DOMAIN ntf
  PROVE  Fate(n)
<1>1. CASE Advance \/ UNCHANGED vars
  BY <1>1 DEF Advance, vars, storeVars, Fate
<1>2. RowsEvolve /\ RowsExist
  BY StepEvolves DEF LifecycleInv
<1> QED
  BY <1>1, <1>2, DeliveryFates, ReactionFates, SchedulingFates DEF Next

LEMMA RepeatsFinite ==
  ASSUME TypeOK, NEW o
  PROVE  IsFiniteSet(Repeats(o)) /\ Cardinality(Repeats(o)) \in Nat
<1>1. ntf \in Seq(Notification)
  BY DEF TypeOK, StoreTypeOK
<1>2. IsFiniteSet(DOMAIN ntf)
  <2>1. DOMAIN ntf = 1 .. Len(ntf) /\ Len(ntf) \in Nat
    BY <1>1, LenProperties
  <2> QED
    BY <2>1, FS_Interval
<1>3. Repeats(o) \in SUBSET DOMAIN ntf
  BY DEF Repeats, RowsOf
<1> HIDE DEF Repeats
<1> QED
  BY <1>2, <1>3, FS_Subset, FS_CardinalityType

-----------------------------------------------------------------------------
(* What is born, and what is put off. *)

\* What a success plans after it: the repeats are used up, or one is due later
\* than the reading of the clock.
LEMMA RepeatPlanned ==
  ASSUME TypeOK, NEW w \in Worker, FinalizeSent(w), NEW n \in DOMAIN ntf, n = wk[w].n
  PROVE  /\ \A m \in DOMAIN ntf' \ DOMAIN ntf : ntf'[m].fire > wk[w].now
         /\ Matters(n) /\ EntryOf[ntf[n].occ] \in Important =>
              \/ Cardinality(Repeats(ntf[n].occ)) >= MaxRepeats
              \/ \E m \in DOMAIN ntf' : /\ ntf'[m].occ = ntf[n].occ /\ ntf'[m].kind = "repeat"
                                        /\ ntf'[m].fire > wk[w].now
<1> DEFINE o == ntf[n].occ
           now == wk[w].now
           d == ApplyQuietPolicy("repeat", now + RepeatEvery, PlannedAt[o], HomeZone, quiet)
           taken == \E m \in Repeats(o) : ntf[m].fire = d.fire
           row == NewRow(o, "repeat", d.fire, d.silent)
           sent == Reported(ntf[n], wk[w].silent)
           done == [ntf EXCEPT ![n] = sent]
<1>1. /\ now \in Nat /\ wk[w].silent \in BOOLEAN /\ quiet \in Quiet
      /\ ntf \in Seq(Notification) /\ ntf[n] \in Notification
  BY Chosen, RowType DEF TypeOK, StoreTypeOK
<1>2. o \in Slot /\ PlannedAt[o] \in Int
  BY <1>1, RowType, StoreAssumption
<1>3. d.fire \in Int /\ d.silent \in BOOLEAN /\ d.fire > now
  <2>1. now + RepeatEvery \in Int /\ now + RepeatEvery > now
    BY <1>1, DeliveryAssumption
  <2>2. d.fire \in Int /\ d.silent \in BOOLEAN /\ d.fire >= now + RepeatEvery
    BY <1>1, <1>2, <2>1, PolicyType
  <2> HIDE DEF d, now
  <2> QED
    BY <1>1, <2>1, <2>2
<1>4. sent \in Notification /\ row \in Notification
  <2>1. sent \in Notification
    BY <1>1, OutcomeTypes, 0 \in Nat, 0 \in Int
  <2>2. row \in Notification
    BY <1>2, <1>3, NewRowType DEF NotificationKind
  <2> QED
    BY <2>1, <2>2
<1>5. row.occ = o /\ row.kind = "repeat" /\ row.fire = d.fire
  BY DEF NewRow
<1>6. ntf' = IF WantsRepeat(n) /\ ~ taken THEN Append(done, row) ELSE done
  BY DEF FinalizeSent, WithNextRepeat, Reported
<1>7. /\ sent.occ = ntf[n].occ /\ sent.kind = ntf[n].kind /\ sent.fire = ntf[n].fire
  BY <1>1 DEF Reported, Notification
<1> HIDE DEF row, sent, d, now
<1>8. /\ done \in Seq(Notification) /\ DOMAIN done = DOMAIN ntf
      /\ \A m \in DOMAIN ntf : done[m] = IF m = n THEN sent ELSE ntf[m]
  BY <1>1, <1>4, RowSet
<1> HIDE DEF done
<1>9. CASE ntf' = Append(done, row)
  <2>1. /\ DOMAIN ntf' = DOMAIN done \cup {Len(done) + 1}
        /\ ntf'[Len(done) + 1] = row
    BY <1>4, <1>8, <1>9, RowAppended
  <2> QED
    BY <1>3, <1>5, <1>8, <2>1 DEF now
<1>10. CASE ntf' = done /\ ~ (WantsRepeat(n) /\ ~ taken)
  <2>1. CASE taken
    <3>1. PICK m \in Repeats(o) : ntf[m].fire = d.fire
      BY <2>1
    <3>2. m \in DOMAIN ntf /\ ntf[m].occ = o /\ ntf[m].kind = "repeat"
      BY <3>1 DEF Repeats, RowsOf
    <3>3. ntf'[m].occ = o /\ ntf'[m].kind = "repeat" /\ ntf'[m].fire = d.fire
      BY <1>7, <1>8, <1>10, <3>1, <3>2
    <3> QED
      BY <1>3, <1>8, <1>10, <3>2, <3>3 DEF now
  <2>2. CASE ~ WantsRepeat(n)
    <3>1. ASSUME Matters(n), EntryOf[o] \in Important
          PROVE  Cardinality(Repeats(o)) >= MaxRepeats
      <4>1. MaxRepeats = 0 \/ ~ (Cardinality(Repeats(o)) < MaxRepeats)
        <5>1. ntf[n].kind \in {"main", "repeat"}
          BY <1>1, <3>1 DEF Matters, Notification, NotificationKind
        <5> QED
          BY <2>2, <3>1, <5>1 DEF WantsRepeat, Repeatable, Matters, Gone
      <4>2. Cardinality(Repeats(o)) \in Nat
        BY RepeatsFinite
      <4> QED
        BY <4>1, <4>2, DeliveryAssumption
    <3> QED
      BY <1>8, <1>10, <3>1
  <2> QED
    BY <1>10, <2>1, <2>2
<1> QED
  BY <1>6, <1>9, <1>10

\* New rows wait to be claimed; a repeat among them is due later than the tick
\* that planned it read.
LEMMA NewRowsWait ==
  ASSUME TypeOK, LifecycleInv, SnoozesKnown, [Next]_vars, NEW m \in DOMAIN ntf' \ DOMAIN ntf
  PROVE  ntf'[m].status = "pending" /\ (ntf'[m].kind = "repeat" => ntf'[m].fire >= 0)
<1>1. RowsEvolve /\ RowsExist
  BY StepEvolves DEF LifecycleInv
<1>2. CASE DeliveryNext
  <2>1. PICK w \in Worker : WorkerStep(w) \/ Crash(w)
    BY <1>2 DEF DeliveryNext
  <2>2. CASE FinalizeSent(w)
    <3>1. Fresh(ntf'[m]) /\ wk[w].n \in DOMAIN ntf
      BY <2>2, FinalizeSentRows
    <3>2. ntf'[m].fire > wk[w].now
      BY <2>2, <3>1, RepeatPlanned
    <3>3. wk[w].now \in Nat /\ ntf'[m].fire \in Int
      <4>1. ntf' \in Seq(Notification)
        BY <1>1 DEF RowsEvolve, RowsGrow
      <4> QED
        BY <4>1, Chosen, RowType
    <3> QED
      BY <3>1, <3>2, <3>3 DEF Fresh
  <2>3. CASE ~ FinalizeSent(w)
    <3>1. DOMAIN ntf' = DOMAIN ntf
      <4>1. \/ UNCHANGED ntf
            \/ \E n, row : ntf' = [ntf EXCEPT ![n] = row]
        BY <2>1, <2>3
           DEF WorkerStep, StartTick, EndTick, SelectCandidate, ClaimLost, ClaimCancel,
               ClaimDuplicate, ClaimPostpone, ClaimMiss, ClaimSend, SendAccepted, SendRefused,
               FinalizeFailed, Crash, storeVars
      <4> QED
        BY <4>1
    <3> QED
      BY <3>1
  <2> QED
    BY <2>2, <2>3
<1>3. CASE SchedulingNext
  <2>1. CASE ReconcileRead \/ ReconcileAbort
    BY <2>1 DEF ReconcileRead, ReconcileAbort
  <2>2. CASE ReconcileWrite
    BY <2>2, WriteRows DEF Fresh
  <2> QED
    BY <1>3, <2>1, <2>2 DEF SchedulingNext
<1>4. ASSUME NEW n \in DOMAIN ntf, Snooze(n)
      PROVE  ntf'[m].status = "pending" /\ ntf'[m].kind = "main"
  BY <1>4, SnoozeRows DEF SnoozeSignal
<1>5. ASSUME NEW n \in DOMAIN ntf, NEW target \in Slot, MoveTo(n, target)
      PROVE  ntf'[m].status = "pending" /\ ntf'[m].kind # "repeat"
  BY <1>1, <1>5, MoveRows DEF Fresh
<1>6. CASE ReactionsNext
  <2>1. \A o : DOMAIN CancelRepeats(ntf, o) = DOMAIN ntf
               /\ DOMAIN CancelPending(ntf, o) = DOMAIN ntf
    BY DEF CancelRepeats, CancelPending
  <2>2. ASSUME NEW o \in Slot, Acknowledge(o) \/ SkipOccurrence(o) PROVE FALSE
    BY <2>1, <2>2 DEF Acknowledge, SkipOccurrence
  <2>3. ~ ReactToMessage /\ ~ UpdateQuietHours
    BY <2>1, Zenon DEF ReactToMessage, UpdateQuietHours
  <2>4. ASSUME NEW n \in DOMAIN ntf, ReactToNotification(n) \/ PreviewMove(n) PROVE FALSE
    BY <2>1, <2>4 DEF ReactToNotification, PreviewMove
  <2>5. ASSUME NEW n \in DOMAIN ntf, NEW intent, NEW status, Close(n, intent, status)
        PROVE  FALSE
    BY <2>1, <2>5 DEF Close
  <2> QED
    BY <1>4, <1>5, <1>6, <2>2, <2>3, <2>4, <2>5 DEF ReactionsNext, Complete, SkipFromNotification
<1>7. CASE Advance \/ UNCHANGED vars
  BY <1>7 DEF Advance, vars, storeVars
<1> QED
  BY <1>2, <1>3, <1>6, <1>7 DEF Next

-----------------------------------------------------------------------------
(* Every success is followed by a repeat. *)

\* A message on its way is about a row that was due; in brief ticks the lease
\* is still running, so that nobody else has touched the row.
OnTime(w) ==
  InFlight(w) /\ Matters(wk[w].n) =>
    LET row == ntf[wk[w].n]
    IN  /\ row.fire <= wk[w].now
        /\ TicksAreBrief => row.status = "pending" /\ row.next >= wk[w].now + Lease

FlownAlone ==
  TicksAreBrief =>
    \A v, w \in Worker :
      v # w /\ InFlight(v) /\ InFlight(w) /\ wk[v].n = wk[w].n => ~ Matters(wk[v].n)

\* The repeats of o are used up, or one is due after the given moment.
RepeatAfter(o, t) ==
  \/ Cardinality(Repeats(o)) >= MaxRepeats
  \/ \E m \in Repeats(o) : ntf[m].fire > t

\* What was sent has a successor; so has a repeat that gave way to its twin.
Followed(n) ==
  /\ Matters(n) /\ EntryOf[ntf[n].occ] \in Important
  /\ ntf[n].status = "sent" \/ (ntf[n].kind = "repeat" /\ ntf[n].status = "cancelled")
  => RepeatAfter(ntf[n].occ, ntf[n].fire)

TicksEnd == \A w \in Worker : wk[w].pc # "idle" => clock <= wk[w].now + TickSpan

PersistenceInv ==
  /\ TicksEnd /\ FlownAlone
  /\ \A w \in Worker : OnTime(w)
  /\ \A n \in DOMAIN ntf : Followed(n) /\ (ntf[n].kind = "repeat" => ntf[n].fire >= 0)

LEMMA TicksEndKept ==
  ASSUME TypeOK, TicksEnd, [Next]_vars
  PROVE  TicksEnd'
<1>1. clock \in Nat /\ wk \in [Worker -> WorkerState] /\ TickSpan \in Nat
  BY StoreAssumption, DeliveryAssumption DEF TypeOK, StoreTypeOK, DeliveryTypeOK
<1>2. CASE DeliveryNext
  <2> DEFINE Made(w, state) ==
               /\ wk' = [wk EXCEPT ![w] = state]
               /\ \/ state.pc = "idle" /\ state.now = 0
                  \/ state.now = clock
                  \/ wk[w].pc # "idle" /\ state.now = wk[w].now
  <2>1. PICK w \in Worker : \E state : Made(w, state)
    BY <1>2, TickReads
  <2>2. PICK state : Made(w, state)
    BY <2>1
  <2>3. UNCHANGED clock
    BY <1>2, TickReads
  <2>4. \A v \in Worker : wk'[v] = IF v = w THEN state ELSE wk[v]
    BY <1>1, <2>2
  <2> QED
    BY <1>1, <2>2, <2>3, <2>4 DEF TicksEnd
<1>3. CASE Advance
  <2>1. /\ \A w \in Worker : wk[w].pc # "idle" => clock < wk[w].now + TickSpan
        /\ clock' = clock + 1 /\ UNCHANGED wk
    BY <1>3 DEF Advance, deliveryVars
  <2>2. \A w \in Worker : wk[w].now \in Nat
    BY Chosen
  <2> QED
    BY <1>1, <2>1, <2>2 DEF TicksEnd
<1>4. CASE \/ ReactionsNext /\ UNCHANGED deliveryVars
           \/ SchedulingNext /\ UNCHANGED deliveryVars
           \/ UNCHANGED vars
  <2>1. UNCHANGED <<clock, wk>>
    BY <1>4 DEF vars, storeVars, deliveryVars, SchedulingNext, ReconcileRead, ReconcileWrite,
                ReconcileAbort, ReactionsNext, Acknowledge, SkipOccurrence, ReactToMessage,
                ReactToNotification, Complete, SkipFromNotification, Close, Snooze,
                PreviewMove, MoveTo, UpdateQuietHours
  <2> QED
    BY <2>1 DEF TicksEnd
<1> QED
  BY <1>2, <1>3, <1>4 DEF Next

\* In brief ticks a row in flight is not due for anybody.
LEMMA LeaseRuns ==
  ASSUME TicksAreBrief, TypeOK, LeaseInv, PersistenceInv, NEW v \in Worker, NEW w \in Worker,
         StillDue(v), InFlight(w), wk[w].n = wk[v].n
  PROVE  ~ Matters(wk[w].n)
<1> SUFFICES ASSUME Matters(wk[w].n) PROVE FALSE
  OBVIOUS
<1>1. /\ ntf[wk[v].n].next <= wk[v].now /\ wk[v].now \in Nat
      /\ ntf[wk[v].n].next \in Int
  BY ClaimReads, RowType
<1>2. wk[v].now <= clock
  BY DEF LeaseInv
<1>3. ntf[wk[v].n].next >= wk[w].now + Lease
  BY DEF PersistenceInv, OnTime
<1>4. clock <= wk[w].now + TickSpan
  BY DEF PersistenceInv, TicksEnd, InFlight
<1>5. wk[w].now \in Nat /\ clock \in Nat /\ Lease \in Nat /\ TickSpan \in Nat
  BY Chosen, StoreAssumption, DeliveryAssumption DEF TypeOK, StoreTypeOK
<1> QED
  BY <1>1, <1>2, <1>3, <1>4, <1>5 DEF TicksAreBrief

\* Away from quiet hours no main signal and no repeat is ever put off.
LEMMA NothingPutOff ==
  ASSUME NoNights, TypeOK, LeaseInv, QuietChosen, PersistenceInv, NEW v \in Worker,
         StillDue(v), ntf[wk[v].n].kind # "pre"
  PROVE  /\ ~ IsPostponed(wk[v].n, wk[v].now)
         /\ FireAt(wk[v].n, wk[v].now) = ntf[wk[v].n].fire
<1> DEFINE n == wk[v].n  now == wk[v].now
<1>1. /\ n \in DOMAIN ntf /\ now \in Nat /\ ntf[n] \in Notification /\ ntf[n].fire <= now
  BY ClaimReads
<1>2. CASE ntf[n].kind = "main"
  BY <1>1, <1>2, MainStays
<1>3. CASE ntf[n].kind = "repeat"
  <2>1. ntf[n].fire \in 0 .. MaxTime /\ now \in 0 .. MaxTime
    <3>1. ntf[n].fire >= 0 /\ now <= clock
      BY <1>1, <1>3 DEF PersistenceInv, LeaseInv
    <3>2. clock \in 0 .. MaxTime /\ MaxTime \in Nat /\ ntf[n].fire \in Int
      BY <1>1, RowType, StoreAssumption DEF TypeOK, StoreTypeOK
    <3> QED
      BY <1>1, <3>1, <3>2
  <2>2. ~ QuietAt(HomeZone, ntf[n].fire, quiet) /\ ~ QuietAt(HomeZone, now, quiet)
    BY <2>1 DEF NoNights, QuietChosen
  <2>3. Quieted(n).fire = ntf[n].fire
    BY <2>2 DEF Quieted, ApplyQuietPolicy
  <2>4. ~ IsPostponed(n, now)
    BY <2>1, <2>2, <2>3 DEF IsPostponed
  <2> QED
    BY <2>4 DEF FireAt
<1> QED
  BY <1>1, <1>2, <1>3 DEF Notification, NotificationKind

\* A failure reports on a row that is still waiting, and keeps its moment.
LEMMA FailureReports ==
  ASSUME TypeOK, NEW w \in Worker, FinalizeFailed(w)
  PROVE  /\ ntf'[wk[w].n].fire = ntf[wk[w].n].fire
         /\ UNCHANGED ntf \/ ntf'[wk[w].n].status \in {"pending", "failed"}
<1> DEFINE n == wk[w].n
           att == ntf[n].att + 1
<1>1. n \in DOMAIN ntf /\ ntf[n] \in Notification
  BY Chosen, RowType DEF FinalizeFailed, TypeOK, StoreTypeOK
<1>2. CASE ntf' = [ntf EXCEPT ![n] = Failed(ntf[n], att)]
  <2>1. Failed(ntf[n], att).fire = ntf[n].fire /\ Failed(ntf[n], att).status = "failed"
    <3> HIDE DEF n, att
    <3> QED
      BY <1>1 DEF Failed, Notification
  <2> QED
    BY <1>1, <1>2, <2>1
<1>3. ASSUME NEW provider, ntf[n].status = "pending",
             ntf' = [ntf EXCEPT ![n] = Retried(ntf[n], att, wk[w].now + RetryDelay(att, provider))]
      PROVE  ntf'[n].fire = ntf[n].fire /\ ntf'[n].status = "pending"
  <2> DEFINE next == wk[w].now + RetryDelay(att, provider)
  <2>1. /\ Retried(ntf[n], att, next).fire = ntf[n].fire
        /\ Retried(ntf[n], att, next).status = ntf[n].status
    <3> HIDE DEF n, att, next
    <3> QED
      BY <1>1 DEF Retried, Notification
  <2> QED
    BY <1>1, <1>3, <2>1
<1> QED
  BY <1>2, <1>3 DEF FinalizeFailed, Failed, Retried, Pending

LEMMA PutOffLater ==
  ASSUME TypeOK, NEW w \in Worker, StillDue(w), IsPostponed(wk[w].n, wk[w].now)
  PROVE  PostponedTo(wk[w].n, wk[w].now) > ntf[wk[w].n].fire
<1> DEFINE n == wk[w].n
           now == wk[w].now
           end == QuietEnd(HomeZone, now, quiet)
<1>1. /\ n \in DOMAIN ntf /\ now \in Nat /\ ntf[n] \in Notification /\ ntf[n].fire <= now
  BY ClaimReads
<1>2. quiet \in Quiet /\ HomeZone \in Zone /\ ntf[n].fire \in Int
  BY <1>1, HomeZoneType DEF TypeOK, StoreTypeOK, Notification
<1>3. CASE Quieted(n).fire > ntf[n].fire
  BY <1>3 DEF PostponedTo
<1>4. CASE ~ (Quieted(n).fire > ntf[n].fire)
  <2>1. QuietAt(HomeZone, now, quiet)
    BY <1>4 DEF IsPostponed
  <2>2. end \in Int /\ end > now
    BY <1>1, <1>2, <2>1, HomeZoneType, QuietEndIsLater
  <2>3. PostponedTo(n, now) = end
    BY <1>4 DEF PostponedTo
  <2> HIDE DEF end
  <2> QED
    BY <1>1, <1>2, <2>2, <2>3
<1> QED
  BY <1>3, <1>4

\* What other workers do to a row in flight leaves its moment alone, and in
\* brief ticks there is nothing they can do.
LEMMA FlightUndisturbed ==
  ASSUME TicksAreBrief \/ NoNights, TypeOK, LeaseInv, QuietChosen, PersistenceInv,
         NEW v \in Worker, NEW w \in Worker, v # w, InFlight(w),
         Handles(v, wk[w].n), Matters(wk[w].n)
  PROVE  ~ TicksAreBrief /\ ntf'[wk[w].n].fire = ntf[wk[w].n].fire
<1>1. PICK n \in DOMAIN ntf : n = wk[w].n /\ n = wk[v].n
  BY Chosen DEF InFlight, Handles
<1>2. ntf \in Seq(Notification) /\ ntf[n] \in Notification
  BY RowType DEF TypeOK, StoreTypeOK
<1>3. CASE ClaimDuplicate(v) \/ ClaimPostpone(v) \/ ClaimMiss(v) \/ ClaimSend(v)
  <2>1. StillDue(v)
    BY <1>3 DEF ClaimDuplicate, ClaimPostpone, ClaimMiss, ClaimSend, Deliverable, Claimable
  <2>2. ~ TicksAreBrief
    BY <1>1, <2>1, LeaseRuns
  <2>3. ~ IsPostponed(n, wk[v].now) /\ FireAt(n, wk[v].now) = ntf[n].fire
    BY <1>1, <2>1, <2>2, NothingPutOff DEF Matters
  <2>4. CASE ClaimMiss(v)
    <3> DEFINE silent == ntf[n].silent /\ ~ IsPostponed(n, wk[v].now)
               row == Ended(ntf[n], "missed", ntf[n].fire, silent)
    <3>1. ntf' = [ntf EXCEPT ![n] = row]
      BY <1>1, <2>3, <2>4 DEF ClaimMiss, Ended
    <3>2. row.fire = ntf[n].fire
      <4> HIDE DEF silent
      <4> QED
        BY <1>2 DEF Ended, Notification
    <3> HIDE DEF row
    <3> QED
      BY <1>1, <1>2, <2>2, <3>1, <3>2
  <2>5. CASE ClaimSend(v)
    <3> DEFINE silent == SilentClaim(n, wk[v].now)
               next == wk[v].now + Lease
               row == Leased(ntf[n], ntf[n].fire, silent, next)
    <3>1. ntf' = [ntf EXCEPT ![n] = row]
      BY <1>1, <2>3, <2>5 DEF ClaimSend, Leased
    <3>2. row.fire = ntf[n].fire
      <4> HIDE DEF silent, next
      <4> QED
        BY <1>2 DEF Leased, Notification
    <3> HIDE DEF row
    <3> QED
      BY <1>1, <1>2, <2>2, <3>1, <3>2
  <2> QED
    BY <1>1, <1>3, <2>3, <2>4, <2>5 DEF ClaimDuplicate, ClaimPostpone
<1>4. CASE FinalizeSent(v) \/ FinalizeFailed(v)
  <2>1. ~ TicksAreBrief
    BY <1>1, <1>4 DEF PersistenceInv, FlownAlone, InFlight, FinalizeSent, FinalizeFailed
  <2>2. CASE FinalizeSent(v)
    BY <1>1, <1>2, <2>1, <2>2, FinalizeSentRows DEF Reported, Notification
  <2>3. CASE FinalizeFailed(v)
    BY <1>1, <2>1, <2>3, FailureReports
  <2> QED
    BY <1>4, <2>2, <2>3
<1> QED
  BY <1>3, <1>4 DEF Handles

LEMMA ClaimLeavesOthers ==
  ASSUME TypeOK, NEW w \in Worker, ClaimSend(w), NEW v \in Worker, v # w
  PROVE  wk'[v] = wk[v]
<1>1. wk \in [Worker -> WorkerState]
  BY DEF TypeOK, DeliveryTypeOK
<1>2. \E silent : wk' = [wk EXCEPT ![w].pc = "sending", ![w].silent = silent]
  BY DEF ClaimSend
<1> QED
  BY <1>1, <1>2

LEMMA FlightsOnTime ==
  ASSUME TicksAreBrief \/ NoNights, TypeOK, LifecycleInv, SnoozesKnown, LeaseInv, QuietChosen,
         PersistenceInv, [Next]_vars, NEW w \in Worker
  PROVE  OnTime(w)'
<1> SUFFICES ASSUME InFlight(w)', Matters(wk[w].n)'
             PROVE  /\ ntf'[wk'[w].n].fire <= wk'[w].now
                    /\ TicksAreBrief => /\ ntf'[wk'[w].n].status = "pending"
                                        /\ ntf'[wk'[w].n].next >= wk'[w].now + Lease
  BY DEF OnTime, TicksAreBrief
<1>1. RowsEvolve
  BY StepEvolves
<1>2. CASE ClaimSend(w)
  <2> DEFINE n == wk[w].n
  <2>1. StillDue(w) /\ FireAt(n, wk[w].now) <= wk[w].now
    BY <1>2 DEF ClaimSend, Deliverable, Claimable
  <2>2. /\ n \in DOMAIN ntf /\ ntf[n].status = "pending"
        /\ ntf \in Seq(Notification) /\ ntf[n] \in Notification /\ wk[w].now \in Nat
    BY <2>1, ClaimReads
  <2>3. wk'[w].n = n /\ wk'[w].now = wk[w].now
    BY <1>2, <2>2, ClaimSendLeases
  <2> DEFINE fire == FireAt(n, wk[w].now)
             silent == SilentClaim(n, wk[w].now)
             next == wk[w].now + Lease
             row == Leased(ntf[n], fire, silent, next)
  <2>4. ntf' = [ntf EXCEPT ![n] = row]
    BY <1>2 DEF ClaimSend, Leased
  <2>5. row.fire = fire /\ row.status = "pending" /\ row.next = next
    <3> HIDE DEF n, fire, silent, next
    <3> QED
      BY <2>2 DEF Leased, Notification
  <2>6. ntf'[n] = row
    BY <2>2, <2>4
  <2>7. next >= wk[w].now + Lease
    BY <2>2, DeliveryAssumption
  <2> HIDE DEF row
  <2> QED
    BY <2>1, <2>3, <2>5, <2>6, <2>7
<1>3. CASE InFlight(w) /\ wk'[w].n = wk[w].n /\ wk'[w].now = wk[w].now
  <2>1. PICK n \in DOMAIN ntf : n = wk[w].n
    BY <1>3, Chosen DEF InFlight
  <2>2. Matters(n)'
    BY <1>3, <2>1
  <2>3. Matters(n)
    BY <1>1, <2>2, MatteredBefore
  <2>4. /\ ntf[n].fire <= wk[w].now
        /\ TicksAreBrief => ntf[n].status = "pending" /\ ntf[n].next >= wk[w].now + Lease
    BY <1>3, <2>1, <2>3 DEF PersistenceInv, OnTime
  <2>5. ntf'[n].occ = ntf[n].occ
    BY <1>1, <2>2, MatteredBefore
  <2>6. ~ (occ'[ntf[n].occ] # "pending" \/ ntf[n].occ \in stopped')
    BY <2>2, <2>5 DEF Matters, Gone
  <2>7. Fate(n)
    BY RowFates
  <2>8. ASSUME NEW v \in Worker, Handles(v, n)
        PROVE  ~ TicksAreBrief /\ ntf'[n].fire = ntf[n].fire
    <3>1. v # w
      <4> SUFFICES ASSUME v = w PROVE FALSE
        OBVIOUS
      <4>1. CASE ClaimDuplicate(w) \/ ClaimPostpone(w) \/ ClaimMiss(w) \/ ClaimSend(w)
        BY <1>3, <4>1
           DEF InFlight, ClaimDuplicate, ClaimPostpone, ClaimMiss, ClaimSend, Deliverable,
               Claimable, StillDue
      <4>2. CASE FinalizeSent(w) \/ FinalizeFailed(w)
        <5>1. wk' = [wk EXCEPT ![w] = NextRow(w)]
          BY <4>2 DEF FinalizeSent, FinalizeFailed
        <5>2. wk'[w].pc = "tick"
          BY <5>1 DEF NextRow, IdleWorker, TypeOK, DeliveryTypeOK
        <5> QED
          BY <5>2 DEF InFlight
      <4> QED
        BY <2>8, <4>1, <4>2 DEF Handles
    <3> QED
      BY <1>3, <2>1, <2>3, <2>8, <3>1, FlightUndisturbed
  <2>9. CASE /\ ntf'[n].status = ntf[n].status /\ ntf'[n].fire = ntf[n].fire
             /\ ntf'[n].next = ntf[n].next
    BY <1>3, <2>1, <2>4, <2>9
  <2>10. CASE /\ ntf[n].status = "cancelled" /\ ntf'[n].fire = ntf[n].fire
    BY <1>3, <2>1, <2>4, <2>10
  <2>11. CASE \E v \in Worker : Handles(v, n)
    BY <1>3, <2>1, <2>4, <2>8, <2>11
  <2> QED
    BY <2>6, <2>7, <2>9, <2>10, <2>11 DEF Fate
<1>4. ASSUME NEW v \in Worker, v # w, ClaimSend(v)
      PROVE  InFlight(w) /\ wk'[w].n = wk[w].n /\ wk'[w].now = wk[w].now
  <2>1. wk'[w] = wk[w]
    BY <1>4, ClaimLeavesOthers
  <2> QED
    BY <2>1 DEF InFlight
<1> QED
  BY <1>2, <1>3, <1>4, OnlyClaimsSend DEF FlightsKept

LEMMA FlownAloneKept ==
  ASSUME TypeOK, LifecycleInv, SnoozesKnown, LeaseInv, PersistenceInv, [Next]_vars
  PROVE  FlownAlone'
<1> SUFFICES ASSUME TicksAreBrief, NEW v \in Worker, NEW w \in Worker, v # w,
                    InFlight(v)', InFlight(w)', wk'[v].n = wk'[w].n, Matters(wk[v].n)'
             PROVE  FALSE
  BY DEF FlownAlone, TicksAreBrief
<1>1. RowsEvolve
  BY StepEvolves
<1>2. CASE FlightsKept
  <2>1. /\ InFlight(v) /\ InFlight(w) /\ wk[v].n = wk[w].n /\ wk'[v].n = wk[v].n
    BY <1>2 DEF FlightsKept
  <2>2. ~ Matters(wk[v].n)
    BY <2>1 DEF PersistenceInv, FlownAlone
  <2>3. PICK n \in DOMAIN ntf : n = wk[v].n
    BY <2>1, Chosen DEF InFlight
  <2>4. Matters(n)'
    BY <2>1, <2>3
  <2> QED
    BY <1>1, <2>2, <2>3, <2>4, MatteredBefore
<1>3. ASSUME NEW u \in Worker, NEW x \in Worker, u # x, ClaimSend(u),
             InFlight(x)', wk'[u].n = wk'[x].n, Matters(wk[u].n)'
      PROVE  FALSE
  <2>1. PICK n \in DOMAIN ntf : n = wk[u].n
    BY <1>3, ClaimReads DEF ClaimSend, Deliverable, Claimable
  <2>2. StillDue(u) /\ wk'[u].n = n /\ wk'[x] = wk[x]
    <3>1. StillDue(u)
      BY <1>3 DEF ClaimSend, Deliverable, Claimable
    <3>2. wk'[u].n = n
      BY <1>3, <2>1, ClaimSendLeases
    <3>3. wk'[x] = wk[x]
      BY <1>3, ClaimLeavesOthers
    <3> QED
      BY <3>1, <3>2, <3>3
  <2>3. Matters(n)'
    BY <1>3, <2>2
  <2>4. Matters(n)
    BY <1>1, <2>3, MatteredBefore
  <2>5. InFlight(x) /\ wk[x].n = n
    BY <1>3, <2>2 DEF InFlight
  <2> QED
    BY <2>1, <2>2, <2>4, <2>5, LeaseRuns
<1>4. ASSUME NEW u \in Worker, ClaimSend(u), ~ FlightsKept
      PROVE  u = v \/ u = w
  <2> SUFFICES ASSUME u # v, u # w PROVE FALSE
    OBVIOUS
  <2>1. wk'[v] = wk[v] /\ wk'[w] = wk[w]
    BY <1>4, ClaimLeavesOthers
  <2>2. InFlight(v) /\ InFlight(w) /\ wk[v].n = wk[w].n
    BY <2>1 DEF InFlight
  <2>3. ~ Matters(wk[v].n)
    BY <2>2 DEF PersistenceInv, FlownAlone
  <2>4. PICK n \in DOMAIN ntf : n = wk[v].n
    BY <2>2, Chosen DEF InFlight
  <2>5. Matters(n)'
    BY <2>1, <2>4
  <2> QED
    BY <1>1, <2>3, <2>4, <2>5, MatteredBefore
<1>5. ASSUME NEW u \in Worker, ClaimSend(u), u = v \/ u = w PROVE FALSE
  <2>1. Matters(wk[w].n)'
    OBVIOUS
  <2> QED
    BY <1>3, <1>5, <2>1
<1> QED
  BY <1>2, <1>4, <1>5, OnlyClaimsSend

LEMMA Carried ==
  ASSUME TypeOK, RowsEvolve, NEW o \in Slot, NEW t \in Int, RepeatAfter(o, t)
  PROVE  RepeatAfter(o, t)'
<1>1. /\ ntf \in Seq(Notification) /\ ntf' \in Seq(Notification)
      /\ DOMAIN ntf \subseteq DOMAIN ntf'
  BY GrownDomain DEF TypeOK, StoreTypeOK, RowsEvolve, RowsGrow
<1>2. ASSUME NEW m \in Repeats(o)
      PROVE  m \in Repeats(o)' /\ ntf'[m].fire >= ntf[m].fire
  <2>1. m \in DOMAIN ntf /\ ntf[m].occ = o /\ ntf[m].kind = "repeat"
    BY DEF Repeats, RowsOf
  <2>2. m \in DOMAIN ntf' /\ RowEvolves(ntf[m], ntf'[m])
    BY <1>1, <2>1 DEF RowsEvolve
  <2> QED
    BY <2>1, <2>2 DEF RowEvolves, Repeats, RowsOf
<1>3. CASE Cardinality(Repeats(o)) >= MaxRepeats
  <2>1. IsFiniteSet(Repeats(o)') /\ Cardinality(Repeats(o)') \in Nat
    <3>1. IsFiniteSet(DOMAIN ntf')
      <4>1. DOMAIN ntf' = 1 .. Len(ntf') /\ Len(ntf') \in Nat
        BY <1>1, LenProperties
      <4> QED
        BY <4>1, FS_Interval
    <3>2. Repeats(o)' \in SUBSET DOMAIN ntf'
      BY DEF Repeats, RowsOf
    <3> HIDE DEF Repeats
    <3> QED
      BY <3>1, <3>2, FS_Subset, FS_CardinalityType
  <2>2. Cardinality(Repeats(o)) <= Cardinality(Repeats(o)')
    <3>1. Repeats(o) \in SUBSET (Repeats(o)')
      BY <1>2
    <3> HIDE DEF Repeats
    <3> QED
      BY <2>1, <3>1, FS_Subset
  <2>3. Cardinality(Repeats(o)) \in Nat
    BY RepeatsFinite
  <2>4. Cardinality(Repeats(o)') >= MaxRepeats
    BY <1>3, <2>1, <2>2, <2>3, DeliveryAssumption
  <2> QED
    BY <2>4 DEF RepeatAfter
<1>4. CASE \E m \in Repeats(o) : ntf[m].fire > t
  <2>1. PICK m \in Repeats(o) : ntf[m].fire > t
    BY <1>4
  <2>2. m \in DOMAIN ntf /\ m \in Repeats(o)' /\ ntf'[m].fire >= ntf[m].fire
    BY <1>2 DEF Repeats, RowsOf
  <2>3. ntf[m].fire \in Int /\ ntf'[m].fire \in Int
    BY <1>1, <2>2, RowType
  <2>4. ntf'[m].fire > t
    BY <2>1, <2>2, <2>3
  <2> QED
    BY <2>2, <2>4 DEF RepeatAfter
<1> QED
  BY <1>3, <1>4 DEF RepeatAfter

\* What a worker makes of a row it handles is followed up.
LEMMA HandledFollowed ==
  ASSUME TicksAreBrief \/ NoNights, TypeOK, LeaseInv, QuietChosen, PersistenceInv,
         RowsEvolve, NEW v \in Worker, NEW n \in DOMAIN ntf, Handles(v, n),
         Matters(n), EntryOf[ntf[n].occ] \in Important,
         ntf'[n].status = "sent" \/ (ntf[n].kind = "repeat" /\ ntf'[n].status = "cancelled"),
         NEW o \in Slot, o = ntf[n].occ, NEW t \in Int, t = ntf'[n].fire
  PROVE  RepeatAfter(o, t)'
<1>1. n = wk[v].n
  BY DEF Handles
<1>3. /\ ntf \in Seq(Notification) /\ ntf[n] \in Notification /\ wk[v].now \in Int
      /\ ntf' \in Seq(Notification) /\ n \in DOMAIN ntf' /\ ntf[n].fire \in Int
      /\ DOMAIN ntf \subseteq DOMAIN ntf'
  <2>1. wk[v].now \in Nat
    BY Chosen
  <2> QED
    BY <2>1, RowType, GrownDomain DEF TypeOK, StoreTypeOK, RowsEvolve, RowsGrow
<1>5. CASE ClaimPostpone(v) \/ ClaimMiss(v) \/ ClaimSend(v)
  <2>1. StillDue(v)
    BY <1>5 DEF ClaimPostpone, ClaimMiss, ClaimSend, Deliverable, Claimable
  <2>2. ntf[n].status = "pending"
    BY <1>1, <2>1, ClaimReads
  <2>3. \/ ntf'[n].status = ntf[n].status \/ ntf'[n].status = "missed"
    <3>1. CASE ClaimPostpone(v)
      <4>1. \E fire, silent, next :
              ntf' = [ntf EXCEPT ![n].fire = fire, ![n].silent = silent, ![n].next = next]
        BY <1>1, <3>1 DEF ClaimPostpone
      <4> QED
        BY <1>3, <4>1 DEF Notification
    <3>2. CASE ClaimMiss(v)
      <4> DEFINE fire == FireAt(n, wk[v].now)
                 silent == ntf[n].silent /\ ~ IsPostponed(n, wk[v].now)
                 row == Ended(ntf[n], "missed", fire, silent)
      <4>1. ntf' = [ntf EXCEPT ![n] = row]
        BY <1>1, <3>2 DEF ClaimMiss, Ended
      <4>2. row.status = "missed"
        <5> HIDE DEF fire, silent
        <5> QED
          BY <1>3 DEF Ended, Notification
      <4> HIDE DEF row
      <4> QED
        BY <1>3, <4>1, <4>2
    <3>3. CASE ClaimSend(v)
      BY <1>1, <3>3, ClaimSendLeases
    <3> QED
      BY <1>5, <3>1, <3>2, <3>3
  <2> QED
    BY <2>2, <2>3
<1>6. CASE ClaimDuplicate(v)
  <2> DEFINE to == PostponedTo(n, wk[v].now)
  <2>1. StillDue(v) /\ IsPostponed(n, wk[v].now) /\ HasTwinAt(n, to)
    BY <1>1, <1>6 DEF ClaimDuplicate
  <2>2. /\ ntf' = [ntf EXCEPT ![n].status = "cancelled"]
    BY <1>1, <1>6 DEF ClaimDuplicate
  <2>3. ntf[n].kind = "repeat"
    <3>1. ntf[n].kind \in {"main", "repeat"}
      BY <1>3 DEF Matters, Notification, NotificationKind
    <3> QED
      BY <2>1, <3>1, MainStays
  <2>4. PICK m \in DOMAIN ntf : m # n /\ KeyOf(ntf[m]) = [KeyOf(ntf[n]) EXCEPT !.fire = to]
    BY <2>1 DEF HasTwinAt
  <2>5. ntf[m].occ = o /\ ntf[m].kind = "repeat" /\ ntf[m].fire = to
    <3> HIDE DEF to
    <3> QED
      BY <2>3, <2>4 DEF KeyOf
  <2>6. to > ntf[n].fire
    BY <1>1, <1>3, <2>1, PutOffLater
  <2>7. ntf'[m] = ntf[m] /\ ntf'[n].fire = ntf[n].fire /\ m \in DOMAIN ntf'
    BY <1>3, <2>2, <2>4 DEF Notification
  <2>8. m \in Repeats(o)' /\ ntf'[m].fire > t
    <3> HIDE DEF to
    <3> QED
      BY <2>5, <2>6, <2>7 DEF Repeats, RowsOf
  <2> QED
    BY <2>8 DEF RepeatAfter
<1>7. CASE FinalizeSent(v)
  <2>1. ntf'[n].fire = ntf[n].fire
    BY <1>1, <1>3, <1>7, FinalizeSentRows, ZenonT(40) DEF Reported, Notification
  <2>2. ntf[n].fire <= wk[v].now
    <3>1. InFlight(v)
      BY <1>7 DEF FinalizeSent, InFlight
    <3> QED
      BY <1>1, <3>1 DEF PersistenceInv, OnTime
  <2>3. \/ Cardinality(Repeats(o)) >= MaxRepeats
        \/ \E m \in DOMAIN ntf' : /\ ntf'[m].occ = o /\ ntf'[m].kind = "repeat"
                                  /\ ntf'[m].fire > wk[v].now
    BY <1>1, <1>7, RepeatPlanned
  <2>4. CASE Cardinality(Repeats(o)) >= MaxRepeats
    <3>1. RepeatAfter(o, t)
      BY <2>4 DEF RepeatAfter
    <3> QED
      BY <3>1, Carried
  <2>5. ASSUME NEW m \in DOMAIN ntf', ntf'[m].occ = o, ntf'[m].kind = "repeat",
               ntf'[m].fire > wk[v].now
        PROVE  RepeatAfter(o, t)'
    <3>1. ntf'[m].fire \in Int
      BY <1>3, RowType
    <3>2. ntf'[m].fire > t
      BY <1>3, <2>1, <2>2, <2>5, <3>1
    <3> QED
      BY <2>5, <3>2 DEF RepeatAfter, Repeats, RowsOf
  <2> QED
    BY <2>3, <2>4, <2>5
<1>8. CASE FinalizeFailed(v)
  <2>1. ntf'[n].fire = ntf[n].fire
    BY <1>1, <1>8, FailureReports
  <2>2. UNCHANGED ntf
    BY <1>1, <1>8, FailureReports
  <2>3. RepeatAfter(o, t)
    BY <2>2 DEF PersistenceInv, Followed
  <2> QED
    BY <2>3, Carried
<1> QED
  BY <1>5, <1>6, <1>7, <1>8 DEF Handles

LEMMA FollowedKept ==
  ASSUME TicksAreBrief \/ NoNights, TypeOK, LifecycleInv, SnoozesKnown, LeaseInv, QuietChosen,
         PersistenceInv, [Next]_vars, NEW n \in DOMAIN ntf'
  PROVE  Followed(n)' /\ (ntf'[n].kind = "repeat" => ntf'[n].fire >= 0)
<1>1. RowsEvolve
  BY StepEvolves
<1>2. CASE n \notin DOMAIN ntf
  BY <1>2, NewRowsWait DEF Followed
<1>3. CASE n \in DOMAIN ntf
  <2>1. ntf'[n].kind = "repeat" => ntf'[n].fire >= 0
    <3>1. /\ RowEvolves(ntf[n], ntf'[n])
          /\ ntf \in Seq(Notification) /\ ntf' \in Seq(Notification)
      BY <1>1, <1>3 DEF RowsEvolve, RowsGrow, TypeOK, StoreTypeOK
    <3>2. ntf[n].fire \in Int /\ ntf'[n].fire \in Int
      BY <1>3, <3>1, RowType
    <3>3. ntf[n].kind = "repeat" => ntf[n].fire >= 0
      BY <1>3 DEF PersistenceInv
    <3> QED
      BY <3>1, <3>2, <3>3 DEF RowEvolves
  <2>2. ASSUME Matters(n)', EntryOf[ntf'[n].occ] \in Important,
               ntf'[n].status = "sent" \/ (ntf'[n].kind = "repeat" /\ ntf'[n].status = "cancelled")
        PROVE  RepeatAfter(ntf[n].occ, ntf[n].fire)'
    <3>1. Matters(n) /\ ntf'[n].occ = ntf[n].occ /\ ntf'[n].kind = ntf[n].kind
      BY <1>1, <1>3, <2>2, MatteredBefore
    <3>2. PICK o \in Slot : o = ntf'[n].occ
      BY <1>1, RowType DEF RowsEvolve, RowsGrow
    <3>3. PICK t \in Int : t = ntf'[n].fire
      BY <1>1, RowType DEF RowsEvolve, RowsGrow
    <3>4. RepeatAfter(o, t)'
      <4>1. ~ (occ'[ntf[n].occ] # "pending" \/ ntf[n].occ \in stopped')
        BY <2>2, <3>1 DEF Matters, Gone
      <4>2. CASE ntf'[n].status = ntf[n].status /\ ntf'[n].fire = ntf[n].fire
        <5>1. RepeatAfter(o, t)
          BY <1>3, <2>2, <3>1, <3>2, <3>3, <4>2 DEF PersistenceInv, Followed
        <5> QED
          BY <1>1, <5>1, Carried
      <4>3. CASE \E w \in Worker : Handles(w, n)
        BY <1>1, <1>3, <2>2, <3>1, <3>2, <3>3, <4>3, HandledFollowed
      <4>4. Fate(n)
        BY <1>3, RowFates
      <4> QED
        BY <2>2, <4>1, <4>2, <4>3, <4>4 DEF Fate
    <3> QED
      BY <3>2, <3>3, <3>4
  <2> QED
    BY <2>1, <2>2 DEF Followed
<1> QED
  BY <1>2, <1>3

LEMMA PersistenceInvHolds == TicksAreBrief \/ NoNights => (Spec => []PersistenceInv)
<1> SUFFICES ASSUME TicksAreBrief \/ NoNights PROVE Spec => []PersistenceInv
  OBVIOUS
<1>1. Init => PersistenceInv
  <2> SUFFICES ASSUME Init PROVE PersistenceInv
    OBVIOUS
  <2>1. ntf = << >> /\ \A w \in Worker : wk[w] = IdleWorker
    BY DEF Init, StoreInit, DeliveryInit
  <2>2. IdleWorker.pc = "idle"
    BY DEF IdleWorker
  <2> QED
    BY <2>1, <2>2 DEF PersistenceInv, TicksEnd, FlownAlone, OnTime, InFlight
<1>2. ASSUME TypeOK, LifecycleInv, SnoozesKnown, LeaseInv, QuietChosen,
             PersistenceInv, [Next]_vars
      PROVE  PersistenceInv'
  <2>1. TicksEnd' /\ FlownAlone'
    BY <1>2, TicksEndKept, FlownAloneKept DEF PersistenceInv
  <2>2. \A w \in Worker : OnTime(w)'
    BY <1>2, FlightsOnTime
  <2>3. \A n \in DOMAIN ntf' : Followed(n)' /\ (ntf'[n].kind = "repeat" => ntf'[n].fire >= 0)
    BY <1>2, FollowedKept
  <2> QED
    BY <2>1, <2>2, <2>3 DEF PersistenceInv
<1> QED
  BY <1>1, <1>2, LifecycleInvHolds, SnoozesHold, LeaseInvHolds, QuietStaysChosen, TypeCorrect,
     PTL DEF Spec

\* An important occurrence the owner has not reacted to keeps its repeats
\* coming, however ticks overlap, die and are put off by quiet hours: when the
\* main signal has been recorded and the repeats are not used up, one is still
\* to come, unless the last was itself missed or given up.  It takes ticks
\* shorter than the lease, or a time without quiet hours.
THEOREM PersistenceAlwaysKept ==
  TicksAreBrief \/ NoNights => (Spec => []PersistenceKept)
<1> SUFFICES ASSUME TicksAreBrief \/ NoNights PROVE Spec => []PersistenceKept
  OBVIOUS
<1>1. ASSUME TypeOK, RepeatsBounded, PersistenceInv
      PROVE  PersistenceKept
  <2> SUFFICES ASSUME NEW o \in Slot, EntryOf[o] \in Important, occ[o] = "pending",
                      o \notin stopped, NEW main \in RowsOf(o),
                      ntf[main].kind = "main", ntf[main].status = "sent",
                      Cardinality(Repeats(o)) # MaxRepeats
               PROVE  \E n \in Repeats(o) : ntf[n].status \in {"pending", "missed", "failed"}
    BY DEF PersistenceKept
  <2>1. ~ (Cardinality(Repeats(o)) >= MaxRepeats)
    <3>1. Cardinality(Repeats(o)) <= MaxRepeats
      BY <1>1 DEF RepeatsBounded
    <3>2. Cardinality(Repeats(o)) \in Nat
      BY <1>1, RepeatsFinite
    <3> QED
      BY <3>1, <3>2, DeliveryAssumption
  <2>2. ~ Gone(o)
    BY DEF Gone
  <2>3. ASSUME NEW n \in RowsOf(o), ntf[n].kind # "pre",
               ntf[n].status = "sent" \/ (ntf[n].kind = "repeat" /\ ntf[n].status = "cancelled")
        PROVE  \E m \in Repeats(o) : ntf[m].fire > ntf[n].fire
    <3>1. n \in DOMAIN ntf /\ ntf[n].occ = o
      BY DEF RowsOf
    <3>2. Followed(n) /\ Matters(n)
      BY <1>1, <2>2, <2>3, <3>1 DEF PersistenceInv, Matters
    <3> QED
      BY <2>1, <2>3, <3>1, <3>2 DEF Followed, RepeatAfter
  <2>4. Repeats(o) # {}
    BY <2>3
  <2> DEFINE Before(x, y) ==
               ntf[x].fire < ntf[y].fire \/ (ntf[x].fire = ntf[y].fire /\ x < y)
             R == {p \in Repeats(o) \X Repeats(o) : Before(p[1], p[2])}
  <2>5. \A x \in Repeats(o) : x \in Nat /\ ntf[x].fire \in Int
    <3>1. ntf \in Seq(Notification)
      BY <1>1 DEF TypeOK, StoreTypeOK
    <3>2. DOMAIN ntf = 1 .. Len(ntf) /\ Len(ntf) \in Nat
      BY <3>1, LenProperties
    <3> QED
      BY <3>1, <3>2, RowType DEF Repeats, RowsOf
  <2>6. LineOrder(Repeats(o), R)
    <3>1. \A x, y \in Repeats(o) : <<x, y>> \in R <=> Before(x, y)
      OBVIOUS
    <3>2. /\ \A x, y \in Repeats(o) : x # y => Before(x, y) \/ Before(y, x)
          /\ \A x, y, z \in Repeats(o) : Before(x, y) /\ Before(y, z) => Before(x, z)
          /\ \A x \in Repeats(o) : ~ Before(x, x)
      BY <2>5
    <3> HIDE DEF R, Before
    <3> QED
      BY <3>1, <3>2 DEF LineOrder
  <2>7. PICK last \in Repeats(o) : \A y \in Repeats(o) \ {last} : <<y, last>> \in R
    <3>1. Repeats(o) \in (SUBSET Repeats(o)) \ {{}} /\ IsFiniteSet(Repeats(o))
      BY <1>1, <2>4, RepeatsFinite
    <3> HIDE DEF R
    <3> QED
      BY <2>6, <3>1, LastExists
  <2>8. ntf[last].status \in {"pending", "missed", "failed"}
    <3> SUFFICES ASSUME ntf[last].status \notin {"pending", "missed", "failed"} PROVE FALSE
      OBVIOUS
    <3>1. last \in RowsOf(o) /\ ntf[last].kind = "repeat"
      BY DEF Repeats
    <3>2. ntf[last].status \in {"sent", "cancelled"}
      <4>1. ntf[last].status \in NotificationStatus
        BY <1>1, <3>1, RowType DEF RowsOf, TypeOK, StoreTypeOK
      <4> QED
        BY <4>1 DEF NotificationStatus
    <3>3. PICK m \in Repeats(o) : ntf[m].fire > ntf[last].fire
      BY <2>3, <3>1, <3>2
    <3>4. m = last \/ <<m, last>> \in R
      BY <2>7
    <3>5. m = last \/ ntf[m].fire <= ntf[last].fire
      BY <2>5, <3>4
    <3> QED
      BY <2>5, <3>3, <3>5
  <2> QED
    BY <2>8
<1> QED
  BY <1>1, PersistenceInvHolds, RepeatsStayBounded, TypeCorrect, PTL
=============================================================================
