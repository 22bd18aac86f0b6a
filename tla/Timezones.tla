----------------------------- MODULE Timezones -----------------------------
(***************************************************************************)
(* domain/timezones.py: the owner moves to another time zone.              *)
(*                                                                         *)
(* A preview makes a card; confirming the card rebases the routines, so    *)
(* that they keep their local time, and opens a review of every one-off    *)
(* entry ahead, which keeps its moment unless the owner decides otherwise. *)
(* Each operation is one transaction, and commits only after it has held   *)
(* user_settings FOR UPDATE in its rebuild of the horizon, as              *)
(* reconciliation does.  Zones have a fixed offset here: what becomes of   *)
(* wall times around a transition is the matter of QuietClock.             *)
(*                                                                         *)
(* Delivery and the owner's buttons appear with as much of their effect as *)
(* a change of zone can meet; Reminders has the whole of it.               *)
(***************************************************************************)
EXTENDS QuietHours, Sequences, FiniteSets

CONSTANTS
  Tz,          \* zones the owner may move between
  HomeTz,      \* the one of the start
  Entry,       \* entry ids
  KindOf,      \* "event" or "routine"; a task with a deadline is like an event
  FirstAt,     \* start_at_utc of the entries
  PreOffsets,  \* reminders_min_before
  Horizon,     \* horizon_days
  Lookback,    \* late_delivery_threshold_min, for reconciliation
  Rebuild,     \* lookback_minutes of a rebuild: the default of the parameter
  MoveTries,   \* slots preview_move_tomorrow looks through for a free one
  Movable,     \* bound: entries whose occurrences are moved
  MaxCards,    \* bound: previews in a behaviour
  MaxTime      \* bound on the clock

ASSUME TimezonesAssumption ==
  /\ Tz \subseteq {z \in Zone : z.before = z.after} /\ HomeTz \in Tz
  /\ Entry \subseteq Nat /\ IsFiniteSet(Entry) /\ KindOf \in [Entry -> {"event", "routine"}]
  /\ FirstAt \in [Entry -> Nat]
  /\ PreOffsets \subseteq Nat \ {0} /\ IsFiniteSet(PreOffsets)
  /\ {Horizon, Lookback, Rebuild} \subseteq Nat /\ MoveTries \in Nat
  /\ Movable \subseteq Entry /\ MaxCards \in Nat /\ MaxTime \in Nat

VARIABLES
  clock,
  tz,       \* user_settings.tz
  entry,    \* entries
  occ,      \* occurrences, in id order, with their notifications
  cards,    \* cards shown to the owner, who may press one again and again
  changes,  \* tz_changes with their audit records, in id order
  aborted   \* a confirmation failed on a unique constraint

vars == <<clock, tz, entry, occ, cards, changes, aborted>>

Routines == {e \in Entry : KindOf[e] = "routine"}
OneOffs  == Entry \ Routines

\* A notification; rows of one occurrence are in id order.
Row == [kind : {"pre", "main"}, fire : Int, status : {"pending", "sent", "cancelled"}]

Occurrence ==
  [entry  : Entry,
   at     : Int,       \* planned_at_utc
   status : {"pending", "closed", "moved"},   \* done and skipped are alike here
   moved  : BOOLEAN,   \* moved_count > 0
   rows   : Seq(Row)]

\* at is start_at_utc or due_at_utc.
EntryState == [tz : Tz, local : 0 .. Day - 1, at : Int]

Card == {c \in [from : Tz, to : Tz] : c.from # c.to}

\* snapshot is review_entry_ids, decided the timezone_review records.
Change ==
  [card : Nat, from : Tz, to : Tz, reviewed : BOOLEAN,
   snapshot : SUBSET Entry, decided : SUBSET Entry]

TypeOK ==
  /\ clock \in 0 .. MaxTime
  /\ tz \in Tz
  /\ entry \in [Entry -> EntryState]
  /\ occ \in Seq(Occurrence)
  /\ cards \in Seq(Card)
  /\ changes \in Seq(Change)
  /\ aborted \in BOOLEAN

-----------------------------------------------------------------------------
(* The horizon: materialize_occurrences and schedule_notifications. *)

\* The moments an entry asks for between two instants.
Moments(e, state, from, to) ==
  LET dates == Local(state.tz, state.at) \div Day .. Local(state.tz, to) \div Day
      all   == IF KindOf[e] = "routine"
                 THEN {ResolveWallTime(state.tz, d * Day + state.local) : d \in dates}
                 ELSE {state.at}
  IN  all \cap (from .. to)

\* The elements of a set, in an order.
InOrder(S, Precedes(_, _)) ==
  CHOOSE s \in [1 .. Cardinality(S) -> S] :
    \A i, j \in DOMAIN s : i < j => Precedes(s[i], s[j])

Before(k, l) == k.entry < l.entry \/ (k.entry = l.entry /\ k.at < l.at)

\* The slots to insert, in order: ON CONFLICT DO NOTHING leaves the others.
NewSlots(occs, entries, from) ==
  LET wanted == UNION {{[entry |-> e, at |-> t] :
                          t \in Moments(e, entries[e], from, clock + Horizon)}
                         : e \in Entry}
      taken  == {[entry |-> occs[i].entry, at |-> occs[i].at] : i \in DOMAIN occs}
  IN  InOrder(wanted \ taken, Before)

\* The standard plan, the earliest signal first.
Plan(at) ==
  LET pres == InOrder(PreOffsets, >)
  IN  Append([i \in DOMAIN pres |->
                [kind |-> "pre", fire |-> at - pres[i], status |-> "pending"]],
             [kind |-> "main", fire |-> at, status |-> "pending"])

NewOccurrence(e, at, moved) ==
  [entry |-> e, at |-> at, status |-> "pending", moved |-> moved, rows |-> Plan(at)]

\* rebuild_timezone_horizon: what is new gets its plan, the rest stays.
Rebuilt(occs, entries, from) ==
  LET s == NewSlots(occs, entries, from)
  IN  occs \o [i \in DOMAIN s |-> NewOccurrence(s[i].entry, s[i].at, FALSE)]

Sooner(r, s) == r.fire < s.fire

\* The rows of the plan whose key is missing.
Missing(o) ==
  {r \in {Plan(o.at)[k] : k \in DOMAIN Plan(o.at)} :
     \A n \in DOMAIN o.rows : o.rows[n].kind # r.kind \/ o.rows[n].fire # r.fire}

\* The upsert of a whole plan: they are added, the earliest first.
WithPlan(o) ==
  IF o.status = "pending"
    THEN [o EXCEPT !.rows = @ \o InOrder(Missing(o), Sooner)]
    ELSE o

Reconciled(occs, entries) ==
  LET all == Rebuilt(occs, entries, clock - Lookback)
  IN  [i \in DOMAIN all |-> WithPlan(all[i])]

Init ==
  /\ clock = 0
  /\ tz = HomeTz
  /\ entry = [e \in Entry |-> [tz |-> HomeTz, at |-> FirstAt[e],
                               local |-> Local(HomeTz, FirstAt[e]) % Day]]
  /\ occ = Reconciled(<<>>, entry)
  /\ cards = <<>>
  /\ changes = <<>>
  /\ aborted = FALSE

Reconcile ==
  /\ occ' = Reconciled(occ, entry)
  /\ UNCHANGED <<clock, tz, entry, cards, changes, aborted>>

-----------------------------------------------------------------------------
(* Rebasing. *)

\* Occurrences of E that follow their entry to another zone.
Rebased(E) ==
  {i \in DOMAIN occ : occ[i].entry \in E /\ occ[i].status = "pending"
                                         /\ occ[i].at > clock}

\* Defect: the difference of the offsets is taken the wrong way round.
MomentInWrongWay(i, from, to) == occ[i].at + Offset(to, 0) - Offset(from, 0)

\* The moment with the same local date, and the entry's local time as long as
\* the entry is in the old zone.
MomentIn(i, from, to) ==
  LET state == entry[occ[i].entry]
      wall  == Local(from, occ[i].at)
      time  == IF state.tz = from THEN state.local ELSE wall % Day
  IN  WallToUtc(to, (wall \div Day) * Day + time)

\* Defect: the plan is left to the next reconciliation.
MovedByKeepingRows(o, shift) == [o EXCEPT !.at = @ + shift]

\* Pending rows keep their distance to the occurrence.
MovedBy(o, shift) ==
  LET Shifted(r) == IF r.status = "pending" THEN [r EXCEPT !.fire = @ + shift] ELSE r
  IN  [o EXCEPT !.at = @ + shift, !.rows = [n \in DOMAIN @ |-> Shifted(o.rows[n])]]

\* _rebase_occurrences for the entries of E.
OccAfter(E, from, to) ==
  [i \in DOMAIN occ |->
     IF i \in Rebased(E) THEN MovedBy(occ[i], MomentIn(i, from, to) - occ[i].at)
                         ELSE occ[i]]

\* The rows are updated one by one, occurrences by planned_at_utc and their
\* notifications by id, and PostgreSQL checks the unique constraints at once.
Collides(E, from, to) ==
  \E i \in Rebased(E) :
    LET shift == MomentIn(i, from, to) - occ[i].at
        rows  == occ[i].rows
        slotTaken ==
          \E j \in DOMAIN occ \ {i} :
            /\ occ[j].entry = occ[i].entry
            /\ occ[i].at + shift =
                 IF j \in Rebased(E) /\ occ[j].at < occ[i].at
                   THEN MomentIn(j, from, to) ELSE occ[j].at
        rowTaken ==
          \E n, m \in DOMAIN rows :
            /\ n # m /\ rows[n].kind = rows[m].kind
            /\ rows[n].status = "pending"
            /\ rows[m].status # "pending" \/ m > n
            /\ rows[m].fire = rows[n].fire + shift
    IN  shift # 0 /\ (slotTaken \/ rowTaken)

-----------------------------------------------------------------------------
(* Operations of the module. *)

\* preview_timezone_change: a new confirmation_id for where the owner is now.
Preview ==
  /\ Len(cards) < MaxCards
  /\ \E z \in Tz \ {tz} : cards' = Append(cards, [from |-> tz, to |-> z])
  /\ UNCHANGED <<clock, tz, entry, occ, changes, aborted>>

UsedBefore(c) == \E k \in DOMAIN changes : changes[k].card = c

\* Defect: an unfinished review does not stand in the way.
ConfirmableDuringReview(c) == ~ UsedBefore(c) /\ tz = cards[c].from

\* The card is not stale and no review is unfinished.
Confirmable(c) ==
  /\ ~ UsedBefore(c)
  /\ tz = cards[c].from
  /\ \A k \in DOMAIN changes : changes[k].reviewed

\* One-off entries still ahead.
ToReview == {e \in OneOffs : entry[e].at > clock}

\* _rebase_routine
RoutineIn(e, to) ==
  LET date == Local(entry[e].tz, entry[e].at) \div Day
  IN  [entry[e] EXCEPT !.at = WallToUtc(to, date * Day + entry[e].local), !.tz = to]

Confirm(c) ==
  LET to == cards[c].to
  IN  /\ Confirmable(c)
      /\ ~ Collides(Routines, tz, to)
      /\ tz' = to
      /\ entry' = [e \in Entry |-> IF e \in Routines THEN RoutineIn(e, to) ELSE entry[e]]
      /\ changes' = Append(changes,
           [card |-> c, from |-> tz, to |-> to, reviewed |-> ToReview = {},
            snapshot |-> ToReview, decided |-> {}])
      /\ occ' = Rebuilt(OccAfter(Routines, tz, to), entry', clock - Rebuild)
      /\ UNCHANGED <<clock, cards, aborted>>

\* The transaction is rolled back; the adapters let the IntegrityError through.
ConfirmAborts(c) ==
  /\ Confirmable(c)
  /\ Collides(Routines, tz, cards[c].to)
  /\ aborted' = TRUE
  /\ UNCHANGED <<clock, tz, entry, occ, cards, changes>>

\* A card pressed again, or a decision sent again: only the horizon is rebuilt.
Replay ==
  /\ \/ \E c \in DOMAIN cards : UsedBefore(c)
     \/ \E k \in DOMAIN changes : changes[k].decided # {}
  /\ occ' = Rebuilt(occ, entry, clock - Rebuild)
  /\ UNCHANGED <<clock, tz, entry, cards, changes, aborted>>

\* Defect: a decision is carried out every time it is sent.
UndecidedOrNot(k, e) == e \in changes[k].snapshot

Undecided(k, e) == e \in changes[k].snapshot \ changes[k].decided

\* The decision is recorded; the last one completes the review.
WithDecision(k, e) ==
  LET decided == changes[k].decided \cup {e}
  IN  [changes EXCEPT ![k].decided = decided,
                      ![k].reviewed = changes[k].snapshot \subseteq decided]

KeepAbsolute(k, e) ==
  /\ Undecided(k, e)
  /\ changes' = WithDecision(k, e)
  /\ occ' = Rebuilt(occ, entry, clock - Rebuild)
  /\ UNCHANGED <<clock, tz, entry, cards, aborted>>

\* Defect: the entry goes on counting as made in the old zone.
ReviewedEntryInOldZone(e, from, to) ==
  LET wall == Local(from, entry[e].at)
      at   == WallToUtc(to, wall)
  IN  [entry[e] EXCEPT !.at = at, !.local = Local(to, at) % Day]

\* _same_local_moment, and what KEEP_LOCAL stores.
ReviewedEntry(e, from, to) ==
  LET state == entry[e]
      wall  == Local(from, state.at)
      time  == IF state.tz = from THEN state.local ELSE wall % Day
      at    == WallToUtc(to, (wall \div Day) * Day + time)
  IN  [tz |-> to, at |-> at, local |-> Local(to, at) % Day]

KeepLocal(k, e) ==
  LET from == changes[k].from
      to   == changes[k].to
  IN  /\ Undecided(k, e)
      /\ ~ Collides({e}, from, to)
      /\ changes' = WithDecision(k, e)
      /\ entry' = [entry EXCEPT ![e] = ReviewedEntry(e, from, to)]
      /\ occ' = Rebuilt(OccAfter({e}, from, to), entry', clock - Rebuild)
      /\ UNCHANGED <<clock, tz, cards, aborted>>

-----------------------------------------------------------------------------
(* Delivery and buttons. *)

Deliver(i, n) ==
  /\ occ[i].rows[n].status = "pending" /\ occ[i].rows[n].fire <= clock
  /\ occ' = [occ EXCEPT ![i].rows[n].status = "sent"]
  /\ UNCHANGED <<clock, tz, entry, cards, changes, aborted>>

Cancelled(rows) ==
  [n \in DOMAIN rows |->
     IF rows[n].status = "pending" THEN [rows[n] EXCEPT !.status = "cancelled"]
                                   ELSE rows[n]]

ClosedAs(i, status) ==
  [occ EXCEPT ![i].status = status, ![i].rows = Cancelled(@)]

Announced(i) == \E n \in DOMAIN occ[i].rows : occ[i].rows[n].status = "sent"

\* The buttons of a message that has come: done or skipped.
Close(i) ==
  /\ occ[i].status = "pending" /\ Announced(i)
  /\ occ' = ClosedAs(i, "closed")
  /\ UNCHANGED <<clock, tz, entry, cards, changes, aborted>>

\* Where preview_move_tomorrow would put an occurrence: the same clock time a
\* day on, or the next free slot after it.
FreeTomorrow(i) ==
  LET date == Local(tz, occ[i].at) \div Day
      now  == Local(tz, clock) \div Day
      wall == ((IF date < now THEN now ELSE date) + 1) * Day + (Local(tz, occ[i].at) % Day)
  IN  {t \in {ResolveWallTime(tz, wall + k) : k \in 0 .. MoveTries} :
         \A j \in DOMAIN occ : occ[j].entry = occ[i].entry => occ[j].at # t}

\* The occurrence gets a successor; a one-off entry follows it.
Move(i) ==
  LET e == occ[i].entry
  IN  /\ e \in Movable
      /\ occ[i].status = "pending" /\ Announced(i)
      /\ \E t \in FreeTomorrow(i) :
           /\ \A u \in FreeTomorrow(i) : t <= u
           /\ t > clock
           /\ occ' = Append(ClosedAs(i, "moved"), NewOccurrence(e, t, TRUE))
           /\ entry' = IF e \in OneOffs
                THEN [entry EXCEPT ![e] = [tz |-> tz, at |-> t, local |-> Local(tz, t) % Day]]
                ELSE entry
      /\ UNCHANGED <<clock, tz, cards, changes, aborted>>

Advance ==
  /\ clock < MaxTime
  /\ clock' = clock + 1
  /\ UNCHANGED <<tz, entry, occ, cards, changes, aborted>>

Next ==
  \/ Preview
  \/ \E c \in DOMAIN cards : Confirm(c) \/ ConfirmAborts(c)
  \/ \E k \in DOMAIN changes, e \in Entry : KeepAbsolute(k, e) \/ KeepLocal(k, e)
  \/ Replay
  \/ Reconcile
  \/ \E i \in DOMAIN occ : \/ \E n \in DOMAIN occ[i].rows : Deliver(i, n)
                           \/ Close(i) \/ Move(i)
  \/ Advance

Spec == Init /\ [][Next]_vars

-----------------------------------------------------------------------------
(* Properties. *)

\* At most one change is under review, and the journal of changes is a path
\* from the zone of the start to the zone of the settings: no confirmation, not
\* even of a stale card or of one pressed twice, is lost or applied twice.
JournalIsAPath ==
  LET last == Len(changes)
  IN  /\ \A k \in 1 .. last :
           /\ changes[k].from = IF k = 1 THEN HomeTz ELSE changes[k - 1].to
           /\ k < last => changes[k].reviewed
           /\ changes[k].reviewed <=> changes[k].snapshot = changes[k].decided
      /\ tz = IF last = 0 THEN HomeTz ELSE changes[last].to

\* The wall time an entry was said with is the one its moment has in the zone
\* it was said in, through moves, reviews and journeys there and back: what the
\* next change of zone reads from local_time is never stale.
WallTimeConsistent ==
  \A e \in Entry : Local(entry[e].tz, entry[e].at) % Day = entry[e].local

\* Every occurrence of a routine still ahead, save one the owner has moved, is
\* at the routine's local time in the zone the owner is in now.
RoutineKeepsLocalTime ==
  \A i \in DOMAIN occ :
    LET o == occ[i]
    IN  o.entry \in Routines /\ o.status = "pending" /\ o.at > clock /\ ~ o.moved =>
          Local(tz, o.at) % Day = entry[o.entry].local

\* What is still to ring rings for the occurrence as it is planned now: an open
\* occurrence ahead has its main signal pending at its moment, and no pending
\* row is left at a distance the plan does not know.
SignalsFollow ==
  \A i \in DOMAIN occ :
    LET o == occ[i]
    IN  o.status = "pending" =>
          /\ o.at > clock => \E n \in DOMAIN o.rows : o.rows[n].kind = "main"
                               /\ o.rows[n].fire = o.at /\ o.rows[n].status = "pending"
          /\ \A n \in DOMAIN o.rows : o.rows[n].status = "pending" =>
               o.at - o.rows[n].fire \in IF o.rows[n].kind = "main" THEN {0} ELSE PreOffsets

\* A one-off entry and its occurrences change their moment only by a decision
\* the owner takes then and for the first time in that review, or by a move.
OneOffKeepsMoment ==
  [][\A e \in OneOffs :
       LET decided(chs) == {k \in DOMAIN chs : e \in chs[k].decided}
           mine         == {i \in DOMAIN occ : occ[i].entry = e}
           moved        == \E i \in mine : occ[i].status # "moved" /\ occ'[i].status = "moved"
       IN  \/ decided(changes') # decided(changes)
           \/ moved
           \/ entry'[e].at = entry[e].at /\ \A i \in mine : occ'[i].at = occ[i].at]_vars

-----------------------------------------------------------------------------
(* A claim of the repository the code does not keep. *)

\* README: the change of time zone is correct, routines follow the local time;
\* confirming a card that is neither stale nor waiting for a review succeeds.
ConfirmGoesThrough == ~ aborted
=============================================================================
