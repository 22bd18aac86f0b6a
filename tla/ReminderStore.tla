---------------------------- MODULE ReminderStore ----------------------------
(***************************************************************************)
(* The rows PostgreSQL keeps about one user's reminders, and the helpers   *)
(* that several services apply to them inside their transactions.  The     *)
(* modules Delivery, Reactions and Scheduling each add the operations of   *)
(* one service; Reminders composes them.                                   *)
(*                                                                         *)
(* Occurrences are named by the slot they are planned at: UNIQUE(entry_id, *)
(* planned_at_utc) makes a slot hold at most one row.  Notification rows   *)
(* are a sequence, their serial id being the position.  A transaction that *)
(* holds the advisory locks for all it touches is one step.                *)
(*                                                                         *)
(* As in QuietHours, a definition whose comment starts with "Defect:" is a *)
(* plausible bug in the one that follows it and no part of the model.      *)
(***************************************************************************)
EXTENDS QuietHours, Sequences, FiniteSets

CONSTANTS
  Slot,            \* occurrence ids: the (entry, moment) pairs of this run
  Entry,
  EntryOf,         \* [Slot -> Entry]
  PlannedAt,       \* [Slot -> Int], occurrence.planned_at_utc
  Recurs,          \* the slots a routine's rule yields
  KindOf,          \* [Entry -> EntryKind]
  FirstAnchor,     \* [Entry -> Slot], start_at_utc or due_at_utc when saved
  Important,       \* entries saved with persistence = important
  Configured,      \* [Entry -> SUBSET Nat], reminders_min_before, {} if unset
  DefaultOffsets,  \* [EntryKind -> SUBSET Nat], the defaults of the config
  TaskMorning,     \* local clock of a task's morning reminder
  HomeZone,        \* the user's zone
  QuietChoices,    \* the quiet hours the user may choose, {} to never change
  FirstQuiet,      \* the quiet hours in force at the start
  MaxTime          \* bound on the clock

EntryKind == {"event", "task", "routine"}

ASSUME StoreAssumption ==
  /\ Slot \subseteq Nat
  /\ EntryOf \in [Slot -> Entry]
  /\ PlannedAt \in [Slot -> Int]
  /\ Recurs \subseteq Slot
  /\ KindOf \in [Entry -> EntryKind]
  /\ FirstAnchor \in [Entry -> Slot]
  /\ Important \subseteq Entry
  /\ Configured \in [Entry -> SUBSET Nat]
  /\ DefaultOffsets \in [EntryKind -> SUBSET Nat]
  /\ TaskMorning \in 0 .. Day - 1
  /\ HomeZone \in Zone
  /\ QuietChoices \subseteq Quiet
  /\ FirstQuiet \in Quiet
  /\ MaxTime \in Nat

\* Plans are finite: reminders_min_before is a stored list.
ASSUME FiniteAssumption ==
  /\ IsFiniteSet(Slot)
  /\ \A e \in Entry : IsFiniteSet(Configured[e])
  /\ \A k \in EntryKind : IsFiniteSet(DefaultOffsets[k])

\* No transition skips more wall time than resolve_local_wall searches.
ASSUME ZoneAssumption == HomeZone.after - HomeZone.before <= RollLimit

\* One occurrence per entry and moment.
ASSUME SlotAssumption ==
  \A a, b \in Slot :
    EntryOf[a] = EntryOf[b] /\ PlannedAt[a] = PlannedAt[b] => a = b

VARIABLES
  clock,     \* the wall clock every service reads, in UTC slots
  quiet,     \* user_settings.quiet_from, quiet_to
  occ,       \* occurrence status per slot, "none" while there is no row
  anchor,    \* per entry, the slot its start_at_utc or due_at_utc names
  ntf,       \* the notification rows
  ctx,       \* the active_contexts row: notification id and expiry
  stopped,   \* occurrences with an "occurrence_reaction" audit record
  ledger,    \* "notification_action" audit records
  rec        \* the reconciliation transaction, which locks user_settings

storeVars == <<clock, quiet, occ, anchor, ntf, ctx, stopped, ledger, rec>>

-----------------------------------------------------------------------------
(* Rows. *)

OccurrenceStatus   == {"pending", "done", "skipped", "moved", "missed"}
NotificationStatus == {"pending", "sent", "cancelled", "missed", "failed"}
ReactionAction     == {"complete", "snooze", "skip", "move"}

\* NULL of next_attempt_at_utc compares like a moment long past.
NoAttempt == 0

\* copies counts the messages Telegram has accepted for the row.  It is the
\* user's chat, not a column.
Notification ==
  [occ : Slot, kind : NotificationKind, fire : Int, silent : BOOLEAN,
   status : NotificationStatus, next : Int, att : Nat, copies : Nat]

NewRow(o, kind, fire, silent) ==
  [occ |-> o, kind |-> kind, fire |-> fire, silent |-> silent,
   status |-> "pending", next |-> NoAttempt, att |-> 0, copies |-> 0]

NoContext == [n |-> 0, exp |-> 0]

\* made is the scheduled_notification_id of a snooze, 0 for other actions.
LedgerRecord == [src : Nat, intent : ReactionAction, made : Nat]

NoReconcile == [pc |-> "idle", born |-> {}, plan |-> {}]

StoreTypeOK ==
  /\ clock \in 0 .. MaxTime
  /\ quiet \in Quiet
  /\ occ \in [Slot -> OccurrenceStatus \cup {"none"}]
  /\ anchor \in [Entry -> Slot]
  /\ ntf \in Seq(Notification)
  /\ ctx \in [n : 0 .. Len(ntf), exp : Int]
  /\ stopped \in SUBSET Slot
  /\ ledger \in SUBSET LedgerRecord
  /\ rec \in [pc : {"idle", "writing"}, born : SUBSET Slot, plan : SUBSET Slot]

StoreInit ==
  /\ clock = 0
  /\ quiet = FirstQuiet
  /\ occ = [o \in Slot |-> "none"]
  /\ anchor = FirstAnchor
  /\ ntf = << >>
  /\ ctx = NoContext
  /\ stopped = {}
  /\ ledger = {}
  /\ rec = NoReconcile

-----------------------------------------------------------------------------
(* Helpers shared by the services. *)

RowsOf(o) == {n \in DOMAIN ntf : ntf[n].occ = o}

Pending(n) == ntf[n].status = "pending"

Closed(o) == occ[o] \in {"done", "skipped", "moved"}

\* FOR UPDATE on user_settings: reconciliation keeps it until it commits, and
\* every button reaction needs it.
SettingsFree == rec.pc = "idle"

\* The context points at some notification of o.
ContextOf(o) == ctx.n # 0 /\ ntf[ctx.n].occ = o

\* Defect: a button press leaves the context in place.
ContextKept(o) == ctx

ContextWithout(o) == IF ContextOf(o) THEN NoContext ELSE ctx

\* delivery.cancel_pending_repeats.
CancelRepeats(rows, o) ==
  [n \in DOMAIN rows |->
     IF rows[n].occ = o /\ rows[n].kind = "repeat" /\ rows[n].status = "pending"
       THEN [rows[n] EXCEPT !.status = "cancelled", !.next = NoAttempt]
       ELSE rows[n]]

\* Defect: every row of the occurrence is cancelled, sent ones too.
CancelAll(rows, o) ==
  [n \in DOMAIN rows |->
     IF rows[n].occ = o THEN [rows[n] EXCEPT !.status = "cancelled"] ELSE rows[n]]

\* reactions._cancel_pending.
CancelPending(rows, o) ==
  [n \in DOMAIN rows |->
     IF rows[n].occ = o /\ rows[n].status = "pending"
       THEN [rows[n] EXCEPT !.status = "cancelled", !.next = NoAttempt]
       ELSE rows[n]]

\* A snooze was recorded for some notification of o.
Snoozed(o) ==
  \E l \in ledger : l.intent = "snooze" /\ ntf[l.src].occ = o

\* scheduling._notification_specs: the standard plan of an occurrence.
NotificationSpecs(o) ==
  LET e          == EntryOf[o]
      planned    == PlannedAt[o]
      unset      == Configured[e] = {}
      offsets    == IF unset THEN DefaultOffsets[KindOf[e]]
                             ELSE {d \in Configured[e] : d > 0}
      morning    == ResolveWallTime(HomeZone,
                      (Local(HomeZone, planned) \div Day) * Day + TaskMorning)
      hasMorning == KindOf[e] = "task" /\ unset /\ morning < planned
  IN  {[kind |-> "main", fire |-> planned]}
        \cup {[kind |-> "pre", fire |-> planned - d] : d \in offsets}
        \cup {[kind |-> "pre", fire |-> t] : t \in {u \in {morning} : hasMorning}}

\* The values schedule_notifications upserts for the occurrences of plan.
PlanKeys(plan) ==
  UNION {{[occ |-> o, kind |-> s.kind, fire |-> s.fire] : s \in NotificationSpecs(o)}
           : o \in plan}

KeyOf(row) == [occ |-> row.occ, kind |-> row.kind, fire |-> row.fire]

\* The order of the INSERT, which gives new rows their ids.
KeyBefore(a, b) ==
  \/ a.occ < b.occ
  \/ a.occ = b.occ /\ a.fire < b.fire
  \/ a.occ = b.occ /\ a.fire = b.fire /\ a.kind = "main" /\ b.kind = "pre"

\* ON CONFLICT DO UPDATE ... WHERE status = 'cancelled': a cancelled row with
\* a planned key is pending again; its retry columns stay as stored.
Reactivate(rows, keys) ==
  [n \in DOMAIN rows |->
     IF rows[n].status = "cancelled" /\ KeyOf(rows[n]) \in keys
       THEN [rows[n] EXCEPT !.status = "pending", !.silent = FALSE]
       ELSE rows[n]]

MissingKeys(rows, keys) ==
  {k \in keys : \A n \in DOMAIN rows : KeyOf(rows[n]) # k}

\* What the upsert may leave behind: exactly one sequence, the missing rows
\* being appended in KeyBefore order.
Upserted(rows, plan) ==
  LET keys    == PlanKeys(plan)
      missing == MissingKeys(rows, keys)
      sorted  == {s \in [1 .. Cardinality(missing) -> missing] :
                    \A i, j \in DOMAIN s : i < j => KeyBefore(s[i], s[j])}
  IN  {Reactivate(rows, keys)
         \o [i \in DOMAIN s |-> NewRow(s[i].occ, s[i].kind, s[i].fire, FALSE)]
         : s \in sorted}
=============================================================================
