----------------------------- MODULE Scheduling -----------------------------
(***************************************************************************)
(* domain/scheduling.py under the hourly reconciliation of scheduler.py:   *)
(* unfold entries into occurrences, then write the notification plan of    *)
(* every pending occurrence.                                               *)
(*                                                                         *)
(* One transaction, but not one step: it reads the occurrences first and   *)
(* writes the notifications later, holding user_settings and no occurrence *)
(* lock.  Only what takes the settings lock is kept out of the gap.        *)
(***************************************************************************)
EXTENDS ReminderStore

CONSTANTS
  Lookback,   \* late_delivery_threshold_min: how far back slots are unfolded
  Horizon     \* materialize_horizon_days

ASSUME SchedulingAssumption == Lookback \in Nat /\ Horizon \in Nat

\* The entry yields this slot: a routine by its rule, a one-off entry by the
\* moment it is saved with.
Yields(o) ==
  LET e == EntryOf[o]
  IN  IF KindOf[e] = "routine" THEN o \in Recurs ELSE anchor[e] = o

\* Defect: a slot that has its row is unfolded again.
UnfoldedAgain ==
  {o \in Slot : /\ Yields(o)
                /\ clock - Lookback <= PlannedAt[o]
                /\ PlannedAt[o] <= clock + Horizon}

\* materialize_occurrences: slots of the window with no row yet
\* (ON CONFLICT DO NOTHING).
Unfolded ==
  {o \in Slot : /\ occ[o] = "none"
                /\ Yields(o)
                /\ clock - Lookback <= PlannedAt[o]
                /\ PlannedAt[o] <= clock + Horizon}

\* Defect: snoozed occurrences are planned like any other.
SchedulableSnoozed == {o \in Slot : occ[o] = "pending" \/ o \in Unfolded}

\* The occurrences schedule_notifications reads: pending ones, the new ones
\* among them, except those whose plan a snooze has replaced.
Schedulable ==
  {o \in Slot : (occ[o] = "pending" \/ o \in Unfolded) /\ ~ Snoozed(o)}

ReconcileRead ==
  /\ SettingsFree
  /\ rec' = [pc |-> "writing", born |-> Unfolded, plan |-> Schedulable]
  /\ UNCHANGED <<clock, quiet, occ, anchor, ntf, ctx, stopped, ledger>>

ReconcileWrite ==
  /\ rec.pc = "writing"
  /\ occ' = [o \in Slot |-> IF o \in rec.born THEN "pending" ELSE occ[o]]
  /\ ntf' \in Upserted(ntf, rec.plan)
  /\ rec' = NoReconcile
  /\ UNCHANGED <<clock, quiet, anchor, ctx, stopped, ledger>>

\* An exception or the end of the process: the transaction rolls back and the
\* next round starts afresh.
ReconcileAbort ==
  /\ rec.pc = "writing"
  /\ rec' = NoReconcile
  /\ UNCHANGED <<clock, quiet, occ, anchor, ntf, ctx, stopped, ledger>>

SchedulingNext == ReconcileRead \/ ReconcileWrite \/ ReconcileAbort
=============================================================================
