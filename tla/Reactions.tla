------------------------------ MODULE Reactions ------------------------------
(***************************************************************************)
(* What the owner does about a reminder: the button actions of             *)
(* domain/reactions.py, the acknowledgements and context reactions of      *)
(* domain/delivery.py, and skip_occurrence of domain/scheduling.py.        *)
(*                                                                         *)
(* Every operation is one transaction under the UserContext and Occurrence *)
(* advisory locks, which finalisation and claims take as well, so it is    *)
(* one step.  A DomainError rolls the transaction back: the operation is   *)
(* then not enabled.  A repeated button press returns the stored result    *)
(* and changes nothing.                                                    *)
(***************************************************************************)
EXTENDS ReminderStore

CONSTANTS
  SnoozeFor,    \* how far a snooze puts the signal off
  Inputs        \* the operations the owner of this run uses

ASSUME ReactionsAssumption ==
  /\ SnoozeFor \in Nat \ {0}
  /\ Inputs \subseteq {"acknowledge", "message", "notification", "complete",
                       "skip", "snooze", "preview", "move", "skip_occurrence",
                       "quiet_hours"}

-----------------------------------------------------------------------------
(* Preconditions. *)

\* The user has seen notification n: it is recorded as sent, or its message is
\* out and the context still names it.
Reactable(n) ==
  \/ ntf[n].status = "sent"
  \/ Pending(n) /\ ctx.n = n /\ ctx.exp > clock

\* Defect: user_settings is not locked.
SourceUnlocked(n) ==
  /\ n \in DOMAIN ntf
  /\ \A l \in ledger : l.src # n
  /\ Reactable(n)

\* reactions._lock_source for a first press on notification n: user_settings
\* is locked, which waits for a running reconciliation.
SourceLocked(n) ==
  /\ SettingsFree
  /\ n \in DOMAIN ntf
  /\ \A l \in ledger : l.src # n
  /\ Reactable(n)

\* Defect: closed occurrences may be acted on as well.
ActionableAlways(o) == occ[o] # "none"

Actionable(o) == occ[o] \in {"pending", "missed"}

Record(n, intent, made) ==
  ledger' = ledger \cup {[src |-> n, intent |-> intent, made |-> made]}

-----------------------------------------------------------------------------
(* Acknowledgements: they stop the repeats and leave the occurrence open. *)

\* delivery.acknowledge_occurrence, the /ack command and its API twin.
Acknowledge(o) ==
  /\ "acknowledge" \in Inputs
  /\ occ[o] # "none"
  /\ ntf' = CancelRepeats(ntf, o)
  /\ ctx' = ContextWithout(o)
  /\ stopped' = stopped \cup {o}
  /\ UNCHANGED <<clock, quiet, occ, anchor, ledger, rec>>

\* delivery.react_to_active_context: any message of the owner.  An expired
\* context is only removed.
ReactToMessage ==
  /\ "message" \in Inputs
  /\ ctx.n # 0
  /\ ctx' = NoContext
  /\ IF ctx.exp <= clock
       THEN UNCHANGED <<ntf, stopped>>
       ELSE /\ ntf' = CancelRepeats(ntf, ntf[ctx.n].occ)
            /\ stopped' = stopped \cup {ntf[ctx.n].occ}
  /\ UNCHANGED <<clock, quiet, occ, anchor, ledger, rec>>

\* delivery.react_to_notification: a reply to, or a button of, notification n.
ReactToNotification(n) ==
  LET o == ntf[n].occ
  IN  /\ "notification" \in Inputs
      /\ Reactable(n)
      /\ ntf' = CancelRepeats(ntf, o)
      /\ ctx' = ContextWithout(o)
      /\ stopped' = stopped \cup {o}
      /\ UNCHANGED <<clock, quiet, occ, anchor, ledger, rec>>

-----------------------------------------------------------------------------
(* Button actions. *)

\* The part complete, skip, snooze and move share: acknowledge the occurrence
\* and cancel what is left of its plan.
Withdraw(o) ==
  /\ ctx' = ContextWithout(o)
  /\ stopped' = stopped \cup {o}

\* complete_from_notification and skip_from_notification.  A second
\* notification of an occurrence already in that status is only recorded.
Close(n, intent, status) ==
  LET o == ntf[n].occ
  IN  /\ SourceLocked(n)
      /\ \/ /\ occ[o] = status
            /\ UNCHANGED <<occ, ntf, ctx, stopped>>
         \/ /\ Actionable(o)
            /\ occ' = [occ EXCEPT ![o] = status]
            /\ ntf' = CancelPending(ntf, o)
            /\ Withdraw(o)
      /\ Record(n, intent, 0)
      /\ UNCHANGED <<clock, quiet, anchor, rec>>

Complete(n) == "complete" \in Inputs /\ Close(n, "complete", "done")

SkipFromNotification(n) == "skip" \in Inputs /\ Close(n, "skip", "skipped")

\* Defect: the delay is counted from the planned moment.
SnoozeTargetPlanned(o) == PlannedAt[o] + SnoozeFor

SnoozeTarget(o) == clock + SnoozeFor

\* snooze_from_notification: one MAIN signal replaces the plan and reopens a
\* missed occurrence.  A row already planned at that very moment is reused.
Snooze(n) ==
  LET o        == ntf[n].occ
      target   == SnoozeTarget(o)
      rows     == CancelPending(ntf, o)
      existing == {m \in RowsOf(o) : ntf[m].kind = "main" /\ ntf[m].fire = target}
  IN  /\ "snooze" \in Inputs
      /\ SourceLocked(n) /\ Actionable(o)
      /\ \/ /\ existing = {}
            /\ ntf' = Append(rows, NewRow(o, "main", target, FALSE))
            /\ Record(n, "snooze", Len(ntf) + 1)
         \/ \E m \in existing :
              /\ rows[m].status = "cancelled"
              /\ ntf' = [rows EXCEPT ![m].status = "pending", ![m].next = NoAttempt]
              /\ Record(n, "snooze", m)
      /\ occ' = [occ EXCEPT ![o] = "pending"]
      /\ Withdraw(o)
      /\ UNCHANGED <<clock, quiet, anchor, rec>>

\* preview_move_tomorrow: showing the card already stops the repeats, whatever
\* the status of the occurrence, but keeps the context.
PreviewMove(n) ==
  LET o == ntf[n].occ
  IN  /\ "preview" \in Inputs
      /\ SourceLocked(n)
      /\ ntf' = CancelRepeats(ntf, o)
      /\ stopped' = stopped \cup {o}
      /\ UNCHANGED <<clock, quiet, occ, anchor, ctx, ledger, rec>>

\* move_from_notification to a free slot of the same entry.  The anchor of a
\* one-off entry follows; the successor gets its own standard plan.
MoveTo(n, target) ==
  LET o == ntf[n].occ
      e == EntryOf[o]
  IN  /\ "move" \in Inputs
      /\ SourceLocked(n) /\ Actionable(o)
      /\ EntryOf[target] = e
      /\ PlannedAt[target] > clock
      /\ occ[target] = "none"
      /\ occ' = [occ EXCEPT ![o] = "moved", ![target] = "pending"]
      /\ anchor' = IF KindOf[e] = "routine" THEN anchor
                                            ELSE [anchor EXCEPT ![e] = target]
      /\ ntf' \in Upserted(CancelPending(ntf, o), {target})
      /\ Withdraw(o)
      /\ Record(n, "move", 0)
      /\ UNCHANGED <<clock, quiet, rec>>

-----------------------------------------------------------------------------
(* Operations of their own. *)

\* scheduling.skip_occurrence, for routines: /skip and the API.  It does not
\* lock user_settings, leaves next_attempt_at_utc alone and writes no reaction
\* marker.
SkipOccurrence(o) ==
  /\ "skip_occurrence" \in Inputs
  /\ KindOf[EntryOf[o]] = "routine"
  /\ occ[o] = "pending"
  /\ occ' = [occ EXCEPT ![o] = "skipped"]
  /\ ntf' = [n \in DOMAIN ntf |->
               IF ntf[n].occ = o /\ Pending(n)
                 THEN [ntf[n] EXCEPT !.status = "cancelled"] ELSE ntf[n]]
  /\ ctx' = ContextWithout(o)
  /\ UNCHANGED <<clock, quiet, anchor, stopped, ledger, rec>>

\* users.update_quiet_hours.  Its UPDATE of user_settings waits for the lock.
UpdateQuietHours ==
  /\ "quiet_hours" \in Inputs
  /\ SettingsFree
  /\ \E q \in QuietChoices : quiet' = q
  /\ UNCHANGED <<clock, occ, anchor, ntf, ctx, stopped, ledger, rec>>

ReactionsNext ==
  \/ \E o \in Slot : Acknowledge(o) \/ SkipOccurrence(o)
  \/ ReactToMessage
  \/ \E n \in DOMAIN ntf :
       \/ ReactToNotification(n)
       \/ Complete(n) \/ SkipFromNotification(n) \/ Snooze(n) \/ PreviewMove(n)
       \/ \E target \in Slot : MoveTo(n, target)
  \/ UpdateQuietHours
=============================================================================
