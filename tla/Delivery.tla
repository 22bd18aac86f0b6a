------------------------------ MODULE Delivery ------------------------------
(***************************************************************************)
(* domain/delivery.py: workers that claim due notifications, hand them to  *)
(* Telegram outside any transaction and record the outcome.                *)
(*                                                                         *)
(* A worker is one run of the tick loop.  Its tick reads the clock once,   *)
(* keeps that reading for the whole batch, and repeats three transactions  *)
(* with two gaps between them: choose a candidate without a lock, claim it *)
(* under the locks, send, record.  Anything may happen in the gaps, to the *)
(* rows and to the process.                                                *)
(***************************************************************************)
EXTENDS ReminderStore

CONSTANTS
  Worker,         \* tick loops running against the database
  BatchSize,      \* rows per tick
  Lease,          \* _DELIVERY_LEASE
  Late,           \* late_threshold_min
  ContextTtl,     \* active_context_ttl_min
  BaseDelay,      \* RetryPolicy.base_delay_s
  MaxDelay,       \* RetryPolicy.max_delay_s
  MaxAttempts,    \* RetryPolicy.max_attempts
  ProviderDelays, \* retry_after values Telegram may ask for
  RepeatEvery,    \* RepeatPolicy.interval_min
  MaxRepeats,     \* RepeatPolicy.max_repeats
  LostReplies,    \* whether an accepted message may be reported as an error
  TickSpan,       \* bound: slots a tick may last (its sends may be slow)
  MaxCrashes      \* bound: crashes of a worker in a behaviour

ASSUME DeliveryAssumption ==
  /\ IsFiniteSet(Worker)
  /\ BatchSize \in Nat \ {0} /\ Lease \in Nat \ {0} /\ Late \in Nat
  /\ ContextTtl \in Nat \ {0}
  /\ BaseDelay \in Nat \ {0} /\ MaxDelay \in Nat \ {0}
  /\ MaxAttempts \in Nat \ {0} /\ ProviderDelays \subseteq Nat \ {0}
  /\ RepeatEvery \in Nat \ {0} /\ MaxRepeats \in Nat
  /\ LostReplies \in BOOLEAN /\ TickSpan \in Nat /\ MaxCrashes \in Nat

VARIABLES
  wk,       \* per worker: where its tick stands
  crashes   \* ticks cut short so far

deliveryVars == <<wk, crashes>>

WorkerState ==
  [pc     : {"idle", "tick", "picked", "sending", "accepted", "failed"},
   now    : Nat,        \* the clock reading of the tick
   left   : Nat,        \* rows the tick may still take
   n      : Nat,        \* candidate, then the claimed notification
   silent : BOOLEAN,    \* disable_notification of the command
   fatal  : BOOLEAN]    \* the transport raised PermanentDeliveryError

IdleWorker ==
  [pc |-> "idle", now |-> 0, left |-> 0, n |-> 0, silent |-> FALSE, fatal |-> FALSE]

DeliveryTypeOK ==
  /\ wk \in [Worker -> WorkerState]
  /\ \A w \in Worker :
       wk[w].pc \notin {"idle", "tick"} => wk[w].n \in DOMAIN ntf /\ wk[w].left > 0
  /\ crashes \in 0 .. MaxCrashes

DeliveryInit == wk = [w \in Worker |-> IdleWorker] /\ crashes = 0

InFlight(w) == wk[w].pc \in {"sending", "accepted", "failed"}

-----------------------------------------------------------------------------
(* Policies. *)

\* RetryPolicy.delay_s after the given number of failed attempts; provider is
\* 0 when Telegram named no delay.
RetryDelay(attempts, provider) ==
  LET capped(d) == IF d <= MaxDelay THEN d ELSE MaxDelay
  IN  IF provider # 0
        THEN capped(provider)
        ELSE capped(BaseDelay * 2 ^ (IF attempts > 1 THEN attempts - 1 ELSE 0))

\* Rows the candidate query selects.
Due(now) ==
  {n \in DOMAIN ntf : Pending(n) /\ ntf[n].fire <= now /\ ntf[n].next <= now}

\* ORDER BY fire_at_utc, id.
ServedBefore(n, m) ==
  ntf[n].fire < ntf[m].fire \/ (ntf[n].fire = ntf[m].fire /\ n <= m)

Quieted(n) ==
  ApplyQuietPolicy(ntf[n].kind, ntf[n].fire, PlannedAt[ntf[n].occ], HomeZone, quiet)

\* reschedule_at: by the plan for any kind, by the actual moment for a repeat.
IsPostponed(n, now) ==
  \/ Quieted(n).fire > ntf[n].fire
  \/ ntf[n].kind = "repeat" /\ QuietAt(HomeZone, now, quiet)

PostponedTo(n, now) ==
  IF Quieted(n).fire > ntf[n].fire THEN Quieted(n).fire
                                   ELSE QuietEnd(HomeZone, now, quiet)

\* Defect: only pending rows count as duplicates.
HasPendingTwinAt(n, fire) ==
  \E m \in DOMAIN ntf :
    m # n /\ Pending(m) /\ KeyOf(ntf[m]) = [KeyOf(ntf[n]) EXCEPT !.fire = fire]

HasTwinAt(n, fire) ==
  \E m \in DOMAIN ntf : m # n /\ KeyOf(ntf[m]) = [KeyOf(ntf[n]) EXCEPT !.fire = fire]

\* The moment lateness is measured from, after any postponement.
FireAt(n, now) == IF IsPostponed(n, now) THEN PostponedTo(n, now) ELSE ntf[n].fire

ClaimCancels(n) ==
  \/ occ[ntf[n].occ] # "pending"
  \/ ntf[n].kind = "repeat" /\ ntf[n].occ \in stopped

\* Defect: the planned moment decides, not the actual one.
SilentAsPlanned(n, now) ==
  \/ ntf[n].silent /\ ~ IsPostponed(n, now)
  \/ Quieted(n).silent

SilentClaim(n, now) ==
  \/ ntf[n].silent /\ ~ IsPostponed(n, now)
  \/ Quieted(n).silent
  \/ QuietAt(HomeZone, now, quiet)

\* delivery._schedule_next_repeat, as the row sequence it leaves.
Repeats(o) == {n \in RowsOf(o) : ntf[n].kind = "repeat"}

Repeatable(o) == occ[o] = "pending" /\ EntryOf[o] \in Important

\* Defect: a reaction during the send is not looked for.
WantsRepeatAfterReaction(n) ==
  LET o == ntf[n].occ
  IN  /\ Repeatable(o) /\ ntf[n].kind \in {"main", "repeat"} /\ MaxRepeats # 0
      /\ Cardinality(Repeats(o)) < MaxRepeats

\* Defect: only repeats still to come count against the limit.
WantsRepeatOfPending(n) ==
  LET o == ntf[n].occ
  IN  /\ Repeatable(o) /\ ntf[n].kind \in {"main", "repeat"} /\ MaxRepeats # 0
      /\ o \notin stopped
      /\ Cardinality({m \in Repeats(o) : Pending(m)}) < MaxRepeats

\* Defect: the limit is one repeat short.
WantsRepeatShort(n) ==
  LET o == ntf[n].occ
  IN  /\ Repeatable(o) /\ ntf[n].kind \in {"main", "repeat"} /\ MaxRepeats # 0
      /\ o \notin stopped
      /\ Cardinality(Repeats(o)) + 1 < MaxRepeats

WantsRepeat(n) ==
  LET o == ntf[n].occ
  IN  /\ Repeatable(o) /\ ntf[n].kind \in {"main", "repeat"} /\ MaxRepeats # 0
      /\ o \notin stopped
      /\ Cardinality(Repeats(o)) < MaxRepeats

WithNextRepeat(rows, n, now) ==
  LET o     == ntf[n].occ
      d     == ApplyQuietPolicy("repeat", now + RepeatEvery, PlannedAt[o], HomeZone, quiet)
      taken == \E m \in Repeats(o) : ntf[m].fire = d.fire
  IN  IF WantsRepeat(n) /\ ~ taken
        THEN Append(rows, NewRow(o, "repeat", d.fire, d.silent))
        ELSE rows

-----------------------------------------------------------------------------
(* Steps of a worker. *)

StartTick(w) ==
  /\ wk[w].pc = "idle"
  /\ wk' = [wk EXCEPT ![w] = [IdleWorker EXCEPT !.pc = "tick", !.now = clock,
                                                !.left = BatchSize]]
  /\ UNCHANGED <<storeVars, crashes>>

\* The batch is used up, or the candidate query came back empty.
EndTick(w) ==
  /\ wk[w].pc = "tick"
  /\ wk[w].left = 0 \/ Due(wk[w].now) = {}
  /\ wk' = [wk EXCEPT ![w] = IdleWorker]
  /\ UNCHANGED <<storeVars, crashes>>

\* Defect: the batch size does not bound the batch.
SelectBeyondBatch(w) ==
  /\ wk[w].pc = "tick"
  /\ \E n \in Due(wk[w].now) : wk' = [wk EXCEPT ![w].pc = "picked", ![w].n = n]
  /\ UNCHANGED <<storeVars, crashes>>

SelectCandidate(w) ==
  /\ wk[w].pc = "tick" /\ wk[w].left > 0
  /\ \E n \in Due(wk[w].now) :
       /\ \A m \in Due(wk[w].now) : ServedBefore(n, m)
       /\ wk' = [wk EXCEPT ![w].pc = "picked", ![w].n = n]
  /\ UNCHANGED <<storeVars, crashes>>

\* The tick goes on with one row less to take.
NextRow(w) ==
  [IdleWorker EXCEPT !.pc = "tick", !.now = wk[w].now, !.left = wk[w].left - 1]

\* Under the locks the candidate is no longer due: the batch ends early.
ClaimLost(w) ==
  /\ wk[w].pc = "picked"
  /\ wk[w].n \notin Due(wk[w].now)
  /\ wk' = [wk EXCEPT ![w] = IdleWorker]
  /\ UNCHANGED <<storeVars, crashes>>

\* Defect: under the locks the lease is not looked at again.
StillPending(w) == wk[w].pc = "picked" /\ Pending(wk[w].n)

\* Common to the outcomes of a claim that found its row still due.
StillDue(w) == wk[w].pc = "picked" /\ wk[w].n \in Due(wk[w].now)

\* The occurrence was closed, or the owner already reacted to this repeat.
ClaimCancel(w) ==
  LET n == wk[w].n
  IN  /\ StillDue(w) /\ ClaimCancels(n)
      /\ ntf' = [ntf EXCEPT ![n].status = "cancelled", ![n].next = NoAttempt]
      /\ wk' = [wk EXCEPT ![w] = NextRow(w)]
      /\ UNCHANGED <<clock, quiet, occ, anchor, ctx, stopped, ledger, rec, crashes>>

\* Quiet hours would move the row onto another one: it goes, lease and all.
ClaimDuplicate(w) ==
  LET n == wk[w].n  now == wk[w].now
  IN  /\ StillDue(w) /\ ~ ClaimCancels(n)
      /\ IsPostponed(n, now) /\ HasTwinAt(n, PostponedTo(n, now))
      /\ ntf' = [ntf EXCEPT ![n].status = "cancelled"]
      /\ wk' = [wk EXCEPT ![w] = NextRow(w)]
      /\ UNCHANGED <<clock, quiet, occ, anchor, ctx, stopped, ledger, rec, crashes>>

\* The claim may go on: nothing closed the occurrence, nothing is in the way.
Claimable(w) ==
  LET n == wk[w].n  now == wk[w].now
  IN  /\ StillDue(w) /\ ~ ClaimCancels(n)
      /\ IsPostponed(n, now) => ~ HasTwinAt(n, PostponedTo(n, now))

\* Quiet hours move the row past now: it waits, audible again.
ClaimPostpone(w) ==
  LET n == wk[w].n  now == wk[w].now
  IN  /\ Claimable(w)
      /\ IsPostponed(n, now) /\ PostponedTo(n, now) > now
      /\ ntf' = [ntf EXCEPT ![n].fire = PostponedTo(n, now), ![n].silent = FALSE,
                            ![n].next = NoAttempt]
      /\ wk' = [wk EXCEPT ![w] = NextRow(w)]
      /\ UNCHANGED <<clock, quiet, occ, anchor, ctx, stopped, ledger, rec, crashes>>

Deliverable(w) ==
  Claimable(w) /\ FireAt(wk[w].n, wk[w].now) <= wk[w].now

\* Defect: the row is passed over but not recorded as missed.
ClaimPassOver(w) ==
  /\ Deliverable(w) /\ wk[w].now - FireAt(wk[w].n, wk[w].now) > Late
  /\ wk' = [wk EXCEPT ![w] = NextRow(w)]
  /\ UNCHANGED <<storeVars, crashes>>

\* Too late to be of use; a missed main signal makes its occurrence missed.
ClaimMiss(w) ==
  LET n == wk[w].n  now == wk[w].now
  IN  /\ Deliverable(w) /\ now - FireAt(n, now) > Late
      /\ ntf' = [ntf EXCEPT ![n].status = "missed", ![n].fire = FireAt(n, now),
                            ![n].silent = @ /\ ~ IsPostponed(n, now),
                            ![n].next = NoAttempt]
      /\ occ' = IF ntf[n].kind = "main" THEN [occ EXCEPT ![ntf[n].occ] = "missed"]
                                        ELSE occ
      /\ wk' = [wk EXCEPT ![w] = NextRow(w)]
      /\ UNCHANGED <<clock, quiet, anchor, ctx, stopped, ledger, rec, crashes>>

\* The lease and the active context are committed before anything is sent.
ClaimSend(w) ==
  LET n == wk[w].n  now == wk[w].now  silent == SilentClaim(n, now)
  IN  /\ Deliverable(w) /\ now - FireAt(n, now) <= Late
      /\ ntf' = [ntf EXCEPT ![n].fire = FireAt(n, now), ![n].silent = silent,
                            ![n].next = now + Lease]
      /\ ctx' = [n |-> n, exp |-> now + ContextTtl]
      /\ wk' = [wk EXCEPT ![w].pc = "sending", ![w].silent = silent]
      /\ UNCHANGED <<clock, quiet, occ, anchor, stopped, ledger, rec, crashes>>

\* transport.send: accepted and answered; accepted with the answer lost, which
\* aiogram reports as a network error; refused for now; refused for good.
SendAccepted(w) ==
  /\ wk[w].pc = "sending"
  /\ ntf' = [ntf EXCEPT ![wk[w].n].copies = @ + 1]
  /\ \/ wk' = [wk EXCEPT ![w].pc = "accepted"]
     \/ LostReplies /\ wk' = [wk EXCEPT ![w].pc = "failed"]
  /\ UNCHANGED <<clock, quiet, occ, anchor, ctx, stopped, ledger, rec, crashes>>

SendRefused(w) ==
  /\ wk[w].pc = "sending"
  /\ \E fatal \in BOOLEAN :
       wk' = [wk EXCEPT ![w].pc = "failed", ![w].fatal = fatal]
  /\ UNCHANGED <<storeVars, crashes>>

\* delivery._finalize_sent_delivery: records the success whatever has become
\* of the row meanwhile, and plans the next repeat.
FinalizeSent(w) ==
  LET n    == wk[w].n
      done == [ntf EXCEPT ![n].status = "sent", ![n].silent = wk[w].silent,
                          ![n].next = NoAttempt]
  IN  /\ wk[w].pc = "accepted"
      /\ ntf' = WithNextRepeat(done, n, wk[w].now)
      /\ wk' = [wk EXCEPT ![w] = NextRow(w)]
      /\ UNCHANGED <<clock, quiet, occ, anchor, ctx, stopped, ledger, rec, crashes>>

\* Defect: one attempt too many.
GivesUpLate(attempts, fatal) == fatal \/ attempts > MaxAttempts

GivesUp(attempts, fatal) == fatal \/ attempts >= MaxAttempts

\* delivery._finalize_failed_delivery.
FinalizeFailed(w) ==
  LET n        == wk[w].n
      attempts == ntf[n].att + 1
      gaveUp   == GivesUp(attempts, wk[w].fatal)
  IN  /\ wk[w].pc = "failed"
      /\ ctx' = IF ctx.n = n THEN NoContext ELSE ctx
      /\ \/ /\ ~ Pending(n)
            /\ UNCHANGED ntf
         \/ /\ Pending(n) /\ gaveUp
            /\ ntf' = [ntf EXCEPT ![n].status = "failed", ![n].att = attempts,
                                  ![n].next = NoAttempt]
         \/ /\ Pending(n) /\ ~ gaveUp
            /\ \E provider \in ProviderDelays \cup {0} :
                 ntf' = [ntf EXCEPT ![n].att = attempts,
                                    ![n].next = wk[w].now + RetryDelay(attempts, provider)]
      /\ wk' = [wk EXCEPT ![w] = NextRow(w)]
      /\ UNCHANGED <<clock, quiet, occ, anchor, stopped, ledger, rec, crashes>>

\* The process dies, or the tick ends in an exception the tick loop only logs:
\* what was committed stays, what was held in memory is gone.
Crash(w) ==
  /\ wk[w].pc # "idle" /\ crashes < MaxCrashes
  /\ crashes' = crashes + 1
  /\ wk' = [wk EXCEPT ![w] = IdleWorker]
  /\ UNCHANGED storeVars

WorkerStep(w) ==
  \/ StartTick(w) \/ EndTick(w) \/ SelectCandidate(w)
  \/ ClaimLost(w) \/ ClaimCancel(w) \/ ClaimDuplicate(w) \/ ClaimPostpone(w)
  \/ ClaimMiss(w) \/ ClaimSend(w)
  \/ SendAccepted(w) \/ SendRefused(w)
  \/ FinalizeSent(w) \/ FinalizeFailed(w)

DeliveryNext == \E w \in Worker : WorkerStep(w) \/ Crash(w)

\* Time passes, though no tick lasts longer than TickSpan.
Advance ==
  /\ clock < MaxTime
  /\ \A w \in Worker : wk[w].pc # "idle" => clock < wk[w].now + TickSpan
  /\ clock' = clock + 1
  /\ UNCHANGED <<quiet, occ, anchor, ntf, ctx, stopped, ledger, rec, deliveryVars>>
=============================================================================
