------------------------------ MODULE Reminders ------------------------------
(***************************************************************************)
(* The reminder system of one user: delivery workers, the owner's          *)
(* reactions and the reconciliation of the schedule, all on the same rows. *)
(***************************************************************************)
EXTENDS Delivery, Reactions, Scheduling

vars == <<storeVars, deliveryVars>>

TypeOK == StoreTypeOK /\ DeliveryTypeOK

Init == StoreInit /\ DeliveryInit

Next ==
  \/ DeliveryNext
  \/ ReactionsNext /\ UNCHANGED deliveryVars
  \/ SchedulingNext /\ UNCHANGED deliveryVars
  \/ Advance

Spec == Init /\ [][Next]_vars

-----------------------------------------------------------------------------
(* Safety. *)

\* No two notification rows share occurrence, kind and moment: no service ever
\* runs into UNIQUE(occurrence_id, fire_at_utc, kind), though two of them
\* (claims and repeats) look for a twin first and one (the plan) upserts.
UniqueKeys ==
  \A n, m \in DOMAIN ntf : KeyOf(ntf[n]) = KeyOf(ntf[m]) => n = m

\* An occurrence is never given more repeats than the policy allows, however
\* many workers record a success for it and whatever became of earlier ones.
RepeatsBounded ==
  \A o \in Slot : Cardinality(Repeats(o)) <= MaxRepeats

\* Once the owner has reacted to an occurrence no repeat of it is left to
\* claim, and none appears later.
ReactionEndsRepeats ==
  \A n \in DOMAIN ntf :
    ntf[n].occ \in stopped /\ ntf[n].kind = "repeat" => ~ Pending(n)

\* A row still to be delivered has attempts left: retries, reactivation by the
\* plan and a second worker never push it past the retry policy.
AttemptsLeft ==
  \A n \in DOMAIN ntf :
    /\ ntf[n].att <= MaxAttempts
    /\ Pending(n) => ntf[n].att < MaxAttempts

\* A snooze replaces the plan of its occurrence with one signal: reconciliation
\* never brings a cancelled row of the plan back next to it.
SnoozeIsTheOnlySignal ==
  \A o \in Slot : Snoozed(o) =>
    LET waiting == {n \in RowsOf(o) : Pending(n)}
    IN  /\ Cardinality(waiting) <= 1
        /\ \A n \in waiting : \E l \in ledger : l.intent = "snooze" /\ l.made = n

\* An occurrence completed or moved by a button owes the user nothing more.
ClosedOwesNothing ==
  \A n \in DOMAIN ntf : occ[ntf[n].occ] \in {"done", "moved"} => ~ Pending(n)

\* The active context, which any message of the owner acts on, never names an
\* occurrence that is already closed.
ContextIsOpen == ctx.n # 0 => ~ Closed(ntf[ctx.n].occ)

\* An important occurrence the owner has not reacted to keeps its repeats
\* coming: after the main signal is recorded there is a repeat to come, unless
\* the policy is used up or the last repeat was itself missed or given up.  It
\* holds away from quiet hours: a tick that has overrun its lease may record a
\* repeat as sent that was put off meanwhile, and take it for its own successor.
PersistenceKept ==
  \A o \in Slot :
    LET reps == Repeats(o)
    IN  /\ EntryOf[o] \in Important
        /\ occ[o] = "pending"
        /\ o \notin stopped
        /\ \E n \in RowsOf(o) : ntf[n].kind = "main" /\ ntf[n].status = "sent"
        => \/ Cardinality(reps) = MaxRepeats
           \/ \E n \in reps : ntf[n].status \in {"pending", "missed", "failed"}

\* Two ticks that have one row in flight read the clock at least a lease apart:
\* the second claims it only after the first has overrun its lease.  A failed
\* attempt gives the row away sooner, at the time of its retry.
LeaseExcludes ==
  \A v, w \in Worker :
    /\ v # w /\ InFlight(v) /\ InFlight(w) /\ wk[v].n = wk[w].n
    /\ ntf[wk[v].n].att = 0
    => \/ wk[v].now >= wk[w].now + Lease
       \/ wk[w].now >= wk[v].now + Lease

\* Every message beyond the first about one notification is paid for.  Between
\* two failed attempts, whose message may have arrived, a row goes out once for
\* each lease lost to a crash or a slow tick.  The lateness threshold leaves the
\* main signal only so many; the others quiet hours may put off and start anew.
CopiesExplained ==
  \A n \in DOMAIN ntf :
    LET span == IF ntf[n].kind = "main" THEN Late ELSE clock
    IN  ntf[n].copies <= (ntf[n].att + 1) * (1 + span \div Lease)

-----------------------------------------------------------------------------
(* What a step may never do. *)

\* What has been sent stays sent: it is not rescheduled, cancelled, retried or
\* brought back by the plan.
SentIsFinal ==
  [][\A n \in DOMAIN ntf :
       ntf[n].status = "sent" =>
         ntf'[n].status = "sent" /\ KeyOf(ntf'[n]) = KeyOf(ntf[n])]_ntf

\* A notification keeps its occurrence and kind, and is only ever put off:
\* whatever quiet hours say at the moment of a claim, and however the user has
\* changed them, no row comes to be due earlier than it was.
RowsOnlyMoveLater ==
  [][\A n \in DOMAIN ntf :
       /\ n \in DOMAIN ntf'
       /\ ntf'[n].occ = ntf[n].occ /\ ntf'[n].kind = ntf[n].kind
       /\ ntf'[n].fire >= ntf[n].fire]_ntf

\* A closed occurrence is never reopened, and no occurrence row disappears.
ClosedIsFinal ==
  [][\A o \in Slot : (Closed(o) => occ'[o] = occ[o])
                       /\ (occ[o] # "none" => occ'[o] # "none")]_occ

\* A missed occurrence becomes pending again only together with a main signal
\* for it that is pending and still lies ahead.
ReopenedWithSignal ==
  [][\A o \in Slot : occ[o] = "missed" /\ occ'[o] = "pending" =>
       \E n \in DOMAIN ntf' : /\ ntf'[n].occ = o /\ ntf'[n].kind = "main"
                              /\ ntf'[n].status = "pending"
                              /\ ntf'[n].fire > clock]_occ

\* A message that starts on its way with sound is not one the policy silences
\* at the reading of the clock it was claimed under, nor is any repeat.
ClaimsRespectQuietHours ==
  [][\A w \in Worker : wk[w].pc = "picked" /\ wk'[w].pc = "sending" =>
       LET night == QuietAt(HomeZone, wk[w].now, quiet)
       IN  night => wk'[w].silent /\ ntf[wk[w].n].kind # "repeat"]_wk

-----------------------------------------------------------------------------
(* What all of it is for. *)

\* The rows as their owner sees them.
Signals ==
  [n \in DOMAIN ntf |->
     [occ |-> ntf[n].occ, kind |-> ntf[n].kind, status |-> ntf[n].status]]

Promise == INSTANCE Lifecycle WITH rows <- Signals

\* Workers, leases, retries, crashes, quiet hours and the gap in reconciliation
\* never show: whatever they do, each step of the system is one of the few
\* changes Lifecycle allows, or none at all.
ImplementsLifecycle == Promise!Spec

-----------------------------------------------------------------------------
(* Liveness. *)

\* The tick loop keeps running and is restarted after a crash, a tick that can
\* go on goes on, and time passes.  Nothing makes the owner react, Telegram
\* accept or the reconciliation come round.
Fairness ==
  /\ \A w \in Worker : WF_vars(WorkerStep(w))
  /\ WF_vars(Advance)

FairSpec == Spec /\ Fairness

\* Nothing that is due within the modelled time is left waiting for good: it
\* is sent, given up, missed, cancelled or put off beyond the bound.
DueIsServed == []<>(\A n \in DOMAIN ntf : Pending(n) => n \notin Due(clock))

-----------------------------------------------------------------------------
(* A claim of the repository the code does not keep. *)

\* locks.py: every path that mutates an occurrence and its notifications is
\* serialised, so a skipped occurrence has no notification left either.
SkippedOwesNothing ==
  \A n \in DOMAIN ntf : occ[ntf[n].occ] = "skipped" => ~ Pending(n)
=============================================================================
