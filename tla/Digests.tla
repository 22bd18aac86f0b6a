------------------------------ MODULE Digests ------------------------------
(***************************************************************************)
(* domain/digests.py: after a night in which reminders were delivered      *)
(* silently, one silent message recalls them.                              *)
(*                                                                         *)
(* Every tick of the scheduler loop visits the users in order with the one *)
(* clock reading it took at its start.  The visit of a user is a single    *)
(* transaction that holds user_settings FOR UPDATE from the first read to  *)
(* the commit, with the call to Telegram in the middle; what the call did  *)
(* outside cannot be rolled back.  The reminders themselves are delivered  *)
(* elsewhere: an item is a notification row that may come to be SENT and   *)
(* silent.                                                                 *)
(***************************************************************************)
EXTENDS QuietHours, FiniteSets

CONSTANTS
  User,            \* user ids, visited in this order
  Item,            \* notification ids, which break ties of sent_at_utc
  Owners,          \* the ways the notifications may belong to the users
  DigestWorker,    \* scheduler loops running against the database
  HomeZone,        \* settings.tz
  DigestTime,      \* settings.digest_time
  FirstQuiet,      \* the quiet hours a user starts with
  QuietChoices,    \* the ones a user may change to
  BatchSize,       \* users served per tick
  NightBatch,      \* _NIGHT_BATCH_SIZE
  TransientDelay,  \* _TRANSIENT_RETRY_DELAY
  PermanentDelay,  \* _PERMANENT_RETRY_DELAY
  LostReplies,     \* whether an accepted message may be reported as an error
  MaxTime,         \* bound on the clock
  TickSpan,        \* bound: slots a tick may last
  MaxCrashes       \* bound: ticks cut short

ASSUME DigestAssumption ==
  /\ User \subseteq Nat /\ User # {} /\ Item \subseteq Nat /\ Owners \subseteq [Item -> User]
  /\ HomeZone \in Zone /\ DigestTime \in 0 .. Day - 1
  /\ FirstQuiet \in Quiet /\ QuietChoices \subseteq Quiet
  /\ BatchSize \in Nat \ {0} /\ NightBatch \in Nat \ {0}
  /\ TransientDelay \in Nat \ {0} /\ PermanentDelay \in Nat \ {0}
  /\ LostReplies \in BOOLEAN
  /\ MaxTime \in Nat /\ TickSpan \in Nat /\ MaxCrashes \in Nat

VARIABLES
  clock,
  owner,    \* notifications.user_id, which nothing changes
  quiet,    \* per user: quiet_from and quiet_to
  item,     \* per notification: the columns of its row the digest looks at
  ledger,   \* per user and local date: "morning_digest" audit records
  wk,       \* per worker: where its tick stands
  crashes   \* ticks cut short so far

vars == <<clock, owner, quiet, item, ledger, wk, crashes>>

LocalDate(t) == Local(HomeZone, t) \div Day

Date == {LocalDate(t) : t \in 0 .. MaxTime}

Unsent == -1

\* sent is sent_at_utc of a silent row, next digest_next_attempt_at_utc (0 when
\* NULL); copies counts the digests it was in that reached the user.
ItemState ==
  [sent     : Nat \cup {Unsent},
   included : BOOLEAN,
   tries    : Nat,
   next     : Nat,
   copies   : Nat]

WorkerState ==
  [pc    : {"idle", "visit", "sending", "accepted", "failed"},
   now   : Nat,             \* the clock reading of the tick
   todo  : SUBSET User,     \* users still to visit, the one being visited too
   left  : Nat,             \* outcomes left before the tick breaks off
   batch : SUBSET Item,     \* the rows claimed for the message
   known : BOOLEAN,         \* the day already has a ledger record
   fatal : BOOLEAN]         \* the transport raised PermanentDeliveryError

IdleWorker == [pc |-> "idle", now |-> 0, todo |-> {}, left |-> 0,
               batch |-> {}, known |-> FALSE, fatal |-> FALSE]

TypeOK ==
  /\ clock \in 0 .. MaxTime
  /\ owner \in Owners
  /\ quiet \in [User -> Quiet]
  /\ item \in [Item -> ItemState]
  /\ ledger \in [User \X Date -> Nat]
  /\ wk \in [DigestWorker -> WorkerState]
  /\ \A w \in DigestWorker :
       wk[w].pc # "idle" => wk[w].todo # {} /\ wk[w].left \in 1 .. BatchSize
  /\ crashes \in 0 .. MaxCrashes

Init ==
  /\ clock = 0
  /\ owner \in Owners
  /\ quiet = [u \in User |-> FirstQuiet]
  /\ item = [i \in Item |->
       [sent |-> Unsent, included |-> FALSE, tries |-> 0, next |-> 0, copies |-> 0]]
  /\ ledger = [d \in User \X Date |-> 0]
  /\ wk = [w \in DigestWorker |-> IdleWorker]
  /\ crashes = 0

\* The user a tick is at.
Visited(w) == CHOOSE u \in wk[w].todo : \A v \in wk[w].todo : u <= v

InTransaction(w) == wk[w].pc \in {"sending", "accepted", "failed"}

\* Defect: the settings row is read without FOR UPDATE.
SettingsUnlocked(u) == TRUE

\* Nobody holds user_settings of u.
SettingsFree(u) ==
  \A w \in DigestWorker : InTransaction(w) => Visited(w) # u

-----------------------------------------------------------------------------
(* Which rows a visit finds. *)

\* The settings of quiet hours and the moments at which a digest may go out.
Mornings ==
  {m \in Quiet \X (0 .. MaxTime) :
     /\ m[2] >= DigestDueForNow(HomeZone, m[2], DigestTime, m[1])
     /\ ~ QuietAt(HomeZone, m[2], m[1])}

MayGo(u, now) == <<quiet[u], now>> \in Mornings

\* Rows the claim selects, before LIMIT.
Waiting(u, now) ==
  {i \in Item : /\ owner[i] = u
                /\ item[i].sent # Unsent /\ item[i].sent <= now
                /\ ~ item[i].included
                /\ item[i].next <= now}

\* ORDER BY sent_at_utc, id.
OlderThan(i, j) ==
  item[i].sent < item[j].sent \/ (item[i].sent = item[j].sent /\ i < j)

Claimed(u, now) ==
  LET rows == Waiting(u, now)
  IN  {i \in rows : Cardinality({j \in rows : OlderThan(j, i)}) < NightBatch}

-----------------------------------------------------------------------------
(* Actions. *)

\* Delivery records a silent notification as sent, with the clock reading of
\* its own tick.
SilentDelivery(i) ==
  /\ item[i].sent = Unsent
  /\ \E t \in {clock, clock - 1} \cap Nat :
       /\ QuietAt(HomeZone, t, quiet[owner[i]])
       /\ item' = [item EXCEPT ![i].sent = t]
  /\ UNCHANGED <<clock, owner, quiet, ledger, wk, crashes>>

StartTick(w) ==
  /\ wk[w].pc = "idle"
  /\ wk' = [wk EXCEPT ![w] = [IdleWorker EXCEPT !.pc = "visit", !.now = clock,
                                                !.todo = User, !.left = BatchSize]]
  /\ UNCHANGED <<clock, owner, quiet, item, ledger, crashes>>

\* The tick goes on with the next user, or ends after the last one or when it
\* has its number of outcomes.
GoOn(w, left) ==
  LET rest == wk[w].todo \ {Visited(w)}
  IN  IF rest = {} \/ left = 0
        THEN IdleWorker
        ELSE [IdleWorker EXCEPT !.pc = "visit", !.now = wk[w].now,
                                !.todo = rest, !.left = left]

\* Defect: a user without a digest ends the tick.
PassOverEnds(w) ==
  LET u == Visited(w)
  IN  /\ wk[w].pc = "visit"
      /\ SettingsFree(u)
      /\ ~ MayGo(u, wk[w].now) \/ Waiting(u, wk[w].now) = {}
      /\ wk' = [wk EXCEPT ![w] = IdleWorker]
      /\ UNCHANGED <<clock, owner, quiet, item, ledger, crashes>>

\* Not due yet, quiet, or nothing to recall: no outcome.
PassOver(w) ==
  LET u == Visited(w)
  IN  /\ wk[w].pc = "visit"
      /\ SettingsFree(u)
      /\ ~ MayGo(u, wk[w].now) \/ Waiting(u, wk[w].now) = {}
      /\ wk' = [wk EXCEPT ![w] = GoOn(w, wk[w].left)]
      /\ UNCHANGED <<clock, owner, quiet, item, ledger, crashes>>

Claim(w) ==
  LET u == Visited(w)
  IN  /\ wk[w].pc = "visit"
      /\ SettingsFree(u)
      /\ MayGo(u, wk[w].now)
      /\ Waiting(u, wk[w].now) # {}
      /\ wk' = [wk EXCEPT ![w].pc = "sending",
                          ![w].batch = Claimed(u, wk[w].now),
                          ![w].known = ledger[<<u, LocalDate(wk[w].now)>>] > 0]
      /\ UNCHANGED <<clock, owner, quiet, item, ledger, crashes>>

Shown(w) ==
  [i \in Item |->
     IF i \in wk[w].batch THEN [item[i] EXCEPT !.copies = @ + 1] ELSE item[i]]

\* Telegram accepts the digest; the answer may get lost on the way back.
SendAccepted(w) ==
  /\ wk[w].pc = "sending"
  /\ item' = Shown(w)
  /\ \/ wk' = [wk EXCEPT ![w].pc = "accepted"]
     \/ LostReplies /\ wk' = [wk EXCEPT ![w].pc = "failed"]
  /\ UNCHANGED <<clock, owner, quiet, ledger, crashes>>

SendRefused(w) ==
  /\ wk[w].pc = "sending"
  /\ \E fatal \in BOOLEAN :
       wk' = [wk EXCEPT ![w].pc = "failed", ![w].fatal = fatal]
  /\ UNCHANGED <<clock, owner, quiet, item, ledger, crashes>>

WithLedger(w) ==
  [ledger EXCEPT ![<<Visited(w), LocalDate(wk[w].now)>>] = @ + 1]

\* Defect: every digest of a day is recorded as the morning digest.
RecordWithoutDelta(w) ==
  /\ wk[w].pc = "accepted"
  /\ item' = [i \in Item |->
       IF i \in wk[w].batch THEN [item[i] EXCEPT !.included = TRUE, !.next = 0]
                            ELSE item[i]]
  /\ ledger' = WithLedger(w)
  /\ wk' = [wk EXCEPT ![w] = GoOn(w, wk[w].left - 1)]
  /\ UNCHANGED <<clock, owner, quiet, crashes>>

\* The first digest of a local day is recorded as its morning digest, later
\* ones as deltas.
Record(w) ==
  /\ wk[w].pc = "accepted"
  /\ item' = [i \in Item |->
       IF i \in wk[w].batch THEN [item[i] EXCEPT !.included = TRUE, !.next = 0]
                            ELSE item[i]]
  /\ ledger' = IF wk[w].known THEN ledger ELSE WithLedger(w)
  /\ wk' = [wk EXCEPT ![w] = GoOn(w, wk[w].left - 1)]
  /\ UNCHANGED <<clock, owner, quiet, crashes>>

\* _defer_claimed
Deferred(w) ==
  LET delay == IF wk[w].fatal THEN PermanentDelay ELSE TransientDelay
  IN  [i \in Item |->
         IF i \in wk[w].batch
           THEN [item[i] EXCEPT !.tries = @ + 1, !.next = wk[w].now + delay]
           ELSE item[i]]

Defer(w) ==
  /\ wk[w].pc = "failed"
  /\ item' = Deferred(w)
  /\ ledger' = IF wk[w].fatal /\ ~ wk[w].known THEN WithLedger(w) ELSE ledger
  /\ wk' = [wk EXCEPT ![w] = GoOn(w, wk[w].left - 1)]
  /\ UNCHANGED <<clock, owner, quiet, crashes>>

\* The process dies in a visit, or an exception nobody maps ends the tick: the
\* transaction is rolled back and its locks are released.
Crash(w) ==
  /\ InTransaction(w)
  /\ crashes < MaxCrashes
  /\ wk' = [wk EXCEPT ![w] = IdleWorker]
  /\ crashes' = crashes + 1
  /\ UNCHANGED <<clock, owner, quiet, item, ledger>>

\* The UPDATE of the settings row waits for the visit that has locked it.
UpdateQuietHours(u) ==
  /\ SettingsFree(u)
  /\ \E q \in QuietChoices \ {quiet[u]} : quiet' = [quiet EXCEPT ![u] = q]
  /\ UNCHANGED <<clock, owner, item, ledger, wk, crashes>>

Advance ==
  /\ clock < MaxTime
  /\ \A w \in DigestWorker : wk[w].pc # "idle" => clock < wk[w].now + TickSpan
  /\ clock' = clock + 1
  /\ UNCHANGED <<owner, quiet, item, ledger, wk, crashes>>

WorkerStep(w) ==
  \/ StartTick(w) \/ PassOver(w) \/ Claim(w)
  \/ SendAccepted(w) \/ SendRefused(w) \/ Record(w) \/ Defer(w)

Next ==
  \/ \E i \in Item : SilentDelivery(i)
  \/ \E w \in DigestWorker : WorkerStep(w) \/ Crash(w)
  \/ \E u \in User : UpdateQuietHours(u)
  \/ Advance

Spec == Init /\ [][Next]_vars

-----------------------------------------------------------------------------
(* Properties. *)

\* Every digest beyond the first that recalled the same reminder is paid for by
\* a failed attempt, whose message may have arrived, or by a tick cut short
\* before its commit; and a reminder marked as recalled was really shown.
DigestCopiesExplained ==
  \A i \in Item :
    /\ item[i].copies <= 1 + item[i].tries + crashes
    /\ item[i].included => item[i].copies > 0

\* However many loops run, crash and retry, a user has at most one record of
\* the morning digest for a local day: all the rest are deltas.
LedgerOncePerDay == \A d \in DOMAIN ledger : ledger[d] <= 1

\* Ticks keep coming and end, and time passes; nothing makes Telegram accept,
\* reminders come or users edit their settings.
Fairness ==
  /\ \A w \in DigestWorker : WF_vars(WorkerStep(w))
  /\ WF_vars(Advance)

FairSpec == Spec /\ Fairness

\* No user is starved by the batch limit or by another user's failing chat, and
\* no reminder by newer ones: nothing that could be recalled now stays so for
\* good.
DigestServed ==
  []<>(\A u \in User : ~ MayGo(u, clock) \/ Waiting(u, clock) = {})
=============================================================================
