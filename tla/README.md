# A formal model of Seshat's scheduler

Seshat is a personal planner that lives in a Telegram chat. Its owner writes events, tasks and
routines; the program stores them in PostgreSQL, unfolds them into occurrences and notifications,
delivers the notifications through Telegram, repeats the important ones, keeps quiet at night and
recalls in the morning what it delivered silently. All of its state is in the database. Several
actors work on it at once: scheduler loops (more than one during a restart), handlers of the bot,
routes of the HTTP API. That is where its correctness is decided and where tests reach least, and
it is what these modules are about.

Paths below are relative to the repository; `domain/` stands for `src/seshat/domain/`.

## 1. The system

| Component | State | Operations | Hard because |
|---|---|---|---|
| Rows (`db/models.py`) | entries, occurrences, notifications, `active_contexts`, `audit_log`, `user_settings`, `tz_changes` | unique constraints on (entry, planned_at) and (occurrence, fire_at, kind) | two services look for a twin before they write, a third upserts, a fourth rewrites the keys |
| Reconciliation (`domain/scheduling.py`, `scheduler.py`) | none of its own | unfold the horizon, plan notifications, bring cancelled rows of a plan back | reads occurrences and writes notifications later, without the occurrence lock |
| Delivery (`domain/delivery.py`, `telegram/delivery.py`) | lease in `next_attempt_at_utc`, `attempt_count` | choose, claim, send, record; retry, give up, repeat, miss, postpone | the send is outside any transaction; replies get lost, leases run out, processes die |
| Reactions (`domain/reactions.py`, part of `delivery.py`) | audit records that make them idempotent | complete, skip, snooze, move, preview of a move, acknowledge, free-text answer | a button races the delivery of its own message and the next reconciliation |
| Quiet hours (`delivery.py`, `domain/users.py`) | `quiet_from`, `quiet_to`, zone | end of the window, completed window, policy for a signal, edits | midnight, spring gap, autumn fold |
| Morning digest (`domain/digests.py`) | `digest_*` columns, `morning_digest` audit records | claim the night's silent rows, send, record, defer | the send is inside the transaction; batch limits; several loops |
| Change of zone (`domain/timezones.py`) | `user_settings.tz`, `tz_changes`, audit records | preview, confirm, review each one-off entry, rebuild the horizon | stale and repeated cards, rewritten keys, entries that name an older zone |
| Locks (`domain/locks.py`, row locks) | advisory locks per occurrence and per user's context, row locks, those foreign keys take | taken by the services | the order of row locks is not one order |
| Entry creation (`telegram/router.py`, `api/routers/entries.py`, `domain/entries.py`, `planning.py`) | the dialogue in `MemoryStorage`; entry and audit record with the confirmation id | fill in a form or send a text, edit, confirm, cancel; preview and confirm by the API | old cards in the chat, repeated and lost confirmations, a zone that changes in between, a restart that forgets the dialogue |
| NIM client (`domain/nim.py`, `nim_ops.py`, `ai.py`) | semaphore, session lock, TTL cache | one request at a time under a deadline, retries, fallback models, a journal of attempts | release on every path, lost sessions, cache looked at twice |
| Parsing of a plan (`domain/parsing.py`) | none | `normalize`: local times to UTC, kind, tolerance for the past | gaps, and the read back of a UTC draft into a form |
| My day, presentation, wiring | none | pure or read-only | - |

**Interaction.** Everything goes through rows and locks. A delivery worker takes the advisory
locks UserContext, then Occurrence, then row locks. The button handlers (`_lock_source`) and the
quiet-hours edit also touch `user_settings`, which a reconciliation holds `FOR UPDATE` from its
first read to its commit: these wait for it. `skip_occurrence`, an acknowledgement, a claim and a
finalisation do not. Every operation on zones commits only after its rebuild of the horizon has
held the same row. The digest holds it during its call to Telegram. The bot handles the owner's
updates one at a time; the API's routes run beside it, each in a session of its own, and both end in
`create_planned_entry`, which locks `user_settings` and plans the new entry at once.

**What correct means.** A notification reaches the owner once unless a failure excuses a copy; what
was sent is never changed; a closed occurrence owes nothing; a reaction ends the repeats; an
important occurrence goes on being repeated; what is due is served; nothing is silently put in the
past or rung in the night; the digest recalls each silent reminder; after a journey routines keep
their local time and one-off entries their moment; one entry comes of a card, with what stood on it,
and what the bot says of it is so; deadlocks come only of the transactions known to cause them. The
hazards that could break each of these are listed in `PROJECT.json`, at their lines, with the
properties that watch them.

## 2. Modules

```
QuietHours -- QuietClock                     pure functions; a driver that evaluates them
   |   \  \-- Digests                        morning digest
   |   |\---- Timezones                      change of zone and its review
   |    \---- Drafts                         from a message to a saved entry
   |
ReminderStore                                the shared rows and helpers on them
   |-- Delivery  |-- Reactions  |-- Scheduling     one module per service
   \------------- Reminders ------------------\    their composition, all properties
                      |
                  Lifecycle                   abstract promise, by refinement

Nim                                          requests to the language model
Locks                                        who waits for whom
```

MC modules (`MCQuietClock`, `MCReminders`, `MCDigests`, `MCTimezones`, `MCNim`, `MCDrafts`, `MCLocks`)
hold constants only. Proofs are in `QuietHoursProofs` (on which all but those of Nim rest),
`QuietClockProofs`, `RemindersProofs` (with the refinement of Lifecycle), `DigestsProofs`,
`TimezonesProofs`, `DraftsProofs`, `NimProofs` and `LocksProofs`.

**QuietHours.** Time is an integer number of slots, a day has `Day` of them, a zone is an offset
before and after one transition. `ResolveLocalWall`, `QuietEnd`, `CompletedQuietWindow`,
`ApplyQuietPolicy`, `ResolveWallTime`, `WallToUtc`, `DigestDueForNow` are the functions of the
source, the last three being three different treatments of wall times that do not exist or exist
twice.

**ReminderStore.** `occ`, `ntf`, `ctx`, `anchor`, `quiet` are the columns the services decide by;
`stopped` and `ledger` are the audit records that are read back; `rec` is the open reconciliation.
`copies` in a notification is a history variable, the messages that reached the owner. A slot is a
possible occurrence (entry and moment); the recurrence rule is the constant set `Recurs`.

**Delivery.** A worker is one run of the tick loop with its one reading of the clock.
`SelectCandidate` chooses without a lock; `ClaimLost`, `ClaimCancel`, `ClaimDuplicate`,
`ClaimPostpone`, `ClaimPassOver`, `ClaimMiss` and `ClaimSend` are the outcomes of the second
transaction, each the whole of it;
`SendAccepted`/`SendRefused` is Telegram, whose answer may be lost; `FinalizeSent` and
`FinalizeFailed` are the third transaction with the planning of a repeat or a retry. `Crash` may
strike in any gap. The lease counts from the start of the tick, as in `delivery.py:819`.

**Reactions.** One action per operation, with the replay through the audit record, the lock on the
source notification, the reopening of a missed occurrence by a snooze and the successor of a move.

**Scheduling.** `ReconcileRead` and `ReconcileWrite`: the transaction's read set and its upsert, with
the gap between them and a possible abort.

**Reminders** composes the three on the same rows. **Lifecycle** knows no workers, leases, clocks or
retries: seven ways in which occurrences and signals may change. `ImplementsLifecycle` says that
every step of Reminders is one of them or none, under the mapping `Signals`.

**Digests.** A visit of a user is `Claim`, the send, then `Record` or `Defer`, all inside one
transaction; `copies` counts what reached the user although a `Crash` rolled the transaction back.
Who owns the rows is chosen at the start, so that both a user after a failing one and a user with
more rows than a digest holds are covered.

**Timezones.** `Preview`, `Confirm`, `ConfirmAborts`, `Replay`, `KeepAbsolute`, `KeepLocal` with
`Rebased`, `MomentIn`, `MovedBy`, `Collides` for `_rebase_occurrences` and `Rebuilt` for the
rebuild. `Deliver`, `Close`, `Move` are the part of delivery and buttons that can meet a journey.

**Nim.** A request is a task in one process: `TakePermit` or `WaitForPermit`, then `Poll` for the
advisory lock, `Enter` with the second look into the cache, attempts (`Attempt`, `Answered`,
`HttpTimesOut`, `BackOff`) each followed by its journal record (`Recorded`, `RecordedPlan`), and
`Unlock`. What a deadline, a timer or a cache entry has left counts down, so the clock needs no bound
and neither does the number of requests. The cache is its keys in the order of their use and what each
has left, zero for an expired key, which stays in the order until it is looked up or purged. Between the grant of the lock at the server and the answer
at the client there is a step (`Poll`, then `Enter`), and in it the client may give up: the
connection is then closed with its session, as SQLAlchemy does when a query is cancelled.
`GateFails`, `ChainFails` and `LeaveQueue` are errors of the database and cancellations at any
await, `SessionLost` a session the server ends under a running chain, `Restart` the death of a
process. Time cannot pass over a timer that is due; a wait for the database has none.

**Drafts.** `chat` is what `MemoryStorage` keeps of the owner's dialogue: the state of `states.py`, the
form (`data["manual"]`), the draft (`data["normalized"]`), the zone and the nonce. `act` is the one
handler that waits, for NIM (`SendText`, then `TextParsed`) or for the database (`Press`, then `Saved`,
`SavedUnheard` or `NotSaved`). A card is a draft with the id of its confirmation, made by the bot
(`StoreAndShow`, from `EnterTitle`, `Edit` or `TextParsed`) or by the API (`Preview`); the card stays
in the chat with its buttons whatever becomes of the dialogue, and `told` remembers what the bot has
answered to it. `Restart` empties the dialogue and nothing else. A confirmation by the API is
`ConfirmRead`, which reads the zone without a lock and compares the draft with its form, then
`ConfirmCommit` or `ConfirmFails`; the client may send it again at any time. Both ways end in
`CreatePlannedEntry`. `Preparable` and `Prepared` are `prepare_manual_entry` and `normalize` on one
moment, `FormOf` is `manual_fields_from_normalized`.

**Locks.** Each operation of the other modules is the sequence of the locks it asks for: advisory
locks, `FOR UPDATE`, the weaker locks of an `UPDATE` and an upsert, and the share of a row a foreign
key takes; a statement without `ORDER BY` takes its rows in any order. A transaction acquires, waits
for conflicting holders, commits, or is rolled back as a deadlock's victim. A change of zone asks
turn by turn: after `user_settings` each turn of its loop (`NextRoutine`, over the routines in
`left`) takes the occurrences of one routine, their pending rows and the routine itself
(`RebaseRoutine`), so that it comes back to occurrences with rows and entries in hand; the last turn
is followed by the rebuild. A transaction that finds less to do asks for part of the same sequence
and can only block less. `Operations` is what may run, `Sequences(op)` what it may ask for.

Definitions named after a defect (a comment starts with "Defect:") are not part of any
specification. Each is a plausible slip in the definition that follows it; replacing the definition
by its defect must break the property it is paired with in `PROJECT.json`.

### What the model leaves out of the modelled parts

* Wording, message ids, error codes, time stamps nothing reads back. One user in Reminders and
  Timezones: all locks and rows are per user. Entries are always active and rows never deleted, so
  the branches for missing rows are left out.
* A unique violation at a claim's flush would roll the claim back, like a crash in the gap;
  `UniqueKeys` shows that it does not come about.
* "No free target" in the preview of a move raises and rolls back: the action is disabled.
* Zones in Timezones have one offset; transitions are the matter of QuietClock. A KEEP_LOCAL
  decision that would collide is disabled, because it is rolled back and changes nothing.
* `TypeOK` of Digests, Timezones and Locks is proved and not listed in a run; the runs check the
  properties that rest on it. That of Nim documents the state; `Requests` in `NimProofs` is its proved part.
* Drafts: tasks without a due date, the creation of the one user, messages the bot ignores because
  another reaction took them. A detail (title, duration, reminders) is one value, because it is
  copied as it is; an edit of a text-made event that has both a start and a due time drops the second.
  The id of a confirmation goes with one card: a client that sends it again with another draft, which
  the code refuses, does not occur.
* Locks: waits for a unique index (an insert of the same key twice), the order of the lock queue,
  other users, `get_or_create`, the advisory locks per confirmation of a zone and per review (taken
  first, by everybody in the same order), the listing of reviews. `Rebase` takes the occurrences of
  an entry in any order, as their moments keep none that others know of, and their notifications
  occurrence by occurrence.
* The digest's `digest_enabled` setting is stored and never consulted by `digests.py`; nothing to
  model.

## 3. Runs

| Run | Bounds | Shows |
|---|---|---|
| `quiet_clock` | 6 slots a day, 3 days, four zones (none, gap of 2, fold of 2, gap of 1 west of UTC), every interval | the end of quiet hours is later and not quiet (`WindowEndsQuiet`), the recap's window contains every quiet moment of the night (`RecapCoversTheNight`), the policy never wakes nor announces the past (`PolicyNeverWakes`), the resolvers agree, the digest has a moment of the day that is not quiet |
| `workers` | 2 workers on an important routine, 2 attempts, 1 repeat, 1 crash, lost replies, a skip, a message, an abortable reconciliation, ticks as long as the lease (2 slots), 5 slots, `FairSpec` | attempts are left, a lease excludes, every copy has an excuse, repeats are bounded, end with a reaction and are not lost, closed is final, due rows are served |
| `night` | a task whose morning reminder is postponed, quiet hours edited, midnight inside the time, the plan written again | keys stay unique, claims respect the hours, rows only move later |
| `buttons` | 2 slots, a pre-reminder, every button and acknowledgement, reconciliation in between, 4 slots | snooze is the only signal, closed owes nothing, context is open, sent is final, reopening comes with a signal, refinement of Lifecycle |
| `digests` | 2 users, 2 rows, 2 loops, 1 crash, batch limits of 1, `FairSpec` | copies have an excuse, one ledger record a day, nobody waits for good |
| `timezones` | a day of 4 slots, a routine and an event, two cards, a zone one slot east | the journal is a path, wall times are consistent, routines keep local time, signals follow, one-off entries keep their moment |
| `nim` | 3 requests in 2 processes, 2 phrases, cache of 1 entry, 2 models, 1 retry, deadline of 3 ticks against timeouts of 2; any number of cancellations, failed writes, lost sessions and restarts | one chain at a time except where a session broke, permit and lock are given back once on every way out, waits stay within the budget, a fresh answer is not paid for twice |
| `drafts` | an event or a routine, 2 clocks of a day of 4 slots with a gap, 2 zones and a move, 2 cards of the bot or the API, 2 requests at once, 1 lost answer, any number of edits and restarts | one entry per card, saved as shown, edits start from the card, answers hold |
| `locks` | any 3 transactions of 15 kinds on 4 occurrences of an event and two routines with 7 rows, sent, pending, planned and not | every deadlock has a known culprit |
| `skip_race` | 2 slots of a routine, 1 worker | violated: a skip in the gap of reconciliation gets its rows back |
| `tz_collision` | as `timezones`, one card | violated: a confirmation runs into a unique constraint |
| `drafts_zone` | as `drafts` | violated: an entry is saved in the zone left behind |

**Why these bounds are enough.** The counters the code compares (attempts, repeats, batch and digest
limits) are at 1 or 2, so each is reached, and passed if it could be. Delays are 1 to 3 slots and the
clock runs over several leases, retries and the late threshold. Two workers are needed for every
race of delivery, and the locks make three of them meet two at a time. Two slots are needed for a
move or a routine; what happens to an occurrence does not depend on others of its entry except for
a taken target. A zone of six slots a day has every order of gap, midnight and interval.

In `nim` the second request of a process is enough for the queue, the other process for the lock. In
`drafts` two cards are enough for a stale one beside the one in force, or for a card of the bot beside
one of the API; two requests for a race on one card; one move for a card of an older zone, in either
direction through the gap. In `locks` two transactions make every direct cycle and the third the
indirect ones; every kind of row (sent, pending, in the plan, missing from it) occurs, and an
occurrence with two pending rows beside one with one. Two routines are enough for a change of zone
that asks for occurrences with rows and an entry of another routine in hand.

**Deadlock** in the sense of TLC is checked in the Reminders runs, in `quiet_clock` and in `nim`.
`digests`, `timezones`, `drafts` and `locks` may stop: the clock is bounded, the owner need not write,
and transactions end.

**What a lease excludes.** A lease counts from the clock reading of the tick that claims, and a tick may
outlast it. `LeaseExcludes` therefore says that two ticks with one row in flight, none of whose
attempts has failed, have read the clock at least a lease apart; a failed attempt gives the row away
earlier, at the time of its retry, also when another tick still holds it. `CopiesExplained` counts:
between two failed attempts (whose message may have arrived) a row goes out once, and once more for
each lease that runs out on it. For a main signal, which is given up when it is late, the leases are
those that fit into the lateness threshold; quiet hours may put the others off and start the count of
lateness anew, so that for them only the time that has passed is a bound: (attempts + 1) * (1 + span
div `Lease`) messages in all.

**When repeats are kept.** `PersistenceKept` holds if ticks are shorter than the lease, or away from
quiet hours (run `workers`: ticks as long as the lease, no night within the bounds). With both a tick
that has outlasted its lease and quiet hours between two loops, a repeat may be put off to the morning
by one loop and then recorded as sent by the other, which finds the row itself at the moment of the
next repeat and plans none. Nothing in the code enforces either condition: the lease is two minutes, and a
tick that sends many rows to a slow Telegram may take longer.

**Fairness.** `WF_vars(WorkerStep(w))` for each worker: `_tick_loop` catches the exception of a tick,
sleeps and starts the next (`scheduler.py:187-196`), and a process that dies is restarted by its
supervisor. `WF_vars(Advance)`: time passes. Nothing obliges Telegram to accept, the owner to react,
or reconciliation to come round. `DueIsServed` is checked in `workers`, where neither worker nor
clock is alone; where quiet hours postpone a row onto its twin (`night`) a reconciliation between
every two ticks could bring the cancelled twin back for ever within the bounded clock. Both liveness
properties are of the form []<> and speak of what is due within the bounded clock: `DigestServed`
therefore says nothing of a chat that refuses for longer than that.

### Findings

1. **A skipped occurrence gets pending rows again** (`skip_race`), which the next claim cancels. The
   docstring of `lock_occurrence_action` says every path that mutates an occurrence and its
   notifications is serialised; reconciliation is not.
2. **A change of zone that cannot be confirmed** (`tz_collision`). Rebasing gives a moved occurrence
   of a daily routine the routine's own time, on a day that has an occurrence of its own. The unique
   constraint rolls the confirmation back with an error no adapter handles. Two more ways into the
   same constraint are in `Collides`: a journey there and back over an occurrence that is already
   due, and two pre-reminders whose distance is the difference of the zones.
3. **An entry saved in a zone left behind** (`drafts_zone`). `create_planned_entry` compares the draft
   with `user_settings` under `FOR UPDATE`, but a route that has read the row before in its session
   gets the object it has: without `populate_existing` the locking read does not refresh it. A change
   of zone between the two reads goes unnoticed. The bot is not concerned: its transaction reads the
   row once.

What `locks` shows of deadlocks. Delivery, buttons, acknowledgements, skips, digests, quiet hours and
the change of zone take their locks in an order that excludes cycles among them, as
`delivery.py:368` and `locks.py:1` intend. Two kinds of transaction are outside it. A plan written
again (the hourly reconciliation, or a confirmation replayed) upserts notification rows of occurrences
it has not locked and then shares those occurrences: it may deadlock with a claim, either
finalisation, an acknowledgement, a message, a reaction to a notification and a skip. A review of a
change of zone locks rows first and `user_settings` last: it may deadlock with a reconciliation, a
creation, a confirmation of a zone, a button and a move. PostgreSQL rolls one back. If that is the
finalisation of a message that was sent, the row is sent again after its lease.

Noted without a run, on delivery and the rest: a crash after the send and before its record gives a
second message, which README.md:15-16 rules out; `CopiesExplained` bounds it; silence is decided from
the tick's reading of the clock, so a message claimed just before quiet hours may arrive with sound
inside them; a repeat leaves no message inside quiet hours (the comment at `delivery.py:769-777`) only
if every night ends longer before the next one begins than a message may be late (`NightsApart`),
since one due in a night is sent after its end even if the next has begun by then; the docstring of `deliver_due_morning_digests` promises at most one digest per user and
day, whereas a later batch is sent as a delta; `digest_enabled` has no effect on it; an attempt at
NIM is journalled after the call, and after the pause when it is retried, so a cancellation or a
failed write leaves a call without a record although `ai.py:127-128` rules hidden calls out; a chain
whose database session breaks goes on without the lock (`OneChainAtATime` names this exception).

Noted without a run, on creation. An answer to a commit that gets lost is told as
"Не удалось сохранить…" although the entry exists; if the owner then edits the card and confirms it, the
new card makes a second entry. After a change of zone a card of the bot can never be saved, though its
owner is told to try again; and a confirmation sent again after it is refused although its entry
exists. A card confirmed long after its moment makes an entry without an occurrence. A card that did
not get through leaves the chat in `ready`, without buttons. Buttons that cancel one dialogue
(`common:cancel`, `tz:cancel`, `tz:later`) clear any other. The first edit of a card whose wall time
fell into a spring gap shifts its local time to after the gap, which `FormMatchesCard` excepts.
After a journey west the local date of a routine that was done or skipped may be unfolded once more
(`timezones.py:208`): no document promises either way, so no property takes a side.

## 4. Proofs

TLC checks small instances; the following hold for all values of the constants that satisfy the named
assumptions (`StoreAssumption`, `FiniteAssumption`, `ZoneAssumption`, `SlotAssumption`,
`DeliveryAssumption`, `DigestAssumption`, `TimezonesAssumption`, `NimAssumption`, `DraftsAssumption`,
`LocksAssumption`, and those of Reactions, Scheduling and QuietClock). They ask for nothing but types,
finite sets of slots, entries, rows and workers, positive leases and limits, one slot per entry and moment,
fixed offsets in Timezones, and transitions no longer than `resolve_local_wall` searches (a spring gap)
or than a day (an autumn fold). Two theorems have a hypothesis of their own, named below.

* **QuietHours** - `QuietEndIsLater`, `QuietBeginIsEarlier`, `ResolveWallTimeIsWallToUtc`: arithmetic
  of wall times by cases on the side of the transition and of midnight. `ZoneAssumption` (a gap is
  no longer than `resolve_local_wall` searches) is needed for the first.
* **QuietClock** - `TypeCorrect`, `RecapAlwaysCoversTheNight`, `WindowAlwaysEndsQuiet`,
  `PolicyKeepsQuiet`, `ResolversAlwaysAgree`, `DigestAlwaysHasItsMoment`: every property of the run,
  for every length of day, zone, interval and moment.
* **Reminders** - of each row: `TypeCorrect`, `AttemptsAlwaysLeft`, `ReactionAlwaysEndsRepeats`,
  `SentStaysSent`, `RowsAlwaysMoveLater`, `ClosedStaysClosed`, `ReopensWithSignal`,
  `RepeatsStayBounded`, `KeysAlwaysUnique`; of the occurrence: `FinishedOwesNothing`,
  `ContextStaysOpen`, `SnoozeStaysTheOnlySignal`, and `LifecycleImplemented`, the refinement; of the
  workers: `LeasesExclude`, `CopiesAreExplained`, `ClaimsStayQuiet` (if `NightsApart`),
  `PersistenceAlwaysKept` (if `TicksAreBrief` or `NoNights`); for any number of workers, slots,
  entries and rows.
* **Digests** - `TypeCorrect`, `LedgerStaysOncePerDay`, `DigestCopiesAreExplained`, for any number of
  users, reminders, loops and crashes.
* **Timezones** - `TypeCorrect`, `JournalStaysAPath`, `WallTimeStaysConsistent`,
  `RoutinesKeepLocalTime`, `SignalsAlwaysFollow`, `OneOffsKeepTheirMoment`, for any number of zones,
  entries, cards and journeys.
* **Nim** - `GateExcludes`, `BudgetHolds`, `EverythingGivenBack`, `AnswersAreNotPaidTwice`, for any
  number of processes, tasks, models and retries and any size of the cache.
* **Drafts** - `OneEntry`, `SavedAsShown`, `AnswersStayTrue`, `EditsStartFromCard`, for any number of
  cards, requests, zones, moves and lost answers.
* **Locks** - `LocksTypeCorrect`, `Discipline`, `OthersNeverDeadlock`, for any number of transactions
  at once, of occurrences, rows, entries and routines, whichever rows are sent or planned.

The rest of this section is the arguments, one by one.

The argument on Reminders is one relation between the old and the new table. `RowEvolves` says what
any step may do to a row: it keeps its occurrence and kind, does not come earlier, stays sent, does
not turn into a pending repeat, and does not lose its last attempt while pending. `RowsEvolve` says
that all rows do, and that new ones are fresh and no repeat is born to an occurrence the owner has
reacted to. There is one lemma per action (`ClaimEvolves`, `FinalizeSentEvolves`, `SnoozeEvolves`,
...); `StepEvolves` collects them. Two of the theorems are action properties that follow at once.
The two invariants are not inductive: a cancelled row may be brought back by the plan, so that
"pending rows have attempts left" depends on rows that are not pending. `RowsInvariant` therefore
demands the attempts of every row by its status (`HasAttempts`), beside the types and the end of the
repeats, and is preserved because each row evolves. `BornIsUnborn` and `OccurrencesKept` do the same
for occurrences. `RepeatsStayBounded` counts: a repeat comes alone and only to an occurrence with a
repeat to spare, and no row changes its occurrence or kind.

`KeysAlwaysUnique` follows a claim, a repeat, a snooze and a plan through their search for a twin; the
invariant is the property itself, on sequences of rows (`Distinct`), because a plan's upsert and a
snooze work on a table that is not yet stored.

`FinishedOwesNothing` and `LifecycleImplemented` rest on what is true of a reconciliation between its
read and its write: what it will plan is not finished meanwhile, because the buttons that finish an
occurrence wait for `user_settings` (`PlanOpen`; a skip does not wait, hence finding 1); what it will
create does not exist yet (`BornIsUnborn`) and what it will plan exists by then (`PlanBorn`). With
`RowsExist`, a notification's occurrence exists, these are inductive. Under them `StepImplements`
maps each step: the claims, the failure and the loss of a lease to `GiveUp` or nothing, the record of
a success to `Send`, each button to its namesake, the write of a reconciliation to `Plan`.
`SignalsWithdrawn`, `SignalsPlanned`, `OneSignal` and `SignalAppended` say what the helpers on rows
look like through the mapping `Signals`.

`SnoozeStaysTheOnlySignal` needs to know that audit records name rows that exist and that nothing in
the plan of an open reconciliation has been snoozed (`SnoozesKnown`: a snooze waits for
`user_settings`). Then a pending row of a snoozed occurrence was made by the last snooze and is alone
(`SnoozesAlone`): a snooze withdraws all others, a snooze stops the repeats, and a move never takes a
snoozed occurrence for its target.

`LeasesExclude` and `CopiesAreExplained` come of one invariant, `LeaseInv`. A row is `Spent` when it
can never be claimed again, and otherwise it is `FreeFrom` a moment before which no clock reading
claims it. A row in flight is covered (`Covered`): it has failed, or is spent, or is free only after the
lease of the tick that holds it. The messages counted, those sent and those about to be (`Used`), are
paid for by the failures and by the leases between the row's moment and the one it is free from
(`Counted`). Every step is of one of two kinds: a claim for delivery, which uses one message and moves
the row a lease away (`ClaimSendLeases`, `LeasePays`), and any other (`Unclaiming`), which brings no
worker into flight and lets no row that is not spent be free earlier, except by a failed attempt
(`LeaseKept`, `FailurePays`).

`ClaimsStayQuiet` says that a claim made by a clock reading inside quiet hours is silent and is not of
a repeat. `LoudAfterEnd` is its arithmetic: the end of a night is loud, and so is what follows, as long
as the next night is away; hence `NightsApart`, quiet hours that end longer before they begin again
than a message may be late and a gap may skip.

`PersistenceAlwaysKept` turns on what was sent having a successor. `Fate` lists what a step may make of
a row: nothing, free its occurrence from repeats, bring it back, or one of six outcomes of a worker
that handles it. By `OnTime` a message on its way is about a row that was due when its tick read the
clock, and in brief ticks the lease still runs so that nobody else may handle it (`LeaseRuns`,
`FlownAlone`); away from quiet hours others may, but put nothing off (`NothingPutOff`). The repeat that
`FinalizeSent` plans, or finds planned, is therefore due later than the row it follows
(`RepeatPlanned`), and so is the twin a repeat gives way to (`PutOffLater`): every row that was sent,
and every repeat cancelled for a twin, is `Followed`. The latest repeat is followed by none, so it is
still to come, missed or failed.

On Digests `OneVisit` says that only one loop at a time is in the transaction of a user, because it
holds the user's row: what it read of the ledger and of the reminders is still so when it records
(`Ledgered`, `Batches`). `Excused` counts the copies of a reminder with those of a message on its way.

On Timezones `Journal` joins the path of the confirmed changes with what the cards and the entries say
of it; `RoutinesAtHome` says that routines live in the zone of the settings, which only a confirmation
changes and takes them along. `OccurrencesFit` holds of every occurrence, and of every sequence of them
a rebuild starts from (`RebuiltKeeps`): its signals are where the plan wants them and its moment is
where the local time of its routine is. Rebased rows keep it because a moment and its signals are moved
by the same distance, which in a zone with a fixed offset is the difference of the offsets
(`FixedZone`).

The lists that are made by `CHOOSE`, of new slots, planned rows, users of a tick, need that a finite set
has a first, a last and an enumeration in a linear order. `SubsetInduction` is induction over a finite
set with a set of subsets in place of a predicate, which the provers can instantiate; `LastExists`,
`ListExists` and `LeastNatural` follow from it.

On Nim the invariant `IInv` says of each request that its wait is within its budget and its attempts
within those of its model (`Proper`), and of the gate that a request between the grant and the unlock
holds the lock or has lost its session, and that at most one holds it (`Exclusive`). Neither theorem
is inductive alone: exclusion of chains needs the requests that are still asking, and the timers need
the types of what they are computed from. `GoesOn` serves all steps that leave the lock alone,
`LeaveKeeps` all that end a request. `EverythingGivenBack` adds the books of the semaphore
(`Accounts`): free permits and their holders make up the limit, a queue holds each waiter once and
nobody else, nobody waits while a permit is free, and the lock is held by nobody who has gone.
`AnswersAreNotPaidTwice` adds that a cache has kept its latest answer as long as that is fresh
(`Remembered`): looks take nothing fresh out, what is put in is not what makes room, and both age
together; and that a request goes from the gate to NIM only through the second look (`OnlyEnterAsks`).

On Drafts the types refer to the state itself: a card is a record over the forms and drafts that occur
on cards, so that nothing depends on what a form is before it is complete. `InForce` says that the
nonce of the dialogue names a card of the bot whose draft the dialogue would save, and that a press
being served was of a card seen; `Served` that the API confirms its own cards; `Settled` that a card
in force has an entry only if a commit went unheard, and that a cancelled card is never in force
again. With these `OneEntryPerCard`, `CreatedAsShown`, `AnswersHold` and `FormMatchesCard` are
inductive together. `CardAppended`, `CardTold`, `EntriesStay` and `EntryCreated` say what a step does
to cards and entries, `GoesOn` serves every step that makes neither, `ComesIntoForce` every new card
of the bot; `FormReadBack` (through `ReadBack`: an instant that a wall time was read as is what its
own wall time is read as) is what makes an edited text safe on both sides of a transition.

On Locks the locks have no order all transactions keep: a change of zone takes occurrences without
their advisory locks and goes back from rows and entries to occurrences, a digest takes rows without
their occurrences, and a reaction may cancel rows before or after it takes the context. The order is
therefore per operation. `Rank` gives each request of an operation one of eight places, in which an
operation may only climb, except where it takes several at one place (`Several`). All that a change
of zone takes after `user_settings` is at one place, above that of an occurrence others ask for
(`ZoneClimbs`): others that could wait for it wait there, and two changes of zone are never both
past `user_settings`. `Guarded` says what an operation has before it asks: for a row of a
notification its occurrence, or `user_settings` if it is the digest; for the context that of the
user. `Orderly` is a sequence that climbs and is guarded at each request. `BothOrderly` puts two
such sequences one after the other, `RowsOrderly` is a statement over many rows in whatever order,
and with them each operation is read off its definition (`WorkerOrderly`, `ButtonOrderly`,
`ConfirmZoneOrderly`, ...; `AllStart` collects them), a turn of the change of zone too, whatever it
holds by then (`TurnOrderly`). The invariant `IInv` adds to the types that an operation outside the
culprits holds only what was guarded and has an orderly rest to ask for (`Disciplined`), that a
change of zone with turns left has `user_settings` or still asks for it (`Looping`), and that no two
transactions hold locks that exclude each other (`Compatible`). `WaitsClimb` is the reason why there
is no cycle: if one waits for another that waits too, the other waits at a higher rank. Where the
lock itself does not show it, because both reach it at the last rank or at the same one, what guards
it would be held twice: among these operations nobody ever waits for a pending row, for a context or
for an entry. There are eight ranks, so in a set where everybody waits for somebody in it one is a
plan written again or a review (`NoEndlessClimb`, without induction).

**Model-checked only.** Liveness (`DueIsServed`, `DigestServed`): the prover has no ENABLED. The three
expected violations are counterexamples, for which a small instance is enough.

## 5. Not modelled, and why

* Understanding of a text (prompt and schema of `nim.py`, the answer's fields): an outcome of NIM in
  Drafts, any form. `normalize` is modelled on one moment; recurrence rules are a constant set of slots.
* The dialogue of a change of zone in the chat: its buttons carry the zone and the confirmation, and
  Timezones lets any card be pressed at any time.
* My day, keyboards, texts, HTTP schemas, authentication: presentation of the
  operations that are modelled.
* Entry points, configuration, logging, migrations, tools: wiring.

## 6. Plan

Done: QuietHours/QuietClock, ReminderStore, Delivery, Reactions, Scheduling, Reminders with Lifecycle,
Digests, Timezones, Nim, Drafts, Locks, and the proofs of section 4.

1. **Timezones**: the local date of a routine that was skipped or done before a move west, which the
   rebuild unfolds a second time; a KEEP_LOCAL decision taken after the event. Both need a property
   per local date and a later clock.
2. **Nim**: a model of the journal (an attempt without a record is explained by a failed write or a
   cancellation) and liveness of a request, which needs strong fairness of time because a
   `Retry-After` of zero can repeat without any passing.

Every safety property the passing runs check is proved. What is left to prove is what the prover does
not support (liveness).
