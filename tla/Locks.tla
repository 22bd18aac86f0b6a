------------------------------- MODULE Locks -------------------------------
(***************************************************************************)
(* The locks of one user's data, in the order each operation takes them:   *)
(* the advisory locks of domain/locks.py, the row locks of SELECT ... FOR  *)
(* UPDATE, and those an UPDATE, an upsert or a foreign key takes without   *)
(* the code saying so.                                                     *)
(*                                                                         *)
(* A transaction is the sequence of its requests; that of a change of zone *)
(* comes turn by turn, as its loop over the routines goes.  It keeps what  *)
(* it has got until it ends.  One that returns early, fails, or finds less *)
(* to change asks for part of the same requests in the same order; it      *)
(* waits less and blocks less, and is left out.                            *)
(***************************************************************************)
EXTENDS Integers, Sequences, SequencesExt

CONSTANTS
  Process,   \* transactions open at once
  Occ,       \* occurrences, in the order of their ids
  Row,       \* their notifications, in the order the plan lists them
  OccOf,     \* [Row -> Occ]
  Sent,      \* rows already delivered; the others are pending
  Planned,   \* rows of the standard plan, which an upsert runs into
  Fresh,     \* occurrences whose plan lacks a row, which an upsert inserts
  Entry,
  EntryOf,   \* [Occ -> Entry]
  Routines,  \* the entries that are routines
  Unfolds    \* entries with an occurrence still to be created

ASSUME LocksAssumption ==
  /\ Occ \subseteq Nat /\ Row \subseteq Nat /\ Entry \subseteq Nat
  /\ IsFiniteSet(Occ) /\ IsFiniteSet(Row) /\ IsFiniteSet(Entry)
  /\ OccOf \in [Row -> Occ] /\ EntryOf \in [Occ -> Entry]
  /\ Sent \subseteq Row /\ Planned \subseteq Row /\ Fresh \subseteq Occ
  /\ Routines \subseteq Entry /\ Unfolds \subseteq Entry

VARIABLE run   \* per process: its operation, what it still asks for, the routines
               \* its loop has left, what it has

-----------------------------------------------------------------------------
(* Requests.  FOR UPDATE and advisory locks exclude every other; an UPDATE of *)
(* columns no key is made of tolerates a foreign key's share of the row.      *)

Req(kind, id, mode) == [kind |-> kind, id |-> id, mode |-> mode]

Conflicting(a, b) ==
  /\ a.kind = b.kind /\ a.id = b.id
  /\ \/ "update" \in {a.mode, b.mode}
     \/ a.mode = "nokey" /\ b.mode = "nokey"

\* A statement without ORDER BY takes its rows in any order.
InAnyOrder(kind, ids, mode) ==
  {[i \in DOMAIN s |-> Req(kind, s[i], mode)] : s \in SetToSeqs(ids)}

\* A statement that takes them by ORDER BY, or in the order of its VALUES.
InOrder(kind, ids, mode) ==
  {s \in InAnyOrder(kind, ids, mode) :
     \A i, j \in DOMAIN s : i < j => s[i].id < s[j].id}

PendingOf(occs) == {n \in Row \ Sent : OccOf[n] \in occs}

OccsOf(entries) == {o \in Occ : EntryOf[o] \in entries}

\* locks.py.
UserContext == <<Req("user", 0, "update")>>

\* user_settings ... FOR UPDATE.
Settings == <<Req("settings", 0, "update")>>

ActiveContext == <<Req("context", 0, "update")>>

\* lock_occurrence_action, then the row.
Occurrence(o) == <<Req("action", o, "update"), Req("occurrence", o, "update")>>

Notification(n) == <<Req("notification", n, "update")>>

\* Inserting an occurrence shares its entry.
Unfold(entries) == InOrder("entry", entries, "share")

\* The upsert of schedule_notifications locks every row it runs into, whether
\* it changes it or not; then the foreign keys of the rows it inserts are checked.
Plan(occs) ==
  {met \o inserted
     : met \in InOrder("notification", {n \in Planned : OccOf[n] \in occs}, "nokey"),
       inserted \in InOrder("occurrence", occs \cap Fresh, "share")}

-----------------------------------------------------------------------------
(* Operations, each with the sequences it may ask for. *)

\* delivery._claim_one.
Claim(n) ==
  {UserContext \o Occurrence(OccOf[n]) \o Notification(n)
     \o <<Req("context", 0, "nokey")>>}

\* delivery._finalize_sent_delivery; its repeat is a new row of a locked occurrence.
FinalizeSent(n) == {Occurrence(OccOf[n]) \o Notification(n)}

\* delivery._finalize_failed_delivery.
FinalizeFailed(n) ==
  {UserContext \o Occurrence(OccOf[n]) \o Notification(n) \o ActiveContext}

\* delivery.acknowledge_occurrence: cancel_pending_repeats, then the context.
Acknowledge(o) ==
  {UserContext \o Occurrence(o) \o repeats \o ActiveContext
     : repeats \in InAnyOrder("notification", PendingOf({o}), "nokey")}

\* delivery.react_to_active_context.
ReactToMessage(o) ==
  {UserContext \o Occurrence(o) \o ActiveContext \o repeats
     : repeats \in InAnyOrder("notification", PendingOf({o}), "nokey")}

\* delivery.react_to_notification.
ReactToNotification(n) ==
  {UserContext \o Occurrence(OccOf[n]) \o Notification(n) \o ActiveContext \o repeats
     : repeats \in InAnyOrder("notification", PendingOf({OccOf[n]}), "nokey")}

\* Defect: user_settings is locked after the occurrence.
LockSourceSettingsLast(n) ==
  UserContext \o Occurrence(OccOf[n]) \o Settings \o Notification(n) \o ActiveContext

\* reactions._lock_source.
LockSource(n) ==
  UserContext \o Settings \o Occurrence(OccOf[n]) \o Notification(n) \o ActiveContext

\* The buttons: what is pending is cancelled; a move writes the entry and adds
\* an occurrence to it.
Button(n, moves) ==
  LET e       == EntryOf[OccOf[n]]
      written == IF moves /\ e \notin Routines THEN <<Req("entry", e, "nokey")>> ELSE <<>>
  IN  {LockSource(n) \o cancelled \o written \o added
         : cancelled \in InAnyOrder("notification", PendingOf({OccOf[n]}), "nokey"),
           added \in Unfold(IF moves THEN {e} ELSE {})}

\* scheduling.skip_occurrence.
SkipOccurrence(o) ==
  {UserContext \o Occurrence(o) \o cancelled \o ActiveContext
     : cancelled \in InAnyOrder("notification", PendingOf({o}), "nokey")}

\* The hourly reconciliation, over all occurrences.
Reconcile ==
  {Settings \o added \o planned : added \in Unfold(Unfolds), planned \in Plan(Occ)}

\* planning.create_planned_entry: a new entry is nobody else's yet, but a
\* confirmation sent again plans the occurrences of an entry that exists.
Create(e) ==
  {Settings \o <<Req("confirmation", e, "update")>> \o added \o planned
     : added \in Unfold(Unfolds \cap {e}), planned \in Plan(OccsOf({e}))}

\* users.update_quiet_hours.
UpdateQuietHours == {<<Req("settings", 0, "nokey")>>}

\* digests._deliver_user_digest.
Digest == {Settings \o claimed : claimed \in InAnyOrder("notification", Sent, "update")}

\* The rows of the first of occs, then those of the next.
OneByOne(occs, rows) ==
  \A i, j \in DOMAIN rows, k, l \in DOMAIN occs :
    OccOf[rows[i].id] = occs[k].id /\ OccOf[rows[j].id] = occs[l].id /\ k < l => i < j

\* timezones._rebase_occurrences: by their moments, which keep no order of ids.
Rebase(e) ==
  UNION {{occs \o rows
            : rows \in {r \in InAnyOrder("notification", PendingOf(OccsOf({e})), "update") :
                         OneByOne(occs, r)}}
           : occs \in InAnyOrder("occurrence", OccsOf({e}), "update")}

\* timezones._rebase_routine, whose entry is written at the next flush, then
\* what is added to unfolds.
RebaseRoutine(e, unfolds) ==
  {rebased \o <<Req("entry", e, "nokey")>> \o added
     : rebased \in Rebase(e), added \in Unfold(unfolds)}

\* timezones.confirm_timezone_change, as far as its loop; the rebuild follows the
\* last turn, and its notifications are those of new occurrences.
ConfirmZone ==
  {Settings \o added : added \in Unfold(IF Routines = {} THEN Unfolds ELSE {})}

\* timezones.review_timezone_entry and the rebuild, which locks user_settings last.
Review(e) ==
  {<<Req("change", 0, "update"), Req("entry", e, "update")>> \o rebased
     \o Settings \o added
     : rebased \in Rebase(e), added \in Unfold(Unfolds)}

-----------------------------------------------------------------------------

Op(name, id) == [name |-> name, id |-> id]

\* What may run.
Operations ==
  [name : {"claim", "finalize_failed"}, id : Row \ Sent]
    \cup [name : {"finalize_sent", "notification", "button", "move"}, id : Row]
    \cup [name : {"acknowledge", "message"}, id : Occ]
    \cup [name : {"skip"}, id : OccsOf(Routines)]
    \cup [name : {"create"}, id : Entry] \cup [name : {"review"}, id : Entry \ Routines]
    \cup [name : {"reconcile", "quiet_hours", "digest", "confirm_zone"}, id : {0}]

Sequences(op) ==
  CASE op.name = "claim"           -> Claim(op.id)
    [] op.name = "finalize_sent"   -> FinalizeSent(op.id)
    [] op.name = "finalize_failed" -> FinalizeFailed(op.id)
    [] op.name = "acknowledge"     -> Acknowledge(op.id)
    [] op.name = "message"         -> ReactToMessage(op.id)
    [] op.name = "notification"    -> ReactToNotification(op.id)
    [] op.name = "button"          -> Button(op.id, FALSE)
    [] op.name = "move"            -> Button(op.id, TRUE)
    [] op.name = "skip"            -> SkipOccurrence(op.id)
    [] op.name = "reconcile"       -> Reconcile
    [] op.name = "create"          -> Create(op.id)
    [] op.name = "quiet_hours"     -> UpdateQuietHours
    [] op.name = "digest"          -> Digest
    [] op.name = "confirm_zone"    -> ConfirmZone
    [] op.name = "review"          -> Review(op.id)

\* What its loop has to turn to.
LeftOf(op) == IF op.name = "confirm_zone" THEN Routines ELSE {}

\* An operation that starts, with one of its sequences.
Started(op) ==
  {[op |-> op, todo |-> s, held |-> {}, left |-> LeftOf(op)] : s \in Sequences(op)}

Request ==
  [kind : {"user", "settings", "context", "action", "occurrence", "notification",
           "entry", "confirmation", "change"},
   id : Nat, mode : {"update", "nokey", "share"}]

Transaction ==
  [op : Operations \cup {Op("ended", 0)}, todo : Seq(Request),
   left : SUBSET Routines, held : SUBSET Request]

TypeOK == run \in [Process -> Transaction]

Init == run \in [Process -> UNION {Started(op) : op \in Operations}]

Open(p) == run[p].op.name # "ended"

Wanted(p) == run[p].todo # << >>

Blocks(q, p) ==
  /\ p # q /\ Wanted(p)
  /\ \E h \in run[q].held : Conflicting(Head(run[p].todo), h)

Acquire(p) ==
  /\ Wanted(p) /\ \A q \in Process : ~ Blocks(q, p)
  /\ run' = [run EXCEPT ![p].todo = Tail(@), ![p].held = @ \cup {Head(run[p].todo)}]

\* The next turn of the loop of confirm_timezone_change.
NextRoutine(p) ==
  /\ ~ Wanted(p)
  /\ \E e \in run[p].left :
       /\ \A f \in run[p].left : e <= f
       /\ \E s \in RebaseRoutine(e, IF run[p].left = {e} THEN Unfolds ELSE {}) :
            run' = [run EXCEPT ![p].todo = s, ![p].left = @ \ {e}]

Ended == [op |-> Op("ended", 0), todo |-> << >>, left |-> {}, held |-> {}]

Commit(p) ==
  /\ Open(p) /\ ~ Wanted(p) /\ run[p].left = {}
  /\ run' = [run EXCEPT ![p] = Ended]

\* Transactions of S that wait for one another and for nobody else to be rid of it.
Deadlocked(S) == S # {} /\ \A p \in S : \E q \in S : Blocks(q, p)

\* PostgreSQL's deadlock detector rolls back one of them.
Victim(p) ==
  /\ \E S \in SUBSET Process : p \in S /\ Deadlocked(S)
  /\ run' = [run EXCEPT ![p] = Ended]

Next == \E p \in Process : Acquire(p) \/ NextRoutine(p) \/ Commit(p) \/ Victim(p)

Spec == Init /\ [][Next]_run

-----------------------------------------------------------------------------

\* Those that ask for rows of occurrences they have not locked, or for
\* user_settings after rows: a plan written again, and a review.
OutOfOrder == {"reconcile", "create", "review"}

\* Delivery, reactions, skips, digests, quiet hours and the change of zone never
\* deadlock among themselves, however many of them meet: in every deadlock
\* there is a transaction that writes a plan again, or a review.
CyclesExplained ==
  \A S \in SUBSET Process :
    Deadlocked(S) => \E p \in S : run[p].op.name \in OutOfOrder
=============================================================================
