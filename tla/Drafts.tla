------------------------------- MODULE Drafts -------------------------------
(***************************************************************************)
(* From a message of the owner to a saved entry: the dialogue of           *)
(* telegram/router.py, the routes of api/routers/entries.py, and the       *)
(* transaction of domain/planning.py and domain/entries.py both end in.    *)
(*                                                                         *)
(* A card is a draft with the id of its confirmation (the nonce of the     *)
(* bot, the confirmation_id of the API), here its position in cards.  The  *)
(* dialogue is kept in memory and its updates are handled one at a time;   *)
(* the routes, the change of zone and the clock go on while a handler      *)
(* waits for NIM or for the database.                                      *)
(***************************************************************************)
EXTENDS QuietHours, Sequences

CONSTANTS
  Tz,          \* zones the owner may move between
  HomeTz,      \* the one of the start
  Kind,        \* entry kinds in play: "event" or "task", and "routine"
  Date,        \* local dates the owner names
  Clock,       \* local times of day the owner names
  Detail,      \* title, duration and reminders, which are copied as they are
  Request,     \* requests to confirm the API serves at once
  Past,        \* PAST_TOLERANCE
  MaxCards,    \* bound: cards of the bot and of the API
  MaxMoves,    \* bound: changes of zone
  MaxLost,     \* bound: commits whose answer is lost
  MaxTime      \* bound on the clock

ASSUME DraftsAssumption ==
  /\ Tz \subseteq Zone /\ HomeTz \in Tz
  /\ Kind \subseteq {"event", "task", "routine"}
  /\ Date \subseteq Int /\ Clock \subseteq 0 .. Day - 1
  /\ {Past, MaxCards, MaxMoves, MaxLost, MaxTime} \subseteq Nat

VARIABLES
  clock,
  tz,       \* user_settings.tz
  moves,    \* changes of zone so far
  chat,     \* what MemoryStorage keeps of the owner's dialogue
  act,      \* the handler of the owner's chat that is waiting for something
  cards,    \* cards made so far, and what the owner knows of each
  entries,  \* entries with the audit records of their confirmations
  req,      \* the API's requests to confirm
  lost      \* commits whose answer was lost

vars == <<clock, tz, moves, chat, act, cards, entries, req, lost>>

\* ManualEntryInput: a wall time, and whether there is a recurrence.
Form == [kind : Kind, date : Date, time : Clock, rec : BOOLEAN, detail : Detail]

\* NormalizedEntry; at is start_at_utc or due_at_utc.
Draft == [kind : Kind, at : Int, local : 0 .. Day - 1, rec : BOOLEAN,
          detail : Detail, zone : Tz]

NoForm  == [date |-> 0]
NoDraft == [at |-> 0]

\* told is what the bot has answered to presses on the card.
NewCard(by, form, draft, seen) ==
  [by |-> by, form |-> form, draft |-> draft, seen |-> seen, told |-> {}]

EditStates ==
  {"edit_kind", "edit_date", "edit_time", "edit_recurrence", "edit_detail"}

ManualStates == {"kind", "date", "time", "duration", "recurrence", "title"}

\* form is the fields collected, then data["manual"]; draft data["normalized"].
NoDialogue ==
  [state |-> "none", zone |-> HomeTz, form |-> NoForm, draft |-> NoDraft, nonce |-> 0]

NoHandler == [pc |-> "idle", zone |-> HomeTz, now |-> 0]

NoRequest == [pc |-> "idle", card |-> 0, zone |-> HomeTz]

Init ==
  /\ clock = 0 /\ tz = HomeTz /\ moves = 0
  /\ chat = NoDialogue /\ act = NoHandler
  /\ cards = << >> /\ entries = << >>
  /\ req = [r \in Request |-> NoRequest]
  /\ lost = 0

-----------------------------------------------------------------------------
(* Forms and drafts. *)

Wall(form) == form.date * Day + form.time

\* entries.prepare_manual_entry through parsing.normalize: a routine needs its
\* recurrence, and nothing but a routine may lie far in the past.
Preparable(form, zone, now) ==
  IF form.kind = "routine" THEN form.rec
                           ELSE ~ form.rec /\ WallToUtc(zone, Wall(form)) >= now - Past

Prepared(form, zone) ==
  [kind |-> form.kind, at |-> WallToUtc(zone, Wall(form)), local |-> form.time,
   rec |-> form.rec, detail |-> form.detail, zone |-> zone]

\* Defect: the moment is read back as if it were local already.
FormOfUtc(draft) ==
  [kind |-> draft.kind, date |-> draft.at \div Day, time |-> draft.at % Day,
   rec |-> draft.rec, detail |-> draft.detail]

\* presenters.manual_fields_from_normalized: the moment read back in its zone.
FormOf(draft) ==
  LET wall == Local(draft.zone, draft.at)
  IN  [kind |-> draft.kind, date |-> wall \div Day, time |-> wall % Day,
       rec |-> draft.rec, detail |-> draft.detail]

-----------------------------------------------------------------------------
(* The transaction of planning.create_planned_entry. *)

\* Defect: a confirmation that was recorded is not looked for.
RecordedNever(card) == {}

Recorded(card) == {e \in DOMAIN entries : entries[e].card = card}

\* known is the zone the transaction takes user_settings to have.  An entry is
\* written with its audit record, or the one of an earlier confirmation found.
\* What is unfolded and planned then is Scheduling's Unfolded and Upserted for
\* this one entry, under the same lock.
CreatePlannedEntry(card, draft, known) ==
  /\ draft.zone = known
  /\ \A e \in Recorded(card) : entries[e].draft = draft
  /\ entries' = IF Recorded(card) = {}
                  THEN Append(entries, [card |-> card, draft |-> draft, tz |-> tz])
                  ELSE entries

-----------------------------------------------------------------------------
(* The dialogue. *)

Awake == act.pc = "idle"

At(s) == Awake /\ chat.state = s

Dialogue == UNCHANGED <<clock, tz, moves, act, entries, req, lost>>

\* _begin_manual, from /add, the word in the menu, or a button of any age.
BeginManual ==
  /\ Awake
  /\ chat' = [NoDialogue EXCEPT !.state = "kind", !.zone = tz]
  /\ UNCHANGED cards /\ Dialogue

\* /start, /cancel, /timezone and the buttons that cancel some dialogue: none of
\* them asks which one is going on.
Leave ==
  /\ Awake
  /\ chat' = NoDialogue
  /\ UNCHANGED cards /\ Dialogue

ChooseKind ==
  /\ At("kind")
  /\ \E k \in Kind : chat' = [chat EXCEPT !.form = [kind |-> k, rec |-> FALSE],
                                          !.state = "date"]
  /\ UNCHANGED cards /\ Dialogue

\* update_data of the storage, for fields that may not be there yet.
With(form, changes) ==
  [f \in DOMAIN form \cup DOMAIN changes |->
     IF f \in DOMAIN changes THEN changes[f] ELSE form[f]]

ChooseDate ==
  /\ At("date")
  /\ \E d \in Date : chat' = [chat EXCEPT !.form = With(@, [date |-> d]),
                                          !.state = "time"]
  /\ UNCHANGED cards /\ Dialogue

ChooseTime ==
  /\ At("time")
  /\ \E c \in Clock :
       chat' = [chat EXCEPT
                  !.form  = With(@, [time |-> c]),
                  !.state = IF chat.form.kind = "routine" THEN "recurrence" ELSE "duration"]
  /\ UNCHANGED cards /\ Dialogue

ChooseDuration ==
  /\ At("duration")
  /\ chat' = [chat EXCEPT !.state = "title"]
  /\ UNCHANGED cards /\ Dialogue

ChooseRecurrence ==
  /\ At("recurrence")
  /\ chat' = [chat EXCEPT !.form.rec = TRUE, !.state = "title"]
  /\ UNCHANGED cards /\ Dialogue

\* Defect: an edited card keeps the nonce of the one it replaces.
NonceOfTheOld == IF chat.nonce = 0 THEN Len(cards) + 1 ELSE chat.nonce

NextNonce == Len(cards) + 1

\* _store_and_show: the state comes first; the message may not get through.
StoreAndShow(form, draft, zone) ==
  /\ Len(cards) < MaxCards
  /\ \E seen \in BOOLEAN :
       cards' = Append(cards, NewCard("bot", form, draft, seen))
  /\ chat' = [state |-> "ready", zone |-> zone, form |-> form,
              draft |-> draft, nonce |-> NextNonce]

\* _prepare_manual_and_show, _reprepare_and_show: the card of a filled-in form.
ShowForm(form) ==
  /\ Preparable(form, chat.zone, clock)
  /\ StoreAndShow(form, Prepared(form, chat.zone), chat.zone)

\* The last answer: a card, or back to the date.
EnterTitle ==
  /\ At("title")
  /\ \E x \in Detail :
       LET form == With(chat.form, [detail |-> x])
       IN  \/ ShowForm(form)
           \/ /\ ~ Preparable(form, chat.zone, clock)
              /\ chat' = [chat EXCEPT !.form = form, !.state = "date"]
              /\ UNCHANGED cards
  /\ Dialogue

\* The owner presses a button that was shown to him on the card in force.
OnCard(i) ==
  /\ At("ready") /\ chat.nonce = i
  /\ cards[i].by = "bot" /\ cards[i].seen

ChooseEdit(i) ==
  /\ OnCard(i)
  /\ \E s \in EditStates :
       /\ s = "edit_recurrence" => chat.form.kind = "routine"
       /\ chat' = [chat EXCEPT !.state = s]
  /\ UNCHANGED cards /\ Dialogue

\* What an answer makes of data["manual"]; a kind takes the recurrence along.
Answers ==
  CASE chat.state = "edit_kind" ->
         {[chat.form EXCEPT !.kind = k, !.rec = @ /\ k = "routine"] : k \in Kind}
    [] chat.state = "edit_date"       -> {[chat.form EXCEPT !.date = d] : d \in Date}
    [] chat.state = "edit_time"       -> {[chat.form EXCEPT !.time = c] : c \in Clock}
    [] chat.state = "edit_recurrence" -> {[chat.form EXCEPT !.rec = TRUE]}
    [] chat.state = "edit_detail"     -> {[chat.form EXCEPT !.detail = x] : x \in Detail}

\* An answer to an edit, in the zone the dialogue began with.  If nothing comes
\* of it the answer stays in the form and the question is still open.
Edit ==
  /\ Awake /\ chat.state \in EditStates
  /\ \E form \in Answers :
       LET asksOn == chat.state = "edit_kind" /\ form.kind = "routine" /\ ~ form.rec
       IN  \/ ~ asksOn /\ ShowForm(form)
           \/ /\ asksOn \/ ~ Preparable(form, chat.zone, clock)
              /\ chat' = [chat EXCEPT
                            !.form = form,
                            !.state = IF asksOn THEN "edit_recurrence" ELSE @]
              /\ UNCHANGED cards
  /\ Dialogue

\* natural_text, clarification_answer: zone and clock are read before NIM is
\* asked, which may take long.
SendText ==
  /\ Awake /\ chat.state \in {"none", "waiting"}
  /\ act' = [pc |-> "parsing", zone |-> tz, now |-> clock]
  /\ UNCHANGED <<clock, tz, moves, chat, cards, entries, req, lost>>

\* _prepare_text_and_route: a card, a question, the offer of the manual form,
\* or an exception that ends the handler.
TextParsed ==
  /\ act.pc = "parsing"
  /\ act' = NoHandler
  /\ \/ \E form \in Form :
          /\ Preparable(form, act.zone, act.now)
          /\ LET draft == Prepared(form, act.zone)
             IN  StoreAndShow(FormOf(draft), draft, act.zone)
     \/ chat' \in {[chat EXCEPT !.state = "waiting"], NoDialogue, chat} /\ UNCHANGED cards
  /\ UNCHANGED <<clock, tz, moves, entries, req, lost>>

-----------------------------------------------------------------------------
(* Confirming a card. *)

Tell(i, what) == [cards EXCEPT ![i].told = @ \cup {what}]

\* confirm_create up to its transaction.
Press(i) ==
  /\ OnCard(i)
  /\ act' = [NoHandler EXCEPT !.pc = "saving"]
  /\ UNCHANGED <<clock, tz, moves, chat, cards, entries, req, lost>>

Save == CreatePlannedEntry(chat.nonce, chat.draft, tz)

\* Committed, and the dialogue cleared.
Saved ==
  /\ act.pc = "saving" /\ Save
  /\ cards' = Tell(chat.nonce, "created")
  /\ chat' = NoDialogue /\ act' = NoHandler
  /\ UNCHANGED <<clock, tz, moves, req, lost>>

\* Committed, but the connection broke before the answer: an SQLAlchemyError
\* like any other, and the card stays.
SavedUnheard ==
  /\ act.pc = "saving" /\ Save
  /\ lost < MaxLost /\ lost' = lost + 1
  /\ cards' = Tell(chat.nonce, "failed")
  /\ act' = NoHandler
  /\ UNCHANGED <<clock, tz, moves, chat, req>>

\* The zone has changed, or the database refuses.
NotSaved ==
  /\ act.pc = "saving"
  /\ cards' = Tell(chat.nonce, "failed")
  /\ act' = NoHandler
  /\ UNCHANGED <<clock, tz, moves, chat, entries, req, lost>>

\* Defect: the nonce of the button is not compared.
CancelAny(i) ==
  /\ At("ready") /\ cards[i].by = "bot" /\ cards[i].seen
  /\ cards' = Tell(i, "cancelled")
  /\ chat' = NoDialogue
  /\ Dialogue

\* confirm_cancel.
CancelCard(i) ==
  /\ OnCard(i)
  /\ cards' = Tell(i, "cancelled")
  /\ chat' = NoDialogue
  /\ Dialogue

\* The bot's process is replaced: the dialogue was only in its memory.
Restart ==
  /\ chat' = NoDialogue /\ act' = NoHandler
  /\ UNCHANGED <<clock, tz, moves, cards, entries, req, lost>>

-----------------------------------------------------------------------------
(* The API. *)

\* preview_manual, and preview_text when the model has understood.
Preview ==
  /\ Len(cards) < MaxCards
  /\ \E form \in Form :
       /\ Preparable(form, tz, clock)
       /\ cards' = Append(cards, NewCard("api", form, Prepared(form, tz), TRUE))
  /\ UNCHANGED <<clock, tz, moves, chat, act, entries, req, lost>>

\* confirm_entry up to its transaction: the zone is read without a lock, and the
\* draft must come out of the form again as it was shown, or the request ends.
\* The client may send a confirmation again, while the first is served or ever
\* after.
ConfirmRead(r, i) ==
  /\ req[r].pc = "idle" /\ cards[i].by = "api"
  /\ Preparable(cards[i].form, tz, clock)
  /\ Prepared(cards[i].form, tz) = cards[i].draft
  /\ req' = [req EXCEPT ![r] = [pc |-> "read", card |-> i, zone |-> tz]]
  /\ UNCHANGED <<clock, tz, moves, chat, act, cards, entries, lost>>

\* The lock on user_settings is taken by a SELECT that finds the row in the
\* identity map of the session, read by ConfirmRead, and leaves it as it is (no
\* populate_existing): the check compares with the zone read then.
ConfirmCommit(r) ==
  LET q == req[r]
  IN  /\ q.pc = "read"
      /\ CreatePlannedEntry(q.card, cards[q.card].draft, q.zone)
      /\ req' = [req EXCEPT ![r] = NoRequest]
      /\ UNCHANGED <<clock, tz, moves, chat, act, cards, lost>>

\* Refused, failed, or the process died.
ConfirmFails(r) ==
  /\ req[r].pc = "read"
  /\ req' = [req EXCEPT ![r] = NoRequest]
  /\ UNCHANGED <<clock, tz, moves, chat, act, cards, entries, lost>>

-----------------------------------------------------------------------------

\* timezones.confirm_timezone_change, from a chat or from the API.
ChangeZone ==
  /\ moves < MaxMoves /\ moves' = moves + 1
  /\ tz' \in Tz \ {tz}
  /\ UNCHANGED <<clock, chat, act, cards, entries, req, lost>>

Advance ==
  /\ clock < MaxTime /\ clock' = clock + 1
  /\ UNCHANGED <<tz, moves, chat, act, cards, entries, req, lost>>

Talk ==
  \/ BeginManual \/ Leave
  \/ ChooseKind \/ ChooseDate \/ ChooseTime \/ ChooseDuration \/ ChooseRecurrence
  \/ EnterTitle \/ Edit
  \/ SendText \/ TextParsed
  \/ \E i \in DOMAIN cards : ChooseEdit(i) \/ Press(i) \/ CancelCard(i)
  \/ Saved \/ SavedUnheard \/ NotSaved
  \/ Restart

Serve ==
  \/ Preview
  \/ \E r \in Request :
       \/ \E i \in DOMAIN cards : ConfirmRead(r, i)
       \/ ConfirmCommit(r) \/ ConfirmFails(r)

Next == Talk \/ Serve \/ ChangeZone \/ Advance

Spec == Init /\ [][Next]_vars

-----------------------------------------------------------------------------
(* Safety. *)

\* However often a card is confirmed, by whatever way the answer was lost, and
\* by two requests at once, one entry comes of it.
OneEntryPerCard ==
  \A d, e \in DOMAIN entries : entries[d].card = entries[e].card => d = e

\* What is saved is what stood on the card whose button was pressed: no edit, no
\* newer card, no restart and no change of zone slips in between.
CreatedAsShown ==
  \A e \in DOMAIN entries :
    LET card == cards[entries[e].card]
    IN  card.seen /\ entries[e].draft = card.draft

\* A card and the form its edits start from say the same, whether the form was
\* filled in, read back from what NIM understood, or edited with detours: what
\* an edit does not ask for stays as the card showed it.  A wall time that does
\* not exist is the exception, as FormOf reads it back after the gap.
FormMatchesCard ==
  LET d == chat.draft
  IN  chat.state = "ready" /\ d.local = Local(d.zone, d.at) % Day =>
        d.zone = chat.zone /\ Prepared(chat.form, d.zone) = d

\* The bot's answers hold: a card it calls created has its entry; one it calls
\* cancelled has none, unless a commit went through unheard.
AnswersHold ==
  \A i \in DOMAIN cards :
    /\ "created" \in cards[i].told => Recorded(i) # {}
    /\ "cancelled" \in cards[i].told /\ Recorded(i) # {} =>
         "failed" \in cards[i].told /\ lost > 0

-----------------------------------------------------------------------------
(* A claim of the repository the code does not keep. *)

\* planning.py, and a test: a card of an older zone is refused, so every entry
\* is in the zone in force when it was saved.
SavedInCurrentZone ==
  \A e \in DOMAIN entries : entries[e].draft.zone = entries[e].tz
=============================================================================
