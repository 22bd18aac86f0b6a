---------------------------- MODULE DraftsProofs ----------------------------
(***************************************************************************)
(* Proofs about Drafts, for any number of cards, requests, zones and lost  *)
(* commits: one entry comes of a card, with what the card showed; the bot's *)
(* answers hold; and edits start from what the card says.                  *)
(***************************************************************************)
EXTENDS Drafts, QuietHoursProofs, SequenceTheorems

ToldSet == {"created", "failed", "cancelled"}

States == {"none", "waiting", "ready"} \cup EditStates \cup ManualStates

\* Forms and drafts are whatever they are: nothing here depends on their types.
CardSet(forms, drafts) ==
  [by : {"bot", "api"}, form : forms, draft : drafts, seen : BOOLEAN, told : SUBSET ToldSet]

DialogueSet(forms, drafts) ==
  [state : States, zone : Tz, form : forms, draft : drafts, nonce : Nat]

EntrySet(drafts) == [card : DOMAIN cards, draft : drafts, tz : Tz]

RequestSet == [pc : {"idle", "read"}, card : Nat, zone : Tz]

HandlerSet == [pc : {"idle", "parsing", "saving"}, zone : Tz, now : Nat]

CardsTyped ==
  cards \in Seq(CardSet({cards[i].form : i \in DOMAIN cards},
                        {cards[i].draft : i \in DOMAIN cards}))

EntriesTyped == entries \in Seq(EntrySet({entries[e].draft : e \in DOMAIN entries}))

Typed ==
  /\ clock \in Nat /\ tz \in Tz /\ lost \in Nat
  /\ CardsTyped /\ EntriesTyped
  /\ chat \in DialogueSet({chat.form}, {chat.draft})
  /\ act \in HandlerSet
  /\ req \in [Request -> RequestSet]

\* The card in force is the bot's, and shows what the dialogue would save; a
\* press was of a button the owner has seen.
InForce ==
  /\ chat.nonce \in DOMAIN cards \cup {0}
  /\ chat.nonce \in DOMAIN cards => cards[chat.nonce].by = "bot"
  /\ chat.state = "ready" =>
       /\ chat.nonce \in DOMAIN cards
       /\ cards[chat.nonce].draft = chat.draft
  /\ act.pc = "saving" => chat.state = "ready" /\ cards[chat.nonce].seen

\* The API confirms its own cards, and those are always seen.
Served ==
  /\ \A i \in DOMAIN cards : cards[i].by = "api" => cards[i].seen
  /\ \A r \in Request : req[r].pc = "read" =>
       req[r].card \in DOMAIN cards /\ cards[req[r].card].by = "api"

\* A card in force that has its entry already owes it to a commit unheard of; a
\* cancelled card is the bot's and never in force again.
Settled ==
  /\ chat.nonce \in DOMAIN cards /\ Recorded(chat.nonce) # {} =>
       "failed" \in cards[chat.nonce].told /\ lost > 0
  /\ \A i \in DOMAIN cards : "cancelled" \in cards[i].told =>
       cards[i].by = "bot" /\ chat.nonce # i

IInv ==
  /\ Typed /\ InForce /\ Served /\ Settled
  /\ OneEntryPerCard /\ CreatedAsShown /\ AnswersHold /\ FormMatchesCard

USE DraftsAssumption

-----------------------------------------------------------------------------
(* Sequences. *)

\* A sequence is one over any set that holds its elements.
LEMMA SeqOver ==
  ASSUME NEW S, NEW T, NEW s \in Seq(S), \A i \in DOMAIN s : s[i] \in T
  PROVE  s \in Seq(T)
BY LenProperties

\* Appending keeps what is there.
LEMMA Appended ==
  ASSUME NEW S, NEW s \in Seq(S), NEW x
  PROVE  /\ Append(s, x) \in Seq(S \cup {x})
         /\ DOMAIN s = 1 .. Len(s) /\ Len(s) \in Nat
         /\ DOMAIN Append(s, x) = DOMAIN s \cup {Len(s) + 1}
         /\ Append(s, x)[Len(s) + 1] = x
         /\ \A i \in DOMAIN s : Append(s, x)[i] = s[i]
<1>1. s \in Seq(S \cup {x})
  BY SeqMonotonic
<1>2. Len(s) \in Nat /\ DOMAIN s = 1 .. Len(s)
  BY LenProperties
<1>3. /\ Append(s, x) \in Seq(S \cup {x}) /\ Len(Append(s, x)) = Len(s) + 1
      /\ \A i \in 1 .. Len(s) : Append(s, x)[i] = s[i]
      /\ Append(s, x)[Len(s) + 1] = x
  BY <1>1, <1>2, AppendProperties
<1>4. DOMAIN Append(s, x) = 1 .. Len(s) + 1
  BY <1>3, LenProperties
<1> QED
  BY <1>2, <1>3, <1>4

-----------------------------------------------------------------------------
(* What a step does to the cards. *)

\* No card goes or changes but in what the owner was told of it.
CardsKept ==
  /\ CardsTyped'
  /\ DOMAIN cards \subseteq DOMAIN cards'
  /\ \A i \in DOMAIN cards :
       /\ cards'[i].by = cards[i].by /\ cards'[i].seen = cards[i].seen
       /\ cards'[i].draft = cards[i].draft

\* A new card, in the last place.
LEMMA CardAppended ==
  ASSUME Typed, NEW by \in {"bot", "api"}, NEW form, NEW draft, NEW seen \in BOOLEAN,
         cards' = Append(cards, NewCard(by, form, draft, seen))
  PROVE  /\ CardsKept
         /\ Len(cards) \in Nat /\ DOMAIN cards = 1 .. Len(cards)
         /\ DOMAIN cards' = DOMAIN cards \cup {Len(cards) + 1}
         /\ cards'[Len(cards) + 1] = NewCard(by, form, draft, seen)
         /\ \A i \in DOMAIN cards : cards'[i] = cards[i]
<1> DEFINE F == {cards[i].form : i \in DOMAIN cards}
           D == {cards[i].draft : i \in DOMAIN cards}
           card == NewCard(by, form, draft, seen)
<1>1. cards \in Seq(CardSet(F, D))
  BY DEF Typed, CardsTyped
<1>2. /\ cards' \in Seq(CardSet(F, D) \cup {card})
      /\ DOMAIN cards = 1 .. Len(cards) /\ Len(cards) \in Nat
      /\ DOMAIN cards' = DOMAIN cards \cup {Len(cards) + 1}
      /\ cards'[Len(cards) + 1] = card
      /\ \A i \in DOMAIN cards : cards'[i] = cards[i]
  BY <1>1, Appended
<1>3. \A i \in DOMAIN cards' :
        cards'[i] \in CardSet({cards'[j].form : j \in DOMAIN cards'},
                              {cards'[j].draft : j \in DOMAIN cards'})
  <2> SUFFICES ASSUME NEW i \in DOMAIN cards'
               PROVE  cards'[i] \in CardSet({cards'[j].form : j \in DOMAIN cards'},
                                            {cards'[j].draft : j \in DOMAIN cards'})
    OBVIOUS
  <2>1. CASE i \in DOMAIN cards
    <3>1. cards[i] \in CardSet(F, D)
      BY <1>1, <1>2, <2>1, ElementOfSeq
    <3> QED
      BY <1>2, <2>1, <3>1 DEF CardSet
  <2>2. CASE i = Len(cards) + 1
    BY <1>2, <2>2 DEF CardSet, NewCard
  <2> QED
    BY <1>2, <2>1, <2>2
<1>4. CardsTyped'
  <2> DEFINE S == CardSet(F, D) \cup {card}
             T == CardSet({cards'[j].form : j \in DOMAIN cards'},
                          {cards'[j].draft : j \in DOMAIN cards'})
  <2>1. cards' \in Seq(S) /\ \A i \in DOMAIN cards' : cards'[i] \in T
    BY <1>2, <1>3
  <2> HIDE DEF S, T, card, F, D
  <2>2. cards' \in Seq(T)
    BY <2>1, SeqOver
  <2> QED
    BY <2>2 DEF CardsTyped, T
<1> QED
  BY <1>2, <1>4 DEF CardsKept

\* An answer to a press on a card.
LEMMA CardTold ==
  ASSUME Typed, NEW i \in DOMAIN cards, NEW what \in ToldSet, cards' = Tell(i, what)
  PROVE  /\ CardsKept
         /\ DOMAIN cards' = DOMAIN cards
         /\ \A j \in DOMAIN cards :
              cards'[j].told = IF j = i THEN cards[j].told \cup {what} ELSE cards[j].told
<1> DEFINE F == {cards[j].form : j \in DOMAIN cards}
           D == {cards[j].draft : j \in DOMAIN cards}
           card == [cards[i] EXCEPT !.told = @ \cup {what}]
<1>1. cards \in Seq(CardSet(F, D))
  BY DEF Typed, CardsTyped
<1>2. DOMAIN cards = 1 .. Len(cards) /\ \A j \in DOMAIN cards : cards[j] \in CardSet(F, D)
  BY <1>1, LenProperties, ElementOfSeq
<1>3. /\ card \in CardSet(F, D) /\ card.told = cards[i].told \cup {what}
      /\ card.by = cards[i].by /\ card.seen = cards[i].seen /\ card.draft = cards[i].draft
      /\ card.form = cards[i].form
  BY <1>2 DEF CardSet
<1>4. cards' = [cards EXCEPT ![i] = card]
  BY DEF Tell
<1>5. /\ cards' \in Seq(CardSet(F, D)) /\ DOMAIN cards' = DOMAIN cards
      /\ \A j \in DOMAIN cards : cards'[j] = IF j = i THEN card ELSE cards[j]
  <2>1. /\ cards' \in Seq(CardSet(F, D)) /\ Len(cards') = Len(cards)
        /\ \A j \in 1 .. Len(cards) : cards'[j] = IF j = i THEN card ELSE cards[j]
    BY <1>1, <1>2, <1>3, <1>4, ExceptSeq
  <2> QED
    BY <1>2, <2>1, LenProperties
<1>6. \A j \in DOMAIN cards : cards'[j].form = cards[j].form /\ cards'[j].draft = cards[j].draft
  BY <1>3, <1>5
<1>7. /\ F = {cards'[j].form : j \in DOMAIN cards'}
      /\ D = {cards'[j].draft : j \in DOMAIN cards'}
  BY <1>5, <1>6, SMTT(20)
<1>8. CardsTyped'
  BY <1>5, <1>7 DEF CardsTyped
<1> QED
  BY <1>3, <1>5, <1>8 DEF CardsKept

-----------------------------------------------------------------------------
(* What a step does to the entries. *)

\* The elements of entries.
LEMMA EntryFields ==
  ASSUME Typed
  PROVE  /\ DOMAIN entries = 1 .. Len(entries) /\ Len(entries) \in Nat
         /\ \A e \in DOMAIN entries :
              entries[e] \in EntrySet({entries[d].draft : d \in DOMAIN entries})
<1>1. entries \in Seq(EntrySet({entries[d].draft : d \in DOMAIN entries}))
  BY DEF Typed, EntriesTyped
<1> HIDE DEF Typed
<1> QED
  BY <1>1, LenProperties, ElementOfSeq

\* No entry is created, and no card it came of changes.
LEMMA EntriesStay ==
  ASSUME Typed, OneEntryPerCard, CreatedAsShown, CardsKept, UNCHANGED entries
  PROVE  /\ EntriesTyped' /\ OneEntryPerCard' /\ CreatedAsShown'
         /\ \A i : Recorded(i)' = Recorded(i)
<1> DEFINE D == {entries[d].draft : d \in DOMAIN entries}
           T == [card : DOMAIN cards', draft : D, tz : Tz]
<1>1. \A e \in DOMAIN entries : entries[e].card \in DOMAIN cards /\ entries[e] \in T
  BY EntryFields DEF EntrySet, CardsKept
<1>2. entries \in Seq(EntrySet(D)) /\ \A e \in DOMAIN entries : entries[e] \in T
  BY <1>1 DEF Typed, EntriesTyped
<1>3. entries \in Seq(T)
  <2> HIDE DEF D, T
  <2> QED
    BY <1>2, SeqOver
<1>4. EntriesTyped'
  BY <1>3 DEF EntriesTyped, EntrySet
<1>5. CreatedAsShown'
  BY <1>1 DEF CreatedAsShown, CardsKept
<1> QED
  BY <1>4, <1>5 DEF OneEntryPerCard, Recorded

\* A card that was seen is confirmed: it has its entry then, and no other card
\* got one.
LEMMA EntryCreated ==
  ASSUME Typed, OneEntryPerCard, CreatedAsShown, CardsKept,
         NEW i \in DOMAIN cards, cards[i].seen, NEW known,
         CreatePlannedEntry(i, cards[i].draft, known)
  PROVE  /\ EntriesTyped' /\ OneEntryPerCard' /\ CreatedAsShown'
         /\ Recorded(i)' # {}
         /\ \A j : j # i => Recorded(j)' = Recorded(j)
<1>1. CASE Recorded(i) # {}
  <2>1. UNCHANGED entries
    BY <1>1 DEF CreatePlannedEntry
  <2> QED
    BY <1>1, <2>1, EntriesStay
<1>2. CASE Recorded(i) = {}
  <2> DEFINE D == {entries[d].draft : d \in DOMAIN entries}
             entry == [card |-> i, draft |-> cards[i].draft, tz |-> tz]
             T == [card : DOMAIN cards',
                   draft : {entries'[d].draft : d \in DOMAIN entries'}, tz : Tz]
  <2>1. entries' = Append(entries, entry)
    BY <1>2 DEF CreatePlannedEntry
  <2>2. entries \in Seq(EntrySet(D))
    BY DEF Typed, EntriesTyped
  <2>3. /\ entries' \in Seq(EntrySet(D) \cup {entry})
        /\ DOMAIN entries' = DOMAIN entries \cup {Len(entries) + 1}
        /\ entries'[Len(entries) + 1] = entry
        /\ \A e \in DOMAIN entries : entries'[e] = entries[e]
        /\ DOMAIN entries = 1 .. Len(entries) /\ Len(entries) \in Nat
    <3> HIDE DEF D, entry
    <3> QED
      BY <2>1, <2>2, Appended
  <2>4. \A e \in DOMAIN entries : entries[e].card \in DOMAIN cards /\ entries[e].card # i
    BY <1>2, EntryFields DEF EntrySet, Recorded
  <2>5. \A e \in DOMAIN entries' : entries'[e] \in T
    <3>1. \A e \in DOMAIN entries : entries'[e] \in T
      BY <2>3, EntryFields DEF EntrySet, CardsKept
    <3>2. entries'[Len(entries) + 1] \in T
      BY <2>3 DEF Typed, CardsKept
    <3> QED
      BY <2>3, <3>1, <3>2
  <2>6. entries' \in Seq(T)
    <3>1. \E S : entries' \in Seq(S)
      BY <2>3
    <3> HIDE DEF T
    <3> QED
      BY <2>5, <3>1, SeqOver
  <2>7. EntriesTyped'
    BY <2>6 DEF EntriesTyped, EntrySet
  <2>8. OneEntryPerCard'
    BY <2>3, <2>4 DEF OneEntryPerCard
  <2>9. CreatedAsShown'
    <3>1. \A e \in DOMAIN entries :
            cards'[entries'[e].card].seen /\ entries'[e].draft = cards'[entries'[e].card].draft
      BY <2>3, <2>4 DEF CreatedAsShown, CardsKept
    <3>2. cards'[i].seen /\ entries'[Len(entries) + 1].draft = cards'[i].draft
      BY <2>3 DEF CardsKept
    <3> QED
      BY <2>3, <3>1, <3>2 DEF CreatedAsShown
  <2>10. Recorded(i)' # {} /\ \A j : j # i => Recorded(j)' = Recorded(j)
    BY <2>3 DEF Recorded
  <2> QED
    BY <2>7, <2>8, <2>9, <2>10
<1> QED
  BY <1>1, <1>2

-----------------------------------------------------------------------------
(* A draft read back. *)

\* An instant that a wall time was read as is what its own wall time is read
\* as, in a gap and in a fold too.
LEMMA ReadBack ==
  ASSUME NEW zone \in Zone, NEW wall \in Int
  PROVE  /\ WallToUtc(zone, wall) \in Int
         /\ Local(zone, WallToUtc(zone, wall)) \in Int
         /\ WallToUtc(zone, Local(zone, WallToUtc(zone, wall))) = WallToUtc(zone, wall)
<1>1. zone.before \in Int /\ zone.after \in Int /\ zone.at \in Int
  BY DEF Zone
<1>2. CASE wall - zone.before < zone.at
  BY <1>1, <1>2 DEF WallToUtc, Local, Offset
<1>3. CASE wall - zone.before >= zone.at /\ wall - zone.after < zone.at
  BY <1>1, <1>3 DEF WallToUtc, Local, Offset
<1>4. CASE wall - zone.before >= zone.at /\ wall - zone.after >= zone.at
  BY <1>1, <1>4 DEF WallToUtc, Local, Offset
<1> QED
  BY <1>1, <1>2, <1>3, <1>4

\* The form read back from a draft prepares that draft again, unless its wall
\* time did not exist.
LEMMA FormReadBack ==
  ASSUME NEW form \in Form, NEW zone \in Tz,
         LET d == Prepared(form, zone) IN d.local = Local(d.zone, d.at) % Day
  PROVE  Prepared(FormOf(Prepared(form, zone)), zone) = Prepared(form, zone)
<1> DEFINE at == WallToUtc(zone, Wall(form))
           wall == Local(zone, at)
<1>1. zone \in Zone /\ Day \in Nat \ {0}
  BY DayAssumption
<1>2. Wall(form) \in Int
  <2>1. form.date \in Int /\ form.time \in Int /\ Day \in Int
    <3>1. form.date \in Date /\ form.time \in Clock
      BY DEF Form
    <3>2. form.date \in Int /\ form.time \in 0 .. Day - 1
      BY <3>1
    <3> QED
      BY <1>1, <3>2
  <2>2. \A a, b, c \in Int : a * b + c \in Int
    OBVIOUS
  <2> QED
    BY <2>1, <2>2 DEF Wall
<1>3. at \in Int /\ wall \in Int /\ WallToUtc(zone, wall) = at
  BY <1>1, <1>2, ReadBack
<1>4. form.time = wall % Day
  BY DEF Prepared
<1>5. /\ wall \div Day \in Int /\ wall % Day \in Int
      /\ wall = (wall \div Day) * Day + (wall % Day)
  <2>1. wall % Day \in 0 .. Day - 1
    BY <1>3, DayDivision
  <2> HIDE DEF wall
  <2> QED
    BY <1>1, <1>3, <2>1, DayDivision
<1> HIDE DEF at, wall
<1>6. Prepared(form, zone) = [kind |-> form.kind, at |-> at, local |-> form.time,
                              rec |-> form.rec, detail |-> form.detail, zone |-> zone]
  BY DEF Prepared, at
<1>7. FormOf(Prepared(form, zone)) =
        [kind |-> form.kind, date |-> wall \div Day, time |-> wall % Day,
         rec |-> form.rec, detail |-> form.detail]
  BY <1>6 DEF FormOf, wall
<1>8. Wall(FormOf(Prepared(form, zone))) = wall
  BY <1>1, <1>5, <1>7 DEF Wall
<1> QED
  BY <1>3, <1>4, <1>6, <1>7, <1>8 DEF Prepared

-----------------------------------------------------------------------------
(* Steps that preserve the invariant. *)

\* No card is made and nothing is told.
LEMMA CardsSame == Typed /\ UNCHANGED cards => CardsKept
BY DEF Typed, CardsTyped, CardsKept

\* The dialogue, the clock, the zone or a request go on, with no card made or
\* answered and nothing saved.
LEMMA GoesOn ==
  ASSUME IInv, UNCHANGED <<cards, entries, lost>>, clock' \in Nat, tz' \in Tz,
         chat' \in DialogueSet({chat'.form}, {chat'.draft}),
         chat'.nonce \in {0, chat.nonce},
         chat'.state = "ready" => chat' = chat,
         act' \in HandlerSet,
         act'.pc = "saving" =>
           chat' = chat /\ chat.state = "ready" /\ cards[chat.nonce].seen,
         req' \in [Request -> RequestSet],
         \A r \in Request : req'[r].pc = "read" =>
           req'[r].card \in DOMAIN cards /\ cards[req'[r].card].by = "api"
  PROVE  IInv'
<1>1. CardsKept
  BY CardsSame DEF IInv
<1>2. /\ EntriesTyped' /\ OneEntryPerCard' /\ CreatedAsShown'
      /\ \A i : Recorded(i)' = Recorded(i)
  BY <1>1, EntriesStay DEF IInv
<1>3. Typed'
  BY <1>1, <1>2 DEF IInv, Typed, CardsKept
<1>4. DOMAIN cards = 1 .. Len(cards)
  BY LenProperties DEF IInv, Typed, CardsTyped
<1>5. InForce'
  <2>1. chat'.nonce \in DOMAIN cards => chat'.nonce = chat.nonce
    BY <1>4
  <2>2. chat'.nonce \in DOMAIN cards \cup {0}
    BY DEF IInv, InForce
  <2> QED
    BY <2>1, <2>2 DEF IInv, InForce
<1>6. Served' /\ AnswersHold'
  BY <1>2 DEF IInv, Served, AnswersHold
<1>7. Settled'
  BY <1>2, <1>4, SMTT(20) DEF IInv, Settled
<1>8. FormMatchesCard'
  BY DEF IInv, FormMatchesCard
<1> QED
  BY <1>2, <1>3, <1>5, <1>6, <1>7, <1>8 DEF IInv

\* A new card comes into force.
LEMMA ComesIntoForce ==
  ASSUME IInv, NEW form, NEW draft, NEW zone \in Tz, StoreAndShow(form, draft, zone),
         UNCHANGED <<clock, tz, entries, req, lost>>,
         act' \in HandlerSet, act'.pc # "saving",
         draft.local = Local(draft.zone, draft.at) % Day =>
           draft.zone = zone /\ Prepared(form, draft.zone) = draft
  PROVE  IInv'
<1>1. PICK seen \in BOOLEAN : cards' = Append(cards, NewCard("bot", form, draft, seen))
  BY DEF StoreAndShow
<1>2. /\ CardsKept /\ Len(cards) \in Nat /\ DOMAIN cards = 1 .. Len(cards)
      /\ DOMAIN cards' = DOMAIN cards \cup {Len(cards) + 1}
      /\ cards'[Len(cards) + 1] = NewCard("bot", form, draft, seen)
      /\ \A i \in DOMAIN cards : cards'[i] = cards[i]
  BY <1>1, CardAppended DEF IInv
<1>3. /\ EntriesTyped' /\ OneEntryPerCard' /\ CreatedAsShown'
      /\ \A i : Recorded(i)' = Recorded(i)
  BY <1>2, EntriesStay DEF IInv
<1>4. chat' = [state |-> "ready", zone |-> zone, form |-> form,
               draft |-> draft, nonce |-> Len(cards) + 1]
  BY DEF StoreAndShow, NextNonce
<1>5. Typed'
  BY <1>2, <1>3, <1>4 DEF IInv, Typed, CardsKept, DialogueSet, States
<1>6. InForce'
  BY <1>2, <1>4 DEF InForce, NewCard
<1>7. Served'
  BY <1>2 DEF IInv, Served, NewCard
<1>8. Recorded(Len(cards) + 1) = {}
  BY <1>2, EntryFields DEF IInv, Recorded, EntrySet
<1>9. Settled'
  BY <1>2, <1>3, <1>4, <1>8 DEF IInv, Settled, NewCard
<1>10. AnswersHold'
  BY <1>2, <1>3, <1>8 DEF IInv, AnswersHold, NewCard
<1>11. FormMatchesCard'
  BY <1>4 DEF FormMatchesCard
<1> QED
  BY <1>3, <1>5, <1>6, <1>7, <1>9, <1>10, <1>11 DEF IInv

\* preview_manual, preview_text.
LEMMA PreviewKeeps == IInv /\ Preview => IInv'
<1> SUFFICES ASSUME IInv, Preview PROVE IInv'
  OBVIOUS
<1>1. PICK form \in Form : cards' = Append(cards, NewCard("api", form, Prepared(form, tz), TRUE))
  BY DEF Preview
<1> DEFINE card == NewCard("api", form, Prepared(form, tz), TRUE)
<1>2. /\ CardsKept /\ Len(cards) \in Nat /\ DOMAIN cards = 1 .. Len(cards)
      /\ DOMAIN cards' = DOMAIN cards \cup {Len(cards) + 1}
      /\ cards'[Len(cards) + 1] = card
      /\ \A i \in DOMAIN cards : cards'[i] = cards[i]
  BY <1>1, CardAppended DEF IInv
<1>3. UNCHANGED <<clock, tz, moves, chat, act, entries, req, lost>>
  BY DEF Preview
<1>4. /\ EntriesTyped' /\ OneEntryPerCard' /\ CreatedAsShown'
      /\ \A i : Recorded(i)' = Recorded(i)
  BY <1>2, <1>3, EntriesStay DEF IInv
<1>5. Typed'
  BY <1>2, <1>3, <1>4 DEF IInv, Typed, CardsKept
<1>6. InForce'
  BY <1>2, <1>3 DEF IInv, InForce
<1>7. Served'
  BY <1>2, <1>3 DEF IInv, Served, NewCard
<1>8. Recorded(Len(cards) + 1) = {}
  BY <1>2, EntryFields DEF IInv, Recorded, EntrySet
<1>9. Settled'
  BY <1>2, <1>3, <1>4, <1>8 DEF IInv, Settled, InForce, NewCard
<1>10. AnswersHold'
  BY <1>2, <1>3, <1>4, <1>8 DEF IInv, AnswersHold, NewCard
<1>11. FormMatchesCard'
  BY <1>3 DEF IInv, FormMatchesCard
<1> QED
  BY <1>4, <1>5, <1>6, <1>7, <1>9, <1>10, <1>11 DEF IInv

\* A question is asked or answered.
LEMMA TalkGoesOn ==
  ASSUME IInv, Awake, Dialogue, UNCHANGED cards,
         NEW form, NEW s \in States \ {"ready"},
         chat' = [chat EXCEPT !.form = form, !.state = s]
  PROVE  IInv'
<1>1. Typed
  BY DEF IInv
<1>2. /\ chat' \in DialogueSet({chat'.form}, {chat'.draft})
      /\ chat'.nonce = chat.nonce /\ chat'.state = s
  BY <1>1 DEF Typed, DialogueSet
<1>3. s # "ready"
  OBVIOUS
<1>4. clock' \in Nat /\ tz' \in Tz /\ act' \in HandlerSet /\ req' \in [Request -> RequestSet]
  BY <1>1 DEF Typed, Dialogue
<1>5. act'.pc # "saving"
  BY DEF Awake, Dialogue
<1>6. \A r \in Request : req'[r].pc = "read" =>
        req'[r].card \in DOMAIN cards /\ cards[req'[r].card].by = "api"
  BY DEF IInv, Served, Dialogue
<1>7. UNCHANGED <<cards, entries, lost>>
  BY DEF Dialogue
<1> QED
  BY <1>2, <1>3, <1>4, <1>5, <1>6, <1>7, GoesOn

\* A dialogue that has no form and no card yet.
Blank(s, zone) ==
  [state |-> s, zone |-> zone, form |-> NoForm, draft |-> NoDraft, nonce |-> 0]

\* The dialogue ends, or begins anew.
LEMMA TalkEnds ==
  ASSUME IInv, UNCHANGED <<clock, tz, cards, entries, req, lost>>,
         NEW s \in States \ {"ready"}, NEW zone \in Tz,
         chat' = Blank(s, zone),
         act' \in HandlerSet, act'.pc # "saving"
  PROVE  IInv'
<1>1. /\ chat' \in DialogueSet({chat'.form}, {chat'.draft})
      /\ chat'.nonce = 0 /\ chat'.state # "ready"
  BY DEF Blank, DialogueSet
<1>2. clock' \in Nat /\ tz' \in Tz /\ req' \in [Request -> RequestSet]
  BY DEF IInv, Typed
<1>3. \A r \in Request : req'[r].pc = "read" =>
        req'[r].card \in DOMAIN cards /\ cards[req'[r].card].by = "api"
  BY DEF IInv, Served
<1> QED
  BY <1>1, <1>2, <1>3, GoesOn

\* The chat stays as it is while a handler, a request, the clock or the zone
\* goes on.
LEMMA ChatWaits ==
  ASSUME IInv, UNCHANGED <<chat, cards, entries, lost>>, clock' \in Nat, tz' \in Tz,
         act' \in HandlerSet,
         act'.pc = "saving" => chat.state = "ready" /\ cards[chat.nonce].seen,
         req' \in [Request -> RequestSet],
         \A r \in Request : req'[r].pc = "read" =>
           req'[r].card \in DOMAIN cards /\ cards[req'[r].card].by = "api"
  PROVE  IInv'
<1>1. chat' \in DialogueSet({chat'.form}, {chat'.draft})
  BY DEF IInv, Typed
<1> QED
  BY <1>1, GoesOn

\* What is left when the bot waits for nothing.
LEMMA NothingElse ==
  /\ NoHandler \in HandlerSet /\ NoHandler.pc = "idle"
  /\ NoDialogue = Blank("none", HomeTz)
<1>1. NoHandler \in HandlerSet /\ NoHandler.pc = "idle"
  BY DEF NoHandler, HandlerSet
<1>2. NoDialogue = Blank("none", HomeTz)
  BY DEF NoDialogue, Blank
<1> QED
  BY <1>1, <1>2

\* The questions up to the last one, the way out, and the choice of an edit.
LEMMA DialogueKeeps ==
  ASSUME IInv,
         \/ BeginManual \/ Leave
         \/ ChooseKind \/ ChooseDate \/ ChooseTime \/ ChooseDuration \/ ChooseRecurrence
         \/ \E i \in DOMAIN cards : ChooseEdit(i)
  PROVE  IInv'
<1>1. chat \in DialogueSet({chat.form}, {chat.draft}) /\ act \in HandlerSet /\ tz \in Tz
  BY DEF IInv, Typed
<1>2. CASE BeginManual
  <2>1. chat' = Blank("kind", tz)
    BY <1>2 DEF BeginManual, NoDialogue, Blank
  <2> QED
    BY <1>1, <1>2, <2>1, TalkEnds DEF BeginManual, Dialogue, Awake, States, ManualStates
<1>3. CASE Leave
  BY <1>1, <1>3, TalkEnds, NothingElse DEF Leave, Dialogue, Awake, States
<1>4. CASE ChooseKind
  BY <1>4, TalkGoesOn DEF ChooseKind, At, States, ManualStates
<1>5. CASE ChooseDate
  BY <1>5, TalkGoesOn DEF ChooseDate, At, States, ManualStates
<1>6. CASE ChooseTime
  <2>1. PICK c \in Clock, s \in {"recurrence", "duration"} :
          chat' = [chat EXCEPT !.form = With(@, [time |-> c]), !.state = s]
    BY <1>6 DEF ChooseTime
  <2> QED
    BY <1>6, <2>1, TalkGoesOn DEF ChooseTime, At, States, ManualStates
<1>7. CASE ChooseDuration
  <2>1. chat' = [chat EXCEPT !.form = chat.form, !.state = "title"]
    BY <1>1, <1>7 DEF ChooseDuration, DialogueSet
  <2> QED
    BY <1>7, <2>1, TalkGoesOn DEF ChooseDuration, At, States, ManualStates
<1>8. CASE ChooseRecurrence
  <2>1. chat' = [chat EXCEPT !.form = [chat.form EXCEPT !.rec = TRUE], !.state = "title"]
    BY <1>8 DEF ChooseRecurrence
  <2> QED
    BY <1>8, <2>1, TalkGoesOn DEF ChooseRecurrence, At, States, ManualStates
<1>9. ASSUME NEW i \in DOMAIN cards, ChooseEdit(i) PROVE IInv'
  <2>1. PICK s \in EditStates : chat' = [chat EXCEPT !.state = s]
    BY <1>9 DEF ChooseEdit
  <2>2. chat' = [chat EXCEPT !.form = chat.form, !.state = s]
    BY <1>1, <2>1 DEF DialogueSet
  <2> QED
    BY <1>9, <2>2, TalkGoesOn DEF ChooseEdit, OnCard, At, States, EditStates
<1> QED
  BY <1>2, <1>3, <1>4, <1>5, <1>6, <1>7, <1>8, <1>9

\* A form is filled in or edited, and makes a card or asks on.
LEMMA ShowFormKeeps ==
  ASSUME IInv, Awake, Dialogue, NEW form, ShowForm(form)
  PROVE  IInv'
<1> DEFINE draft == Prepared(form, chat.zone)
<1>1. chat.zone \in Tz /\ act \in HandlerSet
  BY DEF IInv, Typed, DialogueSet
<1>2. StoreAndShow(form, draft, chat.zone)
  BY DEF ShowForm
<1>3. draft.zone = chat.zone /\ Prepared(form, draft.zone) = draft
  BY DEF Prepared
<1>4. UNCHANGED <<clock, tz, entries, req, lost>> /\ act' = act /\ act.pc # "saving"
  BY DEF Dialogue, Awake
<1> HIDE DEF draft
<1> QED
  BY <1>1, <1>2, <1>3, <1>4, ComesIntoForce

LEMMA FormsKeep == IInv /\ (EnterTitle \/ Edit) => IInv'
<1> SUFFICES ASSUME IInv, EnterTitle \/ Edit PROVE IInv'
  OBVIOUS
<1>1. CASE EnterTitle
  <2>1. PICK x \in Detail :
          LET form == With(chat.form, [detail |-> x])
          IN  \/ ShowForm(form)
              \/ /\ chat' = [chat EXCEPT !.form = form, !.state = "date"]
                 /\ UNCHANGED cards
    BY <1>1 DEF EnterTitle
  <2>2. Awake /\ Dialogue
    BY <1>1 DEF EnterTitle, At
  <2> QED
    BY <2>1, <2>2, ShowFormKeeps, TalkGoesOn DEF States, ManualStates
<1>2. CASE Edit
  <2>1. Awake /\ Dialogue /\ chat.state \in EditStates
    BY <1>2 DEF Edit
  <2>2. chat \in DialogueSet({chat.form}, {chat.draft})
    BY DEF IInv, Typed
  <2>3. PICK form \in Answers :
          LET asksOn == chat.state = "edit_kind" /\ form.kind = "routine" /\ ~ form.rec
          IN  \/ ShowForm(form)
              \/ /\ chat' = [chat EXCEPT
                               !.form = form,
                               !.state = IF asksOn THEN "edit_recurrence" ELSE @]
                 /\ UNCHANGED cards
    BY <1>2 DEF Edit
  <2>4. CASE ShowForm(form)
    BY <2>1, <2>4, ShowFormKeeps
  <2>5. CASE ~ ShowForm(form)
    <3>1. PICK s \in {"edit_recurrence", chat.state} :
            chat' = [chat EXCEPT !.form = form, !.state = s] /\ UNCHANGED cards
      BY <2>2, <2>3, <2>5 DEF DialogueSet
    <3>2. s \in States \ {"ready"}
      BY <2>1 DEF States, EditStates
    <3> QED
      BY <2>1, <3>1, <3>2, TalkGoesOn
  <2> QED
    BY <2>4, <2>5
<1> QED
  BY <1>1, <1>2

\* A text is sent, and what comes of it.
LEMMA TextKeeps == IInv /\ (SendText \/ TextParsed) => IInv'
<1> SUFFICES ASSUME IInv, SendText \/ TextParsed PROVE IInv'
  OBVIOUS
<1>1. /\ chat \in DialogueSet({chat.form}, {chat.draft}) /\ act \in HandlerSet
      /\ clock \in Nat /\ tz \in Tz /\ req \in [Request -> RequestSet]
  BY DEF IInv, Typed
<1>2. \A r \in Request : req[r].pc = "read" =>
        req[r].card \in DOMAIN cards /\ cards[req[r].card].by = "api"
  BY DEF IInv, Served
<1>3. CASE SendText
  <2>1. act' \in HandlerSet /\ act'.pc # "saving"
    BY <1>1, <1>3 DEF SendText, HandlerSet
  <2> QED
    BY <1>1, <1>2, <1>3, <2>1, ChatWaits DEF SendText
<1>4. CASE TextParsed
  <2>1. act' \in HandlerSet /\ act'.pc # "saving" /\ act.zone \in Tz
    BY <1>1, <1>4, NothingElse DEF TextParsed, HandlerSet
  <2>2. UNCHANGED <<clock, tz, entries, req, lost>>
    BY <1>4 DEF TextParsed
  <2>3. ASSUME NEW form \in Form,
               LET draft == Prepared(form, act.zone)
               IN  StoreAndShow(FormOf(draft), draft, act.zone)
        PROVE  IInv'
    <3> DEFINE draft == Prepared(form, act.zone)
    <3>1. StoreAndShow(FormOf(draft), draft, act.zone)
      BY <2>3
    <3>2. draft.zone = act.zone
      BY DEF Prepared
    <3>3. draft.local = Local(draft.zone, draft.at) % Day =>
            Prepared(FormOf(draft), draft.zone) = draft
      BY <2>1, <3>2, FormReadBack
    <3> HIDE DEF draft
    <3> QED
      BY <2>1, <2>2, <3>1, <3>2, <3>3, ComesIntoForce
  <2>4. ASSUME UNCHANGED cards, chat' = [chat EXCEPT !.state = "waiting"] PROVE IInv'
    <3>1. /\ chat' \in DialogueSet({chat'.form}, {chat'.draft})
          /\ chat'.nonce = chat.nonce /\ chat'.state # "ready"
      BY <1>1, <2>4 DEF DialogueSet, States
    <3> QED
      BY <1>1, <1>2, <2>1, <2>2, <2>4, <3>1, GoesOn
  <2>5. ASSUME UNCHANGED cards, chat' = NoDialogue PROVE IInv'
    BY <2>1, <2>2, <2>5, NothingElse, TalkEnds DEF States
  <2>6. ASSUME UNCHANGED cards, chat' = chat PROVE IInv'
    BY <1>1, <1>2, <2>1, <2>2, <2>6, ChatWaits
  <2> QED
    BY <1>4, <2>3, <2>4, <2>5, <2>6 DEF TextParsed
<1> QED
  BY <1>3, <1>4

\* A button is pressed, a process is replaced, a request is read or refused, the
\* zone changes, time passes.
LEMMA OthersKeep ==
  ASSUME IInv,
         \/ \E i \in DOMAIN cards : Press(i)
         \/ Restart
         \/ \E r \in Request : ConfirmFails(r) \/ \E i \in DOMAIN cards : ConfirmRead(r, i)
         \/ ChangeZone \/ Advance
  PROVE  IInv'
<1>1. /\ act \in HandlerSet /\ clock \in Nat /\ tz \in Tz /\ req \in [Request -> RequestSet]
  BY DEF IInv, Typed
<1>2. \A r \in Request : req[r].pc = "read" =>
        req[r].card \in DOMAIN cards /\ cards[req[r].card].by = "api"
  BY DEF IInv, Served
<1>3. act.pc = "saving" => chat.state = "ready" /\ cards[chat.nonce].seen
  BY DEF IInv, InForce
<1>4. DOMAIN cards \subseteq Nat
  BY LenProperties DEF IInv, Typed, CardsTyped
<1>5. ASSUME NEW i \in DOMAIN cards, Press(i) PROVE IInv'
  <2>1. act' \in HandlerSet
    BY <1>5, NothingElse DEF Press, HandlerSet
  <2>2. chat.state = "ready" /\ cards[chat.nonce].seen
    BY <1>5 DEF Press, OnCard, At
  <2> QED
    BY <1>1, <1>2, <1>5, <2>1, <2>2, ChatWaits DEF Press
<1>6. CASE Restart
  BY <1>1, <1>6, NothingElse, TalkEnds DEF Restart, States
<1>7. ASSUME NEW r \in Request, ConfirmFails(r) PROVE IInv'
  <2>1. /\ req' \in [Request -> RequestSet]
        /\ \A s \in Request : req'[s].pc = "read" => req'[s] = req[s]
    BY <1>1, <1>7 DEF ConfirmFails, NoRequest, RequestSet
  <2> QED
    BY <1>1, <1>2, <1>3, <1>7, <2>1, ChatWaits DEF ConfirmFails
<1>8. ASSUME NEW r \in Request, NEW i \in DOMAIN cards, ConfirmRead(r, i) PROVE IInv'
  <2>1. /\ req' \in [Request -> RequestSet]
        /\ \A s \in Request : s # r => req'[s] = req[s]
        /\ req'[r].card = i
    BY <1>1, <1>4, <1>8 DEF ConfirmRead, RequestSet
  <2>2. cards[i].by = "api"
    BY <1>8 DEF ConfirmRead
  <2> QED
    BY <1>1, <1>2, <1>3, <1>8, <2>1, <2>2, ChatWaits DEF ConfirmRead
<1>9. CASE ChangeZone
  BY <1>1, <1>2, <1>3, <1>9, ChatWaits DEF ChangeZone
<1>10. CASE Advance
  BY <1>1, <1>2, <1>3, <1>10, ChatWaits DEF Advance
<1> QED
  BY <1>5, <1>6, <1>7, <1>8, <1>9, <1>10

-----------------------------------------------------------------------------
(* Pressing the button of the card in force. *)

\* What holds of the card in force when its button is pressed.
LEMMA Pressed ==
  ASSUME IInv, chat.state = "ready"
  PROVE  /\ chat.nonce \in DOMAIN cards /\ cards[chat.nonce].by = "bot"
         /\ cards[chat.nonce].draft = chat.draft
         /\ "cancelled" \notin cards[chat.nonce].told
BY DEF IInv, InForce, Settled

\* What the bot answers to a press leaves the types and the API's requests alone.
LEMMA ToldKeeps ==
  ASSUME IInv, NEW i \in DOMAIN cards, NEW what \in ToldSet, cards' = Tell(i, what),
         UNCHANGED <<clock, tz, req>>, lost' \in Nat, EntriesTyped',
         chat' \in {chat, NoDialogue}, act' = act \/ act' = NoHandler
  PROVE  Typed' /\ Served'
<1>1. /\ CardsKept /\ DOMAIN cards' = DOMAIN cards
      /\ \A j \in DOMAIN cards :
           cards'[j].told = IF j = i THEN cards[j].told \cup {what} ELSE cards[j].told
  BY CardTold DEF IInv
<1>2. chat' \in DialogueSet({chat'.form}, {chat'.draft})
  BY NothingElse DEF IInv, Typed, NoDialogue, DialogueSet, States
<1>3. act' \in HandlerSet
  BY NothingElse DEF IInv, Typed
<1>4. clock' \in Nat /\ tz' \in Tz /\ req' \in [Request -> RequestSet]
  BY DEF IInv, Typed
<1>5. Typed'
  BY <1>1, <1>2, <1>3, <1>4 DEF Typed, CardsKept
<1>6. Served'
  BY <1>1 DEF IInv, Served, CardsKept
<1> QED
  BY <1>5, <1>6

\* confirm_create, committed: heard or unheard.
LEMMA SavedKeeps == IInv /\ (Saved \/ SavedUnheard) => IInv'
<1> SUFFICES ASSUME IInv, Saved \/ SavedUnheard PROVE IInv'
  OBVIOUS
<1> PICK i : i = chat.nonce
  OBVIOUS
<1>1. act.pc = "saving" /\ Save /\ act' = NoHandler
  BY DEF Saved, SavedUnheard
<1>2. chat.state = "ready" /\ cards[i].seen
  BY <1>1 DEF IInv, InForce
<1>3. /\ i \in DOMAIN cards /\ cards[i].by = "bot" /\ cards[i].draft = chat.draft
      /\ "cancelled" \notin cards[i].told
  BY <1>2, Pressed
<1>4. PICK what \in {"created", "failed"} :
        /\ cards' = Tell(i, what)
        /\ IF what = "created" THEN chat' = NoDialogue /\ lost' = lost
                               ELSE chat' = chat /\ lost' = lost + 1
  BY DEF Saved, SavedUnheard
<1>5. UNCHANGED <<clock, tz, req>> /\ lost \in Nat /\ lost' \in Nat
  BY <1>4 DEF Saved, SavedUnheard, IInv, Typed
<1>6. /\ CardsKept /\ DOMAIN cards' = DOMAIN cards
      /\ \A j \in DOMAIN cards :
           cards'[j].told = IF j = i THEN cards[j].told \cup {what} ELSE cards[j].told
  BY <1>3, <1>4, CardTold DEF IInv, ToldSet
<1>7. CreatePlannedEntry(i, cards[i].draft, tz)
  BY <1>1, <1>3 DEF Save
<1>8. /\ EntriesTyped' /\ OneEntryPerCard' /\ CreatedAsShown' /\ Recorded(i)' # {}
      /\ \A j : j # i => Recorded(j)' = Recorded(j)
  BY <1>2, <1>3, <1>6, <1>7, EntryCreated DEF IInv
<1>9. Typed' /\ Served'
  BY <1>1, <1>3, <1>4, <1>5, <1>8, ToldKeeps DEF ToldSet
<1>10. DOMAIN cards = 1 .. Len(cards)
  BY LenProperties DEF IInv, Typed, CardsTyped
<1>11. InForce'
  <2>1. act'.pc # "saving"
    BY <1>1, NothingElse
  <2>2. CASE what = "created"
    <3>1. chat'.nonce = 0 /\ chat'.state = "none" /\ 0 \notin DOMAIN cards'
      BY <1>4, <1>6, <1>10, <2>2 DEF NoDialogue
    <3> QED
      BY <2>1, <3>1 DEF InForce
  <2>3. CASE what = "failed"
    <3>1. chat' = chat
      BY <1>4, <2>3
    <3> QED
      BY <1>3, <1>6, <2>1, <3>1 DEF IInv, InForce, CardsKept
  <2> QED
    BY <2>2, <2>3
<1>12. Settled'
  <2>1. \A j \in DOMAIN cards' : "cancelled" \in cards'[j].told =>
          j # i /\ "cancelled" \in cards[j].told
    BY <1>3, <1>6
  <2>2. \A j \in DOMAIN cards' : "cancelled" \in cards'[j].told =>
          cards'[j].by = "bot" /\ chat'.nonce # j
    BY <1>4, <1>6, <1>10, <2>1 DEF IInv, Settled, CardsKept, NoDialogue
  <2>3. chat'.nonce \in DOMAIN cards' => "failed" \in cards'[chat'.nonce].told /\ lost' > 0
    <3>1. CASE what = "created"
      BY <1>4, <1>6, <1>10, <3>1 DEF NoDialogue
    <3>2. CASE what = "failed"
      <4>1. chat'.nonce = i /\ lost' > 0
        BY <1>4, <1>5, <3>2
      <4>2. "failed" \in cards'[i].told
        BY <1>3, <1>6, <3>2
      <4> QED
        BY <4>1, <4>2
    <3> QED
      BY <3>1, <3>2
  <2> QED
    BY <2>2, <2>3 DEF Settled
<1>13. AnswersHold'
  <2>1. lost' >= lost
    BY <1>4, <1>5
  <2>2. \A j \in DOMAIN cards' : "created" \in cards'[j].told => Recorded(j)' # {}
    BY <1>4, <1>6, <1>8 DEF IInv, AnswersHold
  <2>3. ASSUME NEW j \in DOMAIN cards', "cancelled" \in cards'[j].told, Recorded(j)' # {}
        PROVE  "failed" \in cards'[j].told /\ lost' > 0
    <3>1. j # i /\ j \in DOMAIN cards /\ cards'[j].told = cards[j].told
      BY <1>3, <1>6, <2>3
    <3>2. "cancelled" \in cards[j].told /\ Recorded(j) # {}
      BY <1>8, <2>3, <3>1
    <3>3. "failed" \in cards[j].told /\ lost > 0
      BY <3>1, <3>2 DEF IInv, AnswersHold
    <3> QED
      BY <1>5, <2>1, <3>1, <3>3
  <2> QED
    BY <2>2, <2>3 DEF AnswersHold
<1>14. FormMatchesCard'
  BY <1>4 DEF IInv, FormMatchesCard, NoDialogue
<1> QED
  BY <1>8, <1>9, <1>11, <1>12, <1>13, <1>14 DEF IInv

\* confirm_create refused, and confirm_cancel.
LEMMA RefusedKeeps == IInv /\ (NotSaved \/ \E i \in DOMAIN cards : CancelCard(i)) => IInv'
<1> SUFFICES ASSUME IInv, NotSaved \/ \E i \in DOMAIN cards : CancelCard(i) PROVE IInv'
  OBVIOUS
<1> PICK i : i = chat.nonce
  OBVIOUS
<1>1. chat.state = "ready" /\ UNCHANGED <<clock, tz, entries, req, lost>>
  BY DEF NotSaved, CancelCard, OnCard, At, Dialogue, IInv, InForce
<1>2. /\ i \in DOMAIN cards /\ cards[i].by = "bot" /\ cards[i].draft = chat.draft
      /\ "cancelled" \notin cards[i].told
  BY <1>1, Pressed
<1>3. PICK what \in {"failed", "cancelled"} :
        /\ cards' = Tell(i, what)
        /\ chat' = IF what = "failed" THEN chat ELSE NoDialogue
  BY DEF NotSaved, CancelCard, OnCard
<1>4. act'.pc # "saving" /\ (act' = act \/ act' = NoHandler)
  BY NothingElse DEF NotSaved, CancelCard, OnCard, At, Awake, Dialogue
<1>5. /\ CardsKept /\ DOMAIN cards' = DOMAIN cards
      /\ \A j \in DOMAIN cards :
           cards'[j].told = IF j = i THEN cards[j].told \cup {what} ELSE cards[j].told
  BY <1>2, <1>3, CardTold DEF IInv, ToldSet
<1>6. /\ EntriesTyped' /\ OneEntryPerCard' /\ CreatedAsShown'
      /\ \A j : Recorded(j)' = Recorded(j)
  BY <1>1, <1>5, EntriesStay DEF IInv
<1>7. Typed' /\ Served'
  <2>1. lost' \in Nat /\ chat' \in {chat, NoDialogue}
    BY <1>1, <1>3 DEF IInv, Typed
  <2> QED
    BY <1>1, <1>2, <1>3, <1>4, <1>6, <2>1, ToldKeeps DEF ToldSet
<1>8. DOMAIN cards = 1 .. Len(cards)
  BY LenProperties DEF IInv, Typed, CardsTyped
<1>9. chat' = chat \/ chat' = NoDialogue
  BY <1>3
<1>10. InForce'
  <2>1. CASE chat' = chat
    BY <1>2, <1>4, <1>5, <2>1 DEF IInv, InForce, CardsKept
  <2>2. CASE chat' = NoDialogue
    BY <1>4, <1>8, <2>2 DEF InForce, NoDialogue
  <2> QED
    BY <1>9, <2>1, <2>2
<1>11. Settled'
  <2>1. \A j \in DOMAIN cards' : "cancelled" \in cards'[j].told =>
          \/ "cancelled" \in cards[j].told
          \/ j = i /\ what = "cancelled"
    <3>1. ASSUME NEW j \in DOMAIN cards', "cancelled" \in cards'[j].told,
                 "cancelled" \notin cards[j].told
          PROVE  j = i /\ what = "cancelled"
      <4>1. cards'[j].told = IF j = i THEN cards[j].told \cup {what} ELSE cards[j].told
        BY <1>5
      <4>2. CASE j = i
        BY <3>1, <4>1, <4>2
      <4>3. CASE j # i
        BY <3>1, <4>1, <4>3
      <4> QED
        BY <4>2, <4>3
    <3> QED
      BY <3>1
  <2>2. \A j \in DOMAIN cards' : "cancelled" \in cards'[j].told =>
          cards'[j].by = "bot" /\ chat'.nonce # j
    BY <1>2, <1>3, <1>5, <1>8, <2>1 DEF IInv, Settled, CardsKept, NoDialogue
  <2>3. chat'.nonce \in DOMAIN cards' /\ Recorded(chat.nonce)' # {} =>
          "failed" \in cards'[chat'.nonce].told /\ lost' > 0
    <3>1. CASE chat' = chat
      <4>1. Recorded(chat.nonce)' = Recorded(chat.nonce) /\ chat'.nonce = chat.nonce
        BY <1>1, <3>1 DEF Recorded
      <4>2. \A j \in DOMAIN cards : cards[j].told \subseteq cards'[j].told
        BY <1>5
      <4> QED
        BY <1>1, <1>5, <4>1, <4>2 DEF IInv, Settled
    <3>2. CASE chat' = NoDialogue
      BY <1>5, <1>8, <3>2 DEF NoDialogue
    <3> QED
      BY <1>9, <3>1, <3>2
  <2> QED
    BY <2>2, <2>3 DEF Settled
<1>12. AnswersHold'
  <2>1. ASSUME NEW j \in DOMAIN cards', "created" \in cards'[j].told
        PROVE  Recorded(j)' # {}
    <3>1. what # "created"
      BY <1>3
    <3>2. j \in DOMAIN cards /\ "created" \in cards[j].told
      <4>1. /\ j \in DOMAIN cards
            /\ cards'[j].told = IF j = i THEN cards[j].told \cup {what} ELSE cards[j].told
        BY <1>5
      <4>2. CASE j = i
        BY <2>1, <3>1, <4>1, <4>2
      <4>3. CASE j # i
        BY <2>1, <4>1, <4>3
      <4> QED
        BY <4>1, <4>2, <4>3
    <3> QED
      BY <1>6, <3>2 DEF IInv, AnswersHold
  <2>2. \A j \in DOMAIN cards' : "cancelled" \in cards'[j].told /\ Recorded(j)' # {} =>
          "failed" \in cards'[j].told /\ lost' > 0
    BY <1>1, <1>2, <1>5, <1>6 DEF IInv, AnswersHold, Settled
  <2> QED
    BY <2>1, <2>2 DEF AnswersHold
<1>13. FormMatchesCard'
  BY <1>9 DEF IInv, FormMatchesCard, NoDialogue
<1> QED
  BY <1>6, <1>7, <1>10, <1>11, <1>12, <1>13 DEF IInv

\* confirm_entry, committed.
LEMMA CommitKeeps ==
  ASSUME IInv, NEW r \in Request, ConfirmCommit(r)
  PROVE  IInv'
<1> PICK i : i = req[r].card
  OBVIOUS
<1>1. /\ req[r].pc = "read" /\ CreatePlannedEntry(i, cards[i].draft, req[r].zone)
      /\ req' = [req EXCEPT ![r] = NoRequest]
      /\ UNCHANGED <<clock, tz, moves, chat, act, cards, lost>>
  BY DEF ConfirmCommit
<1>2. i \in DOMAIN cards /\ cards[i].by = "api" /\ cards[i].seen
  BY <1>1 DEF IInv, Served
<1>3. CardsKept
  BY <1>1, CardsSame DEF IInv
<1>4. /\ EntriesTyped' /\ OneEntryPerCard' /\ CreatedAsShown' /\ Recorded(i)' # {}
      /\ \A j : j # i => Recorded(j)' = Recorded(j)
  BY <1>1, <1>2, <1>3, EntryCreated DEF IInv
<1>5. /\ req' \in [Request -> RequestSet]
      /\ \A s \in Request : req'[s].pc = "read" => req'[s] = req[s]
  BY <1>1 DEF IInv, Typed, NoRequest, RequestSet
<1>6. Typed'
  BY <1>1, <1>3, <1>4, <1>5 DEF IInv, Typed, CardsKept
<1>7. InForce' /\ FormMatchesCard'
  BY <1>1 DEF IInv, InForce, FormMatchesCard
<1>8. Served'
  BY <1>1, <1>5 DEF IInv, Served
<1>9. /\ \A j \in DOMAIN cards : "cancelled" \in cards[j].told => j # i
      /\ chat.nonce \in DOMAIN cards => chat.nonce # i
  BY <1>2 DEF IInv, Settled, InForce
<1>10. Settled'
  BY <1>1, <1>4, <1>9 DEF IInv, Settled
<1>11. AnswersHold'
  BY <1>1, <1>4, <1>9 DEF IInv, AnswersHold
<1> QED
  BY <1>4, <1>6, <1>7, <1>8, <1>10, <1>11 DEF IInv

-----------------------------------------------------------------------------
(* The invariant. *)

\* A bot just started has no card, no entry and no request.
LEMMA InitHolds == Init => IInv
<1> SUFFICES ASSUME Init PROVE IInv
  OBVIOUS
<1>1. cards = << >> /\ entries = << >> /\ DOMAIN cards = {} /\ DOMAIN entries = {}
  BY DEF Init
<1>2. Typed
  <2>1. CardsTyped /\ EntriesTyped
    BY <1>1, EmptySeq DEF CardsTyped, EntriesTyped
  <2>2. chat \in DialogueSet({chat.form}, {chat.draft})
    BY DEF Init, NoDialogue, DialogueSet, States
  <2>3. act \in HandlerSet
    BY NothingElse DEF Init
  <2>4. req \in [Request -> RequestSet]
    BY DEF Init, NoRequest, RequestSet
  <2> QED
    BY <2>1, <2>2, <2>3, <2>4 DEF Init, Typed
<1>3. InForce
  BY <1>1, NothingElse DEF Init, InForce, NoDialogue
<1>4. Served
  BY <1>1 DEF Init, Served, NoRequest
<1>5. Settled /\ OneEntryPerCard /\ CreatedAsShown /\ AnswersHold
  BY <1>1 DEF Settled, OneEntryPerCard, CreatedAsShown, AnswersHold
<1>6. FormMatchesCard
  BY DEF Init, FormMatchesCard, NoDialogue
<1> QED
  BY <1>2, <1>3, <1>4, <1>5, <1>6 DEF IInv

\* Every step of the dialogue, the API, the owner and the clock keeps it.
LEMMA NextKeeps == IInv /\ [Next]_vars => IInv'
<1> SUFFICES ASSUME IInv, [Next]_vars PROVE IInv'
  OBVIOUS
<1>1. CASE Talk
  BY <1>1, DialogueKeeps, FormsKeep, TextKeeps, OthersKeep, SavedKeeps, RefusedKeeps DEF Talk
<1>2. CASE Serve
  BY <1>2, PreviewKeeps, OthersKeep, CommitKeeps DEF Serve
<1>3. CASE ChangeZone \/ Advance
  BY <1>3, OthersKeep
<1>4. CASE UNCHANGED vars
  <2>1. /\ UNCHANGED <<chat, cards, entries, lost, act, req, clock, tz>>
        /\ act \in HandlerSet /\ clock \in Nat /\ tz \in Tz /\ req \in [Request -> RequestSet]
    BY <1>4 DEF vars, IInv, Typed
  <2>2. act.pc = "saving" => chat.state = "ready" /\ cards[chat.nonce].seen
    BY DEF IInv, InForce
  <2>3. \A r \in Request : req[r].pc = "read" =>
          req[r].card \in DOMAIN cards /\ cards[req[r].card].by = "api"
    BY DEF IInv, Served
  <2> QED
    BY <2>1, <2>2, <2>3, ChatWaits
<1> QED
  BY <1>1, <1>2, <1>3, <1>4 DEF Next

\* The invariant the theorems below are conjuncts of.
THEOREM DraftsInvariant == Spec => []IInv
BY InitHolds, NextKeeps, PTL DEF Spec

\* One entry comes of a card, however often and by however many requests and
\* presses it is confirmed, and whatever answers are lost: the record of the
\* confirmation and the entry are one transaction of create_entry.
THEOREM OneEntry == Spec => []OneEntryPerCard
<1>1. IInv => OneEntryPerCard
  BY DEF IInv
<1> QED
  BY <1>1, DraftsInvariant, PTL

\* What confirm_create and confirm_entry save is the draft of the card that was
\* seen and confirmed, whatever was edited, restarted or moved in between.
THEOREM SavedAsShown == Spec => []CreatedAsShown
<1>1. IInv => CreatedAsShown
  BY DEF IInv
<1> QED
  BY <1>1, DraftsInvariant, PTL

\* The bot's answers to presses stay true: created means there is an entry,
\* cancelled that there is none unless a commit was made but not heard of.
THEOREM AnswersStayTrue == Spec => []AnswersHold
<1>1. IInv => AnswersHold
  BY DEF IInv
<1> QED
  BY <1>1, DraftsInvariant, PTL

\* The form edits start from prepares the draft on the card in force: filled in,
\* edited, or read back from the draft by manual_fields_from_normalized.
THEOREM EditsStartFromCard == Spec => []FormMatchesCard
<1>1. IInv => FormMatchesCard
  BY DEF IInv
<1> QED
  BY <1>1, DraftsInvariant, PTL
=============================================================================
