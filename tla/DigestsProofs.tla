--------------------------- MODULE DigestsProofs ---------------------------
(***************************************************************************)
(* Proofs about the morning digest: for any number of users, reminders,    *)
(* scheduler loops and crashes.                                            *)
(***************************************************************************)
EXTENDS Digests, QuietHoursProofs, TLAPS

\* The least user of a set: the one a tick visits.
First(S) == CHOOSE u \in S : \A v \in S : u <= v

LEMMA VisitedIsFirst ==
  \A w : Visited(w) = First(wk[w].todo) /\ Visited(w)' = First(wk'[w].todo)
BY DEF Visited, First

\* A tick that has not ended visits a user it has not visited yet.
LEMMA VisitedIsUser ==
  ASSUME TypeOK, NEW w \in DigestWorker, wk[w].pc # "idle"
  PROVE  Visited(w) \in wk[w].todo /\ Visited(w) \in User
<1> DEFINE S == wk[w].todo
<1>1. S \in SUBSET User /\ S # {}
  BY DEF TypeOK, WorkerState
<1>2. S \in SUBSET Nat
  BY <1>1, DigestAssumption
<1>3. \E u \in S : \A v \in S : u <= v
  BY <1>1, <1>2, LeastNatural
<1>4. First(S) \in S
  BY <1>3 DEF First
<1> QED
  BY <1>1, <1>4, VisitedIsFirst

-----------------------------------------------------------------------------
(* Types. *)

LEMMA IdleType ==
  /\ IdleWorker \in WorkerState
  /\ IdleWorker.pc = "idle" /\ IdleWorker.now = 0
BY DEF IdleWorker, WorkerState

\* What a visit leaves of its tick.
LEMMA GoOnType ==
  ASSUME TypeOK, NEW w \in DigestWorker, wk[w].pc # "idle", NEW left \in 0 .. BatchSize
  PROVE  LET s == GoOn(w, left)
         IN  /\ s \in WorkerState
             /\ s.pc \in {"idle", "visit"}
             /\ s.pc # "idle" => s.todo # {} /\ s.left \in 1 .. BatchSize
             /\ s.now \in {0, wk[w].now}
<1> DEFINE rest == wk[w].todo \ {Visited(w)}
<1>1. rest \in SUBSET User /\ wk[w].now \in Nat /\ left \in Nat /\ BatchSize \in Nat
  BY DigestAssumption DEF TypeOK, WorkerState
<1> HIDE DEF rest
<1>2. CASE rest = {} \/ left = 0
  BY <1>2, IdleType DEF GoOn, rest
<1>3. CASE rest # {} /\ left # 0
  <2> DEFINE s == [IdleWorker EXCEPT !.pc = "visit", !.now = wk[w].now,
                                     !.todo = rest, !.left = left]
  <2>1. GoOn(w, left) = s
    BY <1>3 DEF GoOn, rest
  <2>2. s \in WorkerState /\ s.pc = "visit" /\ s.todo = rest /\ s.left = left
          /\ s.now = wk[w].now
    BY <1>1, IdleType DEF IdleWorker, WorkerState
  <2> HIDE DEF s
  <2> QED
    BY <1>1, <1>3, <2>1, <2>2
<1> QED
  BY <1>2, <1>3

\* A change of one worker's tick.
LEMMA WorkerType ==
  ASSUME TypeOK, NEW w \in DigestWorker, NEW s \in WorkerState,
         s.pc # "idle" => s.todo # {} /\ s.left \in 1 .. BatchSize,
         wk' = [wk EXCEPT ![w] = s]
  PROVE  /\ wk' \in [DigestWorker -> WorkerState]
         /\ \A v \in DigestWorker :
              wk'[v].pc # "idle" => wk'[v].todo # {} /\ wk'[v].left \in 1 .. BatchSize
         /\ wk'[w] = s /\ \A v \in DigestWorker \ {w} : wk'[v] = wk[v]
BY DEF TypeOK

\* A tick keeps the clock reading of its start.
NowIsPast == \A w \in DigestWorker : wk[w].now <= clock

LEMMA DateOfTick ==
  ASSUME TypeOK, NowIsPast, NEW w \in DigestWorker
  PROVE  LocalDate(wk[w].now) \in Date
<1>1. wk[w].now \in 0 .. MaxTime
  BY DigestAssumption DEF TypeOK, NowIsPast, WorkerState
<1> QED
  BY <1>1 DEF Date

\* The records of the day, after one has been added.
LEMMA LedgerGrows ==
  ASSUME TypeOK, NowIsPast, NEW w \in DigestWorker, wk[w].pc # "idle"
  PROVE  LET d == <<Visited(w), LocalDate(wk[w].now)>>
         IN  /\ d \in User \X Date /\ WithLedger(w) \in [User \X Date -> Nat]
             /\ WithLedger(w)[d] = ledger[d] + 1
             /\ \A c \in (User \X Date) \ {d} : WithLedger(w)[c] = ledger[c]
<1> DEFINE d == <<Visited(w), LocalDate(wk[w].now)>>
<1>1. d \in User \X Date
  BY VisitedIsUser, DateOfTick
<1>2. WithLedger(w) = [ledger EXCEPT ![d] = ledger[d] + 1]
  BY DEF WithLedger
<1>3. ledger \in [User \X Date -> Nat]
  BY DEF TypeOK
<1> HIDE DEF d
<1>4. /\ WithLedger(w) \in [User \X Date -> Nat]
      /\ WithLedger(w)[d] = ledger[d] + 1
      /\ \A c \in (User \X Date) \ {d} : WithLedger(w)[c] = ledger[c]
  BY <1>1, <1>2, <1>3
<1> QED
  BY <1>1, <1>4 DEF d

\* Every kind of step of a worker, as what it makes of the tick.
LEMMA StepsOfWorker ==
  ASSUME TypeOK, NEW w \in DigestWorker, WorkerStep(w) \/ Crash(w)
  PROVE  \E s \in WorkerState :
           /\ wk' = [wk EXCEPT ![w] = s]
           /\ s.pc # "idle" => s.todo # {} /\ s.left \in 1 .. BatchSize
           /\ s.now \in {0, clock, wk[w].now}
           /\ clock' = clock /\ owner' = owner /\ quiet' = quiet
<1> DEFINE o == wk[w]
<1>0. /\ wk \in [DigestWorker -> WorkerState] /\ o \in WorkerState /\ clock \in Nat
      /\ o.pc # "idle" => o.todo # {} /\ o.left \in 1 .. BatchSize
      /\ BatchSize \in Nat \ {0} /\ wk[w] = o
  BY DigestAssumption DEF TypeOK
<1> HIDE DEF o
<1>1. CASE StartTick(w)
  <2> DEFINE s == [IdleWorker EXCEPT !.pc = "visit", !.now = clock,
                                     !.todo = User, !.left = BatchSize]
  <2>1. wk' = [wk EXCEPT ![w] = s] /\ clock' = clock /\ owner' = owner /\ quiet' = quiet
    BY <1>1 DEF StartTick
  <2>2. s \in WorkerState /\ s.pc = "visit" /\ s.todo = User /\ s.left = BatchSize
          /\ s.now = clock
    BY <1>0, IdleType DEF IdleWorker, WorkerState
  <2>3. s.todo # {} /\ s.left \in 1 .. BatchSize
    BY <1>0, <2>2, DigestAssumption
  <2> HIDE DEF s
  <2> QED
    BY <2>1, <2>2, <2>3
<1>2. ASSUME NEW left \in 0 .. BatchSize, o.pc # "idle",
             wk' = [wk EXCEPT ![w] = GoOn(w, left)],
             clock' = clock, owner' = owner, quiet' = quiet
      PROVE  \E s \in WorkerState :
               /\ wk' = [wk EXCEPT ![w] = s]
               /\ s.pc # "idle" => s.todo # {} /\ s.left \in 1 .. BatchSize
               /\ s.now \in {0, clock, wk[w].now}
               /\ clock' = clock /\ owner' = owner /\ quiet' = quiet
  <2> DEFINE s == GoOn(w, left)
  <2>1. /\ s \in WorkerState /\ s.now \in {0, wk[w].now}
        /\ s.pc # "idle" => s.todo # {} /\ s.left \in 1 .. BatchSize
    BY <1>0, <1>2, GoOnType
  <2> HIDE DEF s
  <2>2. wk' = [wk EXCEPT ![w] = s]
    BY <1>2 DEF s
  <2> QED
    BY <1>2, <2>1, <2>2
<1>3. CASE PassOver(w)
  <2>1. o.left \in 0 .. BatchSize
    BY <1>0, <1>3 DEF PassOver
  <2> QED
    BY <1>0, <1>2, <1>3, <2>1 DEF PassOver
<1>4. CASE Record(w) \/ Defer(w)
  <2>1. o.left - 1 \in 0 .. BatchSize
    <3>1. o.pc # "idle"
      BY <1>0, <1>4 DEF Record, Defer
    <3> QED
      BY <1>0, <3>1
  <2> QED
    BY <1>0, <1>2, <1>4, <2>1 DEF Record, Defer
<1>5. ASSUME NEW s \in WorkerState, s.now = o.now, s.todo = o.todo, s.left = o.left,
             o.pc # "idle",
             wk' = [wk EXCEPT ![w] = s], clock' = clock, owner' = owner, quiet' = quiet
      PROVE  \E t \in WorkerState :
               /\ wk' = [wk EXCEPT ![w] = t]
               /\ t.pc # "idle" => t.todo # {} /\ t.left \in 1 .. BatchSize
               /\ t.now \in {0, clock, wk[w].now}
               /\ clock' = clock /\ owner' = owner /\ quiet' = quiet
  <2> QED
    BY <1>0, <1>5
<1>6. CASE Claim(w)
  <2> DEFINE batch == Claimed(Visited(w), o.now)
             known == ledger[<<Visited(w), LocalDate(o.now)>>] > 0
             s == [o EXCEPT !.pc = "sending", !.batch = batch, !.known = known]
  <2>1. batch \in SUBSET Item /\ known \in BOOLEAN
    BY DEF Claimed, Waiting
  <2>2. wk' = [wk EXCEPT ![w] = s] /\ clock' = clock /\ owner' = owner /\ quiet' = quiet
          /\ o.pc # "idle"
    BY <1>0, <1>6 DEF Claim
  <2> HIDE DEF batch, known
  <2>3. s \in WorkerState /\ s.now = o.now /\ s.todo = o.todo /\ s.left = o.left
    BY <1>0, <2>1 DEF WorkerState
  <2> HIDE DEF s
  <2> QED
    BY <1>5, <2>1, <2>2, <2>3
<1>7. CASE SendAccepted(w) \/ SendRefused(w)
  <2>1. PICK pc \in {"accepted", "failed"}, fatal \in BOOLEAN :
          wk' = [wk EXCEPT ![w] = [o EXCEPT !.pc = pc, !.fatal = fatal]]
    <3>1. CASE SendAccepted(w)
      <4>1. PICK pc \in {"accepted", "failed"} : wk' = [wk EXCEPT ![w].pc = pc]
        BY <3>1 DEF SendAccepted
      <4>2. wk' = [wk EXCEPT ![w] = [o EXCEPT !.pc = pc, !.fatal = o.fatal]] /\ o.fatal \in BOOLEAN
        BY <1>0, <4>1 DEF WorkerState
      <4> QED
        BY <4>2
    <3>2. CASE SendRefused(w)
      BY <1>0, <3>2 DEF SendRefused
    <3> QED
      BY <1>7, <3>1, <3>2
  <2> DEFINE s == [o EXCEPT !.pc = pc, !.fatal = fatal]
  <2>2. clock' = clock /\ owner' = owner /\ quiet' = quiet /\ o.pc # "idle"
    BY <1>0, <1>7 DEF SendAccepted, SendRefused
  <2>3. s \in WorkerState /\ s.now = o.now /\ s.todo = o.todo /\ s.left = o.left
    BY <1>0 DEF WorkerState
  <2>4. wk' = [wk EXCEPT ![w] = s]
    BY <2>1
  <2> HIDE DEF s
  <2> QED
    BY <1>5, <2>2, <2>3, <2>4
<1>8. CASE Crash(w)
  <2>1. wk' = [wk EXCEPT ![w] = IdleWorker] /\ clock' = clock /\ owner' = owner /\ quiet' = quiet
    BY <1>8 DEF Crash
  <2> QED
    BY <2>1, IdleType
<1> QED
  BY <1>1, <1>3, <1>4, <1>6, <1>7, <1>8 DEF WorkerStep

LEMMA ItemsType ==
  ASSUME TypeOK, Next
  PROVE  item' \in [Item -> ItemState]
<1>0. /\ item \in [Item -> ItemState] /\ wk \in [DigestWorker -> WorkerState] /\ clock \in Nat
      /\ \A w \in DigestWorker : wk[w].now \in Nat
      /\ TransientDelay \in Nat /\ PermanentDelay \in Nat
  BY DigestAssumption DEF TypeOK, WorkerState
<1>1. ASSUME NEW i \in Item, SilentDelivery(i) PROVE item' \in [Item -> ItemState]
  <2>1. PICK t \in Nat : item' = [item EXCEPT ![i].sent = t]
    BY <1>1 DEF SilentDelivery
  <2>2. [item[i] EXCEPT !.sent = t] \in ItemState
    <3> DEFINE r == item[i]
    <3>1. r \in ItemState
      BY <1>0
    <3> HIDE DEF r
    <3>2. [r EXCEPT !.sent = t] \in ItemState
      BY <3>1 DEF ItemState
    <3> QED
      BY <3>2 DEF r
  <2> QED
    BY <1>0, <2>1, <2>2
<1>2. ASSUME NEW w \in DigestWorker, SendAccepted(w) PROVE item' \in [Item -> ItemState]
  <2>1. ASSUME NEW r \in ItemState PROVE [r EXCEPT !.copies = @ + 1] \in ItemState
    BY <2>1 DEF ItemState
  <2>2. item' = Shown(w)
    BY <1>2 DEF SendAccepted
  <2> QED
    BY <1>0, <2>1, <2>2 DEF Shown
<1>3. ASSUME NEW w \in DigestWorker, Record(w) PROVE item' \in [Item -> ItemState]
  <2>1. ASSUME NEW r \in ItemState
        PROVE  [r EXCEPT !.included = TRUE, !.next = 0] \in ItemState
    BY <2>1 DEF ItemState
  <2>2. item' = [i \in Item |->
           IF i \in wk[w].batch THEN [item[i] EXCEPT !.included = TRUE, !.next = 0]
                                ELSE item[i]]
    BY <1>3 DEF Record
  <2> QED
    BY <1>0, <2>1, <2>2
<1>4. ASSUME NEW w \in DigestWorker, Defer(w) PROVE item' \in [Item -> ItemState]
  <2> DEFINE at == wk[w].now + (IF wk[w].fatal THEN PermanentDelay ELSE TransientDelay)
  <2>1. at \in Nat
    BY <1>0
  <2>2. item' = [i \in Item |->
           IF i \in wk[w].batch THEN [item[i] EXCEPT !.tries = @ + 1, !.next = at]
                                ELSE item[i]]
    BY <1>4 DEF Defer, Deferred
  <2> HIDE DEF at
  <2>3. ASSUME NEW r \in ItemState
        PROVE  [r EXCEPT !.tries = @ + 1, !.next = at] \in ItemState
    <3> DEFINE n == r.tries + 1
    <3>1. n \in Nat
      BY <2>3 DEF ItemState
    <3> HIDE DEF n
    <3>2. [r EXCEPT !.tries = n, !.next = at] \in ItemState
      BY <2>1, <2>3, <3>1 DEF ItemState
    <3> QED
      BY <3>2 DEF n
  <2> QED
    BY <1>0, <2>2, <2>3
<1>5. CASE item' = item
  BY <1>0, <1>5
<1> QED
  BY <1>1, <1>2, <1>3, <1>4, <1>5
     DEF Next, WorkerStep, StartTick, PassOver, Claim, SendRefused, Crash, UpdateQuietHours,
         Advance

LEMMA TypeKept ==
  ASSUME TypeOK, NowIsPast, [Next]_vars
  PROVE  TypeOK' /\ NowIsPast'
<1>0. /\ clock \in Nat /\ MaxTime \in Nat /\ clock <= MaxTime /\ crashes \in Nat
      /\ MaxCrashes \in Nat /\ QuietChoices \subseteq Quiet
      /\ \A w \in DigestWorker : wk[w].now \in Nat /\ wk[w].now <= clock
  BY DigestAssumption DEF TypeOK, NowIsPast, WorkerState
<1>1. ASSUME NEW i \in Item, SilentDelivery(i) PROVE TypeOK' /\ NowIsPast'
  <2>1. item' \in [Item -> ItemState]
    BY <1>1, ItemsType DEF Next
  <2> QED
    BY <1>1, <2>1 DEF SilentDelivery, TypeOK, NowIsPast
<1>2. ASSUME NEW w \in DigestWorker, WorkerStep(w) \/ Crash(w) PROVE TypeOK' /\ NowIsPast'
  <2>1. PICK s \in WorkerState :
          /\ wk' = [wk EXCEPT ![w] = s]
          /\ s.pc # "idle" => s.todo # {} /\ s.left \in 1 .. BatchSize
          /\ s.now \in {0, clock, wk[w].now}
          /\ clock' = clock /\ owner' = owner /\ quiet' = quiet
    BY <1>2, StepsOfWorker
  <2>2. /\ wk' \in [DigestWorker -> WorkerState]
        /\ \A v \in DigestWorker :
             wk'[v].pc # "idle" => wk'[v].todo # {} /\ wk'[v].left \in 1 .. BatchSize
        /\ wk'[w] = s /\ \A v \in DigestWorker \ {w} : wk'[v] = wk[v]
    BY <2>1, WorkerType
  <2>3. item' \in [Item -> ItemState]
    BY <1>2, ItemsType DEF Next
  <2>4. ledger' \in [User \X Date -> Nat]
    <3>1. ledger \in [User \X Date -> Nat]
      BY DEF TypeOK
    <3>2. ASSUME wk[w].pc # "idle" PROVE WithLedger(w) \in [User \X Date -> Nat]
      BY <3>2, LedgerGrows
    <3>3. ledger' = ledger \/ (wk[w].pc # "idle" /\ ledger' = WithLedger(w))
      BY <1>2 DEF WorkerStep, Crash, StartTick, PassOver, Claim, SendAccepted, SendRefused,
                  Record, Defer
    <3> QED
      BY <3>1, <3>2, <3>3
  <2>5. crashes' \in 0 .. MaxCrashes
    <3>1. crashes' = crashes \/ (crashes < MaxCrashes /\ crashes' = crashes + 1)
      BY <1>2 DEF WorkerStep, Crash, StartTick, PassOver, Claim, SendAccepted, SendRefused,
                  Record, Defer
    <3>2. crashes \in 0 .. MaxCrashes
      BY DEF TypeOK
    <3> QED
      BY <1>0, <3>1, <3>2
  <2>6. TypeOK'
    BY <2>1, <2>2, <2>3, <2>4, <2>5 DEF TypeOK
  <2>7. NowIsPast'
    BY <1>0, <2>1, <2>2 DEF NowIsPast
  <2> QED
    BY <2>6, <2>7
<1>3. ASSUME NEW u \in User, UpdateQuietHours(u) PROVE TypeOK' /\ NowIsPast'
  <2>1. quiet' \in [User -> Quiet]
    BY <1>0, <1>3 DEF UpdateQuietHours, TypeOK
  <2> QED
    BY <1>3, <2>1 DEF UpdateQuietHours, TypeOK, NowIsPast
<1>4. CASE Advance
  <2>1. clock' \in 0 .. MaxTime /\ clock <= clock'
    BY <1>0, <1>4 DEF Advance
  <2>2. TypeOK'
    BY <1>4, <2>1 DEF Advance, TypeOK
  <2>3. NowIsPast'
    BY <1>0, <1>4, <2>1 DEF Advance, NowIsPast
  <2> QED
    BY <2>2, <2>3
<1>5. CASE UNCHANGED vars
  BY <1>5 DEF vars, TypeOK, NowIsPast
<1> QED
  BY <1>1, <1>2, <1>3, <1>4, <1>5 DEF Next

LEMMA TypesInvariant == Spec => [](TypeOK /\ NowIsPast)
<1>1. Init => TypeOK /\ NowIsPast
  <2> SUFFICES ASSUME Init PROVE TypeOK /\ NowIsPast
    OBVIOUS
  <2>1. item \in [Item -> ItemState]
    BY DEF Init, ItemState, Unsent
  <2>2. wk \in [DigestWorker -> WorkerState]
          /\ \A w \in DigestWorker : wk[w].pc = "idle" /\ wk[w].now = 0
    BY IdleType DEF Init
  <2>3. quiet \in [User -> Quiet] /\ clock \in 0 .. MaxTime /\ crashes \in 0 .. MaxCrashes
    BY DigestAssumption DEF Init
  <2>4. ledger \in [User \X Date -> Nat]
    BY DEF Init
  <2>5. clock = 0 /\ owner \in Owners
    BY DEF Init
  <2>6. TypeOK
    BY <2>1, <2>2, <2>3, <2>4, <2>5 DEF TypeOK
  <2>7. NowIsPast
    BY <2>2, <2>5 DEF NowIsPast
  <2> QED
    BY <2>6, <2>7
<1>2. TypeOK /\ NowIsPast /\ [Next]_vars => (TypeOK /\ NowIsPast)'
  BY TypeKept
<1> QED
  BY <1>1, <1>2, PTL DEF Spec

\* For any number of users, reminders and loops the state is well typed: a tick
\* that has not ended has a user to visit and an outcome left.
THEOREM TypeCorrect == Spec => []TypeOK
BY TypesInvariant, PTL

-----------------------------------------------------------------------------
(* One transaction per user. *)

\* The row of user_settings is held by one visit.
OneVisit ==
  \A v, w \in DigestWorker :
    v # w /\ InTransaction(v) /\ InTransaction(w) => Visited(v) # Visited(w)

\* A step of one worker is not seen by the visits of the others.
LEMMA OthersGoOn ==
  ASSUME TypeOK, NEW w \in DigestWorker, WorkerStep(w) \/ Crash(w)
  PROVE  \A v \in DigestWorker \ {w} :
           /\ wk'[v] = wk[v] /\ Visited(v)' = Visited(v)
           /\ InTransaction(v)' <=> InTransaction(v)
<1>1. PICK s \in WorkerState : wk' = [wk EXCEPT ![w] = s]
  BY StepsOfWorker
<1>2. \A v \in DigestWorker \ {w} : wk'[v] = wk[v]
  BY <1>1 DEF TypeOK
<1> QED
  BY <1>2, VisitedIsFirst DEF InTransaction

\* A worker comes into a transaction by a claim, and stays in it with what it
\* has claimed.
LEMMA TransactionGoesOn ==
  ASSUME TypeOK, NEW w \in DigestWorker, WorkerStep(w) \/ Crash(w), InTransaction(w)'
  PROVE  /\ Visited(w)' = Visited(w) /\ wk'[w].now = wk[w].now
         /\ ledger' = ledger /\ crashes' = crashes
         /\ \/ Claim(w) /\ wk'[w].pc = "sending"
            \/ /\ SendAccepted(w) \/ SendRefused(w)
               /\ wk[w].pc = "sending" /\ wk'[w].pc \in {"accepted", "failed"}
               /\ wk'[w].batch = wk[w].batch /\ wk'[w].known = wk[w].known
<1>0. /\ wk \in [DigestWorker -> WorkerState] /\ BatchSize \in Nat \ {0}
      /\ wk[w].pc # "idle" => wk[w].left \in 1 .. BatchSize
  BY DigestAssumption DEF TypeOK
<1>1. ASSUME NEW s \in WorkerState, wk' = [wk EXCEPT ![w] = s], s.pc \in {"idle", "visit"}
      PROVE  FALSE
  BY <1>0, <1>1 DEF InTransaction
<1>2. CASE StartTick(w)
  <2> DEFINE s == [IdleWorker EXCEPT !.pc = "visit", !.now = clock,
                                     !.todo = User, !.left = BatchSize]
  <2>1. wk' = [wk EXCEPT ![w] = s]
    BY <1>2 DEF StartTick
  <2>2. s.pc = "visit" /\ s \in WorkerState
    <3>1. clock \in Nat
      BY DigestAssumption DEF TypeOK
    <3> QED
      BY <1>0, <3>1, IdleType DEF IdleWorker, WorkerState
  <2> HIDE DEF s
  <2> QED
    BY <1>1, <2>1, <2>2
<1>3. ASSUME NEW left \in 0 .. BatchSize, wk[w].pc # "idle",
             wk' = [wk EXCEPT ![w] = GoOn(w, left)]
      PROVE  FALSE
  <2> DEFINE s == GoOn(w, left)
  <2>1. s \in WorkerState /\ s.pc \in {"idle", "visit"}
    BY <1>3, GoOnType
  <2> HIDE DEF s
  <2>2. wk' = [wk EXCEPT ![w] = s]
    BY <1>3 DEF s
  <2> QED
    BY <1>1, <2>1, <2>2
<1>4. CASE PassOver(w)
  <2>1. wk[w].left \in 0 .. BatchSize /\ wk[w].pc # "idle"
    BY <1>0, <1>4 DEF PassOver
  <2> QED
    BY <1>3, <1>4, <2>1 DEF PassOver
<1>5. CASE Record(w) \/ Defer(w)
  <2>1. wk[w].pc # "idle"
    BY <1>5 DEF Record, Defer
  <2>2. wk[w].left - 1 \in 0 .. BatchSize
    BY <1>0, <2>1
  <2> QED
    BY <1>3, <1>5, <2>1, <2>2 DEF Record, Defer
<1>6. CASE Crash(w)
  BY <1>1, <1>6, IdleType DEF Crash
<1>7. CASE Claim(w)
  <2>1. wk'[w].todo = wk[w].todo /\ wk'[w].now = wk[w].now /\ wk'[w].pc = "sending"
          /\ ledger' = ledger /\ crashes' = crashes
    BY <1>0, <1>7 DEF Claim, WorkerState
  <2> QED
    BY <1>7, <2>1, VisitedIsFirst
<1>8. CASE SendAccepted(w) \/ SendRefused(w)
  <2>1. /\ wk'[w].todo = wk[w].todo /\ wk'[w].now = wk[w].now
        /\ wk[w].pc = "sending" /\ wk'[w].pc \in {"accepted", "failed"}
        /\ wk'[w].batch = wk[w].batch /\ wk'[w].known = wk[w].known
        /\ ledger' = ledger /\ crashes' = crashes
    BY <1>0, <1>8 DEF SendAccepted, SendRefused, WorkerState
  <2> QED
    BY <1>8, <2>1, VisitedIsFirst
<1> QED
  BY <1>2, <1>4, <1>5, <1>6, <1>7, <1>8 DEF WorkerStep

LEMMA OneVisitKept ==
  ASSUME TypeOK, OneVisit, [Next]_vars
  PROVE  OneVisit'
<1>1. ASSUME NEW w \in DigestWorker, WorkerStep(w) \/ Crash(w) PROVE OneVisit'
  <2>1. ASSUME NEW v \in DigestWorker \ {w}, InTransaction(v)', InTransaction(w)'
        PROVE  Visited(v)' # Visited(w)'
    <3>1. InTransaction(v) /\ Visited(v)' = Visited(v)
      BY <1>1, <2>1, OthersGoOn
    <3>2. Visited(w)' = Visited(w) /\ (Claim(w) \/ wk[w].pc = "sending")
      BY <1>1, <2>1, TransactionGoesOn
    <3>3. CASE Claim(w)
      BY <3>1, <3>2, <3>3 DEF Claim, SettingsFree
    <3>4. CASE wk[w].pc = "sending"
      BY <3>1, <3>2, <3>4 DEF OneVisit, InTransaction
    <3> QED
      BY <3>2, <3>3, <3>4
  <2>2. ASSUME NEW v \in DigestWorker \ {w}, NEW x \in DigestWorker \ {w}, v # x,
               InTransaction(v)', InTransaction(x)'
        PROVE  Visited(v)' # Visited(x)'
    BY <1>1, <2>2, OthersGoOn DEF OneVisit
  <2> QED
    BY <2>1, <2>2 DEF OneVisit
<1>2. CASE wk' = wk
  BY <1>2, VisitedIsFirst DEF OneVisit, InTransaction
<1> QED
  BY <1>1, <1>2 DEF Next, SilentDelivery, UpdateQuietHours, Advance, vars

-----------------------------------------------------------------------------
(* The record of the day. *)

\* What a visit has read of the ledger stays so until its commit.
Ledgered ==
  \A w \in DigestWorker :
    InTransaction(w) =>
      (wk[w].known <=> ledger[<<Visited(w), LocalDate(wk[w].now)>>] > 0)

LEMMA LedgerKept ==
  ASSUME TypeOK, NowIsPast, OneVisit, Ledgered, LedgerOncePerDay, [Next]_vars
  PROVE  Ledgered' /\ LedgerOncePerDay'
<1>0. ledger \in [User \X Date -> Nat] /\ \A d \in User \X Date : ledger[d] <= 1
  BY DEF TypeOK, LedgerOncePerDay
<1>1. ASSUME NEW w \in DigestWorker, WorkerStep(w) \/ Crash(w),
             NEW d \in User \X Date, InTransaction(w) => d = <<Visited(w), LocalDate(wk[w].now)>>,
             ledger' = ledger \/ (InTransaction(w) /\ ~ wk[w].known /\ ledger' = WithLedger(w))
      PROVE  Ledgered' /\ LedgerOncePerDay'
  <2>1. /\ ledger' \in [User \X Date -> Nat]
        /\ \A c \in User \X Date : ledger'[c] <= 1
        /\ \A c \in User \X Date : InTransaction(w) /\ c # d => ledger'[c] = ledger[c]
    <3>1. CASE ledger' = ledger
      BY <1>0, <3>1
    <3>2. CASE InTransaction(w) /\ ~ wk[w].known /\ ledger' = WithLedger(w)
      <4>1. wk[w].pc # "idle" /\ ~ (ledger[d] > 0)
        BY <1>1, <3>2 DEF InTransaction, Ledgered
      <4>2. /\ ledger' \in [User \X Date -> Nat] /\ ledger'[d] = ledger[d] + 1
            /\ \A c \in (User \X Date) \ {d} : ledger'[c] = ledger[c]
        BY <1>1, <3>2, <4>1, LedgerGrows
      <4>3. ledger[d] = 0
        BY <1>0, <4>1
      <4> QED
        BY <1>0, <4>2, <4>3
    <3> QED
      BY <1>1, <3>1, <3>2
  <2>2. ASSUME NEW v \in DigestWorker \ {w}, InTransaction(v)'
        PROVE  wk'[v].known <=> ledger'[<<Visited(v)', LocalDate(wk'[v].now)>>] > 0
    <3> DEFINE c == <<Visited(v), LocalDate(wk[v].now)>>
    <3>1. InTransaction(v) /\ wk'[v] = wk[v] /\ Visited(v)' = Visited(v)
      BY <1>1, <2>2, OthersGoOn
    <3>2. c \in User \X Date /\ (wk[v].known <=> ledger[c] > 0)
      BY <3>1, VisitedIsUser, DateOfTick DEF InTransaction, Ledgered
    <3>3. ledger'[c] = ledger[c]
      <4>1. CASE InTransaction(w)
        <5>1. Visited(v) # Visited(w)
          BY <3>1, <4>1 DEF OneVisit
        <5> QED
          BY <1>1, <2>1, <3>2, <4>1, <5>1
      <4>2. CASE ~ InTransaction(w)
        BY <1>1, <4>2
      <4> QED
        BY <4>1, <4>2
    <3> QED
      BY <3>1, <3>2, <3>3
  <2>3. ASSUME InTransaction(w)'
        PROVE  wk'[w].known <=> ledger'[<<Visited(w)', LocalDate(wk'[w].now)>>] > 0
    <3>1. /\ Visited(w)' = Visited(w) /\ wk'[w].now = wk[w].now /\ ledger' = ledger
          /\ \/ Claim(w)
             \/ wk[w].pc = "sending" /\ wk'[w].known = wk[w].known
      BY <1>1, <2>3, TransactionGoesOn
    <3>2. CASE Claim(w)
      <4>1. wk'[w].known = (ledger[<<Visited(w), LocalDate(wk[w].now)>>] > 0)
        BY <3>2 DEF Claim, TypeOK, WorkerState
      <4> QED
        BY <3>1, <4>1
    <3>3. CASE wk[w].pc = "sending" /\ wk'[w].known = wk[w].known
      BY <3>1, <3>3 DEF Ledgered, InTransaction
    <3> QED
      BY <3>1, <3>2, <3>3
  <2>4. LedgerOncePerDay'
    BY <2>1 DEF LedgerOncePerDay
  <2>5. Ledgered'
    BY <2>2, <2>3 DEF Ledgered
  <2> QED
    BY <2>4, <2>5
<1>2. ASSUME NEW w \in DigestWorker, WorkerStep(w) \/ Crash(w)
      PROVE  Ledgered' /\ LedgerOncePerDay'
  <2>1. ledger' = ledger \/ (InTransaction(w) /\ ~ wk[w].known /\ ledger' = WithLedger(w))
    BY <1>2 DEF WorkerStep, Crash, StartTick, PassOver, Claim, SendAccepted, SendRefused,
                Record, Defer, InTransaction
  <2>2. PICK u \in User : InTransaction(w) => u = Visited(w)
    BY VisitedIsUser, DigestAssumption DEF InTransaction
  <2>3. <<u, LocalDate(wk[w].now)>> \in User \X Date
    BY DateOfTick
  <2> DEFINE d == <<u, LocalDate(wk[w].now)>>
  <2>4. d \in User \X Date /\ (InTransaction(w) => d = <<Visited(w), LocalDate(wk[w].now)>>)
    BY <2>2, <2>3
  <2> HIDE DEF d
  <2> QED
    BY <1>1, <1>2, <2>1, <2>4
<1>3. CASE UNCHANGED <<wk, ledger>>
  BY <1>3, VisitedIsFirst DEF Ledgered, LedgerOncePerDay, InTransaction
<1> QED
  BY <1>2, <1>3 DEF Next, SilentDelivery, UpdateQuietHours, Advance, vars

LEMMA VisitsInvariant == Spec => [](OneVisit /\ Ledgered /\ LedgerOncePerDay)
<1>1. Init => OneVisit /\ Ledgered /\ LedgerOncePerDay
  <2> SUFFICES ASSUME Init PROVE OneVisit /\ Ledgered /\ LedgerOncePerDay
    OBVIOUS
  <2>1. \A w \in DigestWorker : ~ InTransaction(w)
    BY IdleType DEF Init, InTransaction
  <2>2. LedgerOncePerDay
    BY DEF Init, LedgerOncePerDay
  <2> QED
    BY <2>1, <2>2 DEF OneVisit, Ledgered
<1>2. (TypeOK /\ NowIsPast) /\ (OneVisit /\ Ledgered /\ LedgerOncePerDay) /\ [Next]_vars
        => (OneVisit /\ Ledgered /\ LedgerOncePerDay)'
  BY OneVisitKept, LedgerKept
<1> QED
  BY <1>1, <1>2, TypesInvariant, PTL DEF Spec

\* However many loops visit a user, crash and come again, a local day of the user
\* gets at most one record of its morning digest.
THEOREM LedgerStaysOncePerDay == Spec => []LedgerOncePerDay
BY VisitsInvariant, PTL

-----------------------------------------------------------------------------
(* Copies of a reminder. *)

\* The rows of a message belong to the user visited and are not recalled yet; of
\* an accepted message each has been shown.
Batches ==
  \A w \in DigestWorker :
    InTransaction(w) =>
      \A i \in wk[w].batch : /\ owner[i] = Visited(w) /\ ~ item[i].included
                             /\ wk[w].pc = "accepted" => item[i].copies > 0

\* The row is in a message that may have arrived, and nothing is committed yet.
Afloat(w, i) == i \in wk[w].batch /\ wk[w].pc \in {"accepted", "failed"}

\* A copy more than the failures is one of a message that went through, or still may.
Excused(i) ==
  /\ item[i].included => item[i].copies > 0
  /\ item[i].copies > item[i].tries + crashes =>
       /\ item[i].copies = item[i].tries + crashes + 1
       /\ item[i].included \/ \E w \in DigestWorker : Afloat(w, i)

AllExcused == \A i \in Item : Excused(i)

\* A row is in the hands of one visit.
LEMMA OneHolder ==
  ASSUME OneVisit, Batches, NEW v \in DigestWorker, NEW w \in DigestWorker,
         InTransaction(v), InTransaction(w), NEW i, i \in wk[v].batch, i \in wk[w].batch
  PROVE  v = w
BY DEF OneVisit, Batches

\* What becomes of the rows in the steps of a worker.
LEMMA RowsOfWorker ==
  ASSUME TypeOK, NEW w \in DigestWorker, WorkerStep(w) \/ Crash(w), NEW i \in Item
  PROVE  /\ ~ InTransaction(w) \/ i \notin wk[w].batch => item'[i] = item[i]
         /\ SendAccepted(w) /\ i \in wk[w].batch =>
              /\ item'[i].copies = item[i].copies + 1 /\ item'[i].tries = item[i].tries
              /\ item'[i].included = item[i].included
         /\ Record(w) /\ i \in wk[w].batch =>
              /\ item'[i].copies = item[i].copies /\ item'[i].tries = item[i].tries
              /\ item'[i].included
         /\ Defer(w) /\ i \in wk[w].batch =>
              /\ item'[i].copies = item[i].copies /\ item'[i].tries = item[i].tries + 1
              /\ item'[i].included = item[i].included
         /\ ~ SendAccepted(w) /\ ~ Record(w) /\ ~ Defer(w) => item'[i] = item[i]
<1> DEFINE r == item[i]
<1>1. /\ item \in [Item -> ItemState] /\ r \in ItemState /\ r = item[i]
      /\ wk[w].pc = "sending" \/ wk[w].pc = "accepted" \/ wk[w].pc = "failed" => InTransaction(w)
      /\ SendAccepted(w) => wk[w].pc = "sending"
      /\ Record(w) => wk[w].pc = "accepted"
      /\ Defer(w) => wk[w].pc = "failed"
  BY DEF TypeOK, InTransaction, SendAccepted, Record, Defer
<1> HIDE DEF r
<1>2. CASE SendAccepted(w)
  <2>1. item'[i] = IF i \in wk[w].batch THEN [r EXCEPT !.copies = @ + 1] ELSE r
    BY <1>1, <1>2 DEF SendAccepted, Shown
  <2> DEFINE s == [r EXCEPT !.copies = @ + 1]
  <2>2. s.copies = r.copies + 1 /\ s.tries = r.tries /\ s.included = r.included
    BY <1>1 DEF ItemState
  <2> HIDE DEF s
  <2>3. item'[i] = IF i \in wk[w].batch THEN s ELSE r
    BY <2>1 DEF s
  <2> QED
    BY <1>1, <1>2, <2>2, <2>3
<1>3. CASE Record(w)
  <2> DEFINE s == [r EXCEPT !.included = TRUE, !.next = 0]
  <2>1. item'[i] = IF i \in wk[w].batch THEN s ELSE r
    BY <1>1, <1>3 DEF Record
  <2>2. s.copies = r.copies /\ s.tries = r.tries /\ s.included
    BY <1>1 DEF ItemState
  <2> HIDE DEF s
  <2> QED
    BY <1>1, <1>3, <2>1, <2>2
<1>4. CASE Defer(w)
  <2> DEFINE at == wk[w].now + (IF wk[w].fatal THEN PermanentDelay ELSE TransientDelay)
             s == [r EXCEPT !.tries = @ + 1, !.next = at]
  <2>1. item'[i] = IF i \in wk[w].batch THEN s ELSE r
    BY <1>1, <1>4 DEF Defer, Deferred
  <2> HIDE DEF at
  <2>2. s.copies = r.copies /\ s.tries = r.tries + 1 /\ s.included = r.included
    BY <1>1 DEF ItemState
  <2> HIDE DEF s
  <2> QED
    BY <1>1, <1>4, <2>1, <2>2
<1>5. CASE item' = item /\ ~ SendAccepted(w) /\ ~ Record(w) /\ ~ Defer(w)
  BY <1>5
<1> QED
  BY <1>2, <1>3, <1>4, <1>5
     DEF WorkerStep, Crash, StartTick, PassOver, Claim, SendRefused

LEMMA BatchesKept ==
  ASSUME TypeOK, OneVisit, Batches, [Next]_vars
  PROVE  Batches'
<1>1. ASSUME NEW w \in DigestWorker, WorkerStep(w) \/ Crash(w) PROVE Batches'
  <2>0. owner' = owner /\ \A v \in DigestWorker : wk[v].batch \subseteq Item
    BY <1>1, StepsOfWorker DEF TypeOK, WorkerState
  <2>1. ASSUME NEW v \in DigestWorker \ {w}, InTransaction(v)', NEW i \in wk'[v].batch
        PROVE  /\ owner'[i] = Visited(v)' /\ ~ item'[i].included
               /\ wk'[v].pc = "accepted" => item'[i].copies > 0
    <3>1. InTransaction(v) /\ wk'[v] = wk[v] /\ Visited(v)' = Visited(v) /\ i \in Item
      BY <1>1, <2>0, <2>1, OthersGoOn
    <3>2. ~ (InTransaction(w) /\ i \in wk[w].batch)
      BY <2>1, <3>1, OneHolder
    <3>3. item'[i] = item[i]
      BY <1>1, <3>1, <3>2, RowsOfWorker
    <3> QED
      BY <2>0, <2>1, <3>1, <3>3 DEF Batches
  <2>2. ASSUME InTransaction(w)', NEW i \in wk'[w].batch
        PROVE  /\ owner'[i] = Visited(w)' /\ ~ item'[i].included
               /\ wk'[w].pc = "accepted" => item'[i].copies > 0
    <3>1. /\ Visited(w)' = Visited(w)
          /\ \/ Claim(w) /\ wk'[w].pc = "sending"
             \/ /\ SendAccepted(w) \/ SendRefused(w)
                /\ wk[w].pc = "sending" /\ wk'[w].batch = wk[w].batch
      BY <1>1, <2>2, TransactionGoesOn
    <3>2. CASE Claim(w) /\ wk'[w].pc = "sending"
      <4>1. wk'[w].batch = Claimed(Visited(w), wk[w].now) /\ item' = item
        BY <3>2 DEF Claim, TypeOK, WorkerState
      <4>2. i \in Waiting(Visited(w), wk[w].now)
        BY <2>2, <4>1 DEF Claimed
      <4> QED
        BY <2>0, <3>1, <3>2, <4>1, <4>2 DEF Waiting
    <3>3. CASE /\ SendAccepted(w) \/ SendRefused(w)
               /\ wk[w].pc = "sending" /\ wk'[w].batch = wk[w].batch
      <4>1. i \in Item /\ owner[i] = Visited(w) /\ ~ item[i].included
        BY <2>0, <2>2, <3>3 DEF Batches, InTransaction
      <4>2. CASE SendAccepted(w)
        <5>1. /\ item'[i].copies = item[i].copies + 1 /\ item[i].copies \in Nat
              /\ item'[i].included = item[i].included
          BY <1>1, <2>2, <3>3, <4>1, <4>2, RowsOfWorker DEF TypeOK, ItemState
        <5> QED
          BY <2>0, <3>1, <4>1, <5>1
      <4>3. CASE SendRefused(w)
        <5>1. item' = item /\ wk'[w].pc = "failed"
          BY <4>3 DEF SendRefused, TypeOK, WorkerState
        <5> QED
          BY <2>0, <3>1, <4>1, <5>1
      <4> QED
        BY <3>3, <4>2, <4>3
    <3> QED
      BY <3>1, <3>2, <3>3
  <2> QED
    BY <2>1, <2>2 DEF Batches
<1>2. ASSUME NEW i \in Item, SilentDelivery(i) PROVE Batches'
  <2>1. PICK t : item' = [item EXCEPT ![i].sent = t]
    BY <1>2 DEF SilentDelivery
  <2>2. wk' = wk /\ owner' = owner
    BY <1>2 DEF SilentDelivery
  <2>3. \A j \in Item : item'[j].included = item[j].included /\ item'[j].copies = item[j].copies
    BY <2>1 DEF TypeOK, ItemState
  <2>4. \A w \in DigestWorker : wk[w].batch \subseteq Item
    BY DEF TypeOK, WorkerState
  <2> QED
    BY <2>2, <2>3, <2>4, VisitedIsFirst DEF Batches, InTransaction
<1>3. CASE UNCHANGED <<wk, owner, item>>
  BY <1>3, VisitedIsFirst DEF Batches, InTransaction
<1> QED
  BY <1>1, <1>2, <1>3 DEF Next, UpdateQuietHours, Advance, vars

LEMMA ExcusedKept ==
  ASSUME TypeOK, OneVisit, Batches, AllExcused, [Next]_vars, NEW i \in Item
  PROVE  Excused(i)'
<1>0. /\ item[i].copies \in Nat /\ item[i].tries \in Nat /\ crashes \in Nat
      /\ item[i].included \in BOOLEAN /\ Excused(i)
  BY DigestAssumption DEF TypeOK, ItemState, AllExcused
<1>1. ASSUME NEW w \in DigestWorker, WorkerStep(w) \/ Crash(w),
             ~ (InTransaction(w) /\ i \in wk[w].batch)
      PROVE  Excused(i)'
  <2>1. item'[i] = item[i] /\ ~ Afloat(w, i)
    BY <1>1, RowsOfWorker DEF Afloat, InTransaction
  <2>2. crashes' = crashes \/ crashes' = crashes + 1
    BY <1>1 DEF WorkerStep, Crash, StartTick, PassOver, Claim, SendAccepted, SendRefused,
                Record, Defer
  <2>3. \A v \in DigestWorker \ {w} : Afloat(v, i) => Afloat(v, i)'
    BY <1>1, OthersGoOn DEF Afloat
  <2> QED
    BY <1>0, <2>1, <2>2, <2>3 DEF Excused
<1>2. ASSUME NEW w \in DigestWorker, WorkerStep(w) \/ Crash(w),
             InTransaction(w), i \in wk[w].batch
      PROVE  Excused(i)'
  <2>1. ~ item[i].included /\ (wk[w].pc = "accepted" => item[i].copies > 0)
    BY <1>2 DEF Batches
  <2>2. ASSUME NEW v \in DigestWorker, Afloat(v, i) PROVE v = w
    BY <1>2, <2>2, OneHolder DEF Afloat, InTransaction
  <2>3. /\ item[i].copies <= item[i].tries + crashes + 1
        /\ wk[w].pc = "sending" => item[i].copies <= item[i].tries + crashes
    BY <1>0, <2>1, <2>2 DEF Excused, Afloat
  <2>4. CASE SendAccepted(w)
    <3>1. /\ item'[i].copies = item[i].copies + 1 /\ item'[i].tries = item[i].tries
          /\ item'[i].included = item[i].included
      BY <1>2, <2>4, RowsOfWorker
    <3>2. wk[w].pc = "sending" /\ crashes' = crashes /\ Afloat(w, i)'
      BY <1>2, <2>4 DEF SendAccepted, Afloat, TypeOK, WorkerState
    <3> QED
      BY <1>0, <2>1, <2>3, <3>1, <3>2 DEF Excused
  <2>5. CASE SendRefused(w)
    BY <1>0, <2>1, <2>3, <2>5 DEF SendRefused, Excused
  <2>6. CASE Record(w)
    <3>1. /\ item'[i].copies = item[i].copies /\ item'[i].tries = item[i].tries
          /\ item'[i].included
      BY <1>2, <2>6, RowsOfWorker
    <3>2. wk[w].pc = "accepted" /\ crashes' = crashes
      BY <2>6 DEF Record
    <3> QED
      BY <1>0, <2>1, <2>3, <3>1, <3>2 DEF Excused
  <2>7. CASE Defer(w)
    <3>1. /\ item'[i].copies = item[i].copies /\ item'[i].tries = item[i].tries + 1
          /\ item'[i].included = item[i].included
      BY <1>2, <2>7, RowsOfWorker
    <3>2. crashes' = crashes
      BY <2>7 DEF Defer
    <3> QED
      BY <1>0, <2>1, <2>3, <3>1, <3>2 DEF Excused
  <2>8. CASE Crash(w)
    BY <1>0, <2>1, <2>3, <2>8 DEF Crash, Excused
  <2> QED
    BY <1>2, <2>4, <2>5, <2>6, <2>7, <2>8
       DEF WorkerStep, StartTick, PassOver, Claim, InTransaction
<1>3. ASSUME NEW j \in Item, SilentDelivery(j) PROVE Excused(i)'
  <2>1. PICK t : item' = [item EXCEPT ![j].sent = t]
    BY <1>3 DEF SilentDelivery
  <2>2. wk' = wk /\ crashes' = crashes
    BY <1>3 DEF SilentDelivery
  <2>3. /\ item'[i].included = item[i].included /\ item'[i].copies = item[i].copies
        /\ item'[i].tries = item[i].tries
    BY <2>1 DEF TypeOK, ItemState
  <2> QED
    BY <1>0, <2>2, <2>3 DEF Excused, Afloat
<1>4. CASE UNCHANGED <<wk, item, crashes>>
  BY <1>0, <1>4 DEF Excused, Afloat
<1> QED
  BY <1>1, <1>2, <1>3, <1>4 DEF Next, UpdateQuietHours, Advance, vars

LEMMA CopiesInvariant == Spec => [](Batches /\ AllExcused)
<1>1. Init => Batches /\ AllExcused
  <2> SUFFICES ASSUME Init PROVE Batches /\ AllExcused
    OBVIOUS
  <2>1. \A w \in DigestWorker : ~ InTransaction(w)
    BY IdleType DEF Init, InTransaction
  <2>2. \A i \in Item : Excused(i)
    BY DEF Init, Excused
  <2> QED
    BY <2>1, <2>2 DEF Batches, AllExcused
<1>2. (TypeOK /\ NowIsPast) /\ (OneVisit /\ Ledgered /\ LedgerOncePerDay)
        /\ (Batches /\ AllExcused) /\ [Next]_vars => (Batches /\ AllExcused)'
  BY BatchesKept, ExcusedKept DEF AllExcused
<1> QED
  BY <1>1, <1>2, TypesInvariant, VisitsInvariant, PTL DEF Spec

\* However many loops, users and reminders there are, every digest beyond the
\* first that recalled one reminder is paid for by a failed attempt or a tick cut
\* short, and no reminder is marked as recalled that was not shown.
THEOREM DigestCopiesAreExplained == Spec => []DigestCopiesExplained
<1>1. TypeOK /\ NowIsPast /\ Batches /\ AllExcused => DigestCopiesExplained
  BY DigestAssumption DEF AllExcused, Excused, DigestCopiesExplained, TypeOK, ItemState
<1> QED
  BY <1>1, TypesInvariant, CopiesInvariant, PTL
=============================================================================
