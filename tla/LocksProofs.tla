---------------------------- MODULE LocksProofs ----------------------------
(***************************************************************************)
(* Proofs about Locks, for any number of transactions, entries,            *)
(* occurrences and rows: the operations that are in order never deadlock   *)
(* among themselves.                                                       *)
(*                                                                         *)
(* A rank is given to every request, and to ask in the order of ranks,     *)
(* guarded by what is asked for first, is the discipline of an operation.  *)
(* That each operation keeps it is read off its sequences, piece by piece; *)
(* a change of zone keeps it at every turn of its loop.                    *)
(* Where one in order waits for another, the other waits at a higher rank; *)
(* ranks are bounded, so that somebody does not wait.                      *)
(***************************************************************************)
EXTENDS Locks, FiniteSetTheorems, SequenceTheorems, TLAPS

-----------------------------------------------------------------------------
(* The order of the locks. *)

Culprit(op) == op.name \in OutOfOrder

User == Req("user", 0, "update")
Setting == Req("settings", 0, "update")
Act(o) == Req("action", o, "update")
TheOcc(o) == Req("occurrence", o, "update")
Signal(n) == Req("notification", n, "update")

\* Where in the order an operation asks for r.  Nothing at the end of it is ever
\* waited for: pending rows, the context and entries are guarded by what the
\* operation has by then.  A change of zone comes back to occurrences with rows
\* and entries in hand; all these have one rank, above that of an occurrence that
\* others ask for, and no two changes of zone are past user_settings at once.
Rank(op, r) ==
  CASE r.kind = "user"     -> 0
    [] r.kind = "settings" -> 1
    [] r.kind = "action"   -> 2
    [] OTHER -> IF op.name = "confirm_zone" THEN 4
                ELSE CASE r.kind = "occurrence" -> 3
                       [] r.kind = "notification" /\ r.id \in Sent ->
                            IF op.name = "digest" THEN 6 ELSE 5
                       [] OTHER -> 7

\* Within these an operation may take several.
Several == {4, 6, 7}

\* What guards r: the locks op has before it asks for r, if it is in order.
Guarded(op, H, r) ==
  /\ r.kind \notin {"confirmation", "change"}
  /\ r.kind = "occurrence" /\ op.name # "confirm_zone" => Req("action", r.id, "update") \in H
  /\ r.kind = "notification" =>
       IF op.name = "digest" THEN r.id \in Sent
                             ELSE Req("occurrence", OccOf[r.id], "update") \in H
  /\ op.name \in {"digest", "confirm_zone"} /\ r.kind # "settings" =>
       Req("settings", 0, "update") \in H
  /\ r.kind = "context" \/ (r.kind = "entry" /\ op.name # "confirm_zone") =>
       Req("user", 0, "update") \in H
  /\ r.kind = "entry" =>
       \/ r.mode = "share"
       \/ r.mode = "nokey" /\ (r.id \in Routines <=> op.name = "confirm_zone")

\* What has been taken comes before r.
Climbs(op, H, r) ==
  \A h \in H : \/ Rank(op, h) < Rank(op, r)
               \/ Rank(op, h) = Rank(op, r) /\ Rank(op, r) \in Several

Due(op, H, r) == r \in Request /\ Guarded(op, H, r) /\ Climbs(op, H, r)

Elems(s) == {s[i] : i \in 1 .. Len(s)}

\* An operation that has H may ask for s, one after the other.
Orderly(op, H, s) ==
  /\ s \in Seq(Request)
  /\ \A j \in 1 .. Len(s) : Due(op, H \cup {s[i] : i \in 1 .. j - 1}, s[j])

Disciplined(p) ==
  LET r == run[p]
  IN  ~ Culprit(r.op) => /\ Orderly(r.op, r.held, r.todo)
                         /\ \A h \in r.held : Guarded(r.op, r.held, h)

\* The loop of a change of zone goes on under user_settings.
Looping(p) ==
  run[p].left # {} => /\ run[p].op.name = "confirm_zone"
                      /\ Setting \in run[p].held \cup Elems(run[p].todo)

\* Two transactions never have locks that exclude each other.
Compatible ==
  \A p, q \in Process : p # q =>
    \A g \in run[p].held, h \in run[q].held : ~ Conflicting(g, h)

IInv == TypeOK /\ Compatible /\ \A p \in Process : Disciplined(p) /\ Looping(p)

USE LocksAssumption

-----------------------------------------------------------------------------
(* Sequences of requests. *)

\* What guards a request guards it when more is had.
LEMMA GuardStays ==
  ASSUME NEW op, NEW H, NEW G, H \subseteq G, NEW r, Guarded(op, H, r)
  PROVE  Guarded(op, G, r)
BY DEF Guarded

\* Nothing is asked for.
LEMMA NoneOrderly ==
  ASSUME NEW op, NEW H
  PROVE  Orderly(op, H, <<>>) /\ Elems(<<>>) = {}
BY DEF Orderly, Elems

\* One request.
LEMMA OneOrderly ==
  ASSUME NEW op, NEW H, NEW r, Due(op, H, r)
  PROVE  Orderly(op, H, <<r>>) /\ Elems(<<r>>) = {r}
<1> DEFINE s == <<r>>
<1>1. s \in Seq(Request) /\ Len(s) = 1 /\ s[1] = r
  BY DEF Due
<1> HIDE DEF s
<1>2. ASSUME NEW j \in 1 .. Len(s) PROVE Due(op, H \cup {s[i] : i \in 1 .. j - 1}, s[j])
  <2>1. j = 1 /\ 1 .. j - 1 = {}
    BY <1>1, <1>2
  <2>2. H \cup {s[i] : i \in 1 .. j - 1} = H
    BY <2>1
  <2> QED
    BY <1>1, <2>1, <2>2
<1>3. Elems(s) = {r}
  BY <1>1 DEF Elems
<1>4. Orderly(op, H, s)
  BY <1>1, <1>2 DEF Orderly
<1> QED
  BY <1>3, <1>4 DEF s

\* Two requests.
LEMMA TwoOrderly ==
  ASSUME NEW op, NEW H, NEW a, NEW b, Due(op, H, a), Due(op, H \cup {a}, b)
  PROVE  Orderly(op, H, <<a, b>>) /\ Elems(<<a, b>>) = {a, b}
<1> DEFINE s == <<a, b>>
<1>1. s \in Seq(Request) /\ Len(s) = 2 /\ s[1] = a /\ s[2] = b
  BY DEF Due
<1> HIDE DEF s
<1>2. ASSUME NEW j \in 1 .. Len(s) PROVE Due(op, H \cup {s[i] : i \in 1 .. j - 1}, s[j])
  <2>1. CASE j = 1
    <3>1. 1 .. j - 1 = {}
      BY <2>1
    <3>2. H \cup {s[i] : i \in 1 .. j - 1} = H
      BY <3>1
    <3> QED
      BY <1>1, <2>1, <3>2
  <2>2. CASE j = 2
    <3>1. 1 .. j - 1 = {1}
      BY <2>2
    <3>2. {s[i] : i \in 1 .. j - 1} = {a}
      BY <1>1, <3>1
    <3> QED
      BY <1>1, <2>2, <3>2
  <2> QED
    BY <1>1, <1>2, <2>1, <2>2
<1>3. Elems(s) = {a, b}
  <2>1. 1 .. 2 = {1, 2}
    OBVIOUS
  <2> QED
    BY <1>1, <2>1 DEF Elems
<1>4. Orderly(op, H, s)
  BY <1>1, <1>2 DEF Orderly
<1> QED
  BY <1>3, <1>4 DEF s

\* What two sequences in a row contain.
LEMMA ElemsOfBoth ==
  ASSUME NEW S, NEW s \in Seq(S), NEW t \in Seq(S)
  PROVE  Elems(s \o t) = Elems(s) \cup Elems(t)
<1>1. /\ s \o t \in Seq(S) /\ Len(s \o t) = Len(s) + Len(t)
      /\ \A i \in 1 .. Len(s) + Len(t) :
           (s \o t)[i] = IF i <= Len(s) THEN s[i] ELSE t[i - Len(s)]
  BY ConcatProperties
<1>2. Len(s) \in Nat /\ Len(t) \in Nat
  OBVIOUS
<1>3. ASSUME NEW x \in Elems(s \o t) PROVE x \in Elems(s) \cup Elems(t)
  <2>1. PICK i \in 1 .. Len(s) + Len(t) : x = (s \o t)[i]
    BY <1>1 DEF Elems
  <2>2. CASE i <= Len(s)
    BY <1>1, <1>2, <2>1, <2>2 DEF Elems
  <2>3. CASE ~ (i <= Len(s))
    <3>1. i - Len(s) \in 1 .. Len(t) /\ x = t[i - Len(s)]
      BY <1>1, <1>2, <2>1, <2>3
    <3> QED
      BY <3>1 DEF Elems
  <2> QED
    BY <2>2, <2>3
<1>4. ASSUME NEW x \in Elems(s) PROVE x \in Elems(s \o t)
  <2>1. PICK i \in 1 .. Len(s) : x = s[i]
    BY <1>4 DEF Elems
  <2>2. i \in 1 .. Len(s) + Len(t) /\ x = (s \o t)[i]
    BY <1>1, <1>2, <2>1
  <2> QED
    BY <1>1, <2>2 DEF Elems
<1>5. ASSUME NEW x \in Elems(t) PROVE x \in Elems(s \o t)
  <2>1. PICK i \in 1 .. Len(t) : x = t[i]
    BY <1>5 DEF Elems
  <2>2. /\ i + Len(s) \in 1 .. Len(s) + Len(t) /\ ~ (i + Len(s) <= Len(s))
        /\ (i + Len(s)) - Len(s) = i
    BY <1>2, <2>1
  <2>3. x = (s \o t)[i + Len(s)]
    BY <1>1, <2>1, <2>2
  <2> QED
    BY <1>1, <2>2, <2>3 DEF Elems
<1> QED
  BY <1>3, <1>4, <1>5

\* Two orderly sequences, the second from what the first has got.
LEMMA BothOrderly ==
  ASSUME NEW op, NEW H, NEW s, NEW t, Orderly(op, H, s), Orderly(op, H \cup Elems(s), t)
  PROVE  Orderly(op, H, s \o t) /\ Elems(s \o t) = Elems(s) \cup Elems(t)
<1> DEFINE u == s \o t
<1>0. s \in Seq(Request) /\ t \in Seq(Request)
  BY DEF Orderly
<1>1. /\ u \in Seq(Request) /\ Len(u) = Len(s) + Len(t)
      /\ \A i \in 1 .. Len(s) + Len(t) :
           u[i] = IF i <= Len(s) THEN s[i] ELSE t[i - Len(s)]
  BY <1>0, ConcatProperties
<1>2. Len(s) \in Nat /\ Len(t) \in Nat
  BY <1>0
<1> HIDE DEF u
<1>3. ASSUME NEW j \in 1 .. Len(u) PROVE Due(op, H \cup {u[i] : i \in 1 .. j - 1}, u[j])
  <2>1. CASE j <= Len(s)
    <3>1. {u[i] : i \in 1 .. j - 1} = {s[i] : i \in 1 .. j - 1}
      <4>1. \A i \in 1 .. j - 1 : u[i] = s[i]
        BY <1>1, <1>2, <1>3, <2>1
      <4> QED
        BY <4>1
    <3>2. u[j] = s[j] /\ j \in 1 .. Len(s)
      BY <1>1, <1>2, <1>3, <2>1
    <3> QED
      BY <3>1, <3>2 DEF Orderly
  <2>2. CASE ~ (j <= Len(s))
    <3> DEFINE k == j - Len(s)
    <3>1. k \in 1 .. Len(t) /\ u[j] = t[k] /\ k + Len(s) = j
      BY <1>1, <1>2, <1>3, <2>2
    <3>2. \A i \in 1 .. Len(s) : i \in 1 .. j - 1 /\ u[i] = s[i]
      BY <1>1, <1>2, <1>3, <2>2
    <3>3. \A i \in 1 .. k - 1 : i + Len(s) \in 1 .. j - 1 /\ u[i + Len(s)] = t[i]
      <4> TAKE i \in 1 .. k - 1
      <4>1. i + Len(s) \in 1 .. j - 1 /\ i + Len(s) \in 1 .. Len(s) + Len(t)
              /\ ~ (i + Len(s) <= Len(s)) /\ (i + Len(s)) - Len(s) = i
        BY <1>1, <1>2, <1>3, <3>1
      <4> QED
        BY <1>1, <4>1
    <3>4. \A i \in 1 .. j - 1 : \/ i \in 1 .. Len(s)
                                \/ i - Len(s) \in 1 .. k - 1 /\ (i - Len(s)) + Len(s) = i
      BY <1>2, <1>3, <2>2
    <3> HIDE DEF k
    <3>5. {u[i] : i \in 1 .. j - 1} = Elems(s) \cup {t[i] : i \in 1 .. k - 1}
      <4>1. ASSUME NEW i \in 1 .. j - 1 PROVE u[i] \in Elems(s) \cup {t[m] : m \in 1 .. k - 1}
        <5>1. CASE i \in 1 .. Len(s)
          BY <3>2, <5>1 DEF Elems
        <5>2. CASE i - Len(s) \in 1 .. k - 1 /\ (i - Len(s)) + Len(s) = i
          <6>1. u[i] = t[i - Len(s)]
            BY <3>3, <5>2
          <6> QED
            BY <5>2, <6>1
        <5> QED
          BY <3>4, <5>1, <5>2
      <4>2. \A x \in Elems(s) : x \in {u[i] : i \in 1 .. j - 1}
        BY <3>2 DEF Elems
      <4>3. \A m \in 1 .. k - 1 : t[m] \in {u[i] : i \in 1 .. j - 1}
        BY <3>3
      <4> QED
        BY <4>1, <4>2, <4>3
    <3>6. Due(op, (H \cup Elems(s)) \cup {t[i] : i \in 1 .. k - 1}, t[k])
      BY <3>1 DEF Orderly
    <3>7. H \cup {u[i] : i \in 1 .. j - 1} = (H \cup Elems(s)) \cup {t[i] : i \in 1 .. k - 1}
      BY <3>5
    <3> QED
      BY <3>1, <3>6, <3>7
  <2> QED
    BY <2>1, <2>2
<1>4. Elems(s \o t) = Elems(s) \cup Elems(t)
  BY <1>0, ElemsOfBoth
<1>5. Orderly(op, H, u)
  BY <1>1, <1>3 DEF Orderly
<1> QED
  BY <1>4, <1>5 DEF u

\* The requests of one statement.
Reqs(kind, ids, mode) == {Req(kind, i, mode) : i \in ids}

\* A statement asks for each of its rows, in whatever order.
LEMMA RowsTaken ==
  ASSUME NEW kind, NEW ids, IsFiniteSet(ids), NEW mode,
         NEW s \in InAnyOrder(kind, ids, mode)
  PROVE  /\ s \in Seq(Reqs(kind, ids, mode))
         /\ Elems(s) = Reqs(kind, ids, mode)
<1> DEFINE n == Cardinality(ids)
<1>1. n \in Nat
  BY FS_CardinalityType
<1>2. PICK f \in [1 .. n -> ids] :
        /\ \A i, j \in 1 .. n : i # j => f[i] # f[j]
        /\ s = [i \in DOMAIN f |-> Req(kind, f[i], mode)]
  BY DEF InAnyOrder, SetToSeqs
<1> HIDE DEF n
<1>3. DOMAIN f = 1 .. n /\ \A i \in 1 .. n : f[i] \in ids
  OBVIOUS
<1>4. s \in [1 .. n -> Reqs(kind, ids, mode)] /\ \A i \in 1 .. n : s[i] = Req(kind, f[i], mode)
  BY <1>2, <1>3 DEF Reqs
<1>5. s \in Seq(Reqs(kind, ids, mode)) /\ Len(s) = n
  BY <1>1, <1>4
<1>6. \A x \in ids : \E i \in 1 .. n : f[i] = x
  <2>1. f \in Injection(1 .. n, ids)
    BY <1>2 DEF Injection, IsInjective
  <2>2. Cardinality(1 .. n) = n
    BY <1>1, FS_Interval
  <2>3. f \in Surjection(1 .. n, ids)
    BY <2>1, <2>2, FS_Injection DEF n
  <2> QED
    BY <2>3 DEF Surjection
<1>7. Elems(s) = Reqs(kind, ids, mode)
  BY <1>3, <1>4, <1>5, <1>6 DEF Elems, Reqs
<1> QED
  BY <1>5, <1>7

\* Any of R may be asked for first by an operation that has H.
AllDue(op, H, R) ==
  \A r \in R : r \in Request /\ Guarded(op, H, r) /\ Climbs(op, H \cup R, r)

\* A statement is orderly when each of its rows is due, whichever come first.
LEMMA RowsOrderly ==
  ASSUME NEW op, NEW H, NEW kind, NEW ids, IsFiniteSet(ids), NEW mode,
         NEW s \in InAnyOrder(kind, ids, mode),
         AllDue(op, H, Reqs(kind, ids, mode))
  PROVE  Orderly(op, H, s) /\ Elems(s) = Reqs(kind, ids, mode)
<1> DEFINE R == Reqs(kind, ids, mode)
<1>1. s \in Seq(R) /\ Elems(s) = R
  BY RowsTaken
<1>2. \A i \in 1 .. Len(s) : s[i] \in R
  BY <1>1
<1>3. s \in Seq(Request)
  <2>1. R \subseteq Request
    BY DEF AllDue
  <2> QED
    BY <1>1, <2>1
<1>4. ASSUME NEW j \in 1 .. Len(s) PROVE Due(op, H \cup {s[i] : i \in 1 .. j - 1}, s[j])
  <2> DEFINE G == H \cup {s[i] : i \in 1 .. j - 1}
  <2>1. H \subseteq G /\ G \subseteq H \cup R
    <3>1. \A i \in 1 .. j - 1 : i \in 1 .. Len(s)
      BY <1>1
    <3> QED
      BY <1>2, <3>1
  <2>2. s[j] \in R
    BY <1>2
  <2> HIDE DEF G
  <2>3. Guarded(op, G, s[j])
    BY <2>1, <2>2, GuardStays DEF AllDue
  <2>4. Climbs(op, G, s[j])
    BY <2>1, <2>2 DEF AllDue, Climbs
  <2>5. Due(op, G, s[j])
    BY <2>2, <2>3, <2>4 DEF AllDue, Due
  <2> QED
    BY <2>5 DEF G
<1> QED
  BY <1>1, <1>3, <1>4 DEF Orderly

-----------------------------------------------------------------------------
(* The pieces of an operation. *)

LEMMA ReqFields ==
  ASSUME NEW kind, NEW id, NEW mode
  PROVE  /\ Req(kind, id, mode).kind = kind /\ Req(kind, id, mode).id = id
         /\ Req(kind, id, mode).mode = mode
BY DEF Req

LEMMA ReqType ==
  ASSUME NEW kind \in {"user", "settings", "context", "action", "occurrence", "notification",
                       "entry", "confirmation", "change"},
         NEW id \in Nat, NEW mode \in {"update", "nokey", "share"}
  PROVE  Req(kind, id, mode) \in Request
BY DEF Req, Request

\* Ranks, and the top of them.
LEMMA RankRange ==
  ASSUME NEW op, NEW r \in Request
  PROVE  Rank(op, r) \in 0 .. 7
BY DEF Rank, Request

\* What comes last may follow anything.
LEMMA TopClimbs ==
  ASSUME NEW op, NEW H, H \subseteq Request, NEW r, Rank(op, r) = 7
  PROVE  Climbs(op, H, r)
BY RankRange DEF Climbs, Several

\* What a change of zone asks for after user_settings may follow anything.
LEMMA ZoneClimbs ==
  ASSUME NEW op, op.name = "confirm_zone", NEW H, H \subseteq Request,
         NEW r, r.kind \notin {"user", "settings", "action"}
  PROVE  Climbs(op, H, r)
<1>1. Rank(op, r) = 4
  BY DEF Rank
<1>2. \A h \in H : Rank(op, h) \in {0, 1, 2, 4}
  BY DEF Rank
<1> QED
  BY <1>1, <1>2 DEF Climbs, Several

\* An operation on occurrences that is in order.
Ordinary(op) == op.name \notin {"digest", "confirm_zone"}

\* The advisory lock and the row of an occurrence.
LEMMA OccurrenceOrderly ==
  ASSUME NEW op, Ordinary(op), NEW H, \A h \in H : Rank(op, h) < 2, NEW o \in Occ
  PROVE  Orderly(op, H, Occurrence(o)) /\ Elems(Occurrence(o)) = {Act(o), TheOcc(o)}
<1>1. Act(o) \in Request /\ TheOcc(o) \in Request
  BY ReqType DEF Act, TheOcc
<1>2. Rank(op, Act(o)) = 2 /\ Rank(op, TheOcc(o)) = 3
  BY ReqFields DEF Rank, Act, TheOcc, Ordinary
<1>3. Guarded(op, H, Act(o))
  BY ReqFields DEF Guarded, Act, Ordinary
<1>4. Guarded(op, H \cup {Act(o)}, TheOcc(o))
  BY ReqFields DEF Guarded, Act, TheOcc, Ordinary
<1>5. Climbs(op, H, Act(o)) /\ Climbs(op, H \cup {Act(o)}, TheOcc(o))
  <2>1. \A h \in H : Rank(op, h) < Rank(op, Act(o))
    BY <1>2
  <2>2. \A h \in H : Rank(op, h) < Rank(op, TheOcc(o))
    <3> TAKE h \in H
    <3>1. Rank(op, h) \in Int
      BY DEF Rank
    <3> QED
      BY <1>2, <3>1
  <2>3. Rank(op, Act(o)) < Rank(op, TheOcc(o))
    BY <1>2
  <2> QED
    BY <2>1, <2>2, <2>3 DEF Climbs
<1>6. Occurrence(o) = <<Act(o), TheOcc(o)>>
  BY DEF Occurrence, Act, TheOcc
<1> QED
  BY <1>1, <1>3, <1>4, <1>5, <1>6, TwoOrderly DEF Due

\* locks.lock_user_context comes first.
LEMMA UserOrderly ==
  ASSUME NEW op, Ordinary(op)
  PROVE  Orderly(op, {}, UserContext) /\ Elems(UserContext) = {User}
<1>1. User \in Request
  BY ReqType DEF User
<1>2. Guarded(op, {}, User) /\ Climbs(op, {}, User)
  BY ReqFields DEF Guarded, Climbs, User, Ordinary
<1>3. UserContext = <<User>>
  BY DEF UserContext, User
<1> QED
  BY <1>1, <1>2, <1>3, OneOrderly DEF Due

\* user_settings, when nothing or only the user's context is locked.
LEMMA SettingsOrderly ==
  ASSUME NEW op, NEW H, H \subseteq {User}
  PROVE  Orderly(op, H, Settings) /\ Elems(Settings) = {Setting}
<1>1. Setting \in Request
  BY ReqType DEF Setting
<1>2. Guarded(op, H, Setting)
  BY ReqFields DEF Guarded, Setting
<1>3. Rank(op, User) = 0 /\ Rank(op, Setting) = 1
  BY ReqFields DEF Rank, User, Setting
<1>4. Climbs(op, H, Setting)
  BY <1>3 DEF Climbs
<1>5. Settings = <<Setting>>
  BY DEF Settings, Setting
<1> QED
  BY <1>1, <1>2, <1>4, <1>5, OneOrderly DEF Due

\* The context and the occurrence.
LEMMA FromUser ==
  ASSUME NEW op, Ordinary(op), NEW o \in Occ
  PROVE  /\ Orderly(op, {}, UserContext \o Occurrence(o))
         /\ Elems(UserContext \o Occurrence(o)) = {User, Act(o), TheOcc(o)}
<1>1. \A h \in {User} : Rank(op, h) < 2
  BY ReqFields DEF Rank, User
<1>2. Orderly(op, {} \cup {User}, Occurrence(o))
        /\ Elems(Occurrence(o)) = {Act(o), TheOcc(o)}
  BY <1>1, OccurrenceOrderly
<1>3. Orderly(op, {}, UserContext) /\ Elems(UserContext) = {User}
  BY UserOrderly
<1>4. {} \cup {User} = {} \cup Elems(UserContext)
  BY <1>3
<1>5. /\ Orderly(op, {}, UserContext \o Occurrence(o))
      /\ Elems(UserContext \o Occurrence(o)) = Elems(UserContext) \cup Elems(Occurrence(o))
  BY <1>2, <1>3, <1>4, BothOrderly
<1>6. {User} \cup {Act(o), TheOcc(o)} = {User, Act(o), TheOcc(o)}
  OBVIOUS
<1> QED
  BY <1>2, <1>3, <1>5, <1>6

\* The row of a signal, when its occurrence is the last that has been locked.
LEMMA SignalOrderly ==
  ASSUME NEW op, Ordinary(op), NEW n \in Row, NEW H,
         H \subseteq {User, Setting, Act(OccOf[n]), TheOcc(OccOf[n])}, TheOcc(OccOf[n]) \in H
  PROVE  Orderly(op, H, Notification(n)) /\ Elems(Notification(n)) = {Signal(n)}
<1>1. Signal(n) \in Request
  BY ReqType DEF Signal
<1>2. Guarded(op, H, Signal(n))
  BY ReqFields DEF Guarded, Signal, TheOcc, Ordinary
<1>3. Rank(op, Signal(n)) \in {5, 7}
  BY ReqFields DEF Rank, Signal, Ordinary
<1>4. \A h \in H : Rank(op, h) \in 0 .. 3
  BY ReqFields DEF Rank, User, Setting, Act, TheOcc, Ordinary
<1>5. Climbs(op, H, Signal(n))
  BY <1>3, <1>4 DEF Climbs
<1>6. Notification(n) = <<Signal(n)>>
  BY DEF Notification, Signal
<1> QED
  BY <1>1, <1>2, <1>5, <1>6, OneOrderly DEF Due

\* The active context of a user whose context is locked.
LEMMA ContextOrderly ==
  ASSUME NEW op, Ordinary(op), NEW H, H \subseteq Request, User \in H,
         NEW mode \in {"update", "nokey"}
  PROVE  /\ Orderly(op, H, <<Req("context", 0, mode)>>)
         /\ Elems(<<Req("context", 0, mode)>>) \subseteq Request
<1> DEFINE r == Req("context", 0, mode)
<1>1. r \in Request
  BY ReqType
<1>2. Guarded(op, H, r)
  BY ReqFields DEF Guarded, User, Ordinary
<1>3. Rank(op, r) = 7
  BY ReqFields DEF Rank, Ordinary
<1>4. Climbs(op, H, r)
  BY <1>3, TopClimbs
<1> HIDE DEF r
<1>5. Due(op, H, r)
  BY <1>1, <1>2, <1>4 DEF Due
<1>6. Orderly(op, H, <<r>>) /\ Elems(<<r>>) = {r}
  BY <1>5, OneOrderly
<1>7. Elems(<<r>>) \subseteq Request
  BY <1>1, <1>6
<1> QED
  BY <1>6, <1>7 DEF r

\* The pending rows of an occurrence that is locked.
LEMMA PendingOrderly ==
  ASSUME NEW op, Ordinary(op), NEW H, H \subseteq Request, NEW o \in Occ, TheOcc(o) \in H,
         NEW s \in InAnyOrder("notification", PendingOf({o}), "nokey")
  PROVE  Orderly(op, H, s) /\ Elems(s) \subseteq Request
<1> DEFINE R == Reqs("notification", PendingOf({o}), "nokey")
<1>1. PendingOf({o}) \subseteq Row \ Sent /\ IsFiniteSet(PendingOf({o}))
  <2>1. PendingOf({o}) \subseteq Row \ Sent
    BY DEF PendingOf
  <2> QED
    BY <2>1, FS_Subset
<1>2. R \subseteq Request
  BY <1>1, ReqType DEF Reqs
<1>3. ASSUME NEW r \in R PROVE Guarded(op, H, r) /\ Rank(op, r) = 7
  <2>1. PICK n \in PendingOf({o}) : r = Req("notification", n, "nokey")
    BY DEF Reqs
  <2>2. OccOf[n] = o /\ n \notin Sent
    BY DEF PendingOf
  <2>3. r.kind = "notification" /\ r.id = n /\ r.mode = "nokey"
    BY <2>1, ReqFields
  <2> QED
    BY <2>2, <2>3 DEF Guarded, Rank, TheOcc, Ordinary
<1>4. AllDue(op, H, R)
  BY <1>2, <1>3, TopClimbs DEF AllDue
<1>5. Orderly(op, H, s) /\ Elems(s) = R
  BY <1>1, <1>4, RowsOrderly
<1> QED
  BY <1>2, <1>5

\* The foreign keys of new occurrences.
LEMMA UnfoldOrderly ==
  ASSUME NEW op, NEW H, H \subseteq Request, NEW entries, entries \subseteq Entry,
         IF op.name \in {"digest", "confirm_zone"} THEN op.name = "confirm_zone" /\ Setting \in H
                                                  ELSE User \in H,
         NEW s \in Unfold(entries)
  PROVE  Orderly(op, H, s) /\ Elems(s) \subseteq Request
<1> DEFINE R == Reqs("entry", entries, "share")
<1>1. IsFiniteSet(entries) /\ s \in InAnyOrder("entry", entries, "share")
  BY FS_Subset DEF Unfold, InOrder
<1>2. R \subseteq Request
  BY ReqType DEF Reqs
<1>3. ASSUME NEW r \in R PROVE Guarded(op, H, r) /\ Climbs(op, H \cup R, r)
  <2>1. r.kind = "entry" /\ r.mode = "share"
    BY ReqFields DEF Reqs
  <2>2. Guarded(op, H, r)
    BY <2>1 DEF Guarded, User, Setting
  <2>3. CASE op.name = "confirm_zone"
    <3>1. H \cup R \subseteq Request /\ r.kind \notin {"user", "settings", "action"}
      BY <1>2, <2>1
    <3> HIDE DEF R
    <3>2. Climbs(op, H \cup R, r)
      BY <2>3, <3>1, ZoneClimbs
    <3> QED
      BY <2>2, <3>2
  <2>4. CASE op.name # "confirm_zone"
    <3>1. Rank(op, r) = 7
      BY <2>1, <2>4 DEF Rank
    <3>2. H \cup R \subseteq Request
      BY <1>2
    <3> HIDE DEF R
    <3>3. Climbs(op, H \cup R, r)
      BY <3>1, <3>2, TopClimbs
    <3> QED
      BY <2>2, <3>3
  <2> QED
    BY <2>3, <2>4
<1>4. AllDue(op, H, R)
  BY <1>2, <1>3 DEF AllDue
<1>5. Orderly(op, H, s) /\ Elems(s) = R
  BY <1>1, <1>4, RowsOrderly
<1> QED
  BY <1>2, <1>5

-----------------------------------------------------------------------------
(* The operations. *)

\* An operation that has asked for s and goes on with t.
LEMMA GoesOn ==
  ASSUME NEW op, NEW s, NEW G, Orderly(op, {}, s), Elems(s) = G,
         NEW t, Orderly(op, G, t)
  PROVE  Orderly(op, {}, s \o t) /\ Elems(s \o t) = G \cup Elems(t)
<1>1. {} \cup Elems(s) = G
  OBVIOUS
<1> QED
  BY <1>1, BothOrderly

\* The pieces ask for requests.
LEMMA PiecesAreRequests ==
  ASSUME NEW o \in Occ, NEW n \in Row
  PROVE  /\ User \in Request /\ Setting \in Request /\ Act(o) \in Request
         /\ TheOcc(o) \in Request /\ Signal(n) \in Request
BY ReqType DEF User, Setting, Act, TheOcc, Signal

\* delivery._claim_one and _finalize_failed_delivery: the context, the
\* occurrence, the row, the active context.
LEMMA WorkerOrderly ==
  ASSUME NEW op, Ordinary(op), NEW n \in Row, NEW mode \in {"update", "nokey"}
  PROVE  Orderly(op, {}, UserContext \o Occurrence(OccOf[n]) \o Notification(n)
                           \o <<Req("context", 0, mode)>>)
<1> DEFINE o == OccOf[n]
           s == UserContext \o Occurrence(o)
           G == {User, Act(o), TheOcc(o)}
<1>0. o \in Occ /\ G \cup {Signal(n)} \subseteq Request /\ User \in G
  BY PiecesAreRequests
<1>1. Orderly(op, {}, s) /\ Elems(s) = G
  BY <1>0, FromUser
<1>2. Orderly(op, G, Notification(n)) /\ Elems(Notification(n)) = {Signal(n)}
  BY SignalOrderly
<1> HIDE DEF G, s
<1>3. Orderly(op, {}, s \o Notification(n)) /\ Elems(s \o Notification(n)) = G \cup {Signal(n)}
  BY <1>1, <1>2, GoesOn
<1>4. G \cup {Signal(n)} \subseteq Request /\ User \in G \cup {Signal(n)}
  BY <1>0
<1>5. Orderly(op, G \cup {Signal(n)}, <<Req("context", 0, mode)>>)
  BY <1>4, ContextOrderly
<1> QED
  BY <1>3, <1>5, GoesOn DEF s

\* delivery._finalize_sent_delivery: no context.
LEMMA FinalizeSentOrderly ==
  ASSUME NEW op, Ordinary(op), NEW n \in Row
  PROVE  Orderly(op, {}, Occurrence(OccOf[n]) \o Notification(n))
<1> DEFINE o == OccOf[n]
           G == {Act(o), TheOcc(o)}
<1>1. Orderly(op, {}, Occurrence(o)) /\ Elems(Occurrence(o)) = G
  <2>1. o \in Occ
    OBVIOUS
  <2> HIDE DEF o
  <2>2. \A h \in {} : Rank(op, h) < 2
    OBVIOUS
  <2> QED
    BY <2>1, <2>2, OccurrenceOrderly
<1>2. Orderly(op, G, Notification(n))
  BY SignalOrderly
<1> QED
  BY <1>1, <1>2, GoesOn

\* delivery.acknowledge_occurrence and scheduling.skip_occurrence: the pending
\* rows, then the active context.
LEMMA WithdrawOrderly ==
  ASSUME NEW op, Ordinary(op), NEW o \in Occ,
         NEW rows \in InAnyOrder("notification", PendingOf({o}), "nokey")
  PROVE  Orderly(op, {}, UserContext \o Occurrence(o) \o rows \o ActiveContext)
<1> DEFINE s == UserContext \o Occurrence(o)
           G == {User, Act(o), TheOcc(o)}
<1>0. G \subseteq Request /\ TheOcc(o) \in G /\ User \in G
  BY ReqType DEF User, Act, TheOcc
<1>1. Orderly(op, {}, s) /\ Elems(s) = G
  BY FromUser
<1>2. Orderly(op, G, rows) /\ Elems(rows) \subseteq Request
  BY <1>0, PendingOrderly
<1> HIDE DEF G, s
<1>3. Orderly(op, {}, s \o rows) /\ Elems(s \o rows) = G \cup Elems(rows)
  BY <1>1, <1>2, GoesOn
<1>4. G \cup Elems(rows) \subseteq Request /\ User \in G \cup Elems(rows)
  BY <1>0, <1>2
<1>5. Orderly(op, G \cup Elems(rows), ActiveContext)
  BY <1>4, ContextOrderly DEF ActiveContext
<1> QED
  BY <1>3, <1>5, GoesOn DEF s

\* delivery.react_to_active_context: the active context, then the pending rows.
LEMMA MessageOrderly ==
  ASSUME NEW op, Ordinary(op), NEW o \in Occ,
         NEW rows \in InAnyOrder("notification", PendingOf({o}), "nokey")
  PROVE  Orderly(op, {}, UserContext \o Occurrence(o) \o ActiveContext \o rows)
<1> DEFINE s == UserContext \o Occurrence(o)
           G == {User, Act(o), TheOcc(o)}
           F == G \cup Elems(ActiveContext)
<1>0. G \subseteq Request /\ TheOcc(o) \in G /\ User \in G
  BY ReqType DEF User, Act, TheOcc
<1>1. Orderly(op, {}, s) /\ Elems(s) = G
  BY FromUser
<1>2. Orderly(op, G, ActiveContext) /\ Elems(ActiveContext) \subseteq Request
  BY <1>0, ContextOrderly DEF ActiveContext
<1>3. Orderly(op, {}, s \o ActiveContext) /\ Elems(s \o ActiveContext) = F
  BY <1>1, <1>2, GoesOn
<1>4. F \subseteq Request /\ TheOcc(o) \in F
  BY <1>0, <1>2
<1>5. Orderly(op, F, rows)
  BY <1>4, PendingOrderly
<1> QED
  BY <1>3, <1>5, GoesOn

\* delivery.react_to_notification: the row, the active context, the pending rows.
LEMMA ReactionOrderly ==
  ASSUME NEW op, Ordinary(op), NEW n \in Row,
         NEW rows \in InAnyOrder("notification", PendingOf({OccOf[n]}), "nokey")
  PROVE  Orderly(op, {}, UserContext \o Occurrence(OccOf[n]) \o Notification(n)
                           \o ActiveContext \o rows)
<1> DEFINE o == OccOf[n]
           s == UserContext \o Occurrence(o) \o Notification(n) \o ActiveContext
           E == {User, Act(o), TheOcc(o)}
           G == E \cup {Signal(n)}
           F == G \cup Elems(ActiveContext)
<1>0. o \in Occ /\ G \subseteq Request /\ TheOcc(o) \in G /\ User \in G
  BY PiecesAreRequests
<1>1. /\ Orderly(op, {}, UserContext \o Occurrence(o))
      /\ Elems(UserContext \o Occurrence(o)) = E
  BY <1>0, FromUser
<1>2. /\ Orderly(op, E, Notification(n))
      /\ Elems(Notification(n)) = {Signal(n)}
  BY SignalOrderly
<1> HIDE DEF E
<1>3. /\ Orderly(op, {}, UserContext \o Occurrence(o) \o Notification(n))
      /\ Elems(UserContext \o Occurrence(o) \o Notification(n)) = G
  BY <1>1, <1>2, GoesOn
<1>4. Orderly(op, G, ActiveContext) /\ Elems(ActiveContext) \subseteq Request
  BY <1>0, ContextOrderly DEF ActiveContext
<1> HIDE DEF G
<1>5. Orderly(op, {}, s) /\ Elems(s) = F
  BY <1>3, <1>4, GoesOn
<1>6. F \subseteq Request /\ TheOcc(o) \in F
  BY <1>0, <1>4
<1>7. Orderly(op, F, rows)
  BY <1>0, <1>6, PendingOrderly
<1> QED
  BY <1>5, <1>7, GoesOn

\* reactions._lock_source: user_settings comes before the occurrence.
LEMMA SourceOrderly ==
  ASSUME NEW op, Ordinary(op), NEW n \in Row
  PROVE  /\ Orderly(op, {}, LockSource(n))
         /\ Elems(LockSource(n)) \subseteq Request
         /\ User \in Elems(LockSource(n)) /\ TheOcc(OccOf[n]) \in Elems(LockSource(n))
<1> DEFINE o == OccOf[n]
           E == {User} \cup {Setting}
           G == E \cup {Act(o), TheOcc(o)}
           F == G \cup {Signal(n)}
<1>0. o \in Occ /\ F \subseteq Request /\ TheOcc(o) \in F /\ User \in F
  BY PiecesAreRequests
<1>1. Orderly(op, {}, UserContext) /\ Elems(UserContext) = {User}
  BY UserOrderly
<1>2. Orderly(op, {User}, Settings) /\ Elems(Settings) = {Setting}
  BY SettingsOrderly
<1>3. /\ Orderly(op, {}, UserContext \o Settings)
      /\ Elems(UserContext \o Settings) = E
  BY <1>1, <1>2, GoesOn
<1>4. \A h \in E : Rank(op, h) < 2
  BY ReqFields DEF Rank, User, Setting
<1> HIDE DEF E
<1>5. /\ Orderly(op, E, Occurrence(o))
      /\ Elems(Occurrence(o)) = {Act(o), TheOcc(o)}
  BY <1>0, <1>4, OccurrenceOrderly
<1>6. /\ Orderly(op, {}, UserContext \o Settings \o Occurrence(o))
      /\ Elems(UserContext \o Settings \o Occurrence(o)) = G
  BY <1>3, <1>5, GoesOn
<1>7. Orderly(op, G, Notification(n)) /\ Elems(Notification(n)) = {Signal(n)}
  BY SignalOrderly DEF E
<1> HIDE DEF G
<1>8. /\ Orderly(op, {}, UserContext \o Settings \o Occurrence(o) \o Notification(n))
      /\ Elems(UserContext \o Settings \o Occurrence(o) \o Notification(n)) = F
  BY <1>6, <1>7, GoesOn
<1>9. Orderly(op, F, ActiveContext) /\ Elems(ActiveContext) \subseteq Request
  BY <1>0, ContextOrderly DEF ActiveContext
<1> HIDE DEF F
<1>10. Orderly(op, {}, LockSource(n)) /\ Elems(LockSource(n)) = F \cup Elems(ActiveContext)
  BY <1>8, <1>9, GoesOn DEF LockSource
<1> QED
  BY <1>0, <1>9, <1>10

\* The row of an entry that is not a routine, by an operation of the user.
LEMMA EntryOrderly ==
  ASSUME NEW op, Ordinary(op), NEW H, H \subseteq Request, User \in H,
         NEW e \in Entry \ Routines
  PROVE  /\ Orderly(op, H, <<Req("entry", e, "nokey")>>)
         /\ Elems(<<Req("entry", e, "nokey")>>) \subseteq Request
<1> DEFINE r == Req("entry", e, "nokey")
<1>1. r \in Request
  BY ReqType
<1>2. Guarded(op, H, r)
  BY ReqFields DEF Guarded, User, Ordinary
<1>3. Rank(op, r) = 7
  BY ReqFields DEF Rank, Ordinary
<1>4. Climbs(op, H, r)
  BY <1>3, TopClimbs
<1> HIDE DEF r
<1>5. Due(op, H, r)
  BY <1>1, <1>2, <1>4 DEF Due
<1>6. Orderly(op, H, <<r>>) /\ Elems(<<r>>) = {r}
  BY <1>5, OneOrderly
<1>7. Elems(<<r>>) \subseteq Request
  BY <1>1, <1>6
<1> QED
  BY <1>6, <1>7 DEF r

\* The buttons.
LEMMA ButtonOrderly ==
  ASSUME NEW op, Ordinary(op), NEW n \in Row,
         NEW cancelled \in InAnyOrder("notification", PendingOf({OccOf[n]}), "nokey"),
         NEW written, \/ written = <<>>
                      \/ \E e \in Entry \ Routines : written = <<Req("entry", e, "nokey")>>,
         NEW entries, entries \subseteq Entry, NEW added \in Unfold(entries)
  PROVE  Orderly(op, {}, LockSource(n) \o cancelled \o written \o added)
<1> DEFINE o == OccOf[n]
           source == LockSource(n)
           S == Elems(source)
<1>1. o \in Occ
  OBVIOUS
<1>3. /\ Orderly(op, {}, source)
      /\ S \subseteq Request /\ User \in S /\ TheOcc(o) \in S
  BY SourceOrderly
<1> HIDE DEF source, S, o
<1>4. Orderly(op, S, cancelled) /\ Elems(cancelled) \subseteq Request
  BY <1>1, <1>3, PendingOrderly DEF o
<1> DEFINE T == S \cup Elems(cancelled)
<1>5. Orderly(op, {}, source \o cancelled) /\ Elems(source \o cancelled) = T
  BY <1>3, <1>4, GoesOn DEF S
<1>6. T \subseteq Request /\ User \in T
  BY <1>3, <1>4
<1> HIDE DEF T
<1>7. Orderly(op, T, written) /\ Elems(written) \subseteq Request
  <2>1. ASSUME NEW e \in Entry \ Routines, written = <<Req("entry", e, "nokey")>>
        PROVE  Orderly(op, T, written) /\ Elems(written) \subseteq Request
    BY <1>6, <2>1, EntryOrderly
  <2>2. CASE written = <<>>
    BY <2>2, NoneOrderly
  <2> QED
    BY <2>1, <2>2
<1> DEFINE V == T \cup Elems(written)
<1>8. /\ Orderly(op, {}, source \o cancelled \o written)
      /\ Elems(source \o cancelled \o written) = V
  BY <1>5, <1>7, GoesOn
<1>9. V \subseteq Request /\ User \in V
  BY <1>6, <1>7
<1> HIDE DEF V
<1>10. Orderly(op, V, added)
  <2>1. op.name \notin {"digest", "confirm_zone"}
    BY DEF Ordinary
  <2> QED
    BY <1>9, <2>1, UnfoldOrderly
<1> QED
  BY <1>8, <1>10, GoesOn DEF source

\* users.update_quiet_hours.
LEMMA QuietHoursOrderly ==
  ASSUME NEW op, Ordinary(op)
  PROVE  Orderly(op, {}, <<Req("settings", 0, "nokey")>>)
<1> DEFINE r == Req("settings", 0, "nokey")
<1>1. r \in Request
  BY ReqType
<1>2. Guarded(op, {}, r) /\ Climbs(op, {}, r)
  BY ReqFields DEF Guarded, Climbs, Ordinary
<1> HIDE DEF r
<1>3. Orderly(op, {}, <<r>>)
  BY <1>1, <1>2, OneOrderly DEF Due
<1> QED
  BY <1>3 DEF r

\* digests._deliver_user_digest: rows that are delivered, in any order.
LEMMA DigestOrderly ==
  ASSUME NEW op, op.name = "digest", NEW rows \in InAnyOrder("notification", Sent, "update")
  PROVE  Orderly(op, {}, Settings \o rows)
<1> DEFINE R == Reqs("notification", Sent, "update")
<1>1. Orderly(op, {}, Settings) /\ Elems(Settings) = {Setting}
  BY SettingsOrderly
<1>2. IsFiniteSet(Sent) /\ R \subseteq Request
  BY FS_Subset, ReqType DEF Reqs
<1>3. ASSUME NEW r \in R PROVE Guarded(op, {Setting}, r) /\ Rank(op, r) = 6
  <2>1. r.kind = "notification" /\ r.id \in Sent
    BY ReqFields DEF Reqs
  <2> QED
    BY <2>1 DEF Guarded, Rank, Setting
<1>4. Rank(op, Setting) = 1
  BY ReqFields DEF Rank, Setting
<1>5. AllDue(op, {Setting}, R)
  <2>1. \A r \in R, h \in {Setting} \cup R : Rank(op, r) = 6 /\ Rank(op, h) \in {1, 6}
    BY <1>3, <1>4
  <2>2. \A r \in R : Climbs(op, {Setting} \cup R, r)
    BY <2>1 DEF Climbs, Several
  <2> QED
    BY <1>2, <1>3, <2>2 DEF AllDue
<1>6. Orderly(op, {Setting}, rows)
  BY <1>2, <1>5, RowsOrderly
<1> QED
  BY <1>1, <1>6, GoesOn

\* A change of zone may ask for whatever is guarded by what it has.
LEMMA ZoneStatement ==
  ASSUME NEW op, op.name = "confirm_zone", NEW H, H \subseteq Request,
         NEW kind \in {"occurrence", "notification", "entry"},
         NEW ids, ids \subseteq Nat, IsFiniteSet(ids), NEW mode \in {"update", "nokey", "share"},
         \A r \in Reqs(kind, ids, mode) : Guarded(op, H, r),
         NEW s \in InAnyOrder(kind, ids, mode)
  PROVE  /\ Orderly(op, H, s) /\ Elems(s) = Reqs(kind, ids, mode)
         /\ Elems(s) \subseteq Request
<1> DEFINE R == Reqs(kind, ids, mode)
<1>1. R \subseteq Request
  BY ReqType DEF Reqs
<1>2. \A r \in R : r.kind \notin {"user", "settings", "action"}
  BY ReqFields DEF Reqs
<1>3. \A r \in R : Climbs(op, H \cup R, r)
  <2>1. H \cup R \subseteq Request
    BY <1>1
  <2> QED
    BY <1>2, <2>1, ZoneClimbs
<1>4. AllDue(op, H, R)
  BY <1>1, <1>3 DEF AllDue
<1>5. Orderly(op, H, s) /\ Elems(s) = R
  BY <1>4, RowsOrderly
<1> QED
  BY <1>1, <1>5

\* timezones._rebase_occurrences: the occurrences of the routine, and the pending
\* rows of each, which it guards.
LEMMA ZoneRebaseOrderly ==
  ASSUME NEW op, op.name = "confirm_zone", NEW H, H \subseteq Request, Setting \in H,
         NEW e \in Routines, NEW s \in Rebase(e)
  PROVE  Orderly(op, H, s) /\ Elems(s) \subseteq Request
<1> DEFINE O == OccsOf({e})
           P == PendingOf(O)
           A == Reqs("occurrence", O, "update")
           B == Reqs("notification", P, "update")
<1>1. PICK occs \in InAnyOrder("occurrence", O, "update"),
           rows \in InAnyOrder("notification", P, "update") : s = occs \o rows
  BY DEF Rebase
<1>2. O \subseteq Occ /\ P \subseteq Row \ Sent /\ \A n \in P : OccOf[n] \in O
  BY DEF OccsOf, PendingOf
<1>3. IsFiniteSet(O) /\ IsFiniteSet(P) /\ O \subseteq Nat /\ P \subseteq Nat
  <2>1. P \subseteq Row
    BY <1>2
  <2> QED
    BY <1>2, <2>1, FS_Subset
<1>4. ASSUME NEW r \in A PROVE Guarded(op, H, r)
  <2>1. r.kind = "occurrence"
    BY ReqFields DEF Reqs
  <2> QED
    BY <2>1 DEF Guarded, Setting
<1>5. ASSUME NEW r \in B PROVE Guarded(op, H \cup A, r)
  <2>1. PICK n \in P : r = Req("notification", n, "update")
    BY DEF Reqs
  <2>2. r.kind = "notification" /\ r.id = n
    BY <2>1, ReqFields
  <2>3. Req("occurrence", OccOf[n], "update") \in A
    BY <1>2 DEF Reqs
  <2> HIDE DEF A
  <2> QED
    BY <2>2, <2>3 DEF Guarded, Setting
<1> HIDE DEF O, P
<1>6. Orderly(op, H, occs) /\ Elems(occs) = A /\ Elems(occs) \subseteq Request
  BY <1>1, <1>3, <1>4, ZoneStatement
<1> HIDE DEF A
<1>7. H \cup A \subseteq Request
  BY <1>6
<1>8. Orderly(op, H \cup A, rows) /\ Elems(rows) \subseteq Request
  BY <1>1, <1>3, <1>5, <1>7, ZoneStatement
<1>9. Orderly(op, H \cup Elems(occs), rows)
  BY <1>6, <1>8
<1>10. Orderly(op, H, occs \o rows) /\ Elems(occs \o rows) = Elems(occs) \cup Elems(rows)
  BY <1>6, <1>9, BothOrderly
<1> QED
  BY <1>1, <1>6, <1>8, <1>10

\* A turn of the loop of timezones.confirm_timezone_change, with rows and entries
\* of the turns before in hand.
LEMMA TurnOrderly ==
  ASSUME NEW op, op.name = "confirm_zone", NEW H, H \subseteq Request, Setting \in H,
         NEW e \in Routines, NEW entries, entries \subseteq Entry,
         NEW s \in RebaseRoutine(e, entries)
  PROVE  Orderly(op, H, s)
<1> DEFINE r == Req("entry", e, "nokey")
           written == <<r>>
           R == Rebase(e)
           U == Unfold(entries)
           B == RebaseRoutine(e, entries)
<1>0. s \in B /\ B = {rebased \o written \o added : rebased \in R, added \in U}
  BY DEF RebaseRoutine
<1>1. r \in Request
  BY ReqType
<1>2. r.kind = "entry" /\ r.id = e /\ r.mode = "nokey"
  BY ReqFields
<1> HIDE DEF r, written, R, U, B
<1>3. PICK rebased \in R, added \in U : s = rebased \o written \o added
  BY <1>0
<1>4. Orderly(op, H, rebased) /\ Elems(rebased) \subseteq Request
  BY ZoneRebaseOrderly DEF R
<1> DEFINE T == H \cup Elems(rebased)
<1>5. T \subseteq Request /\ Setting \in T
  BY <1>4
<1>6. Orderly(op, T, written) /\ Elems(written) = {r}
  <2> HIDE DEF T
  <2>1. Guarded(op, T, r)
    BY <1>2, <1>5 DEF Guarded, Setting
  <2>2. Climbs(op, T, r)
    BY <1>2, <1>5, ZoneClimbs
  <2> QED
    BY <1>1, <2>1, <2>2, OneOrderly DEF Due, written
<1>7. /\ Orderly(op, H, rebased \o written)
      /\ Elems(rebased \o written) = Elems(rebased) \cup {r}
  <2>1. Orderly(op, H, rebased) /\ Orderly(op, H \cup Elems(rebased), written)
    BY <1>4, <1>6
  <2>2. /\ Orderly(op, H, rebased \o written)
        /\ Elems(rebased \o written) = Elems(rebased) \cup Elems(written)
    BY <2>1, BothOrderly
  <2> QED
    BY <1>6, <2>2
<1> DEFINE V == H \cup Elems(rebased \o written)
<1>8. V \subseteq Request /\ Setting \in V
  BY <1>1, <1>4, <1>7
<1>9. Orderly(op, V, added)
  <2> HIDE DEF V
  <2> QED
    BY <1>8, UnfoldOrderly DEF U
<1> QED
  BY <1>3, <1>7, <1>9, BothOrderly

\* timezones.confirm_timezone_change, up to its loop.
LEMMA ConfirmZoneOrderly ==
  ASSUME NEW op, op.name = "confirm_zone", NEW s \in ConfirmZone
  PROVE  Orderly(op, {}, s) /\ Setting \in Elems(s)
<1> DEFINE entries == IF Routines = {} THEN Unfolds ELSE {}
           U == Unfold(entries)
<1>1. ConfirmZone = {Settings \o added : added \in U}
  BY DEF ConfirmZone
<1>2. entries \subseteq Entry
  OBVIOUS
<1> HIDE DEF entries, U
<1>3. PICK added \in U : s = Settings \o added
  BY <1>1
<1>4. Orderly(op, {}, Settings) /\ Elems(Settings) = {Setting}
  BY SettingsOrderly
<1>5. {Setting} \subseteq Request /\ Setting \in {Setting}
  BY ReqType DEF Setting
<1>6. Orderly(op, {Setting}, added)
  BY <1>2, <1>5, UnfoldOrderly DEF U
<1>7. Orderly(op, {}, Settings \o added) /\ Elems(Settings \o added) = {Setting} \cup Elems(added)
  BY <1>4, <1>6, GoesOn
<1> QED
  BY <1>3, <1>7

-----------------------------------------------------------------------------
(* The operations that are not in order ask for requests, too. *)

LEMMA StatementIsRequests ==
  ASSUME NEW kind \in {"user", "settings", "context", "action", "occurrence", "notification",
                       "entry", "confirmation", "change"},
         NEW ids, ids \subseteq Nat, IsFiniteSet(ids), NEW mode \in {"update", "nokey", "share"},
         NEW s \in InAnyOrder(kind, ids, mode)
  PROVE  s \in Seq(Request)
<1>1. s \in Seq(Reqs(kind, ids, mode))
  BY RowsTaken
<1>2. Reqs(kind, ids, mode) \subseteq Request
  BY ReqType DEF Reqs
<1> QED
  BY <1>1, <1>2

LEMMA UnfoldIsRequests ==
  ASSUME NEW entries, entries \subseteq Entry, NEW s \in Unfold(entries)
  PROVE  s \in Seq(Request)
<1>1. entries \subseteq Nat /\ IsFiniteSet(entries)
  BY FS_Subset
<1>2. s \in InAnyOrder("entry", entries, "share")
  BY DEF Unfold, InOrder
<1> QED
  BY <1>1, <1>2, StatementIsRequests

LEMMA PlanIsRequests ==
  ASSUME NEW occs, NEW s \in Plan(occs)
  PROVE  s \in Seq(Request)
<1> DEFINE N == {n \in Planned : OccOf[n] \in occs}
           O == occs \cap Fresh
           M == InOrder("notification", N, "nokey")
           I == InOrder("occurrence", O, "share")
<1>0. Plan(occs) = {met \o inserted : met \in M, inserted \in I}
  BY DEF Plan
<1> HIDE DEF M, I
<1>1. PICK met \in M, inserted \in I : s = met \o inserted
  BY <1>0
<1>2. N \subseteq Row /\ O \subseteq Occ
  OBVIOUS
<1>3. IsFiniteSet(N) /\ IsFiniteSet(O) /\ N \subseteq Nat /\ O \subseteq Nat
  BY <1>2, FS_Subset
<1>4. met \in InAnyOrder("notification", N, "nokey")
        /\ inserted \in InAnyOrder("occurrence", O, "share")
  BY DEF InOrder, M, I
<1> HIDE DEF N, O
<1>5. met \in Seq(Request)
  BY <1>3, <1>4, StatementIsRequests
<1>6. inserted \in Seq(Request)
  BY <1>3, <1>4, StatementIsRequests
<1> QED
  BY <1>1, <1>5, <1>6, ConcatProperties

LEMMA RebaseIsRequests ==
  ASSUME NEW e, NEW s \in Rebase(e)
  PROVE  s \in Seq(Request)
<1> DEFINE O == OccsOf({e})
           P == PendingOf(O)
<1>1. PICK occs \in InAnyOrder("occurrence", O, "update"),
           rows \in InAnyOrder("notification", P, "update") : s = occs \o rows
  BY DEF Rebase
<1>2. O \subseteq Occ /\ P \subseteq Row
  BY DEF OccsOf, PendingOf
<1>3. IsFiniteSet(O) /\ IsFiniteSet(P) /\ O \subseteq Nat /\ P \subseteq Nat
  BY <1>2, FS_Subset
<1> HIDE DEF O, P
<1>4. occs \in Seq(Request)
  BY <1>1, <1>3, StatementIsRequests
<1>5. rows \in Seq(Request)
  BY <1>1, <1>3, StatementIsRequests
<1> QED
  BY <1>1, <1>4, <1>5, ConcatProperties

LEMMA RequestIsSequence ==
  ASSUME NEW r \in Request
  PROVE  <<r>> \in Seq(Request)
OBVIOUS

LEMMA SettingsIsRequests == Settings \in Seq(Request)
BY ReqType, RequestIsSequence DEF Settings

\* The hourly reconciliation.
LEMMA ReconcileIsRequests ==
  ASSUME NEW s \in Reconcile
  PROVE  s \in Seq(Request)
<1>1. PICK added \in Unfold(Unfolds), planned \in Plan(Occ) : s = Settings \o added \o planned
  BY DEF Reconcile
<1>2. added \in Seq(Request) /\ planned \in Seq(Request) /\ Settings \in Seq(Request)
  BY UnfoldIsRequests, PlanIsRequests, SettingsIsRequests
<1>3. Settings \o added \in Seq(Request)
  BY <1>2, ConcatProperties
<1> QED
  BY <1>1, <1>2, <1>3, ConcatProperties

\* planning.create_planned_entry.
LEMMA CreateIsRequests ==
  ASSUME NEW e \in Entry, NEW s \in Create(e)
  PROVE  s \in Seq(Request)
<1> DEFINE again == <<Req("confirmation", e, "update")>>
           A == Unfold(Unfolds \cap {e})
           P == Plan(OccsOf({e}))
<1>0. Create(e) = {Settings \o again \o added \o planned : added \in A, planned \in P}
  BY DEF Create
<1> HIDE DEF A, P, again
<1>1. PICK added \in A, planned \in P : s = Settings \o again \o added \o planned
  BY <1>0
<1>2. added \in Seq(Request) /\ planned \in Seq(Request) /\ Settings \in Seq(Request)
  <2>1. Unfolds \cap {e} \subseteq Entry
    OBVIOUS
  <2> QED
    BY <2>1, UnfoldIsRequests, PlanIsRequests, SettingsIsRequests DEF A, P
<1>3. again \in Seq(Request)
  <2>1. Req("confirmation", e, "update") \in Request
    BY ReqType
  <2> QED
    BY <2>1, RequestIsSequence DEF again
<1>4. Settings \o again \in Seq(Request)
  BY <1>2, <1>3, ConcatProperties
<1>5. Settings \o again \o added \in Seq(Request)
  BY <1>2, <1>4, ConcatProperties
<1> QED
  BY <1>1, <1>2, <1>5, ConcatProperties

\* timezones.review_timezone_entry.
LEMMA ReviewIsRequests ==
  ASSUME NEW e \in Entry, NEW s \in Review(e)
  PROVE  s \in Seq(Request)
<1> DEFINE first == <<Req("change", 0, "update"), Req("entry", e, "update")>>
           R == Rebase(e)
<1>0. Review(e) = {first \o rebased \o Settings \o added : rebased \in R, added \in Unfold(Unfolds)}
  BY DEF Review
<1> HIDE DEF R, first
<1>1. PICK rebased \in R, added \in Unfold(Unfolds) :
        s = first \o rebased \o Settings \o added
  BY <1>0
<1>2. rebased \in Seq(Request) /\ added \in Seq(Request) /\ Settings \in Seq(Request)
  BY UnfoldIsRequests, RebaseIsRequests, SettingsIsRequests DEF R
<1>3. first \in Seq(Request)
  <2>1. Req("change", 0, "update") \in Request /\ Req("entry", e, "update") \in Request
    BY ReqType
  <2> QED
    BY <2>1 DEF first
<1>4. first \o rebased \in Seq(Request)
  BY <1>2, <1>3, ConcatProperties
<1>5. first \o rebased \o Settings \in Seq(Request)
  BY <1>2, <1>4, ConcatProperties
<1> QED
  BY <1>1, <1>2, <1>5, ConcatProperties

-----------------------------------------------------------------------------
(* What an operation may ask for when it starts. *)

\* It asks for requests, and in order unless it is one of the exceptions.
StartsWell(op) ==
  \A s \in Sequences(op) : s \in Seq(Request) /\ (~ Culprit(op) => Orderly(op, {}, s))

LEMMA OrderlyStart ==
  ASSUME NEW op, \A s \in Sequences(op) : Orderly(op, {}, s)
  PROVE  StartsWell(op)
BY DEF StartsWell, Orderly

LEMMA WorkersStart ==
  ASSUME NEW op \in Operations, op.name \in {"claim", "finalize_failed", "finalize_sent"}
  PROVE  StartsWell(op)
<1>1. op.id \in Row /\ Ordinary(op)
  BY DEF Operations, Ordinary
<1>2. ASSUME op.name = "claim", NEW s \in Sequences(op) PROVE Orderly(op, {}, s)
  <2>1. Sequences(op) = Claim(op.id)
    BY <1>2 DEF Sequences
  <2> QED
    BY <1>1, <1>2, <2>1, WorkerOrderly DEF Claim
<1>3. ASSUME op.name = "finalize_failed", NEW s \in Sequences(op) PROVE Orderly(op, {}, s)
  <2>1. Sequences(op) = FinalizeFailed(op.id)
    BY <1>3 DEF Sequences
  <2> QED
    BY <1>1, <1>3, <2>1, WorkerOrderly DEF FinalizeFailed, ActiveContext
<1>4. ASSUME op.name = "finalize_sent", NEW s \in Sequences(op) PROVE Orderly(op, {}, s)
  <2>1. Sequences(op) = FinalizeSent(op.id)
    BY <1>4 DEF Sequences
  <2> QED
    BY <1>1, <1>4, <2>1, FinalizeSentOrderly DEF FinalizeSent
<1> QED
  BY <1>2, <1>3, <1>4, OrderlyStart

LEMMA ReactionsStart ==
  ASSUME NEW op \in Operations, op.name \in {"acknowledge", "message", "notification", "skip"}
  PROVE  StartsWell(op)
<1>0. Ordinary(op)
  BY DEF Ordinary
<1>1. ASSUME op.name = "acknowledge", NEW s \in Sequences(op) PROVE Orderly(op, {}, s)
  <2>1. Sequences(op) = Acknowledge(op.id) /\ op.id \in Occ
    BY <1>1 DEF Sequences, Operations
  <2> QED
    BY <1>0, <1>1, <2>1, WithdrawOrderly DEF Acknowledge
<1>2. ASSUME op.name = "message", NEW s \in Sequences(op) PROVE Orderly(op, {}, s)
  <2>1. Sequences(op) = ReactToMessage(op.id) /\ op.id \in Occ
    BY <1>2 DEF Sequences, Operations
  <2> QED
    BY <1>0, <1>2, <2>1, MessageOrderly DEF ReactToMessage
<1>3. ASSUME op.name = "notification", NEW s \in Sequences(op) PROVE Orderly(op, {}, s)
  <2>1. Sequences(op) = ReactToNotification(op.id) /\ op.id \in Row
    BY <1>3 DEF Sequences, Operations
  <2> QED
    BY <1>0, <1>3, <2>1, ReactionOrderly DEF ReactToNotification
<1>4. ASSUME op.name = "skip", NEW s \in Sequences(op) PROVE Orderly(op, {}, s)
  <2>1. Sequences(op) = SkipOccurrence(op.id) /\ op.id \in Occ
    BY <1>4 DEF Sequences, Operations, OccsOf
  <2> QED
    BY <1>0, <1>4, <2>1, WithdrawOrderly DEF SkipOccurrence
<1> QED
  BY <1>1, <1>2, <1>3, <1>4, OrderlyStart

LEMMA ButtonsStart ==
  ASSUME NEW op \in Operations, op.name \in {"button", "move"}
  PROVE  StartsWell(op)
<1> DEFINE n == op.id
           e == EntryOf[OccOf[n]]
<1>1. n \in Row /\ e \in Entry /\ Ordinary(op)
  BY DEF Operations, Ordinary
<1>2. ASSUME NEW s \in Button(n, FALSE) PROVE Orderly(op, {}, s)
  <2> DEFINE B == Button(n, FALSE)
             C == InAnyOrder("notification", PendingOf({OccOf[n]}), "nokey")
             entries == IF FALSE THEN {e} ELSE {}
             A == Unfold(entries)
             written == IF FALSE /\ e \notin Routines THEN <<Req("entry", e, "nokey")>> ELSE <<>>
  <2>0. s \in B
    BY <1>2
  <2>1. B =
          {LockSource(n) \o cancelled \o written \o added : cancelled \in C, added \in A}
    BY DEF Button
  <2>2. written = <<>> \/ \E f \in Entry \ Routines : written = <<Req("entry", f, "nokey")>>
    BY <1>1
  <2>3. entries \subseteq Entry
    BY <1>1
  <2> HIDE DEF B, C, A, entries, written, e, n
  <2>4. PICK cancelled \in C, added \in A :
          s = LockSource(n) \o cancelled \o written \o added
    BY <2>0, <2>1
  <2> QED
    BY <1>1, <2>2, <2>3, <2>4, ButtonOrderly DEF C, A
<1>3. ASSUME NEW s \in Button(n, TRUE) PROVE Orderly(op, {}, s)
  <2> DEFINE B == Button(n, TRUE)
             C == InAnyOrder("notification", PendingOf({OccOf[n]}), "nokey")
             entries == IF TRUE THEN {e} ELSE {}
             A == Unfold(entries)
             written == IF TRUE /\ e \notin Routines THEN <<Req("entry", e, "nokey")>> ELSE <<>>
  <2>0. s \in B
    BY <1>3
  <2>1. B =
          {LockSource(n) \o cancelled \o written \o added : cancelled \in C, added \in A}
    BY DEF Button
  <2>2. written = <<>> \/ \E f \in Entry \ Routines : written = <<Req("entry", f, "nokey")>>
    BY <1>1
  <2>3. entries \subseteq Entry
    BY <1>1
  <2> HIDE DEF B, C, A, entries, written, e, n
  <2>4. PICK cancelled \in C, added \in A :
          s = LockSource(n) \o cancelled \o written \o added
    BY <2>0, <2>1
  <2> QED
    BY <1>1, <2>2, <2>3, <2>4, ButtonOrderly DEF C, A
<1>4. Sequences(op) \in {Button(n, FALSE), Button(n, TRUE)}
  BY DEF Sequences
<1>5. \A s \in Sequences(op) : Orderly(op, {}, s)
  BY <1>2, <1>3, <1>4
<1> QED
  BY <1>5, OrderlyStart

LEMMA SettingsStart ==
  ASSUME NEW op \in Operations, op.name \in {"quiet_hours", "digest", "confirm_zone"}
  PROVE  StartsWell(op)
<1>1. ASSUME op.name = "quiet_hours", NEW s \in Sequences(op) PROVE Orderly(op, {}, s)
  <2>1. Sequences(op) = UpdateQuietHours
    BY <1>1 DEF Sequences
  <2>2. s = <<Req("settings", 0, "nokey")>> /\ Ordinary(op)
    BY <1>1, <2>1 DEF UpdateQuietHours, Ordinary
  <2> QED
    BY <2>2, QuietHoursOrderly
<1>2. ASSUME op.name = "digest", NEW s \in Sequences(op) PROVE Orderly(op, {}, s)
  <2>1. Sequences(op) = Digest
    BY <1>2 DEF Sequences
  <2> QED
    BY <1>2, <2>1, DigestOrderly DEF Digest
<1>3. ASSUME op.name = "confirm_zone", NEW s \in Sequences(op) PROVE Orderly(op, {}, s)
  <2>1. Sequences(op) = ConfirmZone
    BY <1>3 DEF Sequences
  <2> QED
    BY <1>3, <2>1, ConfirmZoneOrderly
<1> QED
  BY <1>1, <1>2, <1>3, OrderlyStart

LEMMA CulpritsStart ==
  ASSUME NEW op \in Operations, Culprit(op)
  PROVE  StartsWell(op)
<1>1. ASSUME op.name = "reconcile", NEW s \in Sequences(op) PROVE s \in Seq(Request)
  <2>1. Sequences(op) = Reconcile
    BY <1>1 DEF Sequences
  <2> QED
    BY <1>1, <2>1, ReconcileIsRequests
<1>2. ASSUME op.name = "create", NEW s \in Sequences(op) PROVE s \in Seq(Request)
  <2>1. Sequences(op) = Create(op.id) /\ op.id \in Entry
    BY <1>2 DEF Sequences, Operations
  <2> QED
    BY <1>2, <2>1, CreateIsRequests
<1>3. ASSUME op.name = "review", NEW s \in Sequences(op) PROVE s \in Seq(Request)
  <2>1. Sequences(op) = Review(op.id) /\ op.id \in Entry
    BY <1>3 DEF Sequences, Operations
  <2> QED
    BY <1>3, <2>1, ReviewIsRequests
<1> QED
  BY <1>1, <1>2, <1>3 DEF StartsWell, Culprit, OutOfOrder

\* Every operation starts well.
LEMMA AllStart == \A op \in Operations : StartsWell(op)
<1> TAKE op \in Operations
<1>1. \/ op.name \in {"claim", "finalize_failed", "finalize_sent"}
      \/ op.name \in {"acknowledge", "message", "notification", "skip"}
      \/ op.name \in {"button", "move"} \/ op.name \in {"quiet_hours", "digest", "confirm_zone"}
      \/ op.name \in {"reconcile", "create", "review"}
  BY DEF Operations
<1> QED
  BY <1>1, WorkersStart, ReactionsStart, ButtonsStart, SettingsStart, CulpritsStart
     DEF Culprit, OutOfOrder

\* A change of zone asks for user_settings before its loop.
LEMMA ZoneStarts ==
  ASSUME NEW op, op.name = "confirm_zone", NEW s \in Sequences(op)
  PROVE  Setting \in Elems(s)
<1>1. Sequences(op) = ConfirmZone
  BY DEF Sequences
<1> QED
  BY <1>1, ConfirmZoneOrderly

-----------------------------------------------------------------------------
(* The invariant. *)

\* The first of an orderly sequence is due, and what follows it is orderly
\* once it has been got.
LEMMA FirstThenRest ==
  ASSUME NEW op, NEW H, NEW s, Orderly(op, H, s), s # <<>>
  PROVE  /\ Head(s) \in Request /\ Tail(s) \in Seq(Request)
         /\ Due(op, H, Head(s)) /\ Orderly(op, H \cup {Head(s)}, Tail(s))
<1> DEFINE t == Tail(s)
<1>1. s \in Seq(Request)
  BY DEF Orderly
<1>2. /\ Head(s) \in Request /\ t \in Seq(Request) /\ Len(t) = Len(s) - 1
      /\ \A i \in 1 .. Len(t) : t[i] = s[i + 1]
  BY <1>1, HeadTailProperties
<1>3. Len(s) \in Nat /\ 1 \in 1 .. Len(s) /\ Head(s) = s[1]
  BY <1>1
<1> HIDE DEF t
<1>4. Due(op, H, Head(s))
  <2>1. H \cup {s[i] : i \in 1 .. 1 - 1} = H
    OBVIOUS
  <2> QED
    BY <1>3, <2>1 DEF Orderly
<1>5. ASSUME NEW j \in 1 .. Len(t)
      PROVE  Due(op, (H \cup {Head(s)}) \cup {t[i] : i \in 1 .. j - 1}, t[j])
  <2>1. j + 1 \in 1 .. Len(s) /\ (j + 1) - 1 = j /\ t[j] = s[j + 1]
    BY <1>2, <1>3, <1>5
  <2>2. Due(op, H \cup {s[i] : i \in 1 .. j}, s[j + 1])
    BY <2>1 DEF Orderly
  <2>3. {s[i] : i \in 1 .. j} = {s[1]} \cup {t[i] : i \in 1 .. j - 1}
    <3>1. \A i \in 1 .. j - 1 : i \in 1 .. Len(t) /\ i + 1 \in 1 .. j /\ t[i] = s[i + 1]
      BY <1>2, <1>3, <1>5
    <3>2. \A i \in 1 .. j : i = 1 \/ (i - 1 \in 1 .. j - 1 /\ s[i] = t[i - 1])
      <4> TAKE i \in 1 .. j
      <4>1. i = 1 \/ (i - 1 \in 1 .. j - 1 /\ (i - 1) + 1 = i)
        BY <1>5
      <4> QED
        BY <3>1, <4>1
    <3>3. 1 \in 1 .. j
      BY <1>2, <1>3, <1>5
    <3>4. ASSUME NEW x \in {s[i] : i \in 1 .. j} PROVE x \in {s[1]} \cup {t[i] : i \in 1 .. j - 1}
      <4>1. PICK i \in 1 .. j : x = s[i]
        BY <3>4
      <4>2. CASE i = 1
        BY <4>1, <4>2
      <4>3. CASE i - 1 \in 1 .. j - 1 /\ s[i] = t[i - 1]
        BY <4>1, <4>3
      <4> QED
        BY <3>2, <4>2, <4>3
    <3>5. \A x \in {t[i] : i \in 1 .. j - 1} : x \in {s[i] : i \in 1 .. j}
      BY <3>1
    <3> QED
      BY <3>3, <3>4, <3>5
  <2>4. H \cup {s[i] : i \in 1 .. j} = (H \cup {Head(s)}) \cup {t[i] : i \in 1 .. j - 1}
    BY <1>3, <2>3
  <2> QED
    BY <2>1, <2>2, <2>4
<1>6. Orderly(op, H \cup {Head(s)}, t)
  BY <1>2, <1>5 DEF Orderly
<1> QED
  BY <1>2, <1>4, <1>6 DEF t

\* What is had and what is still asked for, when the first of it has been got.
LEMMA GotOrAsked ==
  ASSUME NEW H, NEW s \in Seq(Request), s # <<>>
  PROVE  H \cup Elems(s) \subseteq (H \cup {Head(s)}) \cup Elems(Tail(s))
<1> DEFINE t == Tail(s)
<1>1. /\ Len(t) = Len(s) - 1 /\ \A i \in 1 .. Len(t) : t[i] = s[i + 1]
  BY HeadTailProperties
<1>2. Len(s) \in Nat /\ Head(s) = s[1]
  OBVIOUS
<1> HIDE DEF t
<1>3. ASSUME NEW x \in Elems(s) PROVE x = Head(s) \/ x \in Elems(t)
  <2>1. PICK i \in 1 .. Len(s) : x = s[i]
    BY <1>3 DEF Elems
  <2>2. CASE i = 1
    BY <1>2, <2>1, <2>2
  <2>3. CASE i # 1
    <3>1. i - 1 \in 1 .. Len(t) /\ (i - 1) + 1 = i
      BY <1>1, <1>2, <2>1, <2>3
    <3>2. x = t[i - 1]
      BY <1>1, <2>1, <3>1
    <3> QED
      BY <3>1, <3>2 DEF Elems
  <2> QED
    BY <2>2, <2>3
<1> QED
  BY <1>3 DEF t

LEMMA InitInvariant == Init => IInv
<1> SUFFICES ASSUME Init PROVE IInv
  OBVIOUS
<1>1. ASSUME NEW p \in Process
      PROVE  \E op \in Operations : \E s \in Sequences(op) :
                run[p] = [op |-> op, todo |-> s, held |-> {}, left |-> LeftOf(op)]
  <2>1. PICK op \in Operations : run[p] \in Started(op)
    BY DEF Init
  <2> QED
    BY <2>1 DEF Started, LeftOf
<1>2. ASSUME NEW p \in Process
      PROVE  /\ run[p] \in Transaction
             /\ run[p].held = {} /\ Disciplined(p) /\ Looping(p)
  <2>0. PICK op \in Operations : \E s \in Sequences(op) :
          run[p] = [op |-> op, todo |-> s, held |-> {}, left |-> LeftOf(op)]
    BY <1>1
  <2>1. PICK s \in Sequences(op) :
          run[p] = [op |-> op, todo |-> s, held |-> {}, left |-> LeftOf(op)]
    BY <2>0
  <2>2. s \in Seq(Request) /\ (~ Culprit(op) => Orderly(op, {}, s))
    BY <2>1, AllStart DEF StartsWell
  <2>3. run[p].op = op /\ run[p].todo = s /\ run[p].held = {} /\ run[p].left = LeftOf(op)
    BY <2>1
  <2>4. LeftOf(op) \subseteq Routines /\ (LeftOf(op) # {} => op.name = "confirm_zone")
    BY DEF LeftOf
  <2>5. run[p] \in Transaction
    BY <2>1, <2>2, <2>4 DEF Transaction
  <2>6. Looping(p)
    <3>1. op.name = "confirm_zone" => Setting \in Elems(s)
      BY ZoneStarts
    <3> QED
      BY <2>3, <2>4, <3>1 DEF Looping
  <2> QED
    BY <2>2, <2>3, <2>5, <2>6 DEF Disciplined
<1>3. TypeOK
  <2>1. run = [p \in Process |-> run[p]]
    BY DEF Init
  <2> QED
    BY <1>2, <2>1 DEF TypeOK, Transaction
<1>4. Compatible
  BY <1>2 DEF Compatible
<1> QED
  BY <1>2, <1>3, <1>4 DEF IInv

\* What conflicts, conflicts both ways.
LEMMA ConflictingBothWays ==
  ASSUME NEW a, NEW b, Conflicting(a, b)
  PROVE  Conflicting(b, a)
BY DEF Conflicting

\* Getting a lock that nobody stands in the way of.
LEMMA AcquireKeeps ==
  ASSUME IInv, NEW p \in Process, Acquire(p)
  PROVE  IInv'
<1> DEFINE r == Head(run[p].todo)
<1>1. run[p].todo \in Seq(Request) /\ run[p].todo # <<>> /\ run[p].held \subseteq Request
  BY DEF IInv, TypeOK, Transaction, Acquire, Wanted
<1>2. r \in Request /\ Tail(run[p].todo) \in Seq(Request)
  BY <1>1, HeadTailProperties
<1>3. /\ run'[p].op = run[p].op /\ run'[p].todo = Tail(run[p].todo)
      /\ run'[p].held = run[p].held \cup {r} /\ run'[p].left = run[p].left
      /\ \A q \in Process : q # p => run'[q] = run[q]
  BY DEF Acquire, IInv, TypeOK, Transaction
<1>4. TypeOK'
  <2>1. run'[p] \in Transaction
    <3>1. run'[p] = [run[p] EXCEPT !.todo = Tail(@), !.held = @ \cup {r}]
      BY DEF Acquire, IInv, TypeOK, Transaction
    <3>2. run[p] \in Transaction
      BY DEF IInv, TypeOK, Transaction
    <3> HIDE DEF r
    <3> QED
      BY <1>2, <3>1, <3>2 DEF Transaction
  <2>2. run' = [run EXCEPT ![p] = run'[p]]
    BY DEF Acquire, IInv, TypeOK, Transaction
  <2> QED
    BY <2>1, <2>2 DEF IInv, TypeOK, Transaction
<1>5. \A q \in Process : q # p => \A h \in run[q].held : ~ Conflicting(r, h)
  BY DEF Acquire, Blocks
<1> HIDE DEF r
<1>6. Compatible'
  <2> SUFFICES ASSUME NEW a \in Process, NEW b \in Process, a # b,
                      NEW g \in run'[a].held, NEW h \in run'[b].held
               PROVE  ~ Conflicting(g, h)
    BY DEF Compatible
  <2>0. Compatible
    BY DEF IInv
  <2>1. CASE g \in run[a].held /\ h \in run[b].held
    BY <2>0, <2>1 DEF Compatible
  <2>2. CASE a = p /\ g = r
    BY <1>3, <1>5, <2>2
  <2>3. CASE b = p /\ h = r
    BY <1>3, <1>5, <2>3, ConflictingBothWays
  <2> QED
    BY <1>3, <2>1, <2>2, <2>3
<1>7. ASSUME NEW q \in Process PROVE Disciplined(q)'
  <2>1. Disciplined(q)
    BY DEF IInv
  <2>2. CASE q # p
    BY <1>3, <2>1, <2>2 DEF Disciplined
  <2>3. CASE q = p
    <3> DEFINE op == run[p].op
               H == run[p].held
    <3>1. SUFFICES ASSUME ~ Culprit(op)
                   PROVE  /\ Orderly(op, H \cup {r}, Tail(run[p].todo))
                          /\ \A h \in H \cup {r} : Guarded(op, H \cup {r}, h)
      BY <1>3, <2>3 DEF Disciplined
    <3>2. Orderly(op, H, run[p].todo) /\ \A h \in H : Guarded(op, H, h)
      BY <2>1, <2>3, <3>1 DEF Disciplined
    <3> HIDE DEF op, H
    <3>3. Due(op, H, r) /\ Orderly(op, H \cup {r}, Tail(run[p].todo))
      BY <1>1, <3>2, FirstThenRest DEF r
    <3>4. \A h \in H \cup {r} : Guarded(op, H, h)
      BY <3>2, <3>3 DEF Due
    <3>5. \A h \in H \cup {r} : Guarded(op, H \cup {r}, h)
      BY <3>4, GuardStays
    <3> QED
      BY <3>3, <3>5
  <2> QED
    BY <2>2, <2>3
<1>8. ASSUME NEW q \in Process PROVE Looping(q)'
  <2>1. Looping(q)
    BY DEF IInv
  <2>2. CASE q # p
    BY <1>3, <2>1, <2>2 DEF Looping
  <2>3. CASE q = p
    <3>1. run[p].held \cup Elems(run[p].todo) \subseteq run'[p].held \cup Elems(run'[p].todo)
      BY <1>1, <1>3, GotOrAsked DEF r
    <3> QED
      BY <1>3, <2>1, <2>3, <3>1 DEF Looping
  <2> QED
    BY <2>2, <2>3
<1> QED
  BY <1>4, <1>6, <1>7, <1>8 DEF IInv

\* The next turn of a change of zone, which has got user_settings.
LEMMA NextRoutineKeeps ==
  ASSUME IInv, NEW p \in Process, NextRoutine(p)
  PROVE  IInv'
<1> DEFINE H == run[p].held
           entries(e) == IF run[p].left = {e} THEN Unfolds ELSE {}
<1>1. PICK e \in run[p].left :
        \E s \in RebaseRoutine(e, entries(e)) :
          run' = [run EXCEPT ![p].todo = s, ![p].left = @ \ {e}]
  BY DEF NextRoutine
<1>2. PICK s \in RebaseRoutine(e, entries(e)) :
        run' = [run EXCEPT ![p].todo = s, ![p].left = @ \ {e}]
  BY <1>1
<1>3. /\ run'[p].op = run[p].op /\ run'[p].todo = s /\ run'[p].held = H
      /\ run'[p].left = run[p].left \ {e}
      /\ \A q \in Process : q # p => run'[q] = run[q]
  BY <1>2 DEF IInv, TypeOK, Transaction
<1>4. run[p] \in Transaction /\ e \in Routines
  BY DEF IInv, TypeOK, Transaction
<1>5. run[p].op.name = "confirm_zone" /\ Setting \in H /\ H \subseteq Request
  <2>1. run[p].op.name = "confirm_zone" /\ Setting \in H \cup Elems(run[p].todo)
    BY DEF IInv, Looping
  <2>2. Elems(run[p].todo) = {}
    BY NoneOrderly DEF NextRoutine, Wanted
  <2> QED
    BY <1>4, <2>1, <2>2 DEF Transaction
<1>6. Orderly(run[p].op, H, s)
  <2>1. entries(e) \subseteq Entry
    OBVIOUS
  <2> HIDE DEF H, entries
  <2> QED
    BY <1>2, <1>4, <1>5, <2>1, TurnOrderly
<1>7. TypeOK'
  <2>1. s \in Seq(Request)
    BY <1>6 DEF Orderly
  <2>2. run'[p] = [run[p] EXCEPT !.todo = s, !.left = @ \ {e}]
    BY <1>2 DEF IInv, TypeOK, Transaction
  <2>3. run'[p] \in Transaction
    BY <1>4, <2>1, <2>2 DEF Transaction
  <2>4. run' = [run EXCEPT ![p] = run'[p]]
    BY <1>2 DEF IInv, TypeOK, Transaction
  <2> QED
    BY <2>3, <2>4 DEF IInv, TypeOK, Transaction
<1>8. Compatible'
  <2>1. \A q \in Process : run'[q].held = run[q].held
    BY <1>3
  <2> QED
    BY <2>1 DEF IInv, Compatible
<1>9. ASSUME NEW q \in Process PROVE Disciplined(q)' /\ Looping(q)'
  <2>1. Disciplined(q) /\ Looping(q)
    BY DEF IInv
  <2>2. CASE q # p
    BY <1>3, <2>1, <2>2 DEF Disciplined, Looping
  <2>3. CASE q = p
    <3>1. ~ Culprit(run[p].op)
      BY <1>5 DEF Culprit, OutOfOrder
    <3>2. \A h \in H : Guarded(run[p].op, H, h)
      BY <2>1, <2>3, <3>1 DEF Disciplined
    <3>3. Disciplined(p)'
      BY <1>3, <1>6, <3>2 DEF Disciplined
    <3>4. Looping(p)'
      BY <1>3, <1>5 DEF Looping
    <3> QED
      BY <2>3, <3>3, <3>4
  <2> QED
    BY <2>2, <2>3
<1> QED
  BY <1>7, <1>8, <1>9 DEF IInv

\* The end of a transaction, of its own or as the victim of a deadlock.
LEMMA EndKeeps ==
  ASSUME IInv, NEW p \in Process, run' = [run EXCEPT ![p] = Ended]
  PROVE  IInv'
<1>1. /\ run'[p] = Ended /\ \A q \in Process : q # p => run'[q] = run[q]
  BY DEF IInv, TypeOK, Transaction
<1>2. Ended.op.name = "ended" /\ Ended.todo = <<>> /\ Ended.held = {} /\ Ended.left = {}
  BY DEF Ended, Op
<1>3. TypeOK'
  BY DEF IInv, TypeOK, Transaction, Ended
<1>4. Compatible'
  BY <1>1, <1>2 DEF IInv, Compatible
<1>5. ASSUME NEW q \in Process PROVE Disciplined(q)' /\ Looping(q)'
  <2>1. CASE q # p
    BY <1>1, <2>1 DEF IInv, Disciplined, Looping
  <2>2. CASE q = p
    <3>1. Orderly(run'[p].op, {}, <<>>)
      BY NoneOrderly
    <3> QED
      BY <1>1, <1>2, <2>2, <3>1 DEF Disciplined, Looping
  <2> QED
    BY <2>1, <2>2
<1> QED
  BY <1>3, <1>4, <1>5 DEF IInv

LEMMA NextKeeps == IInv /\ [Next]_run => IInv'
<1> SUFFICES ASSUME IInv, [Next]_run PROVE IInv'
  OBVIOUS
<1>1. CASE UNCHANGED run
  BY <1>1 DEF IInv, TypeOK, Transaction, Compatible, Disciplined, Looping
<1>2. ASSUME NEW p \in Process, Acquire(p) PROVE IInv'
  BY <1>2, AcquireKeeps
<1>3. ASSUME NEW p \in Process, NextRoutine(p) PROVE IInv'
  BY <1>3, NextRoutineKeeps
<1>4. ASSUME NEW p \in Process, Commit(p) \/ Victim(p) PROVE IInv'
  BY <1>4, EndKeeps DEF Commit, Victim
<1> QED
  BY <1>1, <1>2, <1>3, <1>4 DEF Next

\* The operations in order keep to it: they hold no locks that exclude each
\* other, and what each goes on to ask for is due.
THEOREM Discipline == Spec => []IInv
BY InitInvariant, NextKeeps, PTL DEF Spec

\* Every open transaction is at one of the sequences of an operation.
THEOREM LocksTypeCorrect == Spec => []TypeOK
<1>1. IInv => TypeOK
  BY DEF IInv
<1> QED
  BY <1>1, Discipline, PTL

-----------------------------------------------------------------------------
(* Deadlock. *)

\* p asks for r, and q, which has h, is in its way and waits itself, for w.  Then
\* q waits at a higher rank: either r stands below h, or what guards r and h
\* would be held twice.
LEMMA WaitsClimb ==
  ASSUME NEW a, NEW b, NEW G, NEW H,
         NEW r \in Request, NEW h \in H, h \in Request, NEW w \in Request,
         Guarded(a, G, r), Guarded(b, H, h), Climbs(b, H, w), Conflicting(r, h),
         \A x \in G, y \in H : ~ Conflicting(x, y)
  PROVE  Rank(a, r) < Rank(b, w)
<1>1. r.kind = h.kind /\ r.id = h.id
  BY DEF Conflicting
<1>2. ASSUME NEW kind, NEW id, Req(kind, id, "update") \in G, Req(kind, id, "update") \in H
      PROVE  FALSE
  BY <1>2, ReqFields DEF Conflicting
<1>3. Rank(b, h) < Rank(b, w) \/ (Rank(b, h) = Rank(b, w) /\ Rank(b, w) \in {4, 6, 7})
  BY DEF Climbs, Several
<1>4. Rank(b, w) \in 0 .. 7
  BY RankRange
<1>5. CASE r.kind \in {"user", "settings", "action"}
  <2>1. Rank(a, r) = Rank(b, h) /\ Rank(a, r) \in {0, 1, 2}
    BY <1>1, <1>5 DEF Rank
  <2> QED
    BY <1>3, <1>4, <2>1
<1>6. CASE r.kind = "occurrence"
  <2>1. Rank(a, r) = IF a.name = "confirm_zone" THEN 4 ELSE 3
    BY <1>6 DEF Rank
  <2>2. Rank(b, h) = IF b.name = "confirm_zone" THEN 4 ELSE 3
    BY <1>1, <1>6 DEF Rank
  <2>3. CASE a.name = "confirm_zone" /\ b.name = "confirm_zone"
    BY <1>1, <1>2, <1>6, <2>3 DEF Guarded
  <2>4. CASE a.name # "confirm_zone" /\ b.name # "confirm_zone"
    BY <1>1, <1>2, <1>6, <2>4 DEF Guarded
  <2>5. CASE a.name = "confirm_zone" /\ b.name # "confirm_zone"
    <3>1. Rank(b, w) # 4
      BY <2>5 DEF Rank
    <3> QED
      BY <1>3, <1>4, <2>1, <2>2, <2>5, <3>1
  <2>6. CASE a.name # "confirm_zone" /\ b.name = "confirm_zone"
    BY <1>3, <1>4, <2>1, <2>2, <2>6
  <2> QED
    BY <2>3, <2>4, <2>5, <2>6
<1>7. CASE r.kind = "notification" /\ r.id \notin Sent
  BY <1>1, <1>2, <1>7 DEF Guarded
<1>8. CASE r.kind = "notification" /\ r.id \in Sent
  <2>0. CASE a.name = "digest" /\ b.name = "confirm_zone"
    BY <1>1, <1>2, <1>8, <2>0 DEF Guarded
  <2>1. Rank(a, r) = IF a.name = "digest" THEN 6
                     ELSE IF a.name = "confirm_zone" THEN 4 ELSE 5
    BY <1>8 DEF Rank
  <2>2. Rank(b, h) = IF b.name = "digest" THEN 6
                     ELSE IF b.name = "confirm_zone" THEN 4 ELSE 5
    BY <1>1, <1>8 DEF Rank
  <2>3. CASE a.name = "digest" /\ b.name = "digest"
    BY <1>1, <1>2, <1>8, <2>3 DEF Guarded
  <2>4. CASE a.name # "digest" /\ b.name # "digest"
    BY <1>1, <1>2, <1>8, <2>4 DEF Guarded
  <2>5. CASE a.name = "digest" /\ b.name \notin {"digest", "confirm_zone"}
    <3>1. Rank(b, w) # 6
      BY <2>5 DEF Rank
    <3> QED
      BY <1>3, <1>4, <2>1, <2>2, <2>5, <3>1
  <2>6. CASE a.name # "digest" /\ b.name = "digest"
    BY <1>3, <1>4, <2>1, <2>2, <2>6
  <2> QED
    BY <2>0, <2>3, <2>4, <2>5, <2>6
<1>9. CASE r.kind = "context"
  BY <1>1, <1>2, <1>9 DEF Guarded
<1>10. CASE r.kind = "entry"
  <2>1. CASE a.name = "confirm_zone" /\ b.name = "confirm_zone"
    BY <1>1, <1>2, <1>10, <2>1 DEF Guarded
  <2>2. CASE a.name # "confirm_zone" /\ b.name # "confirm_zone"
    BY <1>1, <1>2, <1>10, <2>2 DEF Guarded
  <2>3. CASE ~ (a.name = "confirm_zone" <=> b.name = "confirm_zone")
    <3>1. r.mode = "nokey" /\ h.mode = "nokey"
      BY <1>1, <1>10 DEF Guarded, Conflicting
    <3> QED
      BY <1>1, <1>10, <2>3, <3>1 DEF Guarded
  <2> QED
    BY <2>1, <2>2, <2>3
<1> QED
  BY <1>5, <1>6, <1>7, <1>8, <1>9, <1>10 DEF Guarded, Request

\* Nobody can wait for somebody higher for ever.
LEMMA NoEndlessClimb ==
  ASSUME NEW S, S # {}, NEW f, \A p \in S : f[p] \in 0 .. 7,
         \A p \in S : \E q \in S : f[p] < f[q]
  PROVE  FALSE
<1>0. \E p \in S : f[p] >= 0
  OBVIOUS
<1>1. \E p \in S : f[p] >= 1
  BY <1>0
<1>2. \E p \in S : f[p] >= 2
  BY <1>1
<1>3. \E p \in S : f[p] >= 3
  BY <1>2
<1>4. \E p \in S : f[p] >= 4
  BY <1>3
<1>5. \E p \in S : f[p] >= 5
  BY <1>4
<1>6. \E p \in S : f[p] >= 6
  BY <1>5
<1>7. \E p \in S : f[p] >= 7
  BY <1>6
<1> QED
  BY <1>7

\* In a deadlock somebody is not in order.
LEMMA DeadlockHasCulprit == IInv => CyclesExplained
<1> SUFFICES ASSUME IInv, NEW S \in SUBSET Process, Deadlocked(S),
                    \A p \in S : ~ Culprit(run[p].op)
             PROVE  FALSE
  BY DEF CyclesExplained, Culprit
<1> DEFINE rank == [p \in S |-> Rank(run[p].op, Head(run[p].todo))]
<1>1. \A p \in S : \E q \in S : Blocks(q, p)
  BY DEF Deadlocked
<1>2. ASSUME NEW p \in S
      PROVE  /\ Due(run[p].op, run[p].held, Head(run[p].todo))
             /\ \A h \in run[p].held : Guarded(run[p].op, run[p].held, h)
             /\ run[p].held \subseteq Request
  <2>1. run[p].todo # <<>>
    BY <1>1 DEF Blocks, Wanted
  <2>2. /\ Orderly(run[p].op, run[p].held, run[p].todo)
        /\ \A h \in run[p].held : Guarded(run[p].op, run[p].held, h)
    BY DEF IInv, Disciplined
  <2>3. run[p].held \subseteq Request
    BY DEF IInv, TypeOK, Transaction
  <2> QED
    BY <2>1, <2>2, <2>3, FirstThenRest
<1>3. \A p \in S : rank[p] \in 0 .. 7
  BY <1>2, RankRange DEF Due
<1>4. ASSUME NEW p \in S PROVE \E q \in S : rank[p] < rank[q]
  <2>1. PICK q \in S : Blocks(q, p)
    BY <1>1
  <2>2. PICK h \in run[q].held : p # q /\ Conflicting(Head(run[p].todo), h)
    BY <2>1 DEF Blocks
  <2>3. \A x \in run[p].held, y \in run[q].held : ~ Conflicting(x, y)
    BY <2>2 DEF IInv, Compatible
  <2>4. Rank(run[p].op, Head(run[p].todo)) < Rank(run[q].op, Head(run[q].todo))
    BY <1>2, <2>2, <2>3, WaitsClimb DEF Due
  <2> QED
    BY <2>4
<1> HIDE DEF rank
<1>5. S # {}
  BY DEF Deadlocked
<1> QED
  BY <1>3, <1>4, <1>5, NoEndlessClimb

\* Delivery, reactions, skips, digests, quiet hours and the change of zone never
\* deadlock among themselves, however many transactions, occurrences and rows
\* there are and however many routines the change has to turn to: in every deadlock
\* somebody writes a plan again, or reviews an entry.
THEOREM OthersNeverDeadlock == Spec => []CyclesExplained
BY Discipline, DeadlockHasCulprit, PTL
=============================================================================
