----------------------------- MODULE NimProofs -----------------------------
(***************************************************************************)
(* Proofs about Nim, for any number of processes, tasks, keys, models and  *)
(* retries: waits and attempts keep to their bounds, requests exclude one  *)
(* another, give back what they took and pay for no answer twice.          *)
(***************************************************************************)
EXTENDS Nim, FiniteSetTheorems, SequenceTheorems, TLAPS

\* What holds of one request wherever it stands: its waits end within its
\* budget, and its attempts within those of its model.
Proper(r) ==
  /\ r \in RequestState
  /\ r.pc \in {"queued", "polling", "http", "backoff"} => r.timer <= r.left
  /\ r.pc \in {"http", "backoff", "recording"} => r.attempt \in 1 .. MaxAttempts(r.model)
  /\ r.pc = "backoff" \/ (r.pc = "recording" /\ r.answer = "again")
       => r.attempt < MaxAttempts(r.model)

Requests ==
  /\ req \in [Request -> RequestState]
  /\ \A c \in Request : Proper(req[c])

\* Between the grant of the lock and the unlock a request holds the lock or has
\* lost its session.
Gated(c) == InChain(c) \/ req[c].pc = "asking"

Exclusive ==
  /\ lock \subseteq Request /\ orphan \subseteq Request
  /\ \A c, d \in lock : c = d
  /\ \A c \in Request : Gated(c) => c \in lock \cup orphan

IInv == Requests /\ Exclusive

USE NimAssumption

\* The key CHOOSE picks is one.
LEMMA SomeKeyIsKey == SomeKey \in Key
BY DEF SomeKey

\* The state of a task without a request.
LEMMA IdleIsProper == Proper(Idle) /\ Proper(Done)
<1>1. Idle \in RequestState /\ Done \in RequestState
  BY SomeKeyIsKey DEF Idle, Done, RequestState, Answer
<1> QED
  BY <1>1 DEF Proper, Idle, Done

\* One request changes and stays proper.
LEMMA OneChanges ==
  ASSUME Requests, NEW c \in Request, NEW r, Proper(r), req' = [req EXCEPT ![c] = r]
  PROVE  Requests'
<1>1. r \in RequestState
  BY DEF Proper
<1>2. req' \in [Request -> RequestState]
  BY <1>1 DEF Requests
<1>3. \A d \in Request : Proper(req'[d])
  BY DEF Requests
<1> QED
  BY <1>2, <1>3 DEF Requests, Proper, RequestState, Answer, MaxAttempts

\* An attempt within the bounds of its model, or the end of the chain.
LEMMA AttemptIsProper ==
  ASSUME Requests, NEW c \in Request, NEW m \in 1 .. Models,
         NEW n \in 1 .. MaxAttempts(m)
  PROVE  Proper(Attempt(c, m, n))
<1> DEFINE r == req[c]
           t == Lesser(HttpTimeout, r.left)
<1>1. r \in RequestState
  BY DEF Requests
<1>2. CASE r.left = 0
  BY <1>2, IdleIsProper DEF Attempt
<1>3. CASE r.left # 0
  <2> DEFINE s == [r EXCEPT !.pc = "http", !.model = m, !.attempt = n,
                            !.answer = "stop", !.timer = t]
  <2>1. t \in Nat /\ t <= r.left
    BY <1>1 DEF Lesser, RequestState
  <2>2. n \in 0 .. MaxRetries + 1
    BY DEF MaxAttempts
  <2>3. s \in RequestState
    BY <1>1, <2>1, <2>2 DEF RequestState, Answer
  <2>4. s.pc = "http" /\ s.model = m /\ s.attempt = n /\ s.timer = t /\ s.left = r.left
    BY <1>1 DEF RequestState
  <2>5. Proper(s)
    BY <2>1, <2>3, <2>4 DEF Proper
  <2> QED
    BY <1>3, <2>5 DEF Attempt
<1> QED
  BY <1>2, <1>3

\* Giving back the permit ends one request and may set another one going.
LEMMA ReleaseKeeps ==
  ASSUME IInv, NEW c \in Request, Release(c)
  PROVE  Requests' /\ \A d \in Request : Gated(d)' => Gated(d) /\ d # c
<1> DEFINE n == Head(queue[ProcessOf[c]])
           up == [req[n] EXCEPT !.pc = "polling", !.timer = req[n].left]
<1>1. ASSUME req' = [req EXCEPT ![c] = Idle]
      PROVE  Requests' /\ \A d \in Request : Gated(d)' => Gated(d) /\ d # c
  <2>1. Requests'
    BY <1>1, IdleIsProper, OneChanges DEF IInv
  <2>2. \A d \in Request \ {c} : req'[d] = req[d]
    BY <1>1 DEF IInv, Requests
  <2>3. req'[c].pc = "idle"
    BY <1>1 DEF IInv, Requests, Idle
  <2> QED
    BY <2>1, <2>2, <2>3 DEF Gated, InChain
<1>2. CASE req' = [req EXCEPT ![c] = Idle, ![n] = up]
  <2>1. CASE n \in Request
    <3>1. req[n] \in RequestState
      BY <2>1 DEF IInv, Requests
    <3>2. up \in RequestState /\ up.pc = "polling" /\ up.timer = up.left
      <4> DEFINE r == req[n]
      <4>1. r.left \in 0 .. Budget /\ r.left \in Nat
        BY <3>1 DEF RequestState
      <4> HIDE DEF r
      <4> QED
        BY <3>1, <4>1 DEF RequestState, r
    <3>3. Proper(up)
      <4>1. up.left \in Nat
        BY <3>2 DEF RequestState
      <4> QED
        BY <3>2, <4>1 DEF Proper
    <3>4. \A d \in Request : req'[d] = IF d = n THEN up ELSE IF d = c THEN Idle ELSE req[d]
      BY <1>2, <2>1 DEF IInv, Requests
    <3>5. Requests'
      <4>1. req' \in [Request -> RequestState]
        BY <1>2, <2>1, <3>2, IdleIsProper DEF IInv, Requests, Proper
      <4>2. \A d \in Request : Proper(req'[d])
        BY <3>3, <3>4, IdleIsProper DEF IInv, Requests
      <4> QED
        BY <4>1, <4>2 DEF Requests, Proper, RequestState, Answer, MaxAttempts
    <3>6. Idle.pc = "idle"
      BY DEF Idle
    <3> QED
      BY <3>2, <3>4, <3>5, <3>6 DEF Gated, InChain
  <2>2. CASE n \notin Request
    <3>1. req' = [req EXCEPT ![c] = Idle]
      BY <1>2, <2>2 DEF IInv, Requests
    <3> QED
      BY <1>1, <3>1
  <2> QED
    BY <2>1, <2>2
<1> QED
  BY <1>1, <1>2 DEF Release

\* A request that goes on or ends without touching the lock.
LEMMA GoesOn ==
  ASSUME IInv, NEW c \in Request, NEW r, Proper(r), req' = [req EXCEPT ![c] = r],
         r.pc \in {"http", "backoff", "recording", "asking"} => Gated(c),
         UNCHANGED <<lock, orphan>>
  PROVE  IInv'
<1>1. Requests'
  BY OneChanges DEF IInv
<1>2. req'[c] = r /\ \A d \in Request \ {c} : req'[d] = req[d]
  BY DEF IInv, Requests
<1>3. \A d \in Request : Gated(d)' => Gated(d)
  BY <1>2 DEF Gated, InChain
<1> QED
  BY <1>1, <1>3 DEF IInv, Exclusive

\* The end of a request that may hold the lock.
LEMMA LeaveKeeps ==
  ASSUME IInv, NEW c \in Request, Leave(c)
  PROVE  IInv'
BY ReleaseKeeps DEF Leave, IInv, Exclusive

\* A new request.
LEMMA NewIsProper ==
  ASSUME NEW k \in Key, NEW t \in 0 .. Budget, NEW pc \in {"queued", "polling"}
  PROVE  Proper(New(k, pc, t)) /\ New(k, pc, t).pc = pc
<1> DEFINE r == Idle
<1>1. r \in RequestState
  BY IdleIsProper DEF Proper
<1> HIDE DEF r
<1> DEFINE s == [r EXCEPT !.pc = pc, !.key = k, !.left = Budget, !.timer = t]
<1>2. t \in Nat /\ Budget \in 0 .. Budget
  OBVIOUS
<1>3. s \in RequestState
  BY <1>1, <1>2 DEF RequestState
<1>4. s.pc = pc /\ s.timer = t /\ s.left = Budget
  BY <1>1 DEF RequestState
<1>5. New(k, pc, t) = s
  BY DEF New, r
<1> QED
  BY <1>3, <1>4, <1>5 DEF Proper

\* A request whose attempt is over.
LEMMA RecordingIsProper ==
  ASSUME Requests, NEW c \in Request, InChain(c), NEW a \in Answer,
         a = "again" => req[c].pc = "backoff"
  PROVE  Proper(Recording(c, a)) /\ Recording(c, a).pc = "recording"
<1> DEFINE r == req[c]
           s == [r EXCEPT !.pc = "recording", !.answer = a, !.timer = 0]
<1>1. r \in RequestState /\ Proper(r)
  BY DEF Requests
<1>2. s \in RequestState
  BY <1>1 DEF RequestState
<1>3. s.pc = "recording" /\ s.answer = a /\ s.model = r.model /\ s.attempt = r.attempt
  BY <1>1 DEF RequestState
<1>4. Proper(s)
  BY <1>1, <1>2, <1>3 DEF Proper, InChain
<1> QED
  BY <1>3, <1>4 DEF Recording

\* A fresh program keeps every bound.
LEMMA InitIInv == Init => IInv
BY IdleIsProper, SMTT(30) DEF Init, IInv, Requests, Exclusive, Proper, Gated, InChain, Idle

\* Every step keeps them.
LEMMA NextIInv == IInv /\ [Next]_vars => IInv'
<1> SUFFICES ASSUME IInv, [Next]_vars PROVE IInv'
  OBVIOUS
<1>a. \A c \in Request : req[c] \in RequestState /\ Proper(req[c])
  BY DEF IInv, Requests
<1>1. ASSUME NEW c \in Request, AnswerFromCache(c) PROVE IInv'
  BY <1>1 DEF AnswerFromCache, IInv, Requests, Exclusive, Gated, InChain
<1>2. ASSUME NEW c \in Request, TakePermit(c) PROVE IInv'
  <2>1. PICK k \in Asks[c] : req' = [req EXCEPT ![c] = New(k, "polling", Budget)]
    BY <1>2 DEF TakePermit
  <2>2. Proper(New(k, "polling", Budget)) /\ New(k, "polling", Budget).pc = "polling"
    BY NewIsProper
  <2> QED
    BY <1>2, <2>1, <2>2, GoesOn DEF TakePermit
<1>3. ASSUME NEW c \in Request, WaitForPermit(c) PROVE IInv'
  <2> DEFINE t == Lesser(HttpTimeout, Budget)
  <2>1. PICK k \in Asks[c] : req' = [req EXCEPT ![c] = New(k, "queued", t)]
    BY <1>3 DEF WaitForPermit
  <2>2. t \in 0 .. Budget
    BY DEF Lesser
  <2>3. Proper(New(k, "queued", t)) /\ New(k, "queued", t).pc = "queued"
    BY <2>2, NewIsProper
  <2> QED
    BY <1>3, <2>1, <2>3, GoesOn DEF WaitForPermit
<1>4. ASSUME NEW c \in Request, LeaveQueue(c) PROVE IInv'
  <2>1. Idle.pc = "idle"
    BY DEF Idle
  <2> QED
    BY <1>4, <2>1, IdleIsProper, GoesOn DEF LeaveQueue
<1>5. ASSUME NEW c \in Request, QueueTimesOut(c) PROVE IInv'
  BY <1>4, <1>5 DEF QueueTimesOut
<1>6. ASSUME NEW c \in Request, Poll(c) PROVE IInv'
  <2> DEFINE r == req[c]
             s == [r EXCEPT !.pc = "asking", !.timer = 0]
  <2>1. req' = [req EXCEPT ![c] = s]
    BY <1>6 DEF Poll
  <2>2. s \in RequestState /\ s.pc = "asking"
    BY <1>a DEF RequestState
  <2>3. Requests'
    BY <2>1, <2>2, OneChanges DEF IInv, Proper
  <2>4. \A d \in Request \ {c} : req'[d] = req[d]
    BY <2>1 DEF IInv, Requests
  <2>5. lock = {} /\ lock' = {c} /\ orphan' = orphan
    BY <1>6 DEF Poll
  <2> QED
    BY <2>3, <2>4, <2>5 DEF IInv, Exclusive, Gated, InChain
<1>7. ASSUME NEW c \in Request, GateTimesOut(c) \/ GateFails(c) \/ Unlock(c) PROVE IInv'
  BY <1>7, LeaveKeeps DEF GateTimesOut, GateFails, Unlock
<1>8. ASSUME NEW c \in Request, Enter(c) PROVE IInv'
  <2> DEFINE r == IF Live(ProcessOf[c], req[c].key) THEN Done ELSE Attempt(c, 1, 1)
  <2>1. Gated(c)
    BY <1>8 DEF Enter, Gated
  <2>2. Proper(Attempt(c, 1, 1))
    BY AttemptIsProper DEF MaxAttempts, IInv
  <2>3. Proper(r)
    BY <2>2, IdleIsProper
  <2> QED
    BY <1>8, <2>1, <2>3, GoesOn DEF Enter
<1>9. ASSUME NEW c \in Request, BackOff(c) PROVE IInv'
  <2> DEFINE r == req[c]
  <2>1. r \in RequestState /\ Proper(r) /\ r.pc = "http" /\ r.attempt < MaxAttempts(r.model)
    BY <1>a, <1>9 DEF BackOff
  <2>2. r.attempt \in 1 .. MaxRetries /\ r.left \in Nat
    BY <2>1 DEF Proper, RequestState, MaxAttempts
  <2>3. PICK d \in RetryDelay[r.attempt] :
          req' = [req EXCEPT ![c].pc = "backoff", ![c].timer = Lesser(d, req[c].left)]
    BY <1>9 DEF BackOff
  <2> DEFINE t == Lesser(d, r.left)
             s == [r EXCEPT !.pc = "backoff", !.timer = t]
  <2>4. d \in Nat
    BY <2>2
  <2>5. t \in Nat /\ t <= r.left
    BY <2>2, <2>4 DEF Lesser
  <2>6. s \in RequestState
    BY <2>1, <2>5 DEF RequestState
  <2>7. s.pc = "backoff" /\ s.timer = t /\ s.left = r.left /\ s.attempt = r.attempt
          /\ s.model = r.model
    BY <2>1 DEF RequestState
  <2>8. Proper(s)
    BY <2>1, <2>5, <2>6, <2>7 DEF Proper
  <2>9. req' = [req EXCEPT ![c] = s]
    BY <2>3
  <2>10. Gated(c)
    BY <2>1 DEF Gated, InChain
  <2> QED
    BY <1>9, <2>8, <2>9, <2>10, GoesOn DEF BackOff
<1>10. ASSUME NEW c \in Request, BackOffEnds(c) PROVE IInv'
  <2>1. InChain(c) /\ req[c].pc = "backoff"
    BY <1>10 DEF BackOffEnds, InChain
  <2>2. Proper(Recording(c, "again"))
    BY <2>1, RecordingIsProper DEF IInv, Answer
  <2> QED
    BY <1>10, <2>1, <2>2, GoesOn DEF BackOffEnds, Gated
<1>11. ASSUME NEW c \in Request, Answered(c) \/ HttpTimesOut(c) PROVE IInv'
  <2>1. InChain(c)
    BY <1>11 DEF Answered, HttpTimesOut, InChain
  <2>2. PICK a \in Answer \ {"again"} : req' = [req EXCEPT ![c] = Recording(c, a)]
    BY <1>11 DEF Answered, HttpTimesOut, Answer
  <2>3. Proper(Recording(c, a))
    BY <2>1, RecordingIsProper DEF IInv
  <2> QED
    BY <1>11, <2>1, <2>2, <2>3, GoesOn DEF Answered, HttpTimesOut, Gated
<1>12. ASSUME NEW c \in Request, Recorded(c) PROVE IInv'
  <2>1. Proper(req[c]) /\ req[c] \in RequestState /\ req[c].pc = "recording" /\ Gated(c)
    BY <1>a, <1>12 DEF Recorded, Gated, InChain
  <2>2. CASE req[c].answer = "again"
    <3> DEFINE r == Attempt(c, req[c].model, req[c].attempt + 1)
    <3>1. req[c].attempt + 1 \in 1 .. MaxAttempts(req[c].model)
      BY <2>1, <2>2 DEF Proper, RequestState, MaxAttempts
    <3>2. Proper(r)
      BY <2>1, <3>1, AttemptIsProper DEF IInv, RequestState
    <3>3. req' = [req EXCEPT ![c] = r] /\ UNCHANGED <<lock, orphan>>
      BY <1>12, <2>2 DEF Recorded
    <3> QED
      BY <2>1, <3>2, <3>3, GoesOn
  <2>3. CASE req[c].answer = "next" /\ req[c].model < Models
    <3> DEFINE r == Attempt(c, req[c].model + 1, 1)
    <3>1. req[c].model + 1 \in 1 .. Models
      BY <2>1, <2>3 DEF RequestState
    <3>2. 1 \in 1 .. MaxAttempts(req[c].model + 1)
      BY DEF MaxAttempts
    <3>3. Proper(r)
      BY <3>1, <3>2, AttemptIsProper DEF IInv
    <3>4. req' = [req EXCEPT ![c] = r] /\ UNCHANGED <<lock, orphan>>
      BY <1>12, <2>3 DEF Recorded
    <3> QED
      BY <2>1, <3>3, <3>4, GoesOn
  <2>4. CASE req[c].answer # "again" /\ ~ (req[c].answer = "next" /\ req[c].model < Models)
    <3>1. req' = [req EXCEPT ![c] = Done] /\ UNCHANGED <<lock, orphan>>
      BY <1>12, <2>4 DEF Recorded
    <3> QED
      BY <2>1, <3>1, IdleIsProper, GoesOn
  <2> QED
    BY <2>2, <2>3, <2>4
<1>13. ASSUME NEW c \in Request, RecordedPlan(c) PROVE IInv'
  <2>1. Gated(c)
    BY <1>13 DEF RecordedPlan, Gated, InChain
  <2> QED
    BY <1>13, <2>1, IdleIsProper, GoesOn DEF RecordedPlan
<1>14. ASSUME NEW c \in Request, ChainFails(c) PROVE IInv'
  <2>1. Gated(c)
    BY <1>14 DEF ChainFails, Gated, InChain
  <2> QED
    BY <1>14, <2>1, IdleIsProper, GoesOn DEF ChainFails
<1>15. ASSUME NEW c \in Request, SessionLost(c) PROVE IInv'
  BY <1>15 DEF SessionLost, IInv, Requests, Exclusive, Gated, InChain
<1>16. ASSUME NEW p \in Process, Restart(p) PROVE IInv'
  <2>1. \A c \in Request : req'[c] = IF c \in Tasks(p) THEN Idle ELSE req[c]
    BY <1>16 DEF Restart
  <2>2. Requests'
    <3>1. req' \in [Request -> RequestState]
      BY <1>a, <1>16, IdleIsProper DEF Restart, Proper
    <3>2. \A c \in Request : Proper(req'[c])
      BY <1>a, <2>1, IdleIsProper
    <3> QED
      BY <3>1, <3>2 DEF Requests, Proper, RequestState, Answer, MaxAttempts
  <2>3. \A c \in Request : Gated(c)' => Gated(c) /\ c \notin Tasks(p)
    <3>1. Idle.pc = "idle"
      BY DEF Idle
    <3> QED
      BY <2>1, <3>1 DEF Gated, InChain
  <2>4. lock' = lock \ Tasks(p) /\ orphan' = orphan \ Tasks(p)
    BY <1>16 DEF Restart
  <2> QED
    BY <2>2, <2>3, <2>4 DEF IInv, Exclusive
<1>17. ASSUME Tick PROVE IInv'
  <2> DEFINE aged(r) == [r EXCEPT !.left = Less(@), !.timer = Less(@)]
  <2>1. req' = [c \in Request |-> aged(req[c])]
    BY <1>17 DEF Tick
  <2>2. ASSUME NEW c \in Request
        PROVE  aged(req[c]) \in RequestState /\ Proper(aged(req[c]))
    <3> DEFINE r == req[c]
               s == [r EXCEPT !.left = Less(r.left), !.timer = Less(r.timer)]
    <3>1. r \in RequestState /\ Proper(r) /\ r.left \in 0 .. Budget /\ r.timer \in Nat
      BY <1>a DEF RequestState
    <3>2. Less(r.left) \in 0 .. Budget /\ Less(r.timer) \in Nat
      BY <3>1 DEF Less
    <3>3. s \in RequestState
      BY <3>1, <3>2 DEF RequestState
    <3>4. /\ s.pc = r.pc /\ s.model = r.model /\ s.attempt = r.attempt
          /\ s.answer = r.answer /\ s.left = Less(r.left) /\ s.timer = Less(r.timer)
      BY <3>1 DEF RequestState
    <3>5. r.timer <= r.left => s.timer <= s.left
      BY <3>1, <3>4, SMTT(20) DEF Less
    <3>6. Proper(s)
      BY <3>1, <3>3, <3>4, <3>5 DEF Proper
    <3> QED
      BY <3>3, <3>6
  <2>3. Requests'
    <3>1. req' \in [Request -> RequestState]
      BY <2>1, <2>2
    <3>2. \A c \in Request : Proper(req'[c])
      BY <2>1, <2>2
    <3> QED
      BY <3>1, <3>2 DEF Requests, Proper, RequestState, Answer, MaxAttempts
  <2>4. \A c \in Request : req'[c].pc = req[c].pc
    BY <1>a, <2>1 DEF RequestState
  <2>5. UNCHANGED <<lock, orphan>>
    BY <1>17 DEF Tick
  <2> QED
    BY <2>3, <2>4, <2>5 DEF IInv, Exclusive, Gated, InChain
<1>18. ASSUME UNCHANGED vars PROVE IInv'
  BY <1>18 DEF vars, IInv, Requests, Exclusive, Gated, InChain
<1> QED
  BY <1>1, <1>2, <1>3, <1>4, <1>5, <1>6, <1>7, <1>8, <1>9, <1>10, <1>11, <1>12,
     <1>13, <1>14, <1>15, <1>16, <1>17, <1>18 DEF Next

\* The inductive invariant holds in every reachable state.
THEOREM InvariantHolds == Spec => []IInv
BY InitIInv, NextIInv, PTL DEF Spec

\* Requests to NIM exclude one another over all processes, but for those whose
\* database session has broken: nim_ops.PostgresNimGate does what it is for.
THEOREM GateExcludes == Spec => []OneChainAtATime
<1>1. IInv => OneChainAtATime
  BY DEF IInv, Exclusive, Gated, OneChainAtATime
<1> QED
  BY <1>1, InvariantHolds, PTL

\* No wait of a request, for a permit, the lock, an answer or the end of a pause,
\* outlasts the deadline it was given.
THEOREM BudgetHolds == Spec => []WithinBudget
<1>1. IInv => WithinBudget
  BY DEF IInv, Requests, Proper, Waiting, WithinBudget
<1> QED
  BY <1>1, InvariantHolds, PTL

-----------------------------------------------------------------------------
(* What is taken is given back. *)

Waiters(p) == {c \in Tasks(p) : req[c].pc = "queued"}
Holders(p) == {c \in Tasks(p) : req[c].pc \notin {"idle", "queued"}}

\* No request stands in a queue twice.
Distinct(s) == \A i, j \in 1 .. Len(s) : s[i] = s[j] => i = j

Stands(d, s) == \E i \in 1 .. Len(s) : s[i] = d

\* The semaphore of one process: permits add up, the queue names each waiting
\* request once, and a free permit leaves nobody waiting.
Accounted(p) ==
  /\ free[p] + Cardinality(Holders(p)) = Limit
  /\ Distinct(queue[p])
  /\ \A c \in Request : c \in Waiters(p) <=> Stands(c, queue[p])
  /\ free[p] > 0 => queue[p] = <<>>

Accounts ==
  /\ free \in [Process -> Nat] /\ queue \in [Process -> Seq(Request)]
  /\ \A p \in Process : Accounted(p)
  /\ \A c \in lock : Gated(c) \/ req[c].pc = "leaving"

\* The requests of a process are finitely many.
LEMMA HoldersFinite ==
  ASSUME NEW p \in Process
  PROVE  IsFiniteSet(Holders(p)) /\ Cardinality(Holders(p)) \in Nat
<1>1. Holders(p) \subseteq Request
  BY DEF Holders, Tasks
<1> QED
  BY <1>1, FS_Subset, FS_CardinalityType

\* A process none of whose requests comes to hold or await a permit, or ceases to.
LEMMA Unmoved ==
  ASSUME Accounts, NEW p \in Process, free'[p] = free[p], queue'[p] = queue[p],
         \A c \in Tasks(p) : /\ req'[c].pc = "queued" <=> req[c].pc = "queued"
                             /\ req'[c].pc = "idle" <=> req[c].pc = "idle"
  PROVE  Accounted(p)'
<1>1. Holders(p)' = Holders(p) /\ Waiters(p)' = Waiters(p)
  BY DEF Holders, Waiters, Tasks
<1>2. Accounted(p)
  BY DEF Accounts
<1> QED
  BY <1>1, <1>2 DEF Accounted

\* A request that holds its permit before and after.
LEMMA PermitKept ==
  ASSUME IInv, Accounts, NEW c \in Request, NEW r, req' = [req EXCEPT ![c] = r],
         req[c].pc \notin {"idle", "queued"},
         r.pc \in {"asking", "http", "backoff", "recording", "leaving"},
         UNCHANGED <<free, queue>>, lock' \subseteq lock \cup {c}
  PROVE  Accounts'
<1>1. req'[c] = r /\ \A d \in Request \ {c} : req'[d] = req[d]
  BY DEF IInv, Requests
<1>2. \A p \in Process : Accounted(p)'
  BY <1>1, Unmoved DEF Tasks
<1>3. \A d \in lock' : (Gated(d) \/ req[d].pc = "leaving")'
  BY <1>1 DEF Gated, InChain, Accounts, IInv, Exclusive
<1> QED
  BY <1>2, <1>3 DEF Accounts

\* One request of a process changes: the other processes are as they were.
LEMMA Elsewhere ==
  ASSUME IInv, Accounts, NEW c \in Request, NEW r, req' = [req EXCEPT ![c] = r],
         free' = [free EXCEPT ![ProcessOf[c]] = free'[ProcessOf[c]]],
         queue' = [queue EXCEPT ![ProcessOf[c]] = queue'[ProcessOf[c]]]
  PROVE  /\ \A p \in Process \ {ProcessOf[c]} : Accounted(p)'
         /\ req'[c] = r /\ \A d \in Request \ {c} : req'[d] = req[d]
         /\ ProcessOf[c] \in Process
<1>1. req'[c] = r /\ \A d \in Request \ {c} : req'[d] = req[d]
  BY DEF IInv, Requests
<1>2. ASSUME NEW p \in Process \ {ProcessOf[c]} PROVE Accounted(p)'
  <2>1. free'[p] = free[p] /\ queue'[p] = queue[p]
    BY DEF Accounts
  <2> QED
    BY <1>1, <2>1, Unmoved DEF Tasks
<1> QED
  BY <1>1, <1>2

\* A permit is taken.
LEMMA PermitTaken ==
  ASSUME IInv, Accounts, NEW c \in Request, NEW r, req' = [req EXCEPT ![c] = r],
         req[c].pc = "idle", r.pc = "polling", free[ProcessOf[c]] > 0,
         free' = [free EXCEPT ![ProcessOf[c]] = @ - 1], UNCHANGED <<queue, lock>>
  PROVE  Accounts'
<1> DEFINE p == ProcessOf[c]
<1>1. p \in Process /\ free[p] \in Nat /\ free'[p] = free[p] - 1 /\ queue'[p] = queue[p]
        /\ queue \in [Process -> Seq(Request)] /\ Accounted(p) /\ free' \in [Process -> Nat]
  BY DEF Accounts
<1>2. /\ \A q \in Process \ {p} : Accounted(q)'
      /\ req'[c] = r /\ \A d \in Request \ {c} : req'[d] = req[d]
  BY <1>1, Elsewhere, ZenonT(40) DEF Accounts
<1>3. Holders(p)' = Holders(p) \cup {c} /\ c \notin Holders(p) /\ Waiters(p)' = Waiters(p)
  BY <1>2 DEF Holders, Waiters, Tasks
<1>4. Cardinality(Holders(p)') = Cardinality(Holders(p)) + 1 /\ Cardinality(Holders(p)) \in Nat
  <2> DEFINE S == Holders(p)
  <2>1. IsFiniteSet(S) /\ Cardinality(S) \in Nat
    BY <1>1, HoldersFinite
  <2> HIDE DEF S
  <2>2. c \notin S => Cardinality(S \cup {c}) = Cardinality(S) + 1
    BY <2>1, FS_AddElement
  <2> QED
    BY <1>3, <2>1, <2>2 DEF S
<1>5. Accounted(p)'
  BY <1>1, <1>3, <1>4 DEF Accounted
<1>6. \A d \in lock' : (Gated(d) \/ req[d].pc = "leaving")'
  BY <1>2 DEF Gated, InChain, Accounts, IInv, Exclusive
<1> QED
  BY <1>1, <1>2, <1>5, <1>6 DEF Accounts

\* A request goes to the end of the queue.
LEMMA Queued ==
  ASSUME IInv, Accounts, NEW c \in Request, NEW r, req' = [req EXCEPT ![c] = r],
         req[c].pc = "idle", r.pc = "queued", free[ProcessOf[c]] = 0,
         queue' = [queue EXCEPT ![ProcessOf[c]] = Append(@, c)], UNCHANGED <<free, lock>>
  PROVE  Accounts'
<1> DEFINE p == ProcessOf[c]  s == queue[p]  t == queue'[p]
<1>1. p \in Process /\ s \in Seq(Request) /\ t = Append(s, c) /\ queue' \in [Process -> Seq(Request)]
        /\ free'[p] = free[p] /\ Accounted(p) /\ free \in [Process -> Nat] /\ free[p] = 0
  BY DEF Accounts
<1>2. /\ \A q \in Process \ {p} : Accounted(q)'
      /\ req'[c] = r /\ \A d \in Request \ {c} : req'[d] = req[d]
  BY <1>1, Elsewhere, ZenonT(40) DEF Accounts
<1>3. Holders(p)' = Holders(p) /\ Waiters(p)' = Waiters(p) \cup {c} /\ c \notin Waiters(p)
  BY <1>2 DEF Holders, Waiters, Tasks
<1>4. /\ \A i, j \in 1 .. Len(s) : s[i] = s[j] => i = j
      /\ \A d \in Request : d \in Waiters(p) <=> \E i \in 1 .. Len(s) : s[i] = d
  BY <1>1 DEF Accounted, Distinct, Stands
<1> HIDE DEF s, t
<1>5. Len(t) = Len(s) + 1 /\ Len(s) \in Nat /\ t[Len(s) + 1] = c /\ \A i \in 1 .. Len(s) : t[i] = s[i]
  BY <1>1
<1>6. \A i, j \in 1 .. Len(t) : t[i] = t[j] => i = j
  BY <1>3, <1>4, <1>5
<1>7. \A d \in Request : d \in Waiters(p)' <=> \E i \in 1 .. Len(t) : t[i] = d
  BY <1>3, <1>4, <1>5
<1>8. Accounted(p)'
  BY <1>1, <1>3, <1>6, <1>7, SMTT(20) DEF Accounted, Distinct, Stands, t
<1>9. \A d \in lock' : (Gated(d) \/ req[d].pc = "leaving")'
  BY <1>2 DEF Gated, InChain, Accounts, IInv, Exclusive
<1> QED
  BY <1>1, <1>2, <1>8, <1>9 DEF Accounts

\* A sequence t is s without its k-th element.
Dropped(s, k, t) ==
  /\ Len(t) = Len(s) - 1
  /\ \A i \in 1 .. Len(s) - 1 : t[i] = IF i < k THEN s[i] ELSE s[i + 1]

\* What RemoveAt leaves of a sequence.
LEMMA RemovedAt ==
  ASSUME NEW S, NEW s \in Seq(S), NEW k \in 1 .. Len(s)
  PROVE  RemoveAt(s, k) \in Seq(S) /\ Dropped(s, k, RemoveAt(s, k))
<1> DEFINE a == SubSeq(s, 1, k - 1)  b == SubSeq(s, k + 1, Len(s))
<1>1. Len(s) \in Nat /\ k \in Int
  OBVIOUS
<1>2. a \in Seq(S) /\ Len(a) = k - 1 /\ \A i \in 1 .. k - 1 : a[i] = s[i]
  BY <1>1
<1>3. b \in Seq(S) /\ Len(b) = Len(s) - k /\ \A i \in 1 .. Len(s) - k : b[i] = s[k + i]
  BY <1>1
<1> HIDE DEF a, b
<1>4. /\ a \o b \in Seq(S) /\ Len(a \o b) = Len(s) - 1
      /\ \A i \in 1 .. Len(s) - 1 : (a \o b)[i] = IF i <= k - 1 THEN a[i] ELSE b[i - (k - 1)]
  <2>1. /\ a \o b \in Seq(S) /\ Len(a \o b) = Len(a) + Len(b)
        /\ \A i \in 1 .. Len(a) + Len(b) :
             (a \o b)[i] = IF i <= Len(a) THEN a[i] ELSE b[i - Len(a)]
    BY <1>2, <1>3, ConcatProperties, ZenonT(40)
  <2>2. Len(a) + Len(b) = Len(s) - 1
    BY <1>1, <1>2, <1>3
  <2> QED
    BY <1>2, <2>1, <2>2
<1>5. ASSUME NEW i \in 1 .. Len(s) - 1
      PROVE  (a \o b)[i] = IF i < k THEN s[i] ELSE s[i + 1]
  <2>1. CASE i < k
    <3>1. i <= k - 1 /\ i \in 1 .. k - 1
      BY <1>1, <2>1
    <3> QED
      BY <1>2, <1>4, <2>1, <3>1
  <2>2. CASE i >= k
    <3> DEFINE j == i - (k - 1)
    <3>1. j \in 1 .. Len(s) - k /\ k + j = i + 1 /\ ~ (i <= k - 1) /\ ~ (i < k)
      BY <1>1, <2>2
    <3>2. (a \o b)[i] = b[j]
      BY <1>4, <3>1
    <3>3. b[j] = s[k + j]
      BY <1>3, <3>1
    <3> QED
      BY <3>1, <3>2, <3>3, Zenon
  <2>3. i < k \/ i >= k
    BY <1>1
  <2> QED
    BY <2>1, <2>2, <2>3, Zenon
<1> QED
  BY <1>4, <1>5 DEF RemoveAt, Dropped, a, b

\* A sequence without repetitions has none when one element goes.
LEMMA RemovedOnce ==
  ASSUME NEW S, NEW s \in Seq(S), NEW k \in 1 .. Len(s), Distinct(s),
         NEW t \in Seq(S), Dropped(s, k, t)
  PROVE  /\ Distinct(t)
         /\ \A d \in S : Stands(d, t) <=> Stands(d, s) /\ d # s[k]
<1> DEFINE From(i) == IF i < k THEN i ELSE i + 1
<1>1. /\ Len(s) \in Nat /\ k \in Int
      /\ \A i \in 1 .. Len(t) : From(i) \in 1 .. Len(s) /\ From(i) # k /\ t[i] = s[From(i)]
      /\ \A i, j \in 1 .. Len(t) : From(i) = From(j) => i = j
      /\ \A i \in 1 .. Len(s) : i # k => \E j \in 1 .. Len(t) : From(j) = i
  <2>1. /\ Len(s) \in Nat /\ k \in Int /\ Len(t) = Len(s) - 1
        /\ \A i \in 1 .. Len(s) - 1 : t[i] = IF i < k THEN s[i] ELSE s[i + 1]
    BY DEF Dropped
  <2>2. ASSUME NEW i \in 1 .. Len(t)
        PROVE  From(i) \in 1 .. Len(s) /\ From(i) # k /\ t[i] = s[From(i)]
    BY <2>1
  <2>3. ASSUME NEW i \in 1 .. Len(t), NEW j \in 1 .. Len(t), From(i) = From(j) PROVE i = j
    BY <2>1, <2>3
  <2>4. ASSUME NEW i \in 1 .. Len(s), i # k PROVE \E j \in 1 .. Len(t) : From(j) = i
    <3> DEFINE j == IF i < k THEN i ELSE i - 1
    <3>1. j \in 1 .. Len(t) /\ From(j) = i
      BY <2>1, <2>4
    <3> QED
      BY <3>1
  <2> QED
    BY <2>1, <2>2, <2>3, <2>4
<1> HIDE DEF From
<1>2. ASSUME NEW i \in 1 .. Len(t), NEW j \in 1 .. Len(t), t[i] = t[j] PROVE i = j
  <2>1. s[From(i)] = s[From(j)] /\ From(i) \in 1 .. Len(s) /\ From(j) \in 1 .. Len(s)
    BY <1>1, <1>2
  <2>2. From(i) = From(j)
    BY <2>1 DEF Distinct
  <2> QED
    BY <1>1, <2>2
<1>3. ASSUME NEW d \in S, NEW i \in 1 .. Len(t), t[i] = d
      PROVE  (\E j \in 1 .. Len(s) : s[j] = d) /\ d # s[k]
  <2>1. s[From(i)] = d /\ From(i) \in 1 .. Len(s) /\ From(i) # k
    BY <1>1, <1>3
  <2> QED
    BY <2>1 DEF Distinct
<1>4. ASSUME NEW d \in S, NEW i \in 1 .. Len(s), s[i] = d, d # s[k]
      PROVE  \E j \in 1 .. Len(t) : t[j] = d
  BY <1>1, <1>4
<1> QED
  BY <1>2, <1>3, <1>4 DEF Distinct, Stands

\* A request leaves the queue from where it stands in it.
LEMMA Unqueued ==
  ASSUME IInv, Accounts, NEW c \in Request, LeaveQueue(c)
  PROVE  Accounts'
<1> DEFINE p == ProcessOf[c]  s == queue[p]  t == queue'[p]
<1>1. /\ p \in Process /\ s \in Seq(Request) /\ Accounted(p) /\ free'[p] = free[p]
      /\ free' = free /\ free \in [Process -> Nat] /\ queue \in [Process -> Seq(Request)]
      /\ req' = [req EXCEPT ![c] = Idle] /\ req[c].pc = "queued" /\ lock' = lock
  BY DEF Accounts, LeaveQueue
<1>2. PICK k \in DOMAIN s : s[k] = c /\ queue' = [queue EXCEPT ![p] = RemoveAt(s, k)]
  BY DEF LeaveQueue
<1>3. k \in 1 .. Len(s) /\ RemoveAt(s, k) \in Seq(Request)
  BY <1>1, <1>2, RemovedAt
<1>4. t = RemoveAt(s, k) /\ queue' \in [Process -> Seq(Request)] /\ queue' = [queue EXCEPT ![p] = t]
  BY <1>1, <1>2, <1>3
<1>5. /\ \A q \in Process \ {p} : Accounted(q)'
      /\ req'[c] = Idle /\ \A d \in Request \ {c} : req'[d] = req[d]
  <2>1. free' = [free EXCEPT ![p] = free'[p]]
    BY <1>1
  <2> HIDE DEF s, t
  <2> QED
    BY <1>1, <1>4, <2>1, Elsewhere DEF t
<1>6. Idle.pc = "idle"
  BY DEF Idle
<1>7. Holders(p)' = Holders(p) /\ Waiters(p)' = Waiters(p) \ {c}
  BY <1>1, <1>5, <1>6 DEF Holders, Waiters, Tasks
<1>8. /\ Distinct(s) /\ \A d \in Request : d \in Waiters(p) <=> Stands(d, s)
      /\ free[p] > 0 => s = <<>>
  BY <1>1 DEF Accounted
<1> HIDE DEF s, t
<1>9. s \in Seq(Request) /\ t \in Seq(Request) /\ Dropped(s, k, t)
  BY <1>1, <1>3, <1>4, RemovedAt
<1>10. Distinct(t) /\ \A d \in Request : Stands(d, t) <=> Stands(d, s) /\ d # s[k]
  BY ONLY <1>3, <1>8, <1>9, RemovedOnce
<1>11. \A d \in Request : d \in Waiters(p)' <=> Stands(d, t)
  BY <1>2, <1>7, <1>8, <1>10
<1>12. free'[p] > 0 => t = <<>>
  BY <1>1, <1>3, <1>8
<1>13. Accounted(p)'
  BY <1>1, <1>7, <1>10, <1>11, <1>12 DEF Accounted, t
<1>14. \A d \in lock' : (Gated(d) \/ req[d].pc = "leaving")'
  BY <1>1, <1>5 DEF Gated, InChain, Accounts, IInv, Exclusive
<1> QED
  BY <1>1, <1>4, <1>5, <1>13, <1>14 DEF Accounts

\* A permit goes back: to the first in the queue, or to the semaphore.
LEMMA PermitBack ==
  ASSUME IInv, Accounts, NEW c \in Request, Leave(c), req[c].pc \notin {"idle", "queued"}
  PROVE  Accounts'
<1> DEFINE p == ProcessOf[c]  s == queue[p]  t == queue'[p]  H == Holders(p)
<1>1. /\ p \in Process /\ s \in Seq(Request) /\ Accounted(p) /\ free[p] \in Nat
      /\ free \in [Process -> Nat] /\ queue \in [Process -> Seq(Request)]
      /\ lock' = lock \ {c} /\ IsFiniteSet(H) /\ Cardinality(H) \in Nat
      /\ \A d \in lock : Gated(d) \/ req[d].pc = "leaving"
      /\ lock \subseteq Request
  BY HoldersFinite DEF Accounts, Leave, IInv, Exclusive
<1>2. Idle.pc = "idle" /\ c \in H /\ c \notin Waiters(p)
  BY DEF Idle, Holders, Waiters, Tasks
<1>3. /\ Distinct(s) /\ \A d \in Request : d \in Waiters(p) <=> Stands(d, s)
      /\ free[p] > 0 => s = <<>>
      /\ free[p] + Cardinality(H) = Limit
  BY <1>1 DEF Accounted
<1>4. CASE s = <<>>
  <2>1. req' = [req EXCEPT ![c] = Idle] /\ free' = [free EXCEPT ![p] = @ + 1] /\ queue' = queue
    BY <1>4 DEF Leave, Release
  <2>2. /\ \A q \in Process \ {p} : Accounted(q)'
        /\ req'[c] = Idle /\ \A d \in Request \ {c} : req'[d] = req[d]
    BY <1>1, <2>1, Elsewhere
  <2>3. free'[p] = free[p] + 1 /\ t = s /\ free' \in [Process -> Nat]
    BY <1>1, <2>1
  <2>4. Holders(p)' = H \ {c} /\ Waiters(p)' = Waiters(p)
    BY <1>2, <2>2 DEF Holders, Waiters, Tasks
  <2> HIDE DEF H, s, t
  <2>5. Cardinality(H \ {c}) = Cardinality(H) - 1
    BY <1>1, <1>2, FS_RemoveElement
  <2>6. free'[p] + Cardinality(Holders(p)') = Limit
    BY <1>1, <1>3, <2>3, <2>4, <2>5
  <2>7. Accounted(p)'
    BY <1>3, <1>4, <2>3, <2>4, <2>6 DEF Accounted, t
  <2>8. \A d \in lock' : (Gated(d) \/ req[d].pc = "leaving")'
    BY <1>1, <2>2 DEF Gated, InChain
  <2> QED
    BY <1>1, <2>1, <2>2, <2>3, <2>7, <2>8 DEF Accounts
<1>5. CASE s # <<>>
  <2> DEFINE n == Head(s)
             up == [req[n] EXCEPT !.pc = "polling", !.timer = req[n].left]
  <2>1. /\ req' = [req EXCEPT ![c] = Idle, ![n] = up]
        /\ queue' = [queue EXCEPT ![p] = Tail(s)] /\ free' = free
    BY <1>5 DEF Leave, Release
  <2>2. t = Tail(s) /\ queue' \in [Process -> Seq(Request)] /\ n \in Request /\ n = s[1]
          /\ 1 \in 1 .. Len(s)
    BY <1>1, <1>5, <2>1, SMTT(20)
  <2>3. n \in Waiters(p)
    BY <1>3, <2>2 DEF Stands
  <2>4. n # c /\ ProcessOf[n] = p /\ req[n].pc = "queued" /\ n \notin H
    BY <1>2, <2>3 DEF Waiters, Holders, Tasks
  <2>5. up.pc = "polling"
    BY <2>2 DEF IInv, Requests, RequestState
  <2>6. \A d \in Request : req'[d] = IF d = n THEN up ELSE IF d = c THEN Idle ELSE req[d]
    BY <2>1, <2>2 DEF IInv, Requests
  <2> HIDE DEF n, up
  <2>7. ASSUME NEW q \in Process \ {p} PROVE Accounted(q)'
    <3>1. free'[q] = free[q] /\ queue'[q] = queue[q]
      BY <1>1, <2>1
    <3>2. \A d \in Tasks(q) : req'[d] = req[d]
      BY <2>4, <2>6 DEF Tasks
    <3> QED
      BY <3>1, <3>2, Unmoved
  <2>8. Holders(p)' = (H \ {c}) \cup {n} /\ Waiters(p)' = Waiters(p) \ {n}
    <3>1. \A d \in Request : req'[d].pc = IF d = n THEN "polling"
                                            ELSE IF d = c THEN "idle" ELSE req[d].pc
      BY <1>2, <2>5, <2>6
    <3>2. Holders(p)' = {d \in Tasks(p) : req'[d].pc \notin {"idle", "queued"}}
      BY DEF Holders, Tasks
    <3>3. Waiters(p)' = {d \in Tasks(p) : req'[d].pc = "queued"}
      BY DEF Waiters, Tasks
    <3>4. c \in Tasks(p) /\ n \in Tasks(p) /\ Tasks(p) \subseteq Request
      BY <2>2, <2>4 DEF Tasks
    <3>5. Holders(p)' = (H \ {c}) \cup {n}
      BY <2>4, <3>1, <3>2, <3>4 DEF Holders
    <3>6. Waiters(p)' = Waiters(p) \ {n}
      BY <1>2, <2>4, <3>1, <3>3, <3>4 DEF Waiters
    <3> QED
      BY <3>5, <3>6
  <2> HIDE DEF H
  <2>9. Cardinality((H \ {c}) \cup {n}) = Cardinality(H)
    <3> DEFINE K == H \ {c}
    <3>1. IsFiniteSet(K) /\ Cardinality(K) = Cardinality(H) - 1 /\ n \notin K
      BY <1>1, <1>2, <2>4, FS_RemoveElement
    <3> HIDE DEF K
    <3>2. Cardinality(K \cup {n}) = Cardinality(K) + 1
      BY <3>1, FS_AddElement
    <3> QED
      BY <1>1, <3>1, <3>2 DEF K
  <2>10. Distinct(t) /\ \A d \in Request : Stands(d, t) <=> Stands(d, s) /\ d # n
    <3> HIDE DEF s, t
    <3>1. Len(s) \in Nat /\ Len(t) = Len(s) - 1 /\ \A i \in 1 .. Len(t) : t[i] = s[i + 1]
      BY <1>1, <1>5, <2>2
    <3>2. ASSUME NEW i \in 1 .. Len(t), NEW j \in 1 .. Len(t), t[i] = t[j] PROVE i = j
      <4>1. s[i + 1] = s[j + 1] /\ i + 1 \in 1 .. Len(s) /\ j + 1 \in 1 .. Len(s)
        BY <3>1, <3>2
      <4>2. i + 1 = j + 1
        BY <1>3, <4>1 DEF Distinct
      <4> QED
        BY <4>2
    <3>3. ASSUME NEW d \in Request, NEW i \in 1 .. Len(t), t[i] = d PROVE Stands(d, s) /\ d # n
      <4>1. s[i + 1] = d /\ i + 1 \in 1 .. Len(s) /\ i + 1 # 1
        BY <3>1, <3>3, SMTT(40)
      <4>2. Stands(d, s)
        BY <4>1 DEF Stands
      <4>3. s[1] # s[i + 1]
        BY <1>3, <2>2, <4>1 DEF Distinct
      <4> QED
        BY <2>2, <4>1, <4>2, <4>3
    <3>4. ASSUME NEW d \in Request, NEW i \in 1 .. Len(s), s[i] = d, d # n PROVE Stands(d, t)
      <4>1. i # 1
        BY <2>2, <3>4
      <4>2. i - 1 \in 1 .. Len(t) /\ (i - 1) + 1 = i
        BY <3>1, <4>1
      <4>3. t[i - 1] = d
        BY <3>1, <3>4, <4>2
      <4> QED
        BY <4>2, <4>3 DEF Stands
    <3> QED
      BY <3>2, <3>3, <3>4 DEF Distinct, Stands
  <2>11. free[p] = 0
    BY <1>1, <1>3, <1>5
  <2>12. Accounted(p)'
    BY <1>3, <2>1, <2>8, <2>9, <2>10, <2>11 DEF Accounted, H
  <2>13. \A d \in lock' : (Gated(d) \/ req[d].pc = "leaving")'
    <3> TAKE d \in lock'
    <3>1. d \in Request /\ d # c /\ (Gated(d) \/ req[d].pc = "leaving")
      BY <1>1
    <3>2. d # n
      BY <2>4, <3>1 DEF Gated, InChain
    <3> QED
      BY <2>6, <3>1, <3>2 DEF Gated, InChain
  <2> QED
    BY <1>1, <2>1, <2>2, <2>7, <2>12, <2>13 DEF Accounts
<1> QED
  BY <1>4, <1>5

\* A process that restarts has all its permits and nobody who waits.
LEMMA AllBack ==
  ASSUME IInv, Accounts, NEW p \in Process, Restart(p)
  PROVE  Accounts'
<1>1. /\ free' = [free EXCEPT ![p] = Limit] /\ queue' = [queue EXCEPT ![p] = <<>>]
      /\ lock' = lock \ Tasks(p) /\ \A d \in Request \ Tasks(p) : req'[d] = req[d]
      /\ \A d \in Tasks(p) : req'[d].pc = "idle"
  BY DEF Restart, Tasks, Idle
<1>2. free' \in [Process -> Nat] /\ queue' \in [Process -> Seq(Request)]
        /\ free'[p] = Limit /\ queue'[p] = <<>> /\ Len(<<>>) = 0
  BY <1>1 DEF Accounts
<1>3. ASSUME NEW q \in Process \ {p} PROVE Accounted(q)'
  <2>1. free'[q] = free[q] /\ queue'[q] = queue[q]
    BY <1>1 DEF Accounts
  <2>2. \A d \in Tasks(q) : req'[d] = req[d]
    BY <1>1 DEF Tasks
  <2> QED
    BY <2>1, <2>2, Unmoved
<1>4. Holders(p)' = {} /\ Waiters(p)' = {}
  BY <1>1 DEF Holders, Waiters, Tasks
<1>5. Cardinality({}) = 0 /\ Limit + 0 = Limit
  BY FS_EmptySet
<1>6. Accounted(p)'
  BY <1>2, <1>4, <1>5 DEF Accounted, Distinct, Stands
<1>7. \A d \in lock' : (Gated(d) \/ req[d].pc = "leaving")'
  BY <1>1 DEF Gated, InChain, Accounts, IInv, Exclusive
<1> QED
  BY <1>2, <1>3, <1>6, <1>7 DEF Accounts

\* A fresh program has every permit.
LEMMA InitAccounts == Init => Accounts
<1> SUFFICES ASSUME Init PROVE Accounts
  OBVIOUS
<1>1. free = [p \in Process |-> Limit] /\ queue = [p \in Process |-> <<>>] /\ lock = {}
        /\ \A c \in Request : req[c].pc = "idle"
  BY DEF Init, Idle
<1>2. ASSUME NEW p \in Process PROVE Accounted(p)
  <2>1. Holders(p) = {} /\ Waiters(p) = {}
    BY <1>1 DEF Holders, Waiters, Tasks
  <2>2. Cardinality({}) = 0 /\ Limit + 0 = Limit /\ Len(<<>>) = 0
    BY FS_EmptySet
  <2> QED
    BY <1>1, <2>1, <2>2 DEF Accounted, Distinct, Stands
<1> QED
  BY <1>1, <1>2 DEF Accounts

\* Every step keeps the accounts.
LEMMA NextAccounts == IInv /\ Accounts /\ [Next]_vars => Accounts'
<1> SUFFICES ASSUME IInv, Accounts, [Next]_vars PROVE Accounts'
  OBVIOUS
<1>a. \A c \in Request : req[c] \in RequestState
  BY DEF IInv, Requests
<1>b. Done.pc = "leaving"
  BY DEF Done, Idle
<1>c. ASSUME NEW c \in Request, NEW m, NEW n PROVE Attempt(c, m, n).pc \in {"http", "leaving"}
  BY <1>a, <1>b DEF Attempt, RequestState
<1>d. ASSUME NEW c \in Request, NEW a PROVE Recording(c, a).pc = "recording"
  BY <1>a DEF Recording, RequestState
<1>e. ASSUME UNCHANGED <<req, free, queue>>, lock' \subseteq lock PROVE Accounts'
  BY <1>e, Unmoved DEF Accounts, Gated, InChain
<1>1. ASSUME NEW c \in Request, AnswerFromCache(c) \/ SessionLost(c) PROVE Accounts'
  BY <1>1, <1>e DEF AnswerFromCache, SessionLost
<1>2. ASSUME NEW c \in Request, TakePermit(c) PROVE Accounts'
  <2>1. PICK k \in Asks[c] : req' = [req EXCEPT ![c] = New(k, "polling", Budget)]
    BY <1>2 DEF TakePermit
  <2>2. New(k, "polling", Budget).pc = "polling"
    BY NewIsProper
  <2> QED
    BY <1>2, <2>1, <2>2, PermitTaken DEF TakePermit
<1>3. ASSUME NEW c \in Request, WaitForPermit(c) PROVE Accounts'
  <2> DEFINE t == Lesser(HttpTimeout, Budget)
  <2>1. PICK k \in Asks[c] : req' = [req EXCEPT ![c] = New(k, "queued", t)]
    BY <1>3 DEF WaitForPermit
  <2>2. t \in 0 .. Budget
    BY DEF Lesser
  <2>3. New(k, "queued", t).pc = "queued"
    BY <2>2, NewIsProper
  <2> QED
    BY <1>3, <2>1, <2>3, Queued DEF WaitForPermit
<1>4. ASSUME NEW c \in Request, LeaveQueue(c) \/ QueueTimesOut(c) PROVE Accounts'
  BY <1>4, Unqueued DEF QueueTimesOut
<1>5. ASSUME NEW c \in Request, Poll(c) PROVE Accounts'
  <2> DEFINE s == [req[c] EXCEPT !.pc = "asking", !.timer = 0]
  <2>1. req' = [req EXCEPT ![c] = s] /\ lock' \subseteq lock \cup {c} /\ req[c].pc = "polling"
          /\ UNCHANGED <<free, queue>>
    BY <1>5 DEF Poll
  <2>2. s.pc = "asking"
    BY <1>a DEF RequestState
  <2> QED
    BY <2>1, <2>2, PermitKept
<1>6. ASSUME NEW c \in Request, GateTimesOut(c) \/ GateFails(c) \/ Unlock(c) PROVE Accounts'
  BY <1>6, PermitBack DEF GateTimesOut, GateFails, Unlock
<1>7. ASSUME NEW c \in Request, Enter(c) PROVE Accounts'
  <2> DEFINE r == IF Live(ProcessOf[c], req[c].key) THEN Done ELSE Attempt(c, 1, 1)
  <2>1. r.pc \in {"http", "leaving"}
    BY <1>b, <1>c
  <2>2. req' = [req EXCEPT ![c] = r] /\ UNCHANGED <<free, queue, lock>> /\ req[c].pc = "asking"
    BY <1>7 DEF Enter
  <2> HIDE DEF r
  <2> QED
    BY <2>1, <2>2, PermitKept
<1>8. ASSUME NEW c \in Request, BackOff(c) PROVE Accounts'
  <2>1. PICK d \in RetryDelay[req[c].attempt] :
          req' = [req EXCEPT ![c].pc = "backoff", ![c].timer = Lesser(d, req[c].left)]
    BY <1>8 DEF BackOff
  <2> DEFINE s == [req[c] EXCEPT !.pc = "backoff", !.timer = Lesser(d, req[c].left)]
  <2>2. req' = [req EXCEPT ![c] = s] /\ UNCHANGED <<free, queue, lock>> /\ req[c].pc = "http"
    BY <1>8, <2>1, ZenonT(40) DEF BackOff
  <2>3. s.pc = "backoff"
    BY <1>a DEF RequestState
  <2> HIDE DEF s
  <2> QED
    BY <2>2, <2>3, PermitKept
<1>9. ASSUME NEW c \in Request, BackOffEnds(c) \/ Answered(c) \/ HttpTimesOut(c) PROVE Accounts'
  <2>1. PICK a \in Answer : req' = [req EXCEPT ![c] = Recording(c, a)]
    BY <1>9 DEF BackOffEnds, Answered, HttpTimesOut, Answer
  <2>2. req[c].pc \in {"http", "backoff"} /\ UNCHANGED <<free, queue, lock>>
    BY <1>9 DEF BackOffEnds, Answered, HttpTimesOut
  <2> QED
    BY <1>d, <2>1, <2>2, PermitKept
<1>10. ASSUME NEW c \in Request, Recorded(c) PROVE Accounts'
  <2>1. PICK r \in {Done, Attempt(c, req[c].model, req[c].attempt + 1),
                    Attempt(c, req[c].model + 1, 1)} : req' = [req EXCEPT ![c] = r]
    BY <1>10 DEF Recorded
  <2>2. r.pc \in {"http", "leaving"} /\ req[c].pc = "recording" /\ UNCHANGED <<free, queue, lock>>
    BY <1>10, <1>b, <1>c DEF Recorded
  <2> QED
    BY <2>1, <2>2, PermitKept
<1>11. ASSUME NEW c \in Request, RecordedPlan(c) \/ ChainFails(c) PROVE Accounts'
  <2>1. req' = [req EXCEPT ![c] = Done] /\ UNCHANGED <<free, queue, lock>>
          /\ req[c].pc \in {"http", "backoff", "recording"}
    BY <1>11 DEF RecordedPlan, ChainFails
  <2> QED
    BY <1>b, <2>1, PermitKept
<1>12. ASSUME NEW p \in Process, Restart(p) PROVE Accounts'
  BY <1>12, AllBack
<1>13. ASSUME Tick PROVE Accounts'
  <2>1. \A c \in Request : req'[c].pc = req[c].pc
    BY <1>13, <1>a DEF Tick, RequestState
  <2>2. UNCHANGED <<free, queue, lock>>
    BY <1>13 DEF Tick
  <2> QED
    BY <2>1, <2>2, Unmoved DEF Accounts, Gated, InChain, IInv, Exclusive, Tasks
<1>14. ASSUME UNCHANGED vars PROVE Accounts'
  BY <1>14, <1>e DEF vars
<1> QED
  BY <1>1, <1>2, <1>3, <1>4, <1>5, <1>6, <1>7, <1>8, <1>9, <1>10, <1>11, <1>12, <1>13, <1>14
     DEF Next

\* However a request ends, its permit and its lock are given back, once, in the
\* semaphore of NvidiaNimClient and the gate of PostgresNimGate.
THEOREM EverythingGivenBack == Spec => []GivenBack
<1>1. Spec => [](IInv /\ Accounts)
  BY InitIInv, NextIInv, InitAccounts, NextAccounts, PTL DEF Spec
<1>2. ASSUME IInv, Accounts PROVE GivenBack
  <2>1. ASSUME NEW p \in Process
        PROVE  /\ free[p] + Cardinality(Holders(p)) = Limit
               /\ {queue[p][i] : i \in DOMAIN queue[p]} = Waiters(p)
               /\ Len(queue[p]) = Cardinality(Waiters(p))
               /\ free[p] > 0 => queue[p] = <<>>
    <3> DEFINE s == queue[p]
    <3>1. s \in Seq(Request) /\ DOMAIN s = 1 .. Len(s) /\ Len(s) \in Nat /\ Accounted(p)
      BY <1>2 DEF Accounts
    <3>2. Waiters(p) \subseteq Request
      BY DEF Waiters, Tasks
    <3>3. /\ free[p] + Cardinality(Holders(p)) = Limit
          /\ free[p] > 0 => s = <<>>
          /\ Distinct(s) /\ \A d \in Request : d \in Waiters(p) <=> Stands(d, s)
      BY <3>1 DEF Accounted
    <3> HIDE DEF s
    <3>4. {s[i] : i \in DOMAIN s} = Waiters(p)
      BY <3>1, <3>2, <3>3 DEF Stands
    <3>5. s \in Bijection(1 .. Len(s), Waiters(p))
      <4>1. s \in [1 .. Len(s) -> Waiters(p)]
        BY <3>1, <3>4
      <4>2. \A d \in Waiters(p) : \E i \in 1 .. Len(s) : s[i] = d
        BY <3>2, <3>3 DEF Stands
      <4>3. \A i, j \in 1 .. Len(s) : s[i] = s[j] => i = j
        BY <3>3 DEF Distinct
      <4> QED
        BY <4>1, <4>2, <4>3 DEF Bijection, Injection, Surjection, IsInjective
    <3>6. Len(s) = Cardinality(Waiters(p))
      BY <3>1, <3>5, FS_CountingElements DEF ExistsBijection
    <3> QED
      BY <3>3, <3>4, <3>6, Zenon DEF s
  <2>2. \A c \in lock : InChain(c) \/ req[c].pc \in {"asking", "leaving"}
    BY <1>2 DEF Accounts, Gated
  <2> QED
    BY <2>1, <2>2 DEF GivenBack, Holders, Waiters
<1> QED
  BY <1>1, <1>2, PTL

-----------------------------------------------------------------------------
(* What is paid for once. *)

\* The cache has kept the latest answer as long as that is fresh.
Remembered ==
  /\ DOMAIN cache = Process
  /\ last \in [Process -> Entry]
  /\ \A p \in Process : last[p].left > 0 => cache[p].left[last[p].key] = last[p].left

\* A look into the cache takes nothing fresh out of it.
LEMMA LookedKeeps ==
  ASSUME Remembered, NEW p \in Process, NEW k,
         cache' = [cache EXCEPT ![p] = Looked(p, k)], UNCHANGED last
  PROVE  Remembered'
<1>1. DOMAIN cache' = Process /\ \A q \in Process : cache'[q].left = cache[q].left
  BY DEF Remembered, Looked
<1> QED
  BY <1>1 DEF Remembered

\* An answer put into the cache is not the one that makes room.
LEMMA PutRemembers ==
  ASSUME Remembered, NEW p \in Process, NEW k \in Key,
         cache' = [cache EXCEPT ![p] = Put(p, k)],
         last' = [last EXCEPT ![p] = [key |-> k, left |-> Ttl]]
  PROVE  Remembered'
<1>1. DOMAIN cache' = Process /\ cache'[p] = Put(p, k)
        /\ \A q \in Process \ {p} : cache'[q] = cache[q]
  BY DEF Remembered
<1>2. Put(p, k).left[k] = Ttl
  BY DEF Put
<1>3. last' \in [Process -> Entry] /\ last'[p].key = k /\ last'[p].left = Ttl
        /\ \A q \in Process \ {p} : last'[q] = last[q]
  BY DEF Remembered, Entry
<1> QED
  BY <1>1, <1>2, <1>3 DEF Remembered

\* What is remembered expires in the cache and in the history together.
LEMMA TimeRemembers ==
  ASSUME Remembered, Tick
  PROVE  Remembered'
<1>1. DOMAIN cache' = Process /\ \A p \in Process : cache'[p] = AgedCache(cache[p])
  BY DEF Tick
<1>2. \A p \in Process : last'[p] = IF last[p].left > 1 THEN Aged(last[p]) ELSE Nothing
  BY DEF Tick
<1>3. Nothing \in Entry /\ Nothing.left = 0
  BY SomeKeyIsKey DEF Nothing, Entry
<1>4. ASSUME NEW p \in Process
      PROVE  /\ last'[p] \in Entry
             /\ last'[p].left > 0 => cache'[p].left[last'[p].key] = last'[p].left
  <2>1. last[p] \in Entry /\ last[p].key \in Key /\ last[p].left \in Nat
    BY DEF Remembered, Entry
  <2>2. CASE last[p].left > 1
    <3>1. Aged(last[p]).key = last[p].key /\ Aged(last[p]).left = last[p].left - 1
            /\ Aged(last[p]) \in Entry
      BY <2>1, <2>2 DEF Aged, Less, Entry
    <3>2. cache[p].left[last[p].key] = last[p].left
      BY <2>1, <2>2 DEF Remembered
    <3>3. AgedCache(cache[p]).left[last[p].key] = last[p].left - 1
      BY <2>1, <2>2, <3>2 DEF AgedCache, Less
    <3> QED
      BY <1>1, <1>2, <2>2, <3>1, <3>3
  <2>3. CASE ~ (last[p].left > 1)
    BY <1>2, <1>3, <2>3
  <2> QED
    BY <2>2, <2>3
<1>5. last' \in [Process -> Entry]
  BY <1>4 DEF Tick
<1> QED
  BY <1>1, <1>4, <1>5 DEF Remembered

\* A fresh program has no answer to remember.
LEMMA InitRemembered == Init => Remembered
<1>1. Nothing \in Entry /\ Nothing.left = 0
  BY SomeKeyIsKey DEF Nothing, Entry
<1> QED
  BY <1>1 DEF Init, Remembered

\* Every step keeps the latest answer where requests look for it.
LEMMA NextRemembered == IInv /\ Remembered /\ [Next]_vars => Remembered'
<1> SUFFICES ASSUME IInv, Remembered, [Next]_vars PROVE Remembered'
  OBVIOUS
<1>a. ASSUME UNCHANGED <<cache, last>> PROVE Remembered'
  BY <1>a DEF Remembered
<1>1. ASSUME NEW c \in Request, AnswerFromCache(c) \/ TakePermit(c) \/ WaitForPermit(c) \/ Enter(c)
      PROVE  Remembered'
  <2>1. PICK k : cache' = [cache EXCEPT ![ProcessOf[c]] = Looked(ProcessOf[c], k)]
    BY <1>1 DEF AnswerFromCache, TakePermit, WaitForPermit, Enter
  <2>2. UNCHANGED last
    BY <1>1 DEF AnswerFromCache, TakePermit, WaitForPermit, Enter
  <2> QED
    BY <2>1, <2>2, LookedKeeps
<1>2. ASSUME NEW c \in Request,
             \/ LeaveQueue(c) \/ QueueTimesOut(c) \/ Poll(c) \/ GateTimesOut(c) \/ GateFails(c)
             \/ Answered(c) \/ HttpTimesOut(c) \/ BackOff(c) \/ BackOffEnds(c)
             \/ Recorded(c) \/ ChainFails(c) \/ Unlock(c) \/ SessionLost(c)
      PROVE  Remembered'
  BY <1>a, <1>2 DEF LeaveQueue, QueueTimesOut, Poll, GateTimesOut, GateFails, Leave, Answered,
     HttpTimesOut, BackOff, BackOffEnds, Recorded, ChainFails, Unlock, SessionLost
<1>3. ASSUME NEW c \in Request, RecordedPlan(c) PROVE Remembered'
  <2>1. req[c].key \in Key
    BY DEF IInv, Requests, RequestState
  <2> QED
    BY <1>3, <2>1, PutRemembers DEF RecordedPlan
<1>4. ASSUME NEW p \in Process, Restart(p) PROVE Remembered'
  <2>1. Nothing \in Entry /\ Nothing.left = 0
    BY SomeKeyIsKey DEF Nothing, Entry
  <2>2. DOMAIN cache' = Process /\ \A q \in Process \ {p} : cache'[q] = cache[q]
    BY <1>4 DEF Restart, Remembered
  <2>3. last' \in [Process -> Entry] /\ last'[p] = Nothing
          /\ \A q \in Process \ {p} : last'[q] = last[q]
    BY <1>4, <2>1 DEF Restart, Remembered
  <2> QED
    BY <2>1, <2>2, <2>3 DEF Remembered
<1>5. CASE Tick
  BY <1>5, TimeRemembers
<1>6. CASE UNCHANGED vars
  BY <1>6, <1>a DEF vars
<1> QED
  BY <1>1, <1>2, <1>3, <1>4, <1>5, <1>6 DEF Next

\* A request that has the lock leaves the gate or looks into the cache.
LEMMA OnlyEnterAsks ==
  ASSUME IInv, [Next]_vars, NEW c \in Request, req[c].pc = "asking", req'[c].pc = "http"
  PROVE  Enter(c)
<1>a. \A d \in Request : req[d] \in RequestState
  BY DEF IInv, Requests
<1>b. Idle.pc = "idle" /\ Done.pc = "leaving"
  BY DEF Idle, Done
<1>c. ASSUME NEW d \in Request, NEW r, req' = [req EXCEPT ![d] = r], d # c \/ r.pc # "http"
      PROVE  FALSE
  BY <1>c DEF IInv, Requests
<1>1. ASSUME NEW d \in Request, AnswerFromCache(d) \/ SessionLost(d) PROVE FALSE
  BY <1>1 DEF AnswerFromCache, SessionLost
<1>2. ASSUME NEW d \in Request, TakePermit(d) \/ WaitForPermit(d) \/ LeaveQueue(d) \/ QueueTimesOut(d)
      PROVE  FALSE
  <2>1. PICK r : req' = [req EXCEPT ![d] = r]
    BY <1>2 DEF TakePermit, WaitForPermit, LeaveQueue, QueueTimesOut
  <2>2. req[d].pc # "asking"
    BY <1>2 DEF TakePermit, WaitForPermit, LeaveQueue, QueueTimesOut
  <2> QED
    BY <1>c, <2>1, <2>2
<1>3. ASSUME NEW d \in Request, Poll(d) PROVE FALSE
  <2> DEFINE s == [req[d] EXCEPT !.pc = "asking", !.timer = 0]
  <2>1. req' = [req EXCEPT ![d] = s] /\ req[d].pc = "polling"
    BY <1>3 DEF Poll
  <2> HIDE DEF s
  <2> QED
    BY <1>c, <2>1
<1>4. ASSUME NEW d \in Request, GateTimesOut(d) \/ GateFails(d) \/ Unlock(d) PROVE FALSE
  <2>1. Release(d)
    BY <1>4 DEF GateTimesOut, GateFails, Unlock, Leave
  <2>2. Gated(c)' => c # d
    BY <2>1, ReleaseKeeps
  <2> DEFINE n == Head(queue[ProcessOf[d]])
             up == [req[n] EXCEPT !.pc = "polling", !.timer = req[n].left]
  <2>3. CASE req' = [req EXCEPT ![d] = Idle]
    BY <1>b, <1>c, <2>3
  <2>4. CASE req' = [req EXCEPT ![d] = Idle, ![n] = up]
    <3>1. req'[c] = IF c = n THEN up ELSE IF c = d THEN Idle ELSE req[c]
      BY <2>4 DEF IInv, Requests
    <3>2. c = n => up.pc = "polling"
      BY <1>a DEF RequestState
    <3> HIDE DEF up
    <3> QED
      BY <1>b, <3>1, <3>2
  <2> QED
    BY <2>1, <2>3, <2>4 DEF Release
<1>5. ASSUME NEW d \in Request,
             \/ Answered(d) \/ HttpTimesOut(d) \/ BackOff(d) \/ BackOffEnds(d)
             \/ Recorded(d) \/ RecordedPlan(d) \/ ChainFails(d)
      PROVE  FALSE
  <2>1. req[d].pc # "asking"
    BY <1>5 DEF Answered, HttpTimesOut, BackOff, BackOffEnds, Recorded, RecordedPlan, ChainFails
  <2>2. \A e \in Request \ {d} : req'[e] = req[e]
    BY <1>5 DEF Answered, HttpTimesOut, BackOff, BackOffEnds, Recorded, RecordedPlan, ChainFails,
       IInv, Requests
  <2> QED
    BY <2>1, <2>2
<1>6. ASSUME NEW p \in Process, Restart(p) PROVE FALSE
  BY <1>6, <1>b DEF Restart
<1>7. CASE Tick
  BY <1>7, <1>a DEF Tick, RequestState
<1>8. CASE UNCHANGED vars
  BY <1>8 DEF vars
<1>9. ASSUME NEW d \in Request, Enter(d) PROVE Enter(c)
  <2>1. PICK r : req' = [req EXCEPT ![d] = r]
    BY <1>9 DEF Enter
  <2> QED
    BY <1>9, <1>c, <2>1
<1> QED
  BY <1>1, <1>2, <1>3, <1>4, <1>5, <1>6, <1>7, <1>8, <1>9 DEF Next

\* NIM is not asked again for what it has answered last while that is fresh: the
\* second look of NimClient.parse into the cache, inside the gate, finds it.
THEOREM AnswersAreNotPaidTwice == Spec => NoPaidRepeat
<1> DEFINE Known(c) == last[ProcessOf[c]].key = req[c].key /\ last[ProcessOf[c]].left > 0
<1>1. ASSUME IInv, Remembered, [Next]_vars, NEW c \in Request,
             req[c].pc = "asking", req'[c].pc = "http"
      PROVE  ~ Known(c)
  <2>1. Enter(c)
    BY <1>1, OnlyEnterAsks
  <2>2. req'[c] = IF Live(ProcessOf[c], req[c].key) THEN Done ELSE Attempt(c, 1, 1)
    BY <1>1, <2>1 DEF Enter, IInv, Requests
  <2>3. Done.pc = "leaving"
    BY DEF Done, Idle
  <2>4. ~ Live(ProcessOf[c], req[c].key)
    BY <1>1, <2>2, <2>3
  <2> QED
    BY <1>1, <2>4 DEF Live, Remembered
<1>2. Spec => [](IInv /\ Remembered)
  BY InitIInv, NextIInv, InitRemembered, NextRemembered, PTL DEF Spec
<1>3. IInv /\ Remembered /\ [Next]_vars =>
        [\A c \in Request :
           LET p == ProcessOf[c]
           IN  req[c].pc = "asking" /\ req'[c].pc = "http" =>
                 ~ (last[p].key = req[c].key /\ last[p].left > 0)]_vars
  BY <1>1
<1> QED
  BY <1>2, <1>3, PTL DEF Spec, NoPaidRepeat
=============================================================================
