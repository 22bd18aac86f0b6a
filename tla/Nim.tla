-------------------------------- MODULE Nim --------------------------------
(***************************************************************************)
(* domain/nim.py, nim_ops.py and the part of ai.py around them: how a      *)
(* phrase gets to a model of NVIDIA NIM and back.                          *)
(*                                                                         *)
(* A request passes a cache and a semaphore of its process, then an        *)
(* advisory lock that all processes share, looks into the cache again and  *)
(* walks the chain of models, with retries at the first, under one         *)
(* deadline.  Whatever ends it, the lock and the permit go back.  Every    *)
(* attempt is written to the journal of calls before the chain goes on.    *)
(*                                                                         *)
(* Time is kept as what is left of every deadline, timer and cache entry,  *)
(* so that no clock has to be bounded.  Code between two awaits is one     *)
(* step; the cache never waits (nothing is awaited under its own lock).    *)
(***************************************************************************)
EXTENDS Naturals, SequencesExt

CONSTANTS
  Process,      \* api and bot
  Request,      \* handler tasks that may ask for a phrase to be parsed
  ProcessOf,    \* the process a task runs in
  Key,          \* cache keys: what determines an answer
  Asks,         \* per task: the keys it may ask for
  Limit,        \* nvidia_max_concurrency
  MaxRetries,   \* nvidia_max_retries
  Models,       \* length of the chain of models
  Budget,       \* nvidia_total_timeout_s
  HttpTimeout,  \* nvidia_timeout_s
  RetryDelay,   \* per attempt: what a backoff or a Retry-After may last
  Ttl,          \* ttl_s of the cache
  MaxEntries    \* max_entries of the cache

ASSUME NimAssumption ==
  /\ IsFiniteSet(Request) /\ ProcessOf \in [Request -> Process]
  /\ Key # {} /\ Asks \in [Request -> SUBSET Key]
  /\ Limit \in Nat \ {0} /\ MaxEntries \in Nat \ {0}
  /\ MaxRetries \in Nat /\ Models \in Nat \ {0}
  /\ Budget \in Nat \ {0} /\ HttpTimeout \in Nat \ {0} /\ Ttl \in Nat \ {0}
  /\ RetryDelay \in [1 .. MaxRetries -> SUBSET Nat]

VARIABLES
  req,     \* per task: where its request stands
  free,    \* per process: permits left in the semaphore
  queue,   \* per process: requests waiting for a permit, in order
  lock,    \* the request whose database session holds the advisory lock
  cache,   \* per process: keys, the least recently used first, and what each has left
  orphan,  \* history: requests whose session was lost while they held the lock
  last     \* history, per process: the latest answer given to the cache

vars == <<req, free, queue, lock, cache, orphan, last>>

Answer == {"again", "next", "stop", "unsure", "plan"}

RequestState ==
  [pc      : {"idle", "queued", "polling", "asking", "http", "backoff",
              "recording", "leaving"},
   key     : Key,
   left    : 0 .. Budget,            \* until the deadline
   timer   : Nat,                    \* until the wait it is in is given up
   model   : 1 .. Models,
   attempt : 0 .. MaxRetries + 1,    \* attempts at that model
   answer  : Answer]                 \* what is being recorded

Entry == [key : Key, left : 0 .. Ttl]

SomeKey == CHOOSE k \in Key : TRUE

Idle == [pc |-> "idle", key |-> SomeKey, left |-> 0, timer |-> 0, model |-> 1,
         attempt |-> 0, answer |-> "stop"]

Nothing == [key |-> SomeKey, left |-> 0]

Empty == [order |-> <<>>, left |-> [k \in Key |-> 0]]

TypeOK ==
  /\ req \in [Request -> RequestState]
  /\ free \in [Process -> 0 .. Limit]
  /\ queue \in [Process -> Seq(Request)]
  /\ lock \subseteq Request /\ Cardinality(lock) <= 1
  /\ cache \in [Process -> [order : Seq(Key), left : [Key -> 0 .. Ttl]]]
  /\ \A p \in Process : Len(cache[p].order) <= MaxEntries
  /\ orphan \subseteq Request
  /\ last \in [Process -> Entry]

Init ==
  /\ req = [c \in Request |-> Idle]
  /\ free = [p \in Process |-> Limit]
  /\ queue = [p \in Process |-> <<>>]
  /\ lock = {}
  /\ cache = [p \in Process |-> Empty]
  /\ orphan = {}
  /\ last = [p \in Process |-> Nothing]

Lesser(a, b) == IF a < b THEN a ELSE b

Less(n) == IF n > 0 THEN n - 1 ELSE 0

-----------------------------------------------------------------------------
(* The cache. *)

Live(p, k) == cache[p].left[k] > 0

\* NimParseCache.get: a live entry becomes the most recently used one, an
\* expired one is dropped.
Looked(p, k) ==
  LET others == Remove(cache[p].order, k)
  IN  [order |-> IF Live(p, k) THEN Append(others, k) ELSE others,
       left  |-> cache[p].left]

\* _purge_expired.
Fresh(p) == LET Lasts(k) == Live(p, k) IN SelectSeq(cache[p].order, Lasts)

\* NimParseCache.put: the oldest entry makes room.
Put(p, k) ==
  LET kept == Remove(Fresh(p), k)
      room == IF Len(kept) = MaxEntries THEN Tail(kept) ELSE kept
  IN  [order |-> Append(room, k),
       left  |-> [j \in Key |-> IF j = k THEN Ttl
                                ELSE IF j \in ToSet(room) THEN cache[p].left[j] ELSE 0]]

-----------------------------------------------------------------------------
(* The semaphore of a process and the lock all processes share. *)

\* A permit given back goes to the first in the queue.
Release(c) ==
  LET p == ProcessOf[c]
      next == Head(queue[p])
  IN  IF queue[p] = <<>>
        THEN /\ req' = [req EXCEPT ![c] = Idle]
             /\ free' = [free EXCEPT ![p] = @ + 1]
             /\ UNCHANGED queue
        ELSE /\ req' = [req EXCEPT ![c] = Idle,
                                   ![next] = [req[next] EXCEPT !.pc = "polling",
                                                               !.timer = req[next].left]]
             /\ queue' = [queue EXCEPT ![p] = Tail(@)]
             /\ UNCHANGED free

\* The request is over, however it got here; the connection is closed, or
\* invalidated when it may still hold the lock.
Leave(c) ==
  /\ Release(c)
  /\ lock' = lock \ {c}
  /\ orphan' = orphan \ {c}
  /\ UNCHANGED <<cache, last>>

New(k, pc, timer) ==
  [Idle EXCEPT !.pc = pc, !.key = k, !.left = Budget, !.timer = timer]

\* The answer of the request is decided; what is left is to give back.
Done == [Idle EXCEPT !.pc = "leaving"]

AnswerFromCache(c) ==
  LET p == ProcessOf[c]
  IN  /\ req[c].pc = "idle"
      /\ \E k \in Asks[c] : Live(p, k) /\ cache' = [cache EXCEPT ![p] = Looked(p, k)]
      /\ UNCHANGED <<req, free, queue, lock, orphan, last>>

TakePermit(c) ==
  LET p == ProcessOf[c]
  IN  /\ req[c].pc = "idle"
      /\ free[p] > 0
      /\ free' = [free EXCEPT ![p] = @ - 1]
      /\ \E k \in Asks[c] :
           /\ ~ Live(p, k)
           /\ cache' = [cache EXCEPT ![p] = Looked(p, k)]
           /\ req' = [req EXCEPT ![c] = New(k, "polling", Budget)]
      /\ UNCHANGED <<queue, lock, orphan, last>>

WaitForPermit(c) ==
  LET p == ProcessOf[c]
  IN  /\ req[c].pc = "idle"
      /\ free[p] = 0
      /\ queue' = [queue EXCEPT ![p] = Append(@, c)]
      /\ \E k \in Asks[c] :
           /\ ~ Live(p, k)
           /\ cache' = [cache EXCEPT ![p] = Looked(p, k)]
           /\ req' = [req EXCEPT ![c] = New(k, "queued", Lesser(HttpTimeout, Budget))]
      /\ UNCHANGED <<free, lock, orphan, last>>

\* The wait for a permit ends without one.
LeaveQueue(c) ==
  LET p == ProcessOf[c]
  IN  /\ req[c].pc = "queued"
      /\ req' = [req EXCEPT ![c] = Idle]
      /\ \E i \in DOMAIN queue[p] :
           /\ queue[p][i] = c
           /\ queue' = [queue EXCEPT ![p] = RemoveAt(@, i)]
      /\ UNCHANGED <<free, lock, cache, orphan, last>>

QueueTimesOut(c) == req[c].timer = 0 /\ LeaveQueue(c)

\* pg_try_advisory_lock succeeds at the server; the answer is on its way.  A
\* poll that finds the lock taken changes nothing.
Poll(c) ==
  /\ req[c].pc = "polling"
  /\ req[c].left > 0
  /\ lock = {}
  /\ lock' = {c}
  /\ req' = [req EXCEPT ![c].pc = "asking", ![c].timer = 0]
  /\ UNCHANGED <<free, queue, cache, orphan, last>>

GateTimesOut(c) ==
  /\ req[c].pc \in {"polling", "asking"}
  /\ req[c].left = 0
  /\ Leave(c)

\* Connecting, asking or the commit after it fails, or the task is cancelled.
GateFails(c) ==
  /\ req[c].pc \in {"polling", "asking"}
  /\ Leave(c)

-----------------------------------------------------------------------------
(* The chain of models. *)

\* Defect: an attempt may last longer than the request.
AttemptUnbounded(c, m, n) ==
  IF req[c].left = 0
    THEN Done
    ELSE [req[c] EXCEPT !.pc = "http", !.model = m, !.attempt = n, !.answer = "stop",
                        !.timer = HttpTimeout]

\* Attempt n at model m is sent, unless the deadline has passed.
Attempt(c, m, n) ==
  IF req[c].left = 0
    THEN Done
    ELSE [req[c] EXCEPT !.pc = "http", !.model = m, !.attempt = n, !.answer = "stop",
                        !.timer = Lesser(HttpTimeout, req[c].left)]

\* Defect: no second look into the cache.
EnterBlindly(c) ==
  /\ req[c].pc = "asking"
  /\ req' = [req EXCEPT ![c] = Attempt(c, 1, 1)]
  /\ UNCHANGED <<free, queue, lock, cache, orphan, last>>

\* Defect: the lock belongs to the transaction, which is committed here.
EnterUnlocked(c) ==
  LET p == ProcessOf[c]
      k == req[c].key
  IN  /\ req[c].pc = "asking"
      /\ lock' = lock \ {c}
      /\ cache' = [cache EXCEPT ![p] = Looked(p, k)]
      /\ req' = [req EXCEPT ![c] = IF Live(p, k) THEN Done ELSE Attempt(c, 1, 1)]
      /\ UNCHANGED <<free, queue, orphan, last>>

\* The lock is of the session and outlives the commit.  Inside the gate the
\* cache is looked at again.
Enter(c) ==
  LET p == ProcessOf[c]
      k == req[c].key
  IN  /\ req[c].pc = "asking"
      /\ cache' = [cache EXCEPT ![p] = Looked(p, k)]
      /\ req' = [req EXCEPT ![c] = IF Live(p, k) THEN Done ELSE Attempt(c, 1, 1)]
      /\ UNCHANGED <<free, queue, lock, orphan, last>>

\* Three retries at the first model, one attempt at each of the others.
MaxAttempts(m) == IF m = 1 THEN 1 + MaxRetries ELSE 1

Recording(c, a) == [req[c] EXCEPT !.pc = "recording", !.answer = a, !.timer = 0]

\* 429, 5xx or a broken connection while attempts are left; the pause, which
\* Retry-After may set, ends with the deadline at the latest.
BackOff(c) ==
  /\ req[c].pc = "http"
  /\ req[c].attempt < MaxAttempts(req[c].model)
  /\ \E d \in RetryDelay[req[c].attempt] :
       req' = [req EXCEPT ![c].pc = "backoff", ![c].timer = Lesser(d, req[c].left)]
  /\ UNCHANGED <<free, queue, lock, cache, orphan, last>>

\* Recorded only now: RETRY, or FAILED when the deadline came first, in which
\* case no other attempt follows anyway.
BackOffEnds(c) ==
  /\ req[c].pc = "backoff"
  /\ req[c].timer = 0
  /\ req' = [req EXCEPT ![c] = Recording(c, "again")]
  /\ UNCHANGED <<free, queue, lock, cache, orphan, last>>

\* "next": 404, or 429, 5xx or a broken connection at the last attempt; "stop":
\* another error or an answer that does not validate; "unsure": a plan that
\* asks for clarification or lacks confidence.
Answered(c) ==
  /\ req[c].pc = "http"
  /\ \E a \in {"next", "stop", "unsure", "plan"} :
       req' = [req EXCEPT ![c] = Recording(c, a)]
  /\ UNCHANGED <<free, queue, lock, cache, orphan, last>>

\* A timeout is not retried: the next model is asked.
HttpTimesOut(c) ==
  /\ req[c].pc = "http"
  /\ req[c].timer = 0
  /\ req' = [req EXCEPT ![c] = Recording(c, "next")]
  /\ UNCHANGED <<free, queue, lock, cache, orphan, last>>

\* The attempt is in the journal; the chain goes on or is given up.
Recorded(c) ==
  LET r == req[c]
  IN  /\ r.pc = "recording"
      /\ r.answer # "plan"
      /\ req' = [req EXCEPT ![c] =
           IF r.answer = "again" THEN Attempt(c, r.model, r.attempt + 1)
           ELSE IF r.answer = "next" /\ r.model < Models THEN Attempt(c, r.model + 1, 1)
           ELSE Done]
      /\ UNCHANGED <<free, queue, lock, cache, orphan, last>>

\* Only a plan that is recorded and certain enters the cache, before the gate
\* is left.
RecordedPlan(c) ==
  LET p == ProcessOf[c]
      k == req[c].key
  IN  /\ req[c].pc = "recording"
      /\ req[c].answer = "plan"
      /\ cache' = [cache EXCEPT ![p] = Put(p, k)]
      /\ last' = [last EXCEPT ![p] = [key |-> k, left |-> Ttl]]
      /\ req' = [req EXCEPT ![c] = Done]
      /\ UNCHANGED <<free, queue, lock, orphan>>

\* The journal cannot be written, or the task is cancelled inside the chain.
ChainFails(c) ==
  /\ req[c].pc \in {"http", "backoff", "recording"}
  /\ req' = [req EXCEPT ![c] = Done]
  /\ UNCHANGED <<free, queue, lock, cache, orphan, last>>

\* Defect: the connection goes back to the pool although the unlock failed.
UnlockOrKeep(c) ==
  /\ req[c].pc = "leaving"
  /\ Release(c)
  /\ lock' \in {lock, lock \ {c}}
  /\ orphan' = orphan \ {c}
  /\ UNCHANGED <<cache, last>>

\* pg_advisory_unlock; when it fails the connection is invalidated, which ends
\* the session and with it the lock.
Unlock(c) == req[c].pc = "leaving" /\ Leave(c)

-----------------------------------------------------------------------------
(* The environment. *)

\* The database drops the session that holds the lock; the request does not
\* notice before it leaves.
SessionLost(c) ==
  /\ c \in lock
  /\ lock' = {}
  /\ orphan' = orphan \cup {c}
  /\ UNCHANGED <<req, free, queue, cache, last>>

Tasks(p) == {c \in Request : ProcessOf[c] = p}

\* A process dies with its tasks, cache and sessions.
Restart(p) ==
  /\ req' = [c \in Request |-> IF c \in Tasks(p) THEN Idle ELSE req[c]]
  /\ free' = [free EXCEPT ![p] = Limit]
  /\ queue' = [queue EXCEPT ![p] = <<>>]
  /\ cache' = [cache EXCEPT ![p] = Empty]
  /\ last' = [last EXCEPT ![p] = Nothing]
  /\ lock' = lock \ Tasks(p)
  /\ orphan' = orphan \ Tasks(p)

Waiting(c) == req[c].pc \in {"queued", "polling", "http", "backoff"}

Aged(e) == [e EXCEPT !.left = Less(@)]

AgedCache(e) == [order |-> e.order, left |-> [k \in Key |-> Less(e.left[k])]]

\* Time passes; the event loop serves a timer that has run out first.
Tick ==
  /\ \A c \in Request : Waiting(c) => req[c].timer > 0
  /\ req' = [c \in Request |-> [req[c] EXCEPT !.left = Less(@), !.timer = Less(@)]]
  /\ cache' = [p \in Process |-> AgedCache(cache[p])]
  /\ last' = [p \in Process |-> IF last[p].left > 1 THEN Aged(last[p]) ELSE Nothing]
  /\ UNCHANGED <<free, queue, lock, orphan>>

Next ==
  \/ \E c \in Request :
       \/ AnswerFromCache(c) \/ TakePermit(c) \/ WaitForPermit(c)
       \/ LeaveQueue(c) \/ QueueTimesOut(c)
       \/ Poll(c) \/ GateTimesOut(c) \/ GateFails(c) \/ Enter(c)
       \/ Answered(c) \/ HttpTimesOut(c) \/ BackOff(c) \/ BackOffEnds(c)
       \/ Recorded(c) \/ RecordedPlan(c) \/ ChainFails(c)
       \/ Unlock(c) \/ SessionLost(c)
  \/ \E p \in Process : Restart(p)
  \/ Tick

Spec == Init /\ [][Next]_vars

-----------------------------------------------------------------------------
(* Properties. *)

InChain(c) == req[c].pc \in {"http", "backoff", "recording"}

\* Over all processes one chain of requests to NIM runs at a time.  The only
\* chains beside it are those whose database session broke under them: they
\* have lost the lock without knowing.
OneChainAtATime ==
  \A c, d \in Request \ orphan : InChain(c) /\ InChain(d) => c = d

\* However a request ends (answer, error, deadline, cancellation, failed unlock)
\* its permit and its lock are given back, once: permits out and in add up, the
\* queue holds exactly those who wait and nobody waits while a permit is free,
\* and no session keeps the lock for a request that is over.
GivenBack ==
  /\ \A p \in Process :
       /\ free[p] + Cardinality({c \in Tasks(p) : req[c].pc \notin {"idle", "queued"}}) = Limit
       /\ {queue[p][i] : i \in DOMAIN queue[p]} = {c \in Tasks(p) : req[c].pc = "queued"}
       /\ Len(queue[p]) = Cardinality({c \in Tasks(p) : req[c].pc = "queued"})
       /\ free[p] > 0 => queue[p] = <<>>
  /\ \A c \in lock : InChain(c) \/ req[c].pc \in {"asking", "leaving"}

\* Whatever a request waits for, the wait ends within its deadline: the queue,
\* the gate, an attempt and a pause all count against one budget.
WithinBudget == \A c \in Request : Waiting(c) => req[c].timer <= req[c].left

\* NIM is not asked again for what it answered last in this process while that
\* answer is fresh: a request that waited behind the first finds it.
NoPaidRepeat ==
  [][\A c \in Request :
       LET p == ProcessOf[c]
       IN  req[c].pc = "asking" /\ req'[c].pc = "http" =>
             ~ (last[p].key = req[c].key /\ last[p].left > 0)]_vars

=============================================================================
