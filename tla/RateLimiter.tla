----------------------------- MODULE RateLimiter -----------------------------
(***************************************************************************)
(* The rate limiter of one API process: the sliding window in Redis, the   *)
(* window in memory that stands in for it on critical keys, and the switch *)
(* between the two.  Requests overlap: each is stamped when it is sent and *)
(* executed by Redis in the order it arrives.                              *)
(***************************************************************************)
EXTENDS Integers, FiniteSets, Sequences

CONSTANTS
  Request,           \* requests in flight at once
  Key,               \* ip:<address>:<route>
  Critical,          \* keys of routes with `critical`
  Limit,
  WindowSeconds,
  Second,            \* ticks of the clock in one second
  MaxTrackedKeys,    \* MAX_TRACKED_KEYS
  MaxTime,           \* bound: ticks
  MaxAnswers,        \* bound: decisions taken and resets sent
  None

ASSUME RateLimiterAssumption ==
  /\ Critical \subseteq Key /\ None \notin Key
  /\ {Limit, WindowSeconds, Second, MaxTrackedKeys} \subseteq Nat \ {0}
  /\ {MaxTime, MaxAnswers} \subseteq Nat

VARIABLES
  now,
  pc,        \* [Request -> step of consume]
  key,       \* [Request -> the key it consumes]
  stamp,     \* [Request -> nowMs]
  redis,     \* [Key -> members of the ZSET]
  expiry,    \* [Key -> when Redis drops the ZSET]
  local,     \* hits, the Map: its entries, each with the place in which it was set
  degraded,  \* degradedSince # null
  answers,   \* decisions taken and resets sent so far
  admitted,  \* history: [Key -> [via -> the admissions since its last reset]]
  refused,   \* history: [Key -> [via -> the refusals since the last admission]]
  late,      \* history: Redis was late for a request, see Late
  forgotten  \* history: [Critical -> times its window in memory was rightly dropped]

redisVars == <<redis, expiry>>
history == <<answers, admitted, refused>>
vars == <<now, pc, key, stamp, redisVars, local, degraded, history, late, forgotten>>

Via == {"redis", "local"}

\* An admission: its time, and what tells it from another of the same time.
Event == [at : Nat, nth : Nat]
Entry == [key : Critical, times : SUBSET Event, nth : Nat]

Init ==
  /\ now = 0
  /\ pc = [q \in Request |-> "idle"]
  /\ key = [q \in Request |-> None]
  /\ stamp = [q \in Request |-> 0]
  /\ redis = [k \in Key |-> {}] /\ expiry = [k \in Key |-> 0]
  /\ local = {}
  /\ degraded = FALSE
  /\ answers = 0
  /\ admitted = [k \in Key |-> [v \in Via |-> {}]]
  /\ refused = [k \in Key |-> [v \in Via |-> <<>>]]
  /\ late = FALSE /\ forgotten = [k \in Critical |-> 0]

-----------------------------------------------------------------------------
Window == WindowSeconds * Second

\* Mutant of Alive: a window that starts again at each of its multiples.
AliveFixed(times, at) == {t \in times : t.at \div Window = at \div Window}

\* ZREMRANGEBYSCORE 0 now-window, and the same in memory: the edge is out.
Alive(times, at) == {t \in times : t.at > at - Window}

Least(times) == CHOOSE n \in {t.at : t \in times} : \A t \in times : n <= t.at

\* Mutant of RetryAfter: rounded down.
RetryAfterDown(times, at) ==
  LET seconds == (Least(times) + Window - at) \div Second IN
    IF seconds < 1 THEN 1 ELSE seconds

\* Seconds until the oldest event leaves, rounded up and one at least.
RetryAfter(times, at) ==
  LET seconds == -((-(Least(times) + Window - at)) \div Second) IN
    IF seconds < 1 THEN 1 ELSE seconds

\* The window after a request, and the answer.
Slide(times, at) ==
  LET alive == Alive(times, at) IN
    IF Cardinality(alive) < Limit
    THEN [times |-> alive \cup {[at |-> at, nth |-> answers]}, allowed |-> TRUE, retry |-> 0]
    ELSE [times |-> alive, allowed |-> FALSE, retry |-> RetryAfter(alive, at)]

\* The answer, for the history: an admission ends a series of refusals.
Decided(k, at, via, s) ==
  /\ answers < MaxAnswers /\ answers' = answers + 1
  /\ admitted' = IF s.allowed THEN [admitted EXCEPT ![k][via] = @ \cup {[at |-> at, nth |-> answers]}]
                 ELSE admitted
  /\ refused' = [refused EXCEPT ![k][via] =
                   IF s.allowed THEN <<>> ELSE Append(@, [at |-> at, retry |-> s.retry])]

Goes(q, step) == pc' = [pc EXCEPT ![q] = step]
\* consume returns.
Returns(q) ==
  /\ Goes(q, "idle")
  /\ key' = [key EXCEPT ![q] = None]
  /\ stamp' = [stamp EXCEPT ![q] = 0]

-----------------------------------------------------------------------------
(* The window in memory.                                                   *)

Tracked(k) == \E e \in local : e.key = k
Hits(k) == UNION {e.times : e \in {f \in local : f.key = k}}
Without(k) == {e \in local : e.key # k}
Full(k) == Cardinality(Without(k)) >= MaxTrackedKeys
First(entries) == CHOOSE e \in entries : \A f \in entries : e.nth <= f.nth

Drops(K) ==
  forgotten' = [k \in Critical |-> IF k \in K /\ Tracked(k) THEN forgotten[k] + 1 ELSE forgotten[k]]

\* touch: to the end of the Map, in the place of the least recently touched
\* key when there is no room for a new one.
Touch(k, times) ==
  LET out == IF Full(k) THEN {First(Without(k))} ELSE {} IN
    /\ local' = (Without(k) \ out) \cup {[key |-> k, times |-> times, nth |-> answers]}
    /\ Drops({e.key : e \in out})

ConsumeLocal(q) ==
  LET s == Slide(Hits(key[q]), now) IN
    /\ Touch(key[q], s.times)
    /\ Decided(key[q], now, "local", s)

\* The first success after an outage drops the window in memory.
MarkHealthy ==
  /\ degraded' = FALSE
  /\ local' = IF degraded THEN {} ELSE local

\* The first failure after a healthy time.
MarkDegraded == degraded' = TRUE

-----------------------------------------------------------------------------
Tick ==
  /\ now < MaxTime
  /\ now' = now + 1
  /\ UNCHANGED <<pc, key, stamp, redisVars, local, degraded, history, late, forgotten>>

\* RateLimitGuard, and the adapter up to the EVAL it sends.
Send(q) ==
  /\ pc[q] = "idle" /\ answers < MaxAnswers
  /\ \E k \in Key : key' = [key EXCEPT ![q] = k]
  /\ stamp' = [stamp EXCEPT ![q] = now]
  /\ Goes(q, "sent")
  /\ UNCHANGED <<now, redisVars, local, degraded, history, late, forgotten>>

\* What Redis still has of a key.
Stored(k) == IF now < expiry[k] THEN redis[k] ELSE {}

\* The clock of the window is the caller's and the clock of the expiry is that
\* of Redis: the request runs after one of its key that was stamped later, or
\* when the ZSET has expired that its own window still counts.
Late(q) ==
  LET k == key[q] IN
    \/ \E t \in redis[k] : t.at > stamp[q]
    \/ Alive(redis[k], stamp[q]) # Alive(Stored(k), stamp[q])

\* The script runs; its answer comes back or is lost.
Eval(q) ==
  /\ pc[q] = "sent"
  /\ LET s == Slide(Stored(key[q]), stamp[q]) IN
       /\ redis' = [redis EXCEPT ![key[q]] = s.times]
       /\ Decided(key[q], stamp[q], "redis", s)
  /\ expiry' = [expiry EXCEPT ![key[q]] = now + Window]
  /\ late' = (late \/ Late(q))
  /\ Goes(q, "answered") \/ Goes(q, "failed")
  /\ UNCHANGED <<now, key, stamp, local, degraded, forgotten>>

\* Redis is not reached.
Unreached(q) ==
  /\ pc[q] = "sent"
  /\ Goes(q, "failed")
  /\ UNCHANGED <<now, key, stamp, redisVars, local, degraded, history, late, forgotten>>

Answer(q) ==
  /\ pc[q] = "answered"
  /\ Returns(q)
  /\ MarkHealthy
  /\ Drops(IF degraded THEN Key ELSE {})
  /\ UNCHANGED <<now, redisVars, history, late>>

\* A critical key is held to the window in memory, any other goes through.
Fallback(q) ==
  /\ pc[q] = "failed"
  /\ Returns(q)
  /\ MarkDegraded
  /\ \/ key[q] \in Critical /\ ConsumeLocal(q)
     \/ key[q] \notin Critical /\ UNCHANGED <<local, history, forgotten>>
  /\ UNCHANGED <<now, redisVars, late>>

-----------------------------------------------------------------------------
(* reset: whoever signs in proves to own the account, and its key is cleared. *)

\* The history of a window begins anew.
Cleared(k, via) == admitted' = [admitted EXCEPT ![k][via] = {}]

\* LoginUseCase, after an attempt that was admitted.
SendReset(q) ==
  /\ pc[q] = "idle" /\ answers < MaxAnswers /\ answers' = answers + 1
  /\ \E k \in Critical :
       /\ \E v \in Via : admitted[k][v] # {}
       /\ key' = [key EXCEPT ![q] = k]
  /\ Goes(q, "reset")
  /\ UNCHANGED <<now, stamp, redisVars, local, degraded, admitted, refused, late, forgotten>>

\* DEL; its answer comes back or is lost.
Del(q) ==
  /\ pc[q] = "reset"
  /\ redis' = [redis EXCEPT ![key[q]] = {}] /\ expiry' = [expiry EXCEPT ![key[q]] = 0]
  /\ Cleared(key[q], "redis")
  /\ Goes(q, "answered") \/ Goes(q, "reset failed")
  /\ UNCHANGED <<now, key, stamp, local, degraded, answers, refused, late, forgotten>>

ResetUnreached(q) ==
  /\ pc[q] = "reset"
  /\ Goes(q, "reset failed")
  /\ UNCHANGED <<now, key, stamp, redisVars, local, degraded, history, late, forgotten>>

\* Then the window in memory is cleared, which may be the only one that counts.
ResetFallback(q) ==
  /\ pc[q] = "reset failed"
  /\ Returns(q)
  /\ MarkDegraded
  /\ local' = Without(key[q])
  /\ Cleared(key[q], "local") /\ forgotten' = [forgotten EXCEPT ![key[q]] = 0]
  /\ UNCHANGED <<now, redisVars, answers, refused, late>>

-----------------------------------------------------------------------------
Next ==
  \/ Tick
  \/ \E q \in Request :
       \/ Send(q) \/ Eval(q) \/ Unreached(q) \/ Answer(q) \/ Fallback(q)
       \/ SendReset(q) \/ Del(q) \/ ResetUnreached(q) \/ ResetFallback(q)

Spec == Init /\ [][Next]_vars

-----------------------------------------------------------------------------
\* No window holds more than this many of the times.
AtMost(times, most) ==
  \A from \in -Window..MaxTime :
    Cardinality({t \in times : t.at \in from + 1..from + Window}) <= most

\* Redis never admits more than the limit in any window: lua-scripts.ts says so
\* without a condition.
NeverExceeded == \A k \in Key : AtMost(admitted[k]["redis"], Limit)

\* Redis never admits more than the limit in any window unless a request came
\* late, see Late.
WindowIsKept == late \/ NeverExceeded

\* The stand-in holds a critical key to the same limit, once more each time
\* its window is dropped; it is dropped for the key only to make room and at
\* the end of an outage, and then entirely: nothing is left while Redis answers.
StandInIsKept ==
  /\ \A k \in Critical : AtMost(admitted[k]["local"], Limit * (1 + forgotten[k]))
  /\ Cardinality(local) <= MaxTrackedKeys
  /\ ~degraded => local = {}

\* The limit is kept, whoever answers: by Redis, by the stand-in in an outage of
\* Redis, and over the switches between them.
LimitIsKept == WindowIsKept /\ StandInIsKept

\* Who waits as long as Retry-After said is admitted by the same window, unless
\* somebody else was meanwhile.
RetryIsEnough ==
  \A k \in Key, v \in Via :
    LET r == refused[k][v] IN
      \A i, j \in DOMAIN r : i < j => r[j].at < r[i].at + r[i].retry * Second
=============================================================================
