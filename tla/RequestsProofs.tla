---------------------------- MODULE RequestsProofs ----------------------------
(***************************************************************************)
(* Theorems about what a request passes before its handler runs.           *)
(*                                                                         *)
(* The limiter, for any number of requests in flight and keys, any limit,  *)
(* window and room in memory: how many are admitted in a window of time,   *)
(* by Redis and by what stands in for it, and that Retry-After is enough.  *)
(*                                                                         *)
(* The Idempotency-Key: the mutual exclusion of the handler and the        *)
(* fidelity of the replayed responses, for any number of requests,         *)
(* payloads, crashes and failed statements, up to the moment a request     *)
(* outlives its key.                                                       *)
(***************************************************************************)
EXTENDS MCRequests, FiniteSetTheorems, WellFoundedInduction, TLAPS

\* The assumptions, for the provers.
LEMMA Sizes ==
  /\ Window \in Nat \ {0}
  /\ Limit \in Nat \ {0} /\ MaxTrackedKeys \in Nat \ {0} /\ Second \in Nat \ {0}
  /\ MaxTime \in Nat
<1>1. ASSUME NEW m \in Nat \ {0}, NEW n \in Nat \ {0} PROVE m * n \in Nat \ {0}
  OBVIOUS
<1> QED
  BY <1>1, RateLimiterAssumption DEF Window

\* A set of numbers has a least one.
LEMMA LeastNumber ==
  ASSUME NEW S \in SUBSET Nat, S # {}
  PROVE  \E n \in S : \A m \in S : n <= m
<1>1. PICK n \in S : \A m \in S : ~(<<m, n>> \in OpToRel(<, Nat))
  BY NatLessThanWellFounded, WFMin
<1>2. \A m \in S : ~(m < n)
  BY <1>1 DEF OpToRel
<1> QED
  BY <1>2

\* The least time of a set is there.
LEMMA LeastTime ==
  ASSUME NEW times \in SUBSET Event, times # {}
  PROVE  \E t \in times : t.at = Least(times) /\ \A u \in times : Least(times) <= u.at
<1> DEFINE S == {t.at : t \in times}
<1>1. S \in SUBSET Nat /\ S # {}
  BY DEF Event
<1>2. \E n \in S : \A t \in times : n <= t.at
  <2>1. PICK n \in S : \A m \in S : n <= m
    BY <1>1, LeastNumber
  <2> QED
    BY <2>1
<1>3. Least(times) \in S /\ \A t \in times : Least(times) <= t.at
  BY <1>2 DEF Least
<1> QED
  BY <1>3

\* The first key to forget is a tracked one.
LEMMA FirstIsOne ==
  ASSUME NEW entries \in SUBSET Entry, entries # {}
  PROVE  First(entries) \in entries
<1> DEFINE S == {e.nth : e \in entries}
<1>1. S \in SUBSET Nat /\ S # {}
  BY DEF Entry
<1>2. \E e \in entries : \A f \in entries : e.nth <= f.nth
  <2>1. PICK n \in S : \A m \in S : n <= m
    BY <1>1, LeastNumber
  <2> QED
    BY <2>1
<1> QED
  BY <1>2 DEF First

\* The seconds told are enough for the oldest event to leave.
LEMMA RetryCovers ==
  ASSUME NEW times \in SUBSET Event, times # {}, NEW at \in Nat
  PROVE  /\ RetryAfter(times, at) \in Nat \ {0}
         /\ at + RetryAfter(times, at) * Second >= Least(times) + Window
<1>1. Least(times) \in Nat
  BY LeastTime DEF Event
<1> DEFINE n == -(Least(times) + Window - at)
           d == n \div Second
<1>2. n \in Int
  BY <1>1, Sizes
<1>3. d \in Int /\ d * Second <= n
  <2> HIDE DEF n
  <2> QED
    BY <1>2, Sizes
<1>4. RetryAfter(times, at) = IF -d < 1 THEN 1 ELSE -d
  BY DEF RetryAfter
<1>5. (-d) * Second >= Least(times) + Window - at
  <2>1. (-d) * Second = -(d * Second)
    <3> HIDE DEF d
    <3> QED
      BY <1>3, Sizes
  <2>2. -n = Least(times) + Window - at
    BY <1>1, Sizes
  <2>3. d * Second \in Int
    <3> HIDE DEF d
    <3> QED
      BY <1>3, Sizes
  <2> HIDE DEF d, n
  <2> QED
    BY <1>2, <1>3, <2>1, <2>2, <2>3
<1>6. CASE -d < 1
  <2>1. (-d) * Second <= 1 * Second
    <3> HIDE DEF d
    <3> QED
      BY <1>3, <1>6, Sizes
  <2>2. 1 * Second \in Nat /\ (-d) * Second \in Int
    <3> HIDE DEF d
    <3> QED
      BY <1>3, Sizes
  <2> HIDE DEF d
  <2> QED
    BY <1>1, <1>4, <1>5, <1>6, <2>1, <2>2, Sizes
<1>7. CASE ~(-d < 1)
  <2>1. (-d) * Second \in Int
    <3> HIDE DEF d
    <3> QED
      BY <1>3, Sizes
  <2> HIDE DEF d
  <2> QED
    BY <1>1, <1>3, <1>4, <1>5, <1>7, <2>1, Sizes
<1> QED
  BY <1>6, <1>7

Refusal == [at : Nat, retry : Nat \ {0}]

\* Events of which none is as young as the next, and no more than the limit.
Bounded(times) ==
  /\ times \in SUBSET Event /\ IsFiniteSet(times) /\ Cardinality(times) <= Limit
  /\ \A t \in times : t.nth < answers

\* The events that outlive the wait a refusal was told.
Outlive(times, r) == {t \in times : t.at + Window > r.at + r.retry * Second}
Waits(times, r) == Cardinality(Outlive(times, r)) < Limit

\* A part is no more than the whole.
LEMMA Fewer ==
  ASSUME NEW S, IsFiniteSet(S), NEW T \in SUBSET S
  PROVE  /\ IsFiniteSet(T) /\ Cardinality(T) \in Nat /\ Cardinality(S) \in Nat
         /\ Cardinality(T) <= Cardinality(S)
BY FS_Subset, FS_CardinalityType

\* When a refusal is over is a time.
LEMMA ReachIsNat ==
  ASSUME NEW r \in Refusal
  PROVE  r.at + r.retry * Second \in Nat
<1>1. \A n \in Nat : n * Second \in Nat
  BY Sizes
<1> QED
  BY <1>1 DEF Refusal

\* What a request does to its window.
Slid(times, at, s) ==
  /\ s.times \in SUBSET Event /\ IsFiniteSet(s.times) /\ Cardinality(s.times) <= Limit
  /\ \A t \in s.times : t.nth < answers + 1
  /\ s.allowed \in BOOLEAN
  /\ s.allowed => /\ s.times = Alive(times, at) \cup {[at |-> at, nth |-> answers]}
                  /\ Cardinality(Alive(times, at)) < Limit
  /\ ~s.allowed => /\ s.times = Alive(times, at)
                   /\ Cardinality(Alive(times, at)) = Limit
                   /\ [at |-> at, retry |-> s.retry] \in Refusal
                   /\ Waits(s.times, [at |-> at, retry |-> s.retry])

\* What a decision leaves in a window.
LEMMA SlideFacts ==
  ASSUME NEW times, Bounded(times), NEW at \in Nat, answers \in Nat
  PROVE  Slid(times, at, Slide(times, at))
<1> DEFINE s == Slide(times, at)
           alive == Alive(times, at)
           event == [at |-> at, nth |-> answers]
<1>1. /\ alive \in SUBSET times /\ IsFiniteSet(alive) /\ Cardinality(alive) \in Nat
      /\ Cardinality(alive) <= Limit
  <2>1. alive \in SUBSET times
    BY DEF Alive
  <2> HIDE DEF alive
  <2> QED
    BY <2>1, Fewer, Sizes DEF Bounded
<1>2. ASSUME Cardinality(alive) < Limit PROVE Slid(times, at, s)
  <2>1. s = [times |-> alive \cup {event}, allowed |-> TRUE, retry |-> 0]
    BY <1>2 DEF Slide
  <2>2. IsFiniteSet(alive \cup {event}) /\ Cardinality(alive \cup {event}) <= Limit
    <3> HIDE DEF alive, event
    <3> QED
      BY <1>1, <1>2, FS_AddElement, Sizes
  <2>3. event \in Event /\ event.nth < answers + 1
    BY DEF Event
  <2>4. alive \cup {event} \in SUBSET Event /\ \A t \in alive \cup {event} : t.nth < answers + 1
    <3>1. \A t \in alive : t \in Event /\ t.nth < answers + 1
      <4>1. \A t \in alive : t \in Event /\ t.nth < answers
        BY <1>1 DEF Bounded
      <4> HIDE DEF alive
      <4> QED
        BY <4>1 DEF Event
    <3> HIDE DEF alive, event
    <3> QED
      BY <3>1, <2>3
  <2>5. alive = Alive(times, at) /\ event = [at |-> at, nth |-> answers]
    OBVIOUS
  <2> HIDE DEF s, alive, event
  <2> QED
    BY <1>2, <2>1, <2>2, <2>4, <2>5 DEF Slid
<1>3. ASSUME ~(Cardinality(alive) < Limit) PROVE Slid(times, at, s)
  <2> DEFINE r == [at |-> at, retry |-> RetryAfter(alive, at)]
  <2>1. s = [times |-> alive, allowed |-> FALSE, retry |-> RetryAfter(alive, at)]
    BY <1>3 DEF Slide
  <2>2. Cardinality(alive) = Limit
    <3> HIDE DEF alive
    <3> QED
      BY <1>1, <1>3, Sizes
  <2>3. alive # {}
    <3> HIDE DEF alive
    <3> QED
      BY <2>2, FS_EmptySet, Sizes
  <2>4. alive \in SUBSET Event
    <3> HIDE DEF alive
    <3> QED
      BY <1>1 DEF Bounded
  <2>5. /\ RetryAfter(alive, at) \in Nat \ {0}
        /\ at + RetryAfter(alive, at) * Second >= Least(alive) + Window
    <3> HIDE DEF alive
    <3> QED
      BY <2>3, <2>4, RetryCovers
  <2>6. r \in Refusal
    BY <2>5 DEF Refusal
  <2>7. PICK t \in alive : t.at = Least(alive)
    <3> HIDE DEF alive
    <3> QED
      BY <2>3, <2>4, LeastTime
  <2>8. t \notin Outlive(alive, r)
    <3>1. t.at \in Nat
      BY <2>4, <2>7 DEF Event
    <3>2. r.at + r.retry * Second \in Nat
      <4> HIDE DEF r
      <4> QED
        BY <2>6, ReachIsNat
    <3>3. r.at + r.retry * Second >= t.at + Window
      BY <2>5, <2>7
    <3>4. ~(t.at + Window > r.at + r.retry * Second)
      <4> HIDE DEF r, alive
      <4> QED
        BY <3>1, <3>2, <3>3, Sizes
    <3> HIDE DEF r, alive
    <3> QED
      BY <3>4 DEF Outlive
  <2>9. Cardinality(Outlive(alive, r)) < Limit
    <3>1. Outlive(alive, r) \in SUBSET (alive \ {t})
      <4> HIDE DEF r, alive
      <4> QED
        BY <2>8 DEF Outlive
    <3>2. IsFiniteSet(alive \ {t}) /\ Cardinality(alive \ {t}) = Limit - 1
      <4> HIDE DEF alive
      <4> QED
        BY <1>1, <2>2, <2>7, FS_RemoveElement
    <3> HIDE DEF alive, r
    <3> QED
      BY <3>1, <3>2, Fewer, Sizes
  <2>10. \A u \in alive : u.nth < answers + 1
    <3>1. \A u \in alive : u \in Event /\ u.nth < answers
      BY <1>1 DEF Bounded
    <3> HIDE DEF alive
    <3> QED
      BY <3>1 DEF Event
  <2>11. [at |-> at, retry |-> s.retry] = r
    BY <2>1
  <2>12. s.times = alive /\ s.allowed = FALSE
    BY <2>1
  <2>13. alive = Alive(times, at)
    OBVIOUS
  <2> HIDE DEF s, r, alive
  <2> QED
    BY <1>1, <1>3, <2>2, <2>4, <2>6, <2>9, <2>10, <2>11, <2>12, <2>13, Sizes DEF Waits, Slid
<1> QED
  BY <1>2, <1>3

\* The events in one window of time.
In(times, from) == {t \in times : t.at \in from + 1..from + Window}

\* What Redis admitted: the limit holds, and what has left the window of the key is
\* older than all that counts.
Left(times, t) ==
  \/ \E u \in times : t.at <= u.at - Window
  \/ Cardinality(times) >= Limit /\ \A u \in times : t.at < u.at
Kept(times, all) ==
  /\ times \subseteq all
  /\ \A from \in Int : Cardinality(In(all, from)) <= Limit
  /\ \A t \in all \ times : Left(times, t)

Admits(all, at, s) == IF s.allowed THEN all \cup {[at |-> at, nth |-> answers]} ELSE all

\* The bound of the stand-in, and what is left of it for the window that ends last.
Most(n) == Limit * (1 + n)
Stood(times, all, n, until) ==
  \A from \in Int :
    /\ Cardinality(In(all, from)) <= Most(n)
    /\ from >= until - Window =>
         Cardinality(In(all, from)) + Limit <= Most(n) + Cardinality(In(times, from))

\* A series of refusals from a window.
Told(r, times) ==
  \A i \in DOMAIN r :
    /\ Waits(times, r[i])
    /\ \A j \in DOMAIN r : i < j => r[j].at < r[i].at + r[i].retry * Second

Young(times) == \A t \in times : t.nth < answers

\* What is in the window is part of what there is.
LEMMA InFacts ==
  ASSUME NEW times, IsFiniteSet(times), NEW from \in Int
  PROVE  /\ IsFiniteSet(In(times, from)) /\ Cardinality(In(times, from)) \in Nat
         /\ Cardinality(In(times, from)) <= Cardinality(times)
         /\ Cardinality(times) \in Nat
<1>1. In(times, from) \in SUBSET times
  BY DEF In
<1> QED
  BY <1>1, Fewer

\* An admission that left the window is out of it from now on, or older than all of a full one.
LEMMA WindowSlides ==
  ASSUME NEW times, Bounded(times), NEW all \in SUBSET Event, IsFiniteSet(all),
         NEW at \in Nat, \A t \in times : t.at <= at,
         NEW s, Slid(times, at, s), Kept(times, all), answers \in Nat
  PROVE  Kept(s.times, Admits(all, at, s))
<1> DEFINE event == [at |-> at, nth |-> answers]
           alive == Alive(times, at)
<1>1. times \in SUBSET Event /\ times \subseteq all /\ IsFiniteSet(times)
  BY DEF Bounded, Kept
<1>2. alive \subseteq times /\ \A t \in times : t \in alive <=> t.at > at - Window
  BY DEF Alive
<1>3. \A t \in all : t.at \in Nat
  BY DEF Event
<1>4. event \in Event /\ event.at = at
  BY DEF Event
<1>5. /\ IsFiniteSet(alive) /\ Cardinality(alive) \in Nat /\ Cardinality(times) \in Nat
      /\ Cardinality(alive) <= Cardinality(times)
  <2>1. alive \in SUBSET times
    BY <1>2
  <2> HIDE DEF alive
  <2> QED
    BY <2>1, <1>1, Fewer
<1>6. CASE s.allowed
  <2>1. s.times = alive \cup {event} /\ Cardinality(alive) < Limit /\ Admits(all, at, s) = all \cup {event}
    BY <1>6 DEF Slid, Admits
  <2>2. ASSUME NEW t \in (all \cup {event}) \ (alive \cup {event}) PROVE t.at <= at - Window
    <3>1. t \in all /\ t \notin alive
      BY <2>2
    <3>2. CASE t \in times
      BY <1>2, <1>3, <3>1, <3>2, Sizes
    <3>3. CASE t \notin times
      <4>1. Left(times, t)
        BY <3>1, <3>3 DEF Kept
      <4>2. CASE \E u \in times : t.at <= u.at - Window
        <5>1. PICK u \in times : t.at <= u.at - Window
          BY <4>2
        <5>2. u.at <= at /\ u.at \in Nat /\ t.at \in Nat
          BY <1>1, <1>3, <3>1
        <5> QED
          BY <5>1, <5>2, Sizes
      <4>3. CASE Cardinality(times) >= Limit /\ \A u \in times : t.at < u.at
        <5>1. alive # times
          <6> HIDE DEF alive
          <6> QED
            BY <1>5, <2>1, <4>3, Sizes
        <5>2. PICK u \in times : u \notin alive
          BY <1>2, <5>1
        <5>3. ~(u.at > at - Window) /\ t.at < u.at /\ u.at \in Nat /\ t.at \in Nat
          BY <1>1, <1>2, <1>3, <3>1, <4>3, <5>2
        <5> HIDE DEF alive
        <5> QED
          BY <5>3, Sizes
      <4> QED
        BY <4>1, <4>2, <4>3 DEF Left
    <3> QED
      BY <3>2, <3>3
  <2>3. \A t \in (all \cup {event}) \ (alive \cup {event}) : Left(alive \cup {event}, t)
    <3> HIDE DEF alive
    <3> QED
      BY <2>2, <1>4 DEF Left
  <2>4. ASSUME NEW from \in Int PROVE Cardinality(In(all \cup {event}, from)) <= Limit
    <3>1. CASE at \in from + 1..from + Window
      <4>1. In(all \cup {event}, from) \in SUBSET s.times
        <5> SUFFICES ASSUME NEW t \in In(all \cup {event}, from) PROVE t \in alive \cup {event}
          BY <2>1
        <5>1. t \in all \cup {event} /\ t.at >= from + 1 /\ t.at \in Int
          <6> HIDE DEF event
          <6> QED
            BY DEF In
        <5>2. ~(t.at <= at - Window)
          BY <3>1, <5>1, Sizes
        <5> QED
          BY <5>1, <5>2, <2>2
      <4>2. IsFiniteSet(s.times) /\ Cardinality(s.times) <= Limit
        BY DEF Slid
      <4> HIDE DEF alive, event
      <4> QED
        BY <4>1, <4>2, Fewer, Sizes
    <3>2. CASE at \notin from + 1..from + Window
      <4>1. In(all \cup {event}, from) = In(all, from)
        BY <3>2, <1>4 DEF In
      <4> QED
        BY <4>1 DEF Kept
    <3> QED
      BY <3>1, <3>2
  <2>5. alive \cup {event} \subseteq all \cup {event}
    BY <1>1, <1>2
  <2> HIDE DEF alive, event
  <2> QED
    BY <2>1, <2>3, <2>4, <2>5 DEF Kept
<1>7. CASE ~s.allowed
  <2>1. s.times = alive /\ Cardinality(alive) = Limit /\ Admits(all, at, s) = all
    BY <1>7 DEF Slid, Admits
  <2>2. ASSUME NEW t \in all \ alive PROVE Left(alive, t)
    <3>1. CASE t \in times
      <4>1. t.at <= at - Window /\ t.at \in Nat
        BY <1>2, <1>3, <2>2, <3>1, Sizes
      <4>2. \A u \in alive : u.at > at - Window /\ u.at \in Nat
        BY <1>1, <1>2, <1>3
      <4> HIDE DEF alive
      <4> QED
        BY <2>1, <4>1, <4>2, Sizes DEF Left
    <3>2. CASE t \notin times
      <4>1. Left(times, t)
        BY <2>2, <3>2 DEF Kept
      <4>2. CASE \E u \in times : t.at <= u.at - Window
        <5>1. PICK u \in times : t.at <= u.at - Window
          BY <4>2
        <5>2. u.at <= at /\ u.at \in Nat /\ t.at \in Nat
          BY <1>1, <1>3, <2>2
        <5>3. \A v \in alive : v.at > at - Window /\ v.at \in Nat
          BY <1>1, <1>2, <1>3
        <5>4. \A v \in alive : t.at < v.at
          <6> HIDE DEF alive
          <6> QED
            BY <5>1, <5>2, <5>3, Sizes
        <5> HIDE DEF alive
        <5> QED
          BY <2>1, <5>4, Sizes DEF Left
      <4>3. CASE Cardinality(times) >= Limit /\ \A u \in times : t.at < u.at
        <5>1. \A u \in alive : t.at < u.at
          BY <1>2, <4>3
        <5> HIDE DEF alive
        <5> QED
          BY <2>1, <5>1, Sizes DEF Left
      <4> QED
        BY <4>1, <4>2, <4>3 DEF Left
    <3> QED
      BY <3>1, <3>2
  <2>3. alive \subseteq all
    BY <1>1, <1>2
  <2> HIDE DEF alive
  <2> QED
    BY <2>1, <2>2, <2>3 DEF Kept
<1> QED
  BY <1>6, <1>7

\* The bound of the window in memory, by what was forgotten.
LEMMA MostFacts ==
  ASSUME NEW n \in Nat
  PROVE  /\ Most(n) \in Nat /\ Most(n) >= Limit
         /\ Most(n + 1) = Most(n) + Limit
<1>1. Limit \in Nat
  BY Sizes
<1>2. /\ Limit * (1 + n) \in Nat /\ Limit * (1 + n) >= Limit
      /\ Limit * (1 + (n + 1)) = Limit * (1 + n) + Limit
  BY <1>1
<1> QED
  BY <1>2 DEF Most

\* That bound stands when the window slides.
LEMMA StandInSlides ==
  ASSUME NEW times, Bounded(times), NEW all, IsFiniteSet(all), Young(all), NEW n \in Nat,
         NEW at \in Nat, NEW s, Slid(times, at, s), Stood(times, all, n, at), answers \in Nat
  PROVE  Stood(s.times, Admits(all, at, s), n, at)
<1> DEFINE event == [at |-> at, nth |-> answers]
           alive == Alive(times, at)
           new == Admits(all, at, s)
<1> SUFFICES ASSUME NEW from \in Int
             PROVE  /\ Cardinality(In(new, from)) <= Most(n)
                    /\ from >= at - Window =>
                         Cardinality(In(new, from)) + Limit <= Most(n) + Cardinality(In(s.times, from))
  BY DEF Stood
<1>1. /\ times \in SUBSET Event /\ IsFiniteSet(times) /\ Young(times)
      /\ IsFiniteSet(s.times) /\ Cardinality(s.times) <= Limit
  BY DEF Bounded, Slid, Young
<1>2. event \notin all /\ event \notin times /\ event.at = at
  BY <1>1 DEF Young
<1>3. ASSUME from >= at - Window PROVE In(alive, from) = In(times, from)
  <2>1. \A t \in times : t.at \in from + 1..from + Window => t.at > at - Window
    BY <1>1, <1>3, Sizes DEF Event
  <2> QED
    BY <2>1 DEF In, Alive
<1>4. /\ Cardinality(In(all, from)) \in Nat /\ IsFiniteSet(In(all, from))
      /\ Cardinality(In(times, from)) \in Nat /\ IsFiniteSet(In(times, from))
      /\ Cardinality(In(s.times, from)) \in Nat
      /\ Cardinality(In(s.times, from)) <= Limit
  <2>1. /\ Cardinality(s.times) \in Nat /\ Cardinality(In(s.times, from)) \in Nat
        /\ Cardinality(In(s.times, from)) <= Cardinality(s.times)
    BY <1>1, InFacts
  <2>2. Cardinality(In(all, from)) \in Nat /\ IsFiniteSet(In(all, from))
    BY InFacts
  <2>3. Cardinality(In(times, from)) \in Nat /\ IsFiniteSet(In(times, from))
    BY <1>1, InFacts
  <2> QED
    BY <1>1, <2>1, <2>2, <2>3, Sizes
<1>5. /\ Cardinality(In(all, from)) <= Most(n)
      /\ from >= at - Window =>
           Cardinality(In(all, from)) + Limit <= Most(n) + Cardinality(In(times, from))
  BY DEF Stood
<1>6. CASE s.allowed /\ at \in from + 1..from + Window
  <2>1. In(new, from) = In(all, from) \cup {event} /\ event \notin In(all, from)
    BY <1>2, <1>6 DEF In, Admits
  <2>2. from >= at - Window
    BY <1>6, Sizes
  <2>3. s.times = alive \cup {event}
    BY <1>6 DEF Slid
  <2>4. In(s.times, from) = In(times, from) \cup {event} /\ event \notin In(times, from)
    <3>1. In(alive \cup {event}, from) = In(alive, from) \cup {event}
      BY <1>2, <1>6 DEF In
    <3>2. event \notin In(times, from)
      BY <1>2 DEF In
    <3> HIDE DEF alive, event
    <3> QED
      BY <1>3, <2>2, <2>3, <3>1, <3>2
  <2>5. Cardinality(In(new, from)) = Cardinality(In(all, from)) + 1
    <3> HIDE DEF new, event
    <3> QED
      BY <1>4, <2>1, FS_AddElement
  <2>6. Cardinality(In(s.times, from)) = Cardinality(In(times, from)) + 1
    <3> HIDE DEF event
    <3> QED
      BY <1>4, <2>4, FS_AddElement
  <2> HIDE DEF new
  <2> QED
    BY <1>4, <1>5, <2>2, <2>5, <2>6, MostFacts, Sizes
<1>7. CASE s.allowed /\ at \notin from + 1..from + Window
  <2>1. In(new, from) = In(all, from)
    BY <1>2, <1>7 DEF In, Admits
  <2>2. In(s.times, from) = In(alive, from)
    BY <1>2, <1>7 DEF In, Slid
  <2> HIDE DEF new, alive
  <2> QED
    BY <1>3, <1>4, <1>5, <2>1, <2>2
<1>8. CASE ~s.allowed
  <2>1. In(new, from) = In(all, from)
    BY <1>8 DEF Admits
  <2>2. In(s.times, from) = In(alive, from)
    BY <1>8 DEF Slid
  <2> HIDE DEF new, alive
  <2> QED
    BY <1>3, <1>4, <1>5, <2>1, <2>2
<1> QED
  BY <1>6, <1>7, <1>8

\* It stands when the window is forgotten, one limit higher.
LEMMA StandInForgets ==
  ASSUME NEW times, Bounded(times), NEW all, IsFiniteSet(all), NEW n \in Nat, NEW until \in Nat,
         Stood(times, all, n, until)
  PROVE  Stood({}, all, n + 1, until)
<1> SUFFICES ASSUME NEW from \in Int
             PROVE  /\ Cardinality(In(all, from)) <= Most(n + 1)
                    /\ from >= until - Window =>
                         Cardinality(In(all, from)) + Limit <= Most(n + 1) + Cardinality(In({}, from))
  BY DEF Stood
<1>1. /\ Cardinality(In(all, from)) \in Nat /\ Cardinality(In(times, from)) \in Nat
      /\ Cardinality(In(times, from)) <= Limit
  <2>1. IsFiniteSet(times) /\ Cardinality(times) <= Limit
    BY DEF Bounded
  <2>2. Cardinality(In(all, from)) \in Nat
    BY InFacts
  <2>3. /\ Cardinality(times) \in Nat /\ Cardinality(In(times, from)) \in Nat
        /\ Cardinality(In(times, from)) <= Cardinality(times)
    BY <2>1, InFacts
  <2> QED
    BY <2>1, <2>2, <2>3, Sizes
<1>2. /\ Cardinality(In(all, from)) <= Most(n)
      /\ from >= until - Window =>
           Cardinality(In(all, from)) + Limit <= Most(n) + Cardinality(In(times, from))
  BY DEF Stood
<1>3. Cardinality(In({}, from)) = 0
  <2>1. In({}, from) = {}
    BY DEF In
  <2> QED
    BY <2>1, FS_EmptySet
<1> QED
  BY <1>1, <1>2, <1>3, MostFacts, Sizes

\* It stands at the start.
LEMMA StandInStarts ==
  ASSUME NEW n \in Nat, NEW until
  PROVE  Stood({}, {}, n, until)
<1>1. \A from : In({}, from) = {}
  BY DEF In
<1>2. Cardinality({}) = 0
  BY FS_EmptySet
<1>3. Most(n) \in Nat /\ 0 <= Most(n) /\ 0 + Limit <= Most(n) + 0
  BY MostFacts, Sizes
<1> QED
  BY <1>1, <1>2, <1>3 DEF Stood

\* Fewer events make nobody wait longer.
LEMMA WaitsLess ==
  ASSUME NEW times, Bounded(times), NEW less \in SUBSET times, NEW r, Waits(times, r)
  PROVE  Waits(less, r)
<1>1. Outlive(less, r) \in SUBSET Outlive(times, r)
  BY DEF Outlive
<1>2. IsFiniteSet(times) /\ Outlive(times, r) \in SUBSET times
  BY DEF Bounded, Outlive
<1>3. IsFiniteSet(Outlive(times, r))
  BY <1>2, Fewer
<1> QED
  BY <1>1, <1>3, Fewer, Sizes DEF Waits

\* Who was told a time is kept to it by fewer events.
LEMMA ToldLess ==
  ASSUME NEW times, Bounded(times), NEW less \in SUBSET times, NEW r, Told(r, times)
  PROVE  Told(r, less)
BY WaitsLess DEF Told

\* One refusal more: who had waited would have been admitted.
LEMMA ToldAgain ==
  ASSUME NEW times, Bounded(times), NEW seen \in SUBSET times, NEW r \in Seq(Refusal),
         Told(r, times), NEW at \in Nat, NEW s, Slid(seen, at, s), ~s.allowed
  PROVE  Told(Append(r, [at |-> at, retry |-> s.retry]), s.times)
<1> DEFINE n == [at |-> at, retry |-> s.retry]
           q == Append(r, n)
<1>1. /\ s.times = Alive(seen, at) /\ Cardinality(Alive(seen, at)) = Limit
      /\ n \in Refusal /\ Waits(s.times, n)
  BY DEF Slid
<1>2. s.times \in SUBSET times
  BY <1>1 DEF Alive
<1>3. /\ q \in Seq(Refusal) /\ DOMAIN q = 1..Len(r) + 1 /\ q[Len(r) + 1] = n
      /\ \A i \in DOMAIN r : q[i] = r[i]
      /\ DOMAIN r = 1..Len(r) /\ Len(r) \in Nat
  <2> HIDE DEF n
  <2> QED
    BY <1>1
<1>4. ASSUME NEW i \in DOMAIN r PROVE at < r[i].at + r[i].retry * Second
  <2>1. r[i] \in Refusal
    BY <1>3
  <2> DEFINE reach == r[i].at + r[i].retry * Second
  <2>2. reach \in Nat
    BY <2>1, ReachIsNat
  <2>3. ASSUME ~(at < reach) PROVE FALSE
    <3>1. Alive(seen, at) \in SUBSET Outlive(times, r[i])
      <4> SUFFICES ASSUME NEW t \in Alive(seen, at) PROVE t \in Outlive(times, r[i])
        OBVIOUS
      <4>1. t \in times /\ t.at > at - Window
        BY DEF Alive
      <4>2. t.at \in Nat
        BY <4>1 DEF Bounded, Event
      <4>3. t.at + Window > reach
        <5> HIDE DEF reach
        <5> QED
          BY <2>2, <2>3, <4>1, <4>2, Sizes
      <4> QED
        BY <4>1, <4>3 DEF Outlive
    <3>2. IsFiniteSet(Outlive(times, r[i]))
      <4>1. Outlive(times, r[i]) \in SUBSET times /\ IsFiniteSet(times)
        BY DEF Outlive, Bounded
      <4> QED
        BY <4>1, Fewer
    <3>3. Cardinality(Outlive(times, r[i])) < Limit
      BY DEF Told, Waits
    <3> QED
      BY <1>1, <3>1, <3>2, <3>3, Fewer, Sizes
  <2> QED
    BY <2>3
<1>5. ASSUME NEW i \in DOMAIN q PROVE Waits(s.times, q[i])
  <2>1. CASE i \in DOMAIN r
    <3>1. Waits(times, r[i]) /\ q[i] = r[i]
      BY <1>3, <2>1 DEF Told
    <3> QED
      BY <3>1, <1>2, WaitsLess
  <2>2. CASE i = Len(r) + 1
    BY <1>1, <1>3, <2>2
  <2> QED
    BY <1>3, <2>1, <2>2
<1>6. ASSUME NEW i \in DOMAIN q, NEW j \in DOMAIN q, i < j
      PROVE  q[j].at < q[i].at + q[i].retry * Second
  <2>1. i \in DOMAIN r /\ q[i] = r[i]
    BY <1>3, <1>6
  <2>2. CASE j \in DOMAIN r
    BY <1>3, <1>6, <2>1, <2>2 DEF Told
  <2>3. CASE j = Len(r) + 1
    <3>1. q[j].at = at
      BY <1>3, <2>3
    <3> QED
      BY <1>4, <2>1, <3>1
  <2> QED
    BY <1>3, <2>2, <2>3
<1> HIDE DEF q
<1> QED
  BY <1>5, <1>6 DEF Told, q

Types ==
  /\ now \in Nat /\ answers \in Nat
  /\ pc \in [Request -> {"idle", "sent", "answered", "failed", "reset", "reset failed"}]
  /\ key \in [Request -> Key \cup {None}] /\ stamp \in [Request -> Nat]
  /\ redis \in [Key -> SUBSET Event] /\ expiry \in [Key -> Nat]
  /\ local \in SUBSET Entry
  /\ degraded \in BOOLEAN /\ late \in BOOLEAN
  /\ admitted \in [Key -> [Via -> SUBSET Event]]
  /\ refused \in [Key -> [Via -> Seq(Refusal)]]
  /\ forgotten \in [Critical -> Nat]

\* Who is under way has a key, and a reset a critical one.
KeysAreSet ==
  \A q \in Request :
    /\ pc[q] # "idle" => key[q] \in Key
    /\ pc[q] \in {"reset", "reset failed"} => key[q] \in Critical

\* No window is larger than the limit, and no event is as young as the next.
Windows ==
  /\ \A k \in Key : Bounded(redis[k])
  /\ \A e \in local : Bounded(e.times)
  /\ \A k \in Key, v \in Via : IsFiniteSet(admitted[k][v]) /\ Young(admitted[k][v])

\* The Map has one entry for a key, and is bounded.
Tracking ==
  /\ IsFiniteSet(local) /\ Cardinality(local) <= MaxTrackedKeys
  /\ \A e, f \in local : e.key = f.key => e = f
  /\ ~degraded => local = {}

RedisKept == ~late => \A k \in Key : Kept(redis[k], admitted[k]["redis"])
StandInStands == \A k \in Critical : Stood(Hits(k), admitted[k]["local"], forgotten[k], now)
AllTold ==
  \A k \in Key : /\ Told(refused[k]["redis"], redis[k])
                 /\ Told(refused[k]["local"], Hits(k))

LimiterInv == Types /\ KeysAreSet /\ Windows /\ Tracking /\ RedisKept /\ StandInStands /\ AllTold

\* A critical key is a key.
LEMMA Criticals == Critical \subseteq Key
BY RateLimiterAssumption

\* An empty window, of which nothing has left.
LEMMA KeptEmpty == Kept({}, {})
<1>1. \A from : In({}, from) = {}
  BY DEF In
<1> QED
  BY <1>1, FS_EmptySet, Sizes DEF Kept

\* An empty window is within its bound.
LEMMA BoundedEmpty == Bounded({})
BY FS_EmptySet, Sizes DEF Bounded

\* What the memory has of a key.
LEMMA HitsFacts ==
  ASSUME Windows, Tracking
  PROVE  /\ \A e \in local : Hits(e.key) = e.times
         /\ \A k : ~Tracked(k) => Hits(k) = {}
         /\ \A k : Bounded(Hits(k))
<1>1. ASSUME NEW e \in local PROVE Hits(e.key) = e.times
  <2>1. {f \in local : f.key = e.key} = {e}
    BY DEF Tracking
  <2> QED
    BY <2>1 DEF Hits
<1>2. ASSUME NEW k, ~Tracked(k) PROVE Hits(k) = {}
  <2>1. {f \in local : f.key = k} = {}
    BY <1>2 DEF Tracked
  <2> QED
    BY <2>1 DEF Hits
<1>3. ASSUME NEW k PROVE Bounded(Hits(k))
  <2>1. CASE Tracked(k)
    BY <1>1, <2>1 DEF Tracked, Windows
  <2>2. CASE ~Tracked(k)
    BY <1>2, <2>2, BoundedEmpty
  <2> QED
    BY <2>1, <2>2
<1> QED
  BY <1>1, <1>2, <1>3

\* At the start.
LEMMA LimiterStarts == Init => LimiterInv
<1> SUFFICES ASSUME Init PROVE LimiterInv
  OBVIOUS
<1>1. /\ \A k \in Key : redis[k] = {} /\ \A v \in Via : admitted[k][v] = {} /\ refused[k][v] = <<>>
      /\ \A k : Hits(k) = {}
  BY DEF Init, Hits
<1>2. Types
  <2>1. <<>> \in Seq(Refusal) /\ {} \in SUBSET Event /\ {} \in SUBSET Entry
    OBVIOUS
  <2>2. refused \in [Key -> [Via -> Seq(Refusal)]] /\ admitted \in [Key -> [Via -> SUBSET Event]]
    BY <2>1 DEF Init
  <2> QED
    BY <2>1, <2>2 DEF Init, Types
<1>3. KeysAreSet
  BY DEF Init, KeysAreSet
<1>4. Windows
  BY <1>1, BoundedEmpty, FS_EmptySet DEF Windows, Init, Young
<1>5. Tracking
  BY FS_EmptySet, Sizes DEF Tracking, Init
<1>6. RedisKept
  BY <1>1, KeptEmpty DEF RedisKept, Via
<1>7. StandInStands
  <2>1. ASSUME NEW k \in Critical PROVE Stood(Hits(k), admitted[k]["local"], forgotten[k], now)
    <3>1. admitted[k]["local"] = {} /\ forgotten[k] = 0 /\ Hits(k) = {}
      BY <1>1, Criticals DEF Init, Via
    <3> QED
      BY <3>1, StandInStarts
  <2> QED
    BY <2>1 DEF StandInStands
<1>8. AllTold
  BY <1>1 DEF AllTold, Told, Via
<1> QED
  BY <1>2, <1>3, <1>4, <1>5, <1>6, <1>7, <1>8 DEF LimiterInv

-----------------------------------------------------------------------------
\* Types.

LEMMA DecidedTypes ==
  ASSUME Types, NEW k \in Key, NEW via \in Via, NEW at \in Nat, NEW times, NEW s, Slid(times, at, s),
         Decided(k, at, via, s)
  PROVE  /\ answers' \in Nat
         /\ admitted' \in [Key -> [Via -> SUBSET Event]]
         /\ refused' \in [Key -> [Via -> Seq(Refusal)]]
<1> DEFINE event == [at |-> at, nth |-> answers]
<1>1. event \in Event
  BY DEF Types, Event
<1>2. admitted' \in [Key -> [Via -> SUBSET Event]]
  <2>1. CASE s.allowed
    <3>1. admitted' = [admitted EXCEPT ![k][via] = @ \cup {event}]
      BY <2>1 DEF Decided
    <3> HIDE DEF event
    <3> QED
      BY <3>1, <1>1 DEF Types
  <2>2. CASE ~s.allowed
    BY <2>2 DEF Decided, Types
  <2> QED
    BY <2>1, <2>2
<1>3. refused' \in [Key -> [Via -> Seq(Refusal)]]
  <2>1. CASE s.allowed
    <3>1. refused' = [refused EXCEPT ![k][via] = <<>>]
      BY <2>1 DEF Decided
    <3>2. <<>> \in Seq(Refusal)
      OBVIOUS
    <3> QED
      BY <3>1, <3>2 DEF Types
  <2>2. CASE ~s.allowed
    <3> DEFINE n == [at |-> at, retry |-> s.retry]
               r == Append(refused[k][via], n)
    <3>1. n \in Refusal
      BY <2>2 DEF Slid
    <3>2. refused' = [refused EXCEPT ![k][via] = r]
      BY <2>2 DEF Decided
    <3>3. refused[k][via] \in Seq(Refusal)
      BY DEF Types
    <3>4. r \in Seq(Refusal)
      <4> HIDE DEF n
      <4> QED
        BY <3>1, <3>3
    <3> HIDE DEF r
    <3> QED
      BY <3>2, <3>4 DEF Types
  <2> QED
    BY <2>1, <2>2
<1>4. answers' \in Nat
  <2>1. answers \in Nat
    BY DEF Types
  <2> QED
    BY <2>1 DEF Decided
<1> QED
  BY <1>2, <1>3, <1>4

\* What Redis has of a key, unless its set has expired.
LEMMA StoredFacts ==
  ASSUME LimiterInv, NEW k \in Key
  PROVE  Stored(k) \in SUBSET redis[k] /\ Bounded(Stored(k))
BY BoundedEmpty DEF LimiterInv, Windows, Stored

\* What is forgotten is counted.
LEMMA ForgottenTypes ==
  ASSUME Types, NEW K, Drops(K)
  PROVE  forgotten' \in [Critical -> Nat]
<1>1. \A k \in Critical : forgotten[k] \in Nat
  BY DEF Types
<1> QED
  BY <1>1 DEF Drops

\* The types.
LEMMA TypesKeep ==
  ASSUME LimiterInv, [Next]_vars
  PROVE  Types' /\ KeysAreSet'
<1> USE DEF LimiterInv
<1>1. CASE UNCHANGED vars
  BY <1>1 DEF vars, redisVars, history, Types, KeysAreSet
<1>2. CASE Tick
  <2>1. now \in Nat /\ now' = now + 1
    BY <1>2 DEF Tick, Types
  <2>2. now' \in Nat
    BY <2>1
  <2> QED
    BY <1>2, <2>2 DEF Tick, redisVars, history, Types, KeysAreSet
<1>3. ASSUME NEW q \in Request, Send(q) PROVE Types' /\ KeysAreSet'
  BY <1>3 DEF Send, Goes, redisVars, history, Types, KeysAreSet
<1>4. ASSUME NEW q \in Request, Eval(q) PROVE Types' /\ KeysAreSet'
  <2> DEFINE s == Slide(Stored(key[q]), stamp[q])
  <2>1. key[q] \in Key /\ stamp[q] \in Nat /\ answers \in Nat
    BY <1>4 DEF Eval, Types, KeysAreSet
  <2>2. Slid(Stored(key[q]), stamp[q], s)
    BY <2>1, StoredFacts, SlideFacts
  <2>3. s.times \in SUBSET Event
    BY <2>2 DEF Slid
  <2>4. /\ redis' = [redis EXCEPT ![key[q]] = s.times] /\ Decided(key[q], stamp[q], "redis", s)
        /\ expiry' = [expiry EXCEPT ![key[q]] = now + Window] /\ late' = (late \/ Late(q))
        /\ Goes(q, "answered") \/ Goes(q, "failed")
        /\ UNCHANGED <<now, key, stamp, local, degraded, forgotten>>
    BY <1>4 DEF Eval
  <2>5. now + Window \in Nat
    <3>1. now \in Nat
      BY DEF Types
    <3> QED
      BY <3>1, Sizes
  <2>6. redis' \in [Key -> SUBSET Event] /\ expiry' \in [Key -> Nat]
    <3> HIDE DEF s
    <3> QED
      BY <2>1, <2>3, <2>4, <2>5 DEF Types
  <2>7. late' \in BOOLEAN
    BY <2>4
  <2>8. /\ answers' \in Nat
        /\ admitted' \in [Key -> [Via -> SUBSET Event]]
        /\ refused' \in [Key -> [Via -> Seq(Refusal)]]
    <3> HIDE DEF s
    <3> QED
      BY <2>1, <2>2, <2>4, DecidedTypes DEF Via
  <2>9. /\ pc' \in [Request -> {"idle", "sent", "answered", "failed", "reset", "reset failed"}]
        /\ KeysAreSet'
    <3>1. \/ pc' = [pc EXCEPT ![q] = "answered"]
          \/ pc' = [pc EXCEPT ![q] = "failed"]
      BY <2>4 DEF Goes
    <3>2. key' = key
      BY <2>4
    <3> HIDE DEF s
    <3> QED
      BY <2>1, <3>1, <3>2 DEF Types, KeysAreSet
  <2> HIDE DEF s
  <2> QED
    BY <2>4, <2>6, <2>7, <2>8, <2>9 DEF Types
<1>5. ASSUME NEW q \in Request, Unreached(q) PROVE Types' /\ KeysAreSet'
  BY <1>5 DEF Unreached, Goes, redisVars, history, Types, KeysAreSet
<1>6. ASSUME NEW q \in Request, Answer(q) PROVE Types' /\ KeysAreSet'
  <2>1. forgotten' \in [Critical -> Nat]
    BY <1>6, ForgottenTypes DEF Answer
  <2> QED
    BY <1>6, <2>1 DEF Answer, Returns, MarkHealthy, Goes, redisVars, history, Types, KeysAreSet
<1>7. ASSUME NEW q \in Request, Fallback(q) PROVE Types' /\ KeysAreSet'
  <2>1. /\ pc' \in [Request -> {"idle", "sent", "answered", "failed", "reset", "reset failed"}]
        /\ key' \in [Request -> Key \cup {None}] /\ stamp' \in [Request -> Nat]
        /\ KeysAreSet' /\ degraded' \in BOOLEAN /\ UNCHANGED <<now, redis, expiry, late>>
    BY <1>7 DEF Fallback, Returns, MarkDegraded, Goes, redisVars, Types, KeysAreSet
  <2>2. CASE UNCHANGED <<local, history, forgotten>>
    BY <2>1, <2>2 DEF Types, history
  <2>3. CASE key[q] \in Critical /\ ConsumeLocal(q)
    <3> DEFINE s == Slide(Hits(key[q]), now)
               e == [key |-> key[q], times |-> s.times, nth |-> answers]
    <3>1. now \in Nat /\ answers \in Nat /\ key[q] \in Key /\ key[q] \in Critical
      BY <2>3, Criticals DEF Types
    <3>2. Slid(Hits(key[q]), now, s)
      BY <3>1, HitsFacts, SlideFacts
    <3>3. Touch(key[q], s.times) /\ Decided(key[q], now, "local", s)
      BY <2>3 DEF ConsumeLocal
    <3>4. e \in Entry
      <4>1. s.times \in SUBSET Event
        BY <3>2 DEF Slid
      <4> HIDE DEF s
      <4> QED
        BY <3>1, <4>1 DEF Entry
    <3>5. local' \in SUBSET Entry
      <4>1. local' \subseteq local \cup {e}
        <5> HIDE DEF s
        <5> QED
          BY <3>3 DEF Touch, Without
      <4> HIDE DEF e
      <4> QED
        BY <3>4, <4>1 DEF Types
    <3>6. forgotten' \in [Critical -> Nat]
      <4> HIDE DEF s
      <4> QED
        BY <3>3, ForgottenTypes DEF Touch
    <3>7. /\ answers' \in Nat
          /\ admitted' \in [Key -> [Via -> SUBSET Event]]
          /\ refused' \in [Key -> [Via -> Seq(Refusal)]]
      <4> HIDE DEF s
      <4> QED
        BY <3>1, <3>2, <3>3, DecidedTypes DEF Via
    <3> QED
      BY <2>1, <3>5, <3>6, <3>7 DEF Types
  <2> QED
    BY <1>7, <2>2, <2>3 DEF Fallback
<1>8. ASSUME NEW q \in Request, SendReset(q) PROVE Types' /\ KeysAreSet'
  <2>1. PICK k \in Critical : key' = [key EXCEPT ![q] = k]
    BY <1>8 DEF SendReset
  <2>2. answers \in Nat /\ answers' = answers + 1
    BY <1>8 DEF SendReset, Types
  <2>3. answers' \in Nat
    BY <2>2
  <2>4. pc' = [pc EXCEPT ![q] = "reset"]
    BY <1>8 DEF SendReset, Goes
  <2>5. KeysAreSet'
    BY <2>1, <2>4, Criticals DEF Types, KeysAreSet
  <2> QED
    BY <1>8, <2>1, <2>3, <2>4, <2>5, Criticals DEF SendReset, redisVars, Types
<1>9. ASSUME NEW q \in Request, Del(q) PROVE Types' /\ KeysAreSet'
  <2>1. key[q] \in Key
    BY <1>9 DEF Del, KeysAreSet
  <2> QED
    BY <1>9, <2>1 DEF Del, Goes, Cleared, Types, KeysAreSet, Via
<1>10. ASSUME NEW q \in Request, ResetUnreached(q) PROVE Types' /\ KeysAreSet'
  BY <1>10 DEF ResetUnreached, Goes, redisVars, history, Types, KeysAreSet
<1>11. ASSUME NEW q \in Request, ResetFallback(q) PROVE Types' /\ KeysAreSet'
  <2>1. key[q] \in Critical /\ key[q] \in Key
    BY <1>11, Criticals DEF ResetFallback, KeysAreSet
  <2> QED
    BY <1>11, <2>1 DEF ResetFallback, Returns, MarkDegraded, Cleared, Without, Goes, redisVars,
                       Types, KeysAreSet, Via
<1> QED
  BY <1>1, <1>2, <1>3, <1>4, <1>5, <1>6, <1>7, <1>8, <1>9, <1>10, <1>11 DEF Next

\* Whom a decision admits.
LEMMA DecidedAdmits ==
  ASSUME Types, NEW k \in Key, NEW via \in Via, NEW at, NEW s, Decided(k, at, via, s)
  PROVE  admitted'[k][via] = Admits(admitted[k][via], at, s)
<1> DEFINE event == [at |-> at, nth |-> answers]
<1>1. admitted \in [Key -> [Via -> SUBSET Event]]
  BY DEF Types
<1>2. CASE s.allowed
  <2>1. admitted' = [admitted EXCEPT ![k][via] = @ \cup {event}]
    BY <1>2 DEF Decided
  <2>2. admitted'[k][via] = admitted[k][via] \cup {event}
    <3> HIDE DEF event
    <3> QED
      BY <1>1, <2>1
  <2> QED
    BY <1>2, <2>2 DEF Admits
<1>3. CASE ~s.allowed
  BY <1>3 DEF Decided, Admits
<1> QED
  BY <1>2, <1>3

\* Whom a decision refuses.
LEMMA DecidedRefuses ==
  ASSUME Types, NEW k \in Key, NEW via \in Via, NEW at, NEW s, Decided(k, at, via, s)
  PROVE  /\ s.allowed => refused'[k][via] = <<>>
         /\ ~s.allowed => refused'[k][via] = Append(refused[k][via], [at |-> at, retry |-> s.retry])
<1> DEFINE r == IF s.allowed THEN <<>> ELSE Append(refused[k][via], [at |-> at, retry |-> s.retry])
<1>1. refused' = [refused EXCEPT ![k][via] = r] /\ refused \in [Key -> [Via -> Seq(Refusal)]]
  BY DEF Decided, Types
<1>2. refused'[k][via] = r
  <2> HIDE DEF r
  <2> QED
    BY <1>1
<1> QED
  BY <1>2

\* A decision is of one key and one store.
LEMMA DecidedElse ==
  ASSUME Types, NEW k \in Key, NEW via \in Via, NEW at, NEW s, Decided(k, at, via, s)
  PROVE  \A j \in Key, v \in Via : j # k \/ v # via =>
           admitted'[j][v] = admitted[j][v] /\ refused'[j][v] = refused[j][v]
<1> DEFINE r == IF s.allowed THEN <<>> ELSE Append(refused[k][via], [at |-> at, retry |-> s.retry])
           event == [at |-> at, nth |-> answers]
<1>1. /\ refused' = [refused EXCEPT ![k][via] = r] /\ refused \in [Key -> [Via -> Seq(Refusal)]]
      /\ \/ admitted' = [admitted EXCEPT ![k][via] = @ \cup {event}]
         \/ admitted' = admitted
      /\ admitted \in [Key -> [Via -> SUBSET Event]]
  BY DEF Decided, Types
<1> HIDE DEF r, event
<1> QED
  BY <1>1

\* What was admitted stays finite and in the past.
LEMMA AdmittedKeeps ==
  ASSUME Types, Windows, NEW k \in Key, NEW via \in Via, NEW at, NEW s, Decided(k, at, via, s)
  PROVE  \A j \in Key, v \in Via : IsFiniteSet(admitted'[j][v]) /\ Young(admitted[j][v])'
<1>1. ASSUME NEW j \in Key, NEW v \in Via
      PROVE  /\ IsFiniteSet(admitted[j][v]) /\ Young(admitted[j][v])
             /\ \A t \in admitted[j][v] : t.nth \in Nat
  <2>1. admitted[j][v] \in SUBSET Event
    BY DEF Types
  <2>2. \A t \in admitted[j][v] : t.nth \in Nat
    BY <2>1 DEF Event
  <2> QED
    BY <2>2 DEF Windows
<1>2. answers \in Nat /\ answers' = answers + 1
  BY DEF Decided, Types
<1>3. ASSUME NEW j \in Key, NEW v \in Via, j # k \/ v # via
      PROVE  IsFiniteSet(admitted'[j][v]) /\ Young(admitted[j][v])'
  <2>1. admitted'[j][v] = admitted[j][v]
    BY <1>3, DecidedElse
  <2> QED
    BY <1>1, <1>2, <2>1 DEF Young
<1>4. IsFiniteSet(admitted'[k][via]) /\ Young(admitted[k][via])'
  <2> DEFINE event == [at |-> at, nth |-> answers]
             all == admitted[k][via]
  <2>1. admitted'[k][via] = all \/ admitted'[k][via] = all \cup {event}
    BY DecidedAdmits DEF Admits
  <2>2. IsFiniteSet(all \cup {event}) /\ IsFiniteSet(all)
    <3> HIDE DEF event
    <3> QED
      BY <1>1, FS_AddElement
  <2>3. \A t \in all \cup {event} : t.nth < answers + 1
    <3>1. \A t \in all : t.nth < answers /\ t.nth \in Nat
      BY <1>1 DEF Young
    <3>2. event.nth = answers
      OBVIOUS
    <3> HIDE DEF all, event
    <3> QED
      BY <1>2, <3>1, <3>2
  <2> HIDE DEF all, event
  <2> QED
    BY <1>2, <2>1, <2>2, <2>3 DEF Young
<1> QED
  BY <1>3, <1>4

\* Who was told a time is kept to it by the decisions after.
LEMMA ToldKeeps ==
  ASSUME Types, NEW k \in Key, NEW via \in Via, NEW at \in Nat, NEW s, Decided(k, at, via, s),
         NEW times, Bounded(times), NEW seen \in SUBSET times, Slid(seen, at, s),
         Told(refused[k][via], times)
  PROVE  Told(refused'[k][via], s.times)
<1>1. refused[k][via] \in Seq(Refusal)
  BY DEF Types
<1>2. CASE s.allowed
  <2>1. refused'[k][via] = <<>>
    BY <1>2, DecidedRefuses
  <2> QED
    BY <2>1 DEF Told
<1>3. CASE ~s.allowed
  <2>1. refused'[k][via] = Append(refused[k][via], [at |-> at, retry |-> s.retry])
    BY <1>3, DecidedRefuses
  <2>2. Told(Append(refused[k][via], [at |-> at, retry |-> s.retry]), s.times)
    BY <1>1, <1>3, ToldAgain
  <2> QED
    BY <2>1, <2>2
<1> QED
  BY <1>2, <1>3

\* A bound by the number of decisions grows with them.
LEMMA BoundedGrows ==
  ASSUME NEW times, Bounded(times), answers \in Nat, answers' \in Nat, answers' >= answers
  PROVE  Bounded(times)'
<1>1. \A t \in times : t.nth \in Nat /\ t.nth < answers
  BY DEF Bounded, Event
<1>2. \A t \in times : t.nth < answers'
  BY <1>1
<1> QED
  BY <1>2 DEF Bounded

\* The window of Redis.
LEMMA EvalKeeps ==
  ASSUME LimiterInv, NEW q \in Request, Eval(q)
  PROVE  Windows' /\ Tracking' /\ RedisKept' /\ StandInStands' /\ AllTold'
<1>k. PICK k, at : k = key[q] /\ at = stamp[q]
  OBVIOUS
<1>s. PICK s : s = Slide(Stored(k), at)
  OBVIOUS
<1>1. k \in Key /\ at \in Nat /\ answers \in Nat /\ "redis" \in Via /\ "local" \in Via
  BY <1>k DEF Eval, LimiterInv, Types, KeysAreSet, Via
<1>2. Types /\ Windows
  BY DEF LimiterInv
<1>3. Stored(k) \in SUBSET redis[k] /\ Bounded(Stored(k)) /\ Bounded(redis[k])
  BY <1>1, <1>2, StoredFacts DEF Windows
<1>4. Slid(Stored(k), at, s)
  BY <1>1, <1>3, <1>s, SlideFacts
<1>5. /\ redis' = [redis EXCEPT ![k] = s.times] /\ Decided(k, at, "redis", s)
      /\ late' = (late \/ Late(q))
      /\ UNCHANGED <<now, local, degraded, forgotten>>
  BY <1>k, <1>s DEF Eval
<1>6. Late(q) <=> \/ \E t \in redis[k] : t.at > at
                  \/ Alive(redis[k], at) # Alive(Stored(k), at)
  BY <1>k DEF Late
<1>7. /\ answers' = answers + 1
      /\ admitted'[k]["redis"] = Admits(admitted[k]["redis"], at, s)
      /\ \A j \in Key, v \in Via : j # k \/ v # "redis" =>
           admitted'[j][v] = admitted[j][v] /\ refused'[j][v] = refused[j][v]
  <2>0. answers' = answers + 1
    BY <1>5 DEF Decided
  <2>1. admitted'[k]["redis"] = Admits(admitted[k]["redis"], at, s)
    BY <1>1, <1>2, <1>5, DecidedAdmits
  <2>2. \A j \in Key, v \in Via : j # k \/ v # "redis" =>
           admitted'[j][v] = admitted[j][v] /\ refused'[j][v] = refused[j][v]
    BY <1>1, <1>2, <1>5, DecidedElse
  <2> QED
    BY <2>0, <2>1, <2>2
<1>8. redis'[k] = s.times /\ \A j \in Key : j # k => redis'[j] = redis[j]
  BY <1>1, <1>2, <1>5 DEF Types
<1>9. Windows'
  <2>1. \A j \in Key, v \in Via : IsFiniteSet(admitted'[j][v]) /\ Young(admitted[j][v])'
    BY <1>1, <1>2, <1>5, AdmittedKeeps
  <2>2. ASSUME NEW j \in Key PROVE Bounded(redis[j])'
    <3>1. CASE j = k
      BY <1>4, <1>7, <1>8, <3>1 DEF Bounded, Slid
    <3>2. CASE j # k
      <4>1. Bounded(redis[j]) /\ redis'[j] = redis[j] /\ answers' >= answers /\ answers' \in Nat
        BY <1>1, <1>2, <1>7, <1>8, <3>2 DEF Windows
      <4>2. PICK w : w = redis[j]
        OBVIOUS
      <4>3. Bounded(w)'
        BY <1>1, <4>1, <4>2, BoundedGrows
      <4> QED
        BY <4>1, <4>2, <4>3 DEF Bounded
    <3> QED
      BY <3>1, <3>2
  <2>3. ASSUME NEW e \in local PROVE Bounded(e.times)'
    <3>1. Bounded(e.times) /\ answers' >= answers /\ answers' \in Nat
      BY <1>1, <1>2, <1>7 DEF Windows
    <3>2. PICK w : w = e.times
      OBVIOUS
    <3>3. Bounded(w)'
      BY <1>1, <3>1, <3>2, BoundedGrows
    <3> QED
      BY <3>2, <3>3 DEF Bounded
  <2>4. \A e \in local' : Bounded(e.times)'
    BY <1>5, <2>3 DEF Bounded
  <2> QED
    BY <2>1, <2>2, <2>4 DEF Windows
<1>10. Tracking'
  BY <1>5 DEF LimiterInv, Tracking
<1>11. \A j : Hits(j)' = Hits(j)
  BY <1>5 DEF Hits
<1>12. RedisKept'
  <2> SUFFICES ASSUME ~late', NEW j \in Key PROVE Kept(redis'[j], admitted'[j]["redis"])
    BY DEF RedisKept, Kept, Left, In
  <2>1. ~late /\ ~Late(q)
    BY <1>5
  <2>2. Kept(redis[j], admitted[j]["redis"])
    BY <2>1 DEF LimiterInv, RedisKept
  <2>3. CASE j # k
    BY <1>1, <1>7, <1>8, <2>2, <2>3
  <2>4. CASE j = k
    <3>1. /\ \A t \in redis[k] : ~(t.at > at)
          /\ Alive(redis[k], at) = Alive(Stored(k), at)
      BY <1>6, <2>1
    <3>2. \A t \in redis[k] : t.at <= at
      <4>1. \A t \in redis[k] : t.at \in Nat
        BY <1>3 DEF Bounded, Event
      <4> QED
        BY <1>1, <3>1, <4>1
    <3>3. Slid(redis[k], at, s)
      BY <1>4, <3>1 DEF Slid
    <3>4. admitted[k]["redis"] \in SUBSET Event /\ IsFiniteSet(admitted[k]["redis"])
      BY <1>1, <1>2 DEF Types, Windows
    <3>5. Kept(s.times, Admits(admitted[k]["redis"], at, s))
      BY <1>1, <1>3, <2>2, <2>4, <3>2, <3>3, <3>4, WindowSlides
    <3> QED
      BY <1>7, <1>8, <2>4, <3>5
  <2> QED
    BY <2>3, <2>4
<1>13. StandInStands'
  <2>1. \A j \in Critical : admitted'[j]["local"] = admitted[j]["local"]
    BY <1>1, <1>7, Criticals
  <2> QED
    BY <1>5, <1>11, <2>1 DEF LimiterInv, StandInStands, Stood, Most, In
<1>14. AllTold'
  <2> SUFFICES ASSUME NEW j \in Key
               PROVE  /\ Told(refused'[j]["redis"], redis'[j])
                      /\ Told(refused'[j]["local"], Hits(j)')
    BY DEF AllTold, Told, Waits, Outlive
  <2>1. Told(refused[j]["redis"], redis[j]) /\ Told(refused[j]["local"], Hits(j))
    BY DEF LimiterInv, AllTold
  <2>2. Told(refused'[j]["local"], Hits(j)')
    BY <1>1, <1>7, <1>11, <2>1
  <2>3. CASE j # k
    BY <1>1, <1>7, <1>8, <2>1, <2>2, <2>3
  <2>4. CASE j = k
    <3>1. Told(refused'[k]["redis"], s.times)
      <4>1. PICK w, seen : w = redis[k] /\ seen = Stored(k)
        OBVIOUS
      <4> QED
        BY <1>1, <1>2, <1>3, <1>4, <1>5, <2>1, <2>4, <4>1, ToldKeeps
    <3> QED
      BY <1>8, <2>2, <2>4, <3>1
  <2> QED
    BY <2>3, <2>4
<1> QED
  BY <1>9, <1>10, <1>12, <1>13, <1>14

\* What becomes of the window in memory of a key: it stays, or it is dropped and that counts.
Loses(k) ==
  \/ Hits(k)' = Hits(k) /\ (k \in Critical => forgotten'[k] = forgotten[k])
  \/ Hits(k)' = {} /\ (k \in Critical => forgotten'[k] = forgotten[k] + 1)

\* The bound in memory, when a key is lost.
LEMMA LosesStands ==
  ASSUME Types, Windows, Tracking, NEW k \in Critical, Loses(k),
         UNCHANGED now, admitted'[k]["local"] = admitted[k]["local"],
         Stood(Hits(k), admitted[k]["local"], forgotten[k], now)
  PROVE  Stood(Hits(k)', admitted'[k]["local"], forgotten'[k], now')
<1>1. k \in Key /\ forgotten[k] \in Nat /\ now \in Nat /\ IsFiniteSet(admitted[k]["local"])
  BY Criticals DEF Types, Windows, Via
<1>2. Bounded(Hits(k))
  BY HitsFacts
<1>3. Stood({}, admitted[k]["local"], forgotten[k] + 1, now)
  BY <1>1, <1>2, StandInForgets
<1> QED
  BY <1>3 DEF Loses

\* Who was told a time, when a key is lost.
LEMMA LosesTold ==
  ASSUME Windows, Tracking, NEW k, Loses(k), NEW r, Told(r, Hits(k))
  PROVE  Told(r, Hits(k)')
<1>1. PICK w, w2 : w = Hits(k) /\ w2 = Hits(k)'
  OBVIOUS
<1>2. w2 \in SUBSET w /\ Bounded(w)
  BY <1>1, HitsFacts DEF Loses
<1>3. Told(r, w2)
  BY <1>1, <1>2, ToldLess
<1> QED
  BY <1>1, <1>3

\* What is in memory when a key is touched, and others go to make room.
LEMMA TouchFacts ==
  ASSUME Types, Tracking, NEW k \in Critical, NEW times, Touch(k, times)
  PROVE  /\ IsFiniteSet(local') /\ Cardinality(local') <= MaxTrackedKeys
         /\ \A e, f \in local' : e.key = f.key => e = f
         /\ Hits(k)' = times /\ forgotten'[k] = forgotten[k]
         /\ \A e \in local' : e \in local \/ e.times = times
         /\ \A j : j # k => Loses(j)
<1> DEFINE out == IF Full(k) THEN {First(Without(k))} ELSE {}
           entry == [key |-> k, times |-> times, nth |-> answers]
           rest == Without(k) \ out
<1>1. /\ local' = rest \cup {entry}
      /\ forgotten' = [j \in Critical |-> IF j \in {e.key : e \in out} /\ Tracked(j)
                                          THEN forgotten[j] + 1 ELSE forgotten[j]]
  BY DEF Touch, Drops
<1>2. /\ Without(k) \in SUBSET local /\ IsFiniteSet(Without(k))
      /\ Cardinality(Without(k)) \in Nat /\ Cardinality(Without(k)) <= MaxTrackedKeys
  <2>1. Without(k) \in SUBSET local
    BY DEF Without
  <2> QED
    BY <2>1, Fewer, Sizes DEF Tracking
<1>3. out \subseteq Without(k)
  <2>1. CASE Full(k)
    <3>1. Cardinality(Without(k)) # 0
      BY <1>2, <2>1, Sizes DEF Full
    <3>2. Without(k) # {}
      BY <3>1, FS_EmptySet
    <3> QED
      BY <1>2, <3>2, FirstIsOne DEF Types
  <2> QED
    BY <2>1
<1>4. IsFiniteSet(rest) /\ Cardinality(rest) \in Nat /\ Cardinality(rest) < MaxTrackedKeys
  <2>1. CASE Full(k)
    <3>1. rest = Without(k) \ {First(Without(k))} /\ First(Without(k)) \in Without(k)
      BY <1>3, <2>1
    <3>2. IsFiniteSet(rest) /\ Cardinality(rest) = Cardinality(Without(k)) - 1
      <4> HIDE DEF rest
      <4> QED
        BY <1>2, <3>1, FS_RemoveElement
    <3>3. Cardinality(rest) \in Nat
      <4> HIDE DEF rest
      <4> QED
        BY <3>2, FS_CardinalityType
    <3> HIDE DEF rest
    <3> QED
      BY <1>2, <3>2, <3>3, Sizes
  <2>2. CASE ~Full(k)
    <3>1. rest = Without(k)
      BY <2>2
    <3> HIDE DEF rest
    <3> QED
      BY <1>2, <2>2, <3>1, Sizes DEF Full
  <2> QED
    BY <2>1, <2>2
<1>5. entry.key = k /\ entry.times = times /\ \A e \in rest : e \in local /\ e.key # k
  BY DEF Without
<1>6. IsFiniteSet(local') /\ Cardinality(local') <= MaxTrackedKeys
  <2> HIDE DEF rest, entry
  <2>1. /\ IsFiniteSet(local')
        /\ Cardinality(local') = IF entry \in rest THEN Cardinality(rest) ELSE Cardinality(rest) + 1
    BY <1>1, <1>4, FS_AddElement
  <2> QED
    BY <1>4, <2>1, Sizes
<1>7. \A e, f \in local' : e.key = f.key => e = f
  <2> HIDE DEF rest, entry
  <2> QED
    BY <1>1, <1>5 DEF Tracking
<1>8. Hits(k)' = times
  <2>1. {e \in local' : e.key = k} = {entry}
    <3> HIDE DEF rest, entry
    <3> QED
      BY <1>1, <1>5
  <2> HIDE DEF entry
  <2> QED
    BY <1>5, <2>1 DEF Hits
<1>9. forgotten'[k] = forgotten[k]
  <2>1. k \notin {e.key : e \in out}
    BY <1>3 DEF Without
  <2> HIDE DEF out
  <2> QED
    BY <1>1, <2>1
<1>10. \A e \in local' : e \in local \/ e.times = times
  <2> HIDE DEF rest, entry
  <2> QED
    BY <1>1, <1>5
<1>11. ASSUME NEW j, j # k PROVE Loses(j)
  <2>1. \A e \in local : e.key = j => e \in Without(k)
    BY <1>11 DEF Without
  <2>2. CASE \E e \in out : e.key = j
    <3>1. PICK o \in out : o.key = j
      BY <2>2
    <3>2. o \in local
      BY <1>2, <1>3, <3>1
    <3>3. {e \in local' : e.key = j} = {}
      <4>1. \A e \in local : e.key = j => e = o
        BY <3>1, <3>2 DEF Tracking
      <4>2. \A e \in rest : e.key # j
        BY <1>5, <3>1, <4>1
      <4> HIDE DEF rest, entry
      <4> QED
        BY <1>1, <1>5, <1>11, <4>2
    <3>4. Hits(j)' = {}
      BY <3>3 DEF Hits
    <3>5. Tracked(j) /\ j \in {e.key : e \in out}
      BY <3>1, <3>2 DEF Tracked
    <3> HIDE DEF out
    <3> QED
      BY <1>1, <3>4, <3>5 DEF Loses
  <2>3. CASE ~\E e \in out : e.key = j
    <3>1. {e \in local' : e.key = j} = {e \in local : e.key = j}
      <4>1. \A e \in local : e.key = j => e \in rest
        BY <2>1, <2>3
      <4> HIDE DEF rest, entry
      <4> QED
        BY <1>1, <1>5, <1>11, <4>1
    <3>2. Hits(j)' = Hits(j)
      BY <3>1 DEF Hits
    <3>3. j \notin {e.key : e \in out}
      BY <2>3
    <3> HIDE DEF out
    <3> QED
      BY <1>1, <3>2, <3>3 DEF Loses
  <2> QED
    BY <2>2, <2>3
<1> QED
  BY <1>6, <1>7, <1>8, <1>9, <1>10, <1>11

\* The window in memory.
LEMMA ConsumeLocalKeeps ==
  ASSUME LimiterInv, NEW q \in Request, key[q] \in Critical, ConsumeLocal(q),
         UNCHANGED <<now, redis, late>>, degraded'
  PROVE  Windows' /\ Tracking' /\ RedisKept' /\ StandInStands' /\ AllTold'
<1>k. PICK k, at : k = key[q] /\ at = now
  OBVIOUS
<1>s. PICK s : s = Slide(Hits(k), at)
  OBVIOUS
<1>1. k \in Critical /\ k \in Key /\ at \in Nat /\ answers \in Nat /\ "redis" \in Via /\ "local" \in Via
  BY <1>k, Criticals DEF LimiterInv, Types, Via
<1>2. Types /\ Windows /\ Tracking
  BY DEF LimiterInv
<1>3. Bounded(Hits(k))
  BY <1>2, HitsFacts
<1>4. Slid(Hits(k), at, s)
  BY <1>1, <1>3, <1>s, SlideFacts
<1>5. Touch(k, s.times) /\ Decided(k, at, "local", s)
  BY <1>k, <1>s DEF ConsumeLocal
<1>6. /\ IsFiniteSet(local') /\ Cardinality(local') <= MaxTrackedKeys
      /\ \A e, f \in local' : e.key = f.key => e = f
      /\ Hits(k)' = s.times /\ forgotten'[k] = forgotten[k]
      /\ \A e \in local' : e \in local \/ e.times = s.times
      /\ \A j : j # k => Loses(j)
  BY <1>1, <1>2, <1>5, TouchFacts
<1>7. answers' = answers + 1
  BY <1>5 DEF Decided
<1>8. admitted'[k]["local"] = Admits(admitted[k]["local"], at, s)
  BY <1>1, <1>2, <1>5, DecidedAdmits
<1>9. \A j \in Key, v \in Via : j # k \/ v # "local" =>
         admitted'[j][v] = admitted[j][v] /\ refused'[j][v] = refused[j][v]
  BY <1>1, <1>2, <1>5, DecidedElse
<1>10. ASSUME NEW w, Bounded(w) PROVE Bounded(w)'
  BY <1>1, <1>7, <1>10, BoundedGrows
<1>11. Windows'
  <2>1. \A j \in Key, v \in Via : IsFiniteSet(admitted'[j][v]) /\ Young(admitted[j][v])'
    BY <1>1, <1>2, <1>5, AdmittedKeeps
  <2>2. ASSUME NEW j \in Key PROVE Bounded(redis[j])'
    <3>1. PICK w : w = redis[j]
      OBVIOUS
    <3>2. Bounded(w)'
      BY <1>2, <1>10, <3>1 DEF Windows
    <3> QED
      BY <3>1, <3>2 DEF Bounded
  <2>3. ASSUME NEW e \in local' PROVE Bounded(e.times)'
    <3>1. PICK w : w = e.times
      OBVIOUS
    <3>2. CASE e \in local
      <4>1. Bounded(w)'
        BY <1>2, <1>10, <3>1, <3>2 DEF Windows
      <4> QED
        BY <3>1, <4>1 DEF Bounded
    <3>3. CASE e.times = s.times
      BY <1>4, <1>7, <3>3 DEF Bounded, Slid
    <3> QED
      BY <1>6, <3>2, <3>3
  <2> QED
    BY <2>1, <2>2, <2>3 DEF Windows
<1>12. Tracking'
  BY <1>6 DEF Tracking
<1>13. RedisKept'
  <2>1. \A j \in Key : admitted'[j]["redis"] = admitted[j]["redis"]
    BY <1>1, <1>9
  <2> QED
    BY <2>1 DEF LimiterInv, RedisKept, Kept, Left, In
<1>14. StandInStands'
  <2> SUFFICES ASSUME NEW j \in Critical
               PROVE  Stood(Hits(j)', admitted'[j]["local"], forgotten'[j], now')
    BY DEF StandInStands, Stood, Most, In
  <2>1. Stood(Hits(j), admitted[j]["local"], forgotten[j], now)
    BY DEF LimiterInv, StandInStands
  <2>2. CASE j # k
    <3>1. admitted'[j]["local"] = admitted[j]["local"] /\ Loses(j)
      BY <1>1, <1>6, <1>9, <2>2, Criticals
    <3> QED
      BY <1>2, <2>1, <3>1, LosesStands
  <2>3. CASE j = k
    <3>1. IsFiniteSet(admitted[k]["local"]) /\ Young(admitted[k]["local"]) /\ forgotten[k] \in Nat
      BY <1>1, <1>2 DEF Types, Windows
    <3>2. Stood(s.times, Admits(admitted[k]["local"], at, s), forgotten[k], at)
      BY <1>1, <1>3, <1>4, <1>k, <2>1, <2>3, <3>1, StandInSlides
    <3> QED
      BY <1>6, <1>8, <1>k, <2>3, <3>2
  <2> QED
    BY <2>2, <2>3
<1>15. AllTold'
  <2> SUFFICES ASSUME NEW j \in Key
               PROVE  /\ Told(refused'[j]["redis"], redis'[j])
                      /\ Told(refused'[j]["local"], Hits(j)')
    BY DEF AllTold, Told, Waits, Outlive
  <2>1. Told(refused[j]["redis"], redis[j]) /\ Told(refused[j]["local"], Hits(j))
    BY DEF LimiterInv, AllTold
  <2>2. Told(refused'[j]["redis"], redis'[j])
    BY <1>1, <1>9, <2>1
  <2>3. CASE j # k
    <3>1. refused'[j]["local"] = refused[j]["local"] /\ Loses(j)
      BY <1>1, <1>6, <1>9, <2>3
    <3>2. PICK r : r = refused[j]["local"]
      OBVIOUS
    <3>3. Told(r, Hits(j)')
      BY <1>2, <2>1, <3>1, <3>2, LosesTold
    <3> QED
      BY <2>2, <3>1, <3>2, <3>3
  <2>4. CASE j = k
    <3>1. PICK w : w = Hits(k)
      OBVIOUS
    <3>2. w \in SUBSET w /\ Bounded(w) /\ Slid(w, at, s) /\ Told(refused[k]["local"], w)
      BY <1>3, <1>4, <2>1, <2>4, <3>1
    <3>3. Told(refused'[k]["local"], s.times)
      BY <1>1, <1>2, <1>5, <3>2, ToldKeeps
    <3> QED
      BY <1>6, <2>2, <2>4, <3>3
  <2> QED
    BY <2>3, <2>4
<1> QED
  BY <1>11, <1>12, <1>13, <1>14, <1>15

\* The bound in memory, when time passes.
LEMMA StoodLater ==
  ASSUME NEW times, NEW all, NEW n, NEW until \in Nat, NEW after \in Nat, after >= until,
         Stood(times, all, n, until)
  PROVE  Stood(times, all, n, after)
<1>1. \A from \in Int : from >= after - Window => from >= until - Window
  BY Sizes
<1> QED
  BY <1>1 DEF Stood

\* A step that admits nothing: time passes, an entry leaves the Map, a window is cleared
\* with its history.
LEMMA LesserKeeps ==
  ASSUME LimiterInv, now' \in Nat, now' >= now, answers' \in Nat, answers' >= answers,
         UNCHANGED <<refused, late>>, local' \subseteq local, degraded' = degraded \/ degraded' \/ local' = {},
         \A k \in Key : \/ redis'[k] = redis[k] /\ admitted'[k]["redis"] = admitted[k]["redis"]
                        \/ redis'[k] = {} /\ admitted'[k]["redis"] = {},
         \A k \in Key : \/ Loses(k) /\ admitted'[k]["local"] = admitted[k]["local"]
                        \/ /\ Hits(k)' = {} /\ admitted'[k]["local"] = {}
                           /\ k \in Critical => forgotten'[k] \in Nat
  PROVE  Windows' /\ Tracking' /\ RedisKept' /\ StandInStands' /\ AllTold'
<1>1. Types /\ Windows /\ Tracking /\ answers \in Nat /\ now \in Nat /\ "redis" \in Via /\ "local" \in Via
  BY DEF LimiterInv, Types, Via
<1>2. ASSUME NEW w, Bounded(w) PROVE Bounded(w)'
  BY <1>1, <1>2, BoundedGrows
<1>3. \A k \in Key : Hits(k)' \in SUBSET Hits(k)
  BY DEF Loses
<1>4. Windows'
  <2>1. ASSUME NEW k \in Key PROVE Bounded(redis[k])'
    <3>1. Bounded(redis[k]) /\ (redis'[k] = redis[k] \/ redis'[k] = {})
      BY <1>1 DEF Windows
    <3>2. PICK w : w = redis'[k]
      OBVIOUS
    <3>3. Bounded(w)'
      BY <1>2, <3>1, <3>2, BoundedEmpty
    <3> QED
      BY <3>2, <3>3 DEF Bounded
  <2>2. ASSUME NEW e \in local' PROVE Bounded(e.times)'
    <3>1. PICK w : w = e.times
      OBVIOUS
    <3>2. Bounded(w)'
      BY <1>1, <1>2, <3>1 DEF Windows
    <3> QED
      BY <3>1, <3>2 DEF Bounded
  <2>3. ASSUME NEW k \in Key, NEW v \in Via
        PROVE  IsFiniteSet(admitted'[k][v]) /\ Young(admitted[k][v])'
    <3>1. admitted'[k][v] = admitted[k][v] \/ admitted'[k][v] = {}
      BY DEF Via
    <3>2. IsFiniteSet(admitted[k][v]) /\ \A t \in admitted[k][v] : t.nth < answers /\ t.nth \in Nat
      <4>1. admitted[k][v] \in SUBSET Event
        BY <1>1 DEF Types
      <4>2. \A t \in admitted[k][v] : t.nth \in Nat
        BY <4>1 DEF Event
      <4> QED
        BY <1>1, <4>2 DEF Windows, Young
    <3>3. \A t \in admitted[k][v] : t.nth < answers'
      BY <1>1, <3>2
    <3> QED
      BY <3>1, <3>2, <3>3, FS_EmptySet DEF Young
  <2> QED
    BY <2>1, <2>2, <2>3 DEF Windows
<1>5. Tracking'
  <2>1. IsFiniteSet(local') /\ Cardinality(local') <= MaxTrackedKeys
    <3>1. IsFiniteSet(local) /\ Cardinality(local) <= MaxTrackedKeys
      BY <1>1 DEF Tracking
    <3> QED
      BY <3>1, Fewer, Sizes
  <2> QED
    BY <1>1, <2>1 DEF Tracking
<1>6. RedisKept'
  <2> SUFFICES ASSUME ~late', NEW k \in Key PROVE Kept(redis'[k], admitted'[k]["redis"])
    BY DEF RedisKept, Kept, Left, In
  <2>1. Kept(redis[k], admitted[k]["redis"])
    BY DEF LimiterInv, RedisKept
  <2> QED
    BY <2>1, KeptEmpty
<1>7. StandInStands'
  <2> SUFFICES ASSUME NEW k \in Critical
               PROVE  Stood(Hits(k)', admitted'[k]["local"], forgotten'[k], now')
    BY DEF StandInStands, Stood, Most, In
  <2>1. k \in Key /\ forgotten[k] \in Nat /\ IsFiniteSet(admitted[k]["local"])
    BY <1>1, Criticals DEF Types, Windows
  <2>2. Stood(Hits(k), admitted[k]["local"], forgotten[k], now)
    BY DEF LimiterInv, StandInStands
  <2>3. Bounded(Hits(k))
    BY <1>1, HitsFacts
  <2>4. CASE Loses(k) /\ admitted'[k]["local"] = admitted[k]["local"]
    <3>1. Stood({}, admitted[k]["local"], forgotten[k] + 1, now)
      BY <1>1, <2>1, <2>2, <2>3, StandInForgets
    <3>2. Stood(Hits(k)', admitted'[k]["local"], forgotten'[k], now)
      BY <2>2, <2>4, <3>1 DEF Loses
    <3>3. PICK w, all, n, until, after :
            w = Hits(k)' /\ all = admitted'[k]["local"] /\ n = forgotten'[k] /\ until = now /\ after = now'
      OBVIOUS
    <3> QED
      BY <1>1, <3>2, <3>3, StoodLater
  <2>5. CASE Hits(k)' = {} /\ admitted'[k]["local"] = {} /\ forgotten'[k] \in Nat
    <3>1. PICK n, after : n = forgotten'[k] /\ after = now'
      OBVIOUS
    <3> QED
      BY <2>5, <3>1, StandInStarts
  <2> QED
    BY <2>1, <2>4, <2>5
<1>8. AllTold'
  <2> SUFFICES ASSUME NEW k \in Key
               PROVE  /\ Told(refused'[k]["redis"], redis'[k])
                      /\ Told(refused'[k]["local"], Hits(k)')
    BY DEF AllTold, Told, Waits, Outlive
  <2>1. Told(refused[k]["redis"], redis[k]) /\ Told(refused[k]["local"], Hits(k))
    BY DEF LimiterInv, AllTold
  <2>2. Bounded(redis[k]) /\ Bounded(Hits(k))
    BY <1>1, HitsFacts DEF Windows
  <2>3. PICK w, w2 : w = redis'[k] /\ w2 = Hits(k)'
    OBVIOUS
  <2>4. w \in SUBSET redis[k] /\ w2 \in SUBSET Hits(k)
    BY <1>3, <2>3
  <2>5. Told(refused[k]["redis"], w) /\ Told(refused[k]["local"], w2)
    BY <2>1, <2>2, <2>4, ToldLess
  <2> QED
    BY <2>3, <2>5
<1> QED
  BY <1>4, <1>5, <1>6, <1>7, <1>8

\* The invariant is inductive.
LEMMA LimiterKeeps ==
  ASSUME LimiterInv, [Next]_vars
  PROVE  LimiterInv'
<1>0. Types' /\ KeysAreSet'
  BY TypesKeep
<1> DEFINE Rest == Windows' /\ Tracking' /\ RedisKept' /\ StandInStands' /\ AllTold'
<1>t. /\ Types /\ now \in Nat /\ answers \in Nat
      /\ admitted \in [Key -> [Via -> SUBSET Event]] /\ redis \in [Key -> SUBSET Event]
      /\ forgotten \in [Critical -> Nat]
  BY DEF LimiterInv, Types
<1>s. ASSUME UNCHANGED <<redis, local, degraded, admitted, refused, late, forgotten>>,
             now' \in {now, now + 1}, answers' \in {answers, answers + 1}
      PROVE  Rest
  <2>1. now' \in Nat /\ now' >= now /\ answers' \in Nat /\ answers' >= answers
    BY <1>s, <1>t
  <2>2. \A k : Loses(k)
    BY <1>s DEF Loses, Hits
  <2> QED
    BY <1>s, <2>1, <2>2, LesserKeeps
<1>1. ASSUME UNCHANGED vars PROVE Rest
  BY <1>1, <1>s DEF vars, redisVars, history
<1>2. ASSUME Tick PROVE Rest
  BY <1>2, <1>s DEF Tick, redisVars, history
<1>3. ASSUME NEW q \in Request, Send(q) PROVE Rest
  BY <1>3, <1>s DEF Send, redisVars, history
<1>4. ASSUME NEW q \in Request, Eval(q) PROVE Rest
  BY <1>4, EvalKeeps
<1>5. ASSUME NEW q \in Request, Unreached(q) PROVE Rest
  BY <1>5, <1>s DEF Unreached, redisVars, history
<1>6. ASSUME NEW q \in Request, Answer(q) PROVE Rest
  <2>1. /\ local' = IF degraded THEN {} ELSE local
        /\ forgotten' = [k \in Critical |-> IF k \in (IF degraded THEN Key ELSE {}) /\ Tracked(k)
                                            THEN forgotten[k] + 1 ELSE forgotten[k]]
        /\ UNCHANGED <<now, redis, answers, admitted, refused, late>> /\ degraded' = FALSE
    BY <1>6 DEF Answer, MarkHealthy, Drops, redisVars, history
  <2>2. ASSUME NEW k \in Key PROVE Loses(k)
    <3>1. CASE degraded
      <4>1. Hits(k)' = {}
        BY <2>1, <3>1 DEF Hits
      <4>2. CASE Tracked(k)
        BY <2>1, <3>1, <4>1, <4>2 DEF Loses
      <4>3. CASE ~Tracked(k)
        <5>1. Hits(k) = {}
          BY <4>3, HitsFacts DEF LimiterInv
        <5> QED
          BY <2>1, <4>1, <4>3, <5>1 DEF Loses
      <4> QED
        BY <4>2, <4>3
    <3>2. CASE ~degraded
      <4>1. Hits(k)' = Hits(k)
        BY <2>1, <3>2 DEF Hits
      <4> QED
        BY <2>1, <3>2, <4>1 DEF Loses
    <3> QED
      BY <3>1, <3>2
  <2>3. local' = {}
    BY <2>1 DEF LimiterInv, Tracking
  <2> QED
    BY <1>t, <2>1, <2>2, <2>3, LesserKeeps
<1>7. ASSUME NEW q \in Request, Fallback(q) PROVE Rest
  <2>1. UNCHANGED <<now, redis, late>> /\ degraded' = TRUE
    BY <1>7 DEF Fallback, MarkDegraded, redisVars
  <2>2. CASE UNCHANGED <<local, history, forgotten>>
    <3>1. \A k : Loses(k)
      BY <2>2 DEF Loses, Hits
    <3> QED
      BY <1>t, <2>1, <2>2, <3>1, LesserKeeps DEF history
  <2>3. CASE key[q] \in Critical /\ ConsumeLocal(q)
    BY <2>1, <2>3, ConsumeLocalKeeps
  <2> QED
    BY <1>7, <2>2, <2>3 DEF Fallback
<1>8. ASSUME NEW q \in Request, SendReset(q) PROVE Rest
  BY <1>8, <1>s DEF SendReset, redisVars
<1>9. ASSUME NEW q \in Request, Del(q) PROVE Rest
  <2>1. PICK j \in Key : j = key[q]
    BY <1>9 DEF Del, LimiterInv, KeysAreSet
  <2>2. /\ redis' = [redis EXCEPT ![j] = {}] /\ admitted' = [admitted EXCEPT ![j]["redis"] = {}]
        /\ UNCHANGED <<now, local, degraded, answers, refused, late, forgotten>>
    BY <1>9, <2>1 DEF Del, Cleared
  <2>3. \A k : Loses(k)
    BY <2>2 DEF Loses, Hits
  <2>4. \A k \in Key : /\ admitted'[k]["local"] = admitted[k]["local"]
                       /\ \/ redis'[k] = redis[k] /\ admitted'[k]["redis"] = admitted[k]["redis"]
                          \/ redis'[k] = {} /\ admitted'[k]["redis"] = {}
    BY <1>t, <2>2 DEF Via
  <2> QED
    BY <1>t, <2>2, <2>3, <2>4, LesserKeeps
<1>10. ASSUME NEW q \in Request, ResetUnreached(q) PROVE Rest
  BY <1>10, <1>s DEF ResetUnreached, redisVars, history
<1>11. ASSUME NEW q \in Request, ResetFallback(q) PROVE Rest
  <2>1. PICK j \in Critical : j = key[q]
    BY <1>11 DEF ResetFallback, LimiterInv, KeysAreSet
  <2>2. /\ local' = Without(j) /\ admitted' = [admitted EXCEPT ![j]["local"] = {}]
        /\ forgotten' = [forgotten EXCEPT ![j] = 0] /\ degraded' = TRUE
        /\ UNCHANGED <<now, redis, answers, refused, late>>
    BY <1>11, <2>1 DEF ResetFallback, Cleared, MarkDegraded, redisVars
  <2>3. j \in Key
    BY <2>1, Criticals
  <2>4. /\ \A k \in Key : admitted'[k]["redis"] = admitted[k]["redis"]
        /\ \A k \in Key : k # j => admitted'[k]["local"] = admitted[k]["local"]
        /\ admitted'[j]["local"] = {} /\ forgotten'[j] \in Nat
    BY <1>t, <2>2, <2>3 DEF Via
  <2>5. local' \subseteq local
    BY <2>2 DEF Without
  <2>6. Hits(j)' = {}
    <3>1. {e \in local' : e.key = j} = {}
      BY <2>2 DEF Without
    <3> QED
      BY <3>1 DEF Hits
  <2>7. ASSUME NEW k \in Key, k # j PROVE Loses(k)
    <3>1. {e \in local' : e.key = k} = {e \in local : e.key = k}
      BY <2>2, <2>7 DEF Without
    <3>2. Hits(k)' = Hits(k)
      BY <3>1 DEF Hits
    <3> QED
      BY <1>t, <2>2, <2>7, <3>2 DEF Loses
  <2> QED
    BY <1>t, <2>2, <2>4, <2>5, <2>6, <2>7, LesserKeeps
<1>12. Rest
  BY <1>1, <1>2, <1>3, <1>4, <1>5, <1>6, <1>7, <1>8, <1>9, <1>10, <1>11 DEF Next
<1> QED
  BY <1>0, <1>12 DEF LimiterInv

\* The invariant holds.
LEMMA LimiterStands == Spec => []LimiterInv
<1>1. LimiterInv /\ [Next]_vars => LimiterInv'
  BY LimiterKeeps
<1> QED
  BY LimiterStarts, <1>1, PTL DEF Spec

\* Redis admits no more than the limit in any window unless a request came late, and the
\* window in memory no more, once over for each time it was rightly dropped, and nothing
\* of it is left while Redis answers: for any number of requests in flight, keys and limit.
THEOREM LimitStands == Spec => []LimitIsKept
<1>1. ASSUME LimiterInv PROVE LimitIsKept
  <2>1. \A from \in -Window..MaxTime : from \in Int
    OBVIOUS
  <2>2. WindowIsKept
    <3>1. ASSUME ~late, NEW k \in Key PROVE AtMost(admitted[k]["redis"], Limit)
      <4>1. Kept(redis[k], admitted[k]["redis"])
        BY <1>1, <3>1 DEF LimiterInv, RedisKept
      <4> QED
        BY <2>1, <4>1 DEF Kept, In, AtMost
    <3> QED
      BY <3>1 DEF WindowIsKept, NeverExceeded
  <2>3. StandInIsKept
    <3>1. ASSUME NEW k \in Critical PROVE AtMost(admitted[k]["local"], Limit * (1 + forgotten[k]))
      <4>1. Stood(Hits(k), admitted[k]["local"], forgotten[k], now)
        BY <1>1 DEF LimiterInv, StandInStands
      <4> QED
        BY <2>1, <4>1 DEF Stood, In, Most, AtMost
    <3> QED
      BY <1>1, <3>1 DEF StandInIsKept, LimiterInv, Tracking
  <2> QED
    BY <2>2, <2>3 DEF LimitIsKept
<1> QED
  BY LimiterStands, <1>1, PTL

\* Nobody who waited as long as Retry-After said is refused again by the same window, unless
\* somebody was admitted meanwhile: late or not, by Redis and by the window in memory.
THEOREM RetryStands == Spec => []RetryIsEnough
<1>1. ASSUME LimiterInv PROVE RetryIsEnough
  <2>1. \A k \in Key, v \in Via : \E times : Told(refused[k][v], times)
    BY <1>1 DEF LimiterInv, AllTold, Via
  <2> QED
    BY <2>1 DEF RetryIsEnough, Told
<1> QED
  BY LimiterStands, <1>1, PTL

(***************************************************************************)
(* Idempotency, the interceptor.                                           *)
(***************************************************************************)

CallsExclude ==
  \A r, s \in Request : callStep[r] \in Calls!Executing /\ callStep[s] \in Calls!Executing => r = s

\* A request that runs the handler owns the key: the row is in progress, for its
\* payload, or holds the snapshot the request wrote and takes for not written.
ExecutingOwns ==
  \A r \in Request : callStep[r] \in Calls!Executing =>
    /\ row.requestHash = PayloadHash[r]
    /\ \/ row.status = "in_progress"
       \/ callStep[r] = "fail" /\ row.status = "completed" /\ row.response = r

\* A request being served found a live row, and one about to reopen it found
\* its own payload there.
ServedSees ==
  \A r \in Request :
    /\ callStep[r] \in Calls!Served => Calls!HasRow /\ ~row.expired
    /\ callStep[r] = "reopen" => row.requestHash = PayloadHash[r]

\* A completed snapshot is the response to the payload the key was reserved for.
SnapshotMatches ==
  Calls!HasRow /\ row.status = "completed" =>
    row.response \in Request /\ PayloadHash[row.response] = row.requestHash

CallInv ==
  /\ Calls!TypeOK /\ CallsExclude /\ ExecutingOwns /\ ServedSees /\ SnapshotMatches
  /\ Calls!PayloadsAreToldApart

\* The inductive invariant of the exclusion and fidelity theorems.
CallsLive == Calls!TypeOK /\ (~outlived => CallInv)

\* An effect has been committed only if its request is still about to save it,
\* or saved it, or died: never while somebody may still run the handler.
EffectInv ==
  /\ effects <= 1
  /\ Calls!HasRow /\ row.status = "failed" => effects = 0
  /\ \A r \in Request : callStep[r] \in {"execute", "reject", "fail"} => effects = 0

\* The row that tryReserve writes.
LEMMA ReservedRow ==
  ASSUME NEW h \in Hash
  PROVE  LET new == Calls!Reserved(h) IN
           /\ new \in Calls!Row /\ new # NoRow
           /\ new.status = "in_progress" /\ new.requestHash = h /\ new.expired = FALSE
<1>1. Calls!Reserved(h) \in Calls!Row
  BY DEF Calls!Row, Calls!Status, Calls!Reserved
<1>2. Calls!Reserved(h).status = "in_progress" /\ Calls!Reserved(h).requestHash = h
  BY DEF Calls!Reserved
<1>3. Calls!Reserved(h).expired = FALSE
  BY DEF Calls!Reserved
<1> QED BY <1>1, <1>2, <1>3, CallsAssumption DEF Calls!IdempotencyAssumption

\* The row that reopen leaves: its payload and expiry are not touched.
LEMMA ReopenedRow ==
  ASSUME NEW old \in Calls!Row
  PROVE  LET new == Calls!Reopened(old) IN
           /\ new \in Calls!Row /\ new # NoRow
           /\ new.status = "in_progress" /\ new.requestHash = old.requestHash
           /\ new.expired = old.expired
<1>1. Calls!Reopened(old) \in Calls!Row
  BY DEF Calls!Row, Calls!Status, Calls!Reopened
<1>2. Calls!Reopened(old).status = "in_progress" /\ Calls!Reopened(old).requestHash = old.requestHash
  BY DEF Calls!Reopened, Calls!Row
<1>3. Calls!Reopened(old).expired = old.expired
  BY DEF Calls!Reopened, Calls!Row
<1> QED BY <1>1, <1>2, <1>3, CallsAssumption DEF Calls!IdempotencyAssumption

\* The row that complete leaves.
LEMMA ClosedRow ==
  ASSUME NEW old \in Calls!Row, NEW st \in Calls!Status, NEW x \in Request \cup {NoRequest}
  PROVE  LET new == Calls!Closed(old, st, x) IN
           /\ new \in Calls!Row /\ new # NoRow
           /\ new.status = st /\ new.response = x
           /\ new.requestHash = old.requestHash /\ new.expired = old.expired
<1>1. Calls!Closed(old, st, x) \in Calls!Row
  BY DEF Calls!Row, Calls!Closed
<1>2. Calls!Closed(old, st, x).status = st /\ Calls!Closed(old, st, x).response = x
  BY DEF Calls!Closed, Calls!Row
<1>3. Calls!Closed(old, st, x).requestHash = old.requestHash
  BY DEF Calls!Closed, Calls!Row
<1>4. Calls!Closed(old, st, x).expired = old.expired
  BY DEF Calls!Closed, Calls!Row
<1> QED BY <1>1, <1>2, <1>3, <1>4, CallsAssumption DEF Calls!IdempotencyAssumption

\* An expired row keeps its other columns.
LEMMA ExpiredRow ==
  ASSUME NEW old \in Calls!Row
  PROVE  LET new == [old EXCEPT !.expired = TRUE] IN
           /\ new \in Calls!Row /\ new # NoRow
           /\ new.status = old.status /\ new.requestHash = old.requestHash
           /\ new.response = old.response
  BY CallsAssumption DEF Calls!IdempotencyAssumption, Calls!Row

\* The payload of a request is a hash, and its status one of the three.
LEMMA CallParameters ==
  /\ \A r \in Request : PayloadHash[r] \in Hash
  /\ NoRequest \notin Request
  /\ NoRow \notin Calls!Row
  /\ "in_progress" \in Calls!Status /\ "completed" \in Calls!Status /\ "failed" \in Calls!Status
  /\ \A old \in Calls!Row : /\ old.requestHash \in Hash /\ old.status \in Calls!Status
                            /\ old.response \in Request \cup {NoRequest} /\ old.expired \in BOOLEAN
  BY CallsAssumption DEF Calls!IdempotencyAssumption, Calls!Row, Calls!Status

-----------------------------------------------------------------------------
\* Every statement of the code keeps every variable in its type.
LEMMA CallTypes == Calls!TypeOK /\ [Calls!Next]_(Calls!vars) => Calls!TypeOK'
<1> SUFFICES ASSUME Calls!TypeOK, [Calls!Next]_(Calls!vars) PROVE Calls!TypeOK'
  OBVIOUS
<1> USE CallParameters DEF Calls!TypeOK, Calls!Goto, Calls!Answer, Calls!HasRow, Calls!Served, Calls!Executing
<1>1. ASSUME NEW r \in Request, Calls!Reserve(r) PROVE Calls!TypeOK'
  <2>1. Calls!Reserved(PayloadHash[r]) \in Calls!Row
    BY ReservedRow, CallParameters
  <2> QED BY <1>1, <2>1 DEF Calls!Reserve
<1>2. ASSUME NEW r \in Request, Calls!Inspect(r) PROVE Calls!TypeOK'
  BY <1>2 DEF Calls!Inspect
<1>3. ASSUME NEW r \in Request, Calls!Reopen(r) PROVE Calls!TypeOK'
  <2>1. row \in Calls!Row => Calls!Reopened(row) \in Calls!Row
    BY ReopenedRow
  <2> QED BY <1>3, <2>1 DEF Calls!Reopen
<1>4. ASSUME NEW r \in Request,
             Calls!HandlerCommits(r) \/ Calls!HandlerThrows(r) \/ Calls!HandlerInDoubt(r)
      PROVE  Calls!TypeOK'
  BY <1>4 DEF Calls!HandlerCommits, Calls!HandlerThrows, Calls!HandlerInDoubt
<1>5. ASSUME NEW r \in Request, Calls!Complete(r) PROVE Calls!TypeOK'
  <2>1. row \in Calls!Row => /\ Calls!Closed(row, "failed", NoRequest) \in Calls!Row
                                /\ Calls!Closed(row, "completed", r) \in Calls!Row
    BY ClosedRow
  <2> QED BY <1>5, <2>1 DEF Calls!Complete, Calls!Snapshot
<1>6. ASSUME NEW r \in Request, Calls!CompleteFails(r) \/ Calls!Crash(r) PROVE Calls!TypeOK'
  <2>1. row \in Calls!Row => /\ Calls!Closed(row, "failed", NoRequest) \in Calls!Row
                                /\ Calls!Closed(row, "completed", r) \in Calls!Row
    BY ClosedRow
  <2>2. CASE Calls!CompleteFails(r)
    BY <2>1, <2>2 DEF Calls!CompleteFails, Calls!Snapshot
  <2>3. CASE Calls!Crash(r)
    BY <2>3 DEF Calls!Crash
  <2> QED BY <1>6, <2>2, <2>3
<1>7. CASE Calls!Expire
  BY <1>7, ExpiredRow DEF Calls!Expire
<1>8. CASE Calls!PurgeExpired
  BY <1>8 DEF Calls!PurgeExpired
<1>9. CASE UNCHANGED Calls!vars
  BY <1>9 DEF Calls!vars
<1> QED
  BY <1>1, <1>2, <1>3, <1>4, <1>5, <1>6, <1>7, <1>8, <1>9 DEF Calls!Next, Calls!Serve

\* Every step keeps the invariant when the row does not expire under a request.
LEMMA CallStep ==
  ASSUME ~outlived', CallInv, [Calls!Next]_(Calls!vars) PROVE CallInv'
<1> Calls!TypeOK'
  BY CallTypes DEF CallInv
<1> USE CallParameters DEF CallInv, Calls!TypeOK, CallsExclude, ExecutingOwns, ServedSees,
        SnapshotMatches, Calls!PayloadsAreToldApart, Calls!Goto, Calls!Answer, Calls!HasRow,
        Calls!Served, Calls!Executing
<1>1. ASSUME NEW r \in Request, Calls!Reserve(r) PROVE CallInv'
  <2> DEFINE new == Calls!Reserved(PayloadHash[r])
  <2>1. /\ new # NoRow /\ new.status = "in_progress"
        /\ new.requestHash = PayloadHash[r] /\ new.expired = FALSE
    BY ReservedRow, CallParameters
  <2> HIDE DEF new
  <2>2. CASE ~Calls!HasRow \/ row.expired
    <3>1. row' = new /\ callStep' = [callStep EXCEPT ![r] = "execute"] /\ UNCHANGED answer
      BY <1>1, <2>2 DEF Calls!Reserve, new
    <3>2. \A s \in Request : callStep[s] \notin Calls!Served
      BY <2>2
    <3> QED BY <2>1, <3>1, <3>2
  <2>3. CASE ~(~Calls!HasRow \/ row.expired)
    BY <1>1, <2>3 DEF Calls!Reserve
  <2> QED BY <2>2, <2>3
<1>2. ASSUME NEW r \in Request, Calls!Inspect(r) PROVE CallInv'
  BY <1>2 DEF Calls!Inspect
<1>3. ASSUME NEW r \in Request, Calls!Reopen(r) PROVE CallInv'
  <2>1. CASE Calls!HasRow /\ row.status = "failed"
    <3>1. row' = Calls!Reopened(row) /\ callStep' = [callStep EXCEPT ![r] = "execute"] /\ UNCHANGED answer
      BY <1>3, <2>1 DEF Calls!Reopen
    <3>2. /\ Calls!Reopened(row) # NoRow /\ Calls!Reopened(row).status = "in_progress"
          /\ Calls!Reopened(row).requestHash = row.requestHash
          /\ Calls!Reopened(row).expired = row.expired
      BY <2>1, ReopenedRow
    <3>3. callStep[r] = "reopen" /\ \A s \in Request : callStep[s] \notin Calls!Executing
      BY <1>3, <2>1 DEF Calls!Reopen
    <3> QED BY <3>1, <3>2, <3>3, <2>1
  <2>2. CASE ~(Calls!HasRow /\ row.status = "failed")
    BY <1>3, <2>2 DEF Calls!Reopen
  <2> QED BY <2>1, <2>2
<1>4. ASSUME NEW r \in Request,
             Calls!HandlerCommits(r) \/ Calls!HandlerThrows(r) \/ Calls!HandlerInDoubt(r)
      PROVE  CallInv'
  BY <1>4 DEF Calls!HandlerCommits, Calls!HandlerThrows, Calls!HandlerInDoubt
<1>5. ASSUME NEW r \in Request,
             Calls!Complete(r) \/ (Calls!CompleteFails(r) /\ Calls!Snapshot(r))
      PROVE  CallInv'
  <2> DEFINE st == IF callStep[r] = "fail" THEN "failed" ELSE "completed"
             x  == IF callStep[r] = "fail" THEN NoRequest ELSE r
             new == Calls!Closed(row, st, x)
  <2>1. row \in Calls!Row /\ callStep[r] \in Calls!Executing /\ row.requestHash = PayloadHash[r]
    BY <1>5 DEF Calls!Complete, Calls!CompleteFails
  <2>2. /\ row' = new
        /\ \/ /\ callStep' = [callStep EXCEPT ![r] = "done"]
              /\ answer' = [answer EXCEPT ![r] = x] \/ answer' = [answer EXCEPT ![r] = NoRequest]
           \/ callStep' = [callStep EXCEPT ![r] = "fail"] /\ UNCHANGED answer /\ st = "completed"
    <3>1. row' = new
      BY <1>5, <2>1 DEF Calls!Complete, Calls!CompleteFails, Calls!Snapshot
    <3>2. CASE Calls!Complete(r)
      BY <3>1, <3>2 DEF Calls!Complete
    <3>3. CASE Calls!CompleteFails(r)
      BY <3>1, <3>3 DEF Calls!CompleteFails
    <3> QED BY <1>5, <3>2, <3>3
  <2>3. st \in Calls!Status /\ x \in Request \cup {NoRequest}
    OBVIOUS
  <2>4. \A t \in Request : callStep[t] \in Calls!Executing => t = r
    BY <2>1
  <2>5. st = "completed" => x = r
    OBVIOUS
  <2>6. x = NoRequest \/ x = r
    OBVIOUS
  <2> HIDE DEF st, x
  <2>7. /\ new # NoRow /\ new.status = st /\ new.response = x
        /\ new.requestHash = row.requestHash /\ new.expired = row.expired
    BY ONLY <2>1, <2>3, ClosedRow
  <2> HIDE DEF new
  <2> QED BY <2>1, <2>2, <2>4, <2>5, <2>6, <2>7
<1>6. ASSUME NEW r \in Request, Calls!CompleteFails(r) \/ Calls!Crash(r) PROVE CallInv'
  <2>1. CASE Calls!CompleteFails(r) /\ Calls!Snapshot(r)
    BY <1>5, <2>1
  <2>2. CASE Calls!CompleteFails(r) /\ UNCHANGED row
    BY <2>2 DEF Calls!CompleteFails
  <2>3. CASE Calls!Crash(r)
    BY <2>3 DEF Calls!Crash
  <2> QED BY <1>6, <2>1, <2>2, <2>3 DEF Calls!CompleteFails
<1>7. CASE Calls!Expire
  <2> DEFINE new == [row EXCEPT !.expired = TRUE]
  <2>1. row' = new /\ UNCHANGED <<callStep, answer>> /\ \A s \in Request : callStep[s] \notin Calls!Served
    BY <1>7 DEF Calls!Expire
  <2>2. /\ new # NoRow /\ new.status = row.status /\ new.requestHash = row.requestHash
        /\ new.response = row.response
    BY <1>7, ExpiredRow DEF Calls!Expire
  <2> HIDE DEF new
  <2> QED BY <1>7, <2>1, <2>2 DEF Calls!Expire
<1>8. CASE Calls!PurgeExpired
  BY <1>8 DEF Calls!PurgeExpired
<1>9. CASE UNCHANGED Calls!vars
  BY <1>9 DEF Calls!vars
<1> QED
  BY <1>1, <1>2, <1>3, <1>4, <1>5, <1>6, <1>7, <1>8, <1>9 DEF Calls!Next, Calls!Serve

\* At the start.
LEMMA CallTypesStart == Calls!Init => Calls!TypeOK
<1> SUFFICES ASSUME Calls!Init PROVE Calls!TypeOK
  OBVIOUS
<1>1. outlived \in BOOLEAN
  BY Zenon DEF Calls!Init
<1>2. /\ row \in Calls!Row \cup {NoRow}
      /\ callStep \in [Request -> {"sent", "done"} \cup Calls!Served]
      /\ answer \in [Request -> Request \cup {NoRequest}]
  BY DEF Calls!Init
<1>3. crashes \in Nat /\ faults \in Nat /\ effects \in Nat
  BY DEF Calls!Init
<1> QED BY <1>1, <1>2, <1>3 DEF Calls!TypeOK

\* At the start.
LEMMA CallsStart == Calls!Init => CallInv
<1> SUFFICES ASSUME Calls!Init PROVE CallInv
  OBVIOUS
<1>1. ~Calls!HasRow /\ \A r \in Request : callStep[r] = "sent" /\ answer[r] = NoRequest
  BY DEF Calls!Init, Calls!HasRow
<1> QED BY <1>1, CallTypesStart DEF CallInv, CallsExclude, ExecutingOwns, ServedSees,
          SnapshotMatches, Calls!PayloadsAreToldApart, Calls!Served, Calls!Executing

-----------------------------------------------------------------------------
\* Every variable keeps its type, whatever expires or fails.
THEOREM CallTypesStand == Calls!Spec => []Calls!TypeOK
  BY CallTypesStart, CallTypes, PTL DEF Calls!Spec

\* A request that has outlived its key stays one that has.
LEMMA OutlivedStays ==
  ASSUME Calls!TypeOK, [Calls!Next]_(Calls!vars), ~outlived' PROVE ~outlived
  BY DEF Calls!TypeOK, Calls!Next, Calls!Serve, Calls!vars, Calls!Reserve, Calls!Inspect,
     Calls!Reopen, Calls!HandlerCommits, Calls!HandlerThrows, Calls!HandlerInDoubt,
     Calls!Complete, Calls!CompleteFails, Calls!Crash, Calls!Expire, Calls!PurgeExpired

\* The invariant is inductive, while no request outlives its row.
LEMMA CallsStep == CallsLive /\ [Calls!Next]_(Calls!vars) => CallsLive'
  BY CallTypes, OutlivedStays, CallStep DEF CallsLive

\* The invariant holds, while no request outlives its row.
LEMMA CallsStand == Calls!Spec => []CallsLive
<1>1. Calls!Init => CallsLive
  BY CallsStart DEF CallsLive, CallInv
<1> QED BY <1>1, CallsStep, PTL DEF Calls!Spec

\* The handler runs for one request of the key at a time.
THEOREM ExecutionIsExclusive == Calls!Spec => []OneExecution
<1>1. CallsLive => OneExecution
  BY DEF OneExecution, CallsLive, CallInv, CallsExclude, Calls!OneExecution
<1> QED BY CallsStand, <1>1, PTL

\* No client is answered with the response to another payload.
THEOREM AnswersAreFaithful == Calls!Spec => []AnswersMatchPayload
<1>1. CallsLive => AnswersMatchPayload
  BY DEF AnswersMatchPayload, CallsLive, CallInv, Calls!PayloadsAreToldApart,
     Calls!AnswersMatchPayload
<1> QED BY CallsStand, <1>1, PTL

\* A completed snapshot changes only by expiring, or into the failure that its own
\* writer records when the answer to its write was lost.
THEOREM SnapshotsAreStable == Calls!Spec => Calls!SnapshotIsStable
<1> DEFINE Stable == ~outlived' /\ Calls!HasRow /\ row.status = "completed" /\ ~row.expired =>
                       \/ row' \in {row, [row EXCEPT !.expired = TRUE]}
                       \/ callStep[row.response] = "fail" /\ row' = Calls!Closed(row, "failed", NoRequest)
<1>2. ASSUME CallsLive, [Calls!Next]_(Calls!vars) PROVE [Stable]_(Calls!vars)
  <2> DEFINE Stands == \/ row' \in {row, [row EXCEPT !.expired = TRUE]}
                     \/ /\ callStep[row.response] = "fail"
                        /\ row' = Calls!Closed(row, "failed", NoRequest)
  <2> SUFFICES ASSUME ~outlived', Calls!HasRow, row.status = "completed", ~row.expired
               PROVE  Stands
    OBVIOUS
  <2> CallInv
    BY <1>2, OutlivedStays DEF CallsLive
  <2>1. \A r \in Request : callStep[r] \in Calls!Executing => callStep[r] = "fail" /\ row.response = r
    BY <1>2 DEF CallInv, ExecutingOwns
  <2>2. ASSUME NEW r \in Request, Calls!Complete(r) \/ Calls!CompleteFails(r) PROVE Stands
    BY <2>1, <2>2 DEF Calls!Complete, Calls!CompleteFails, Calls!Snapshot, Calls!Executing
  <2> QED BY <1>2, <2>1, <2>2 DEF Calls!Next, Calls!Serve, Calls!vars, Calls!Reserve, Calls!Inspect,
             Calls!Reopen, Calls!HandlerCommits, Calls!HandlerThrows, Calls!HandlerInDoubt,
             Calls!Crash, Calls!Expire, Calls!PurgeExpired, Calls!Executing
<1> HIDE DEF Stable
<1>3. Calls!Spec => [][Stable]_(Calls!vars)
  BY CallsStand, <1>2, PTL DEF Calls!Spec
<1> QED BY <1>3 DEF Stable, Calls!SnapshotIsStable

\* No step repeats an effect when the statements that write snapshots succeed.
LEMMA EffectStep ==
  ASSUME faults' = 0, CallInv, EffectInv, [Calls!Next]_(Calls!vars)
  PROVE  EffectInv'
<1> USE CallParameters DEF EffectInv, CallInv, Calls!TypeOK, CallsExclude, ExecutingOwns, ServedSees,
        Calls!Goto, Calls!Answer, Calls!HasRow, Calls!Served, Calls!Executing
<1>1. ASSUME NEW r \in Request, Calls!Reserve(r) PROVE EffectInv'
  <2>1. Calls!Reserved(PayloadHash[r]).status = "in_progress"
    BY DEF Calls!Reserved
  <2>2. CASE ~Calls!HasRow \/ row.expired
    <3>1. /\ row' = Calls!Reserved(PayloadHash[r]) /\ effects' = 0
          /\ callStep' = [callStep EXCEPT ![r] = "execute"]
      BY <1>1, <2>2 DEF Calls!Reserve
    <3> HIDE DEF Calls!HasRow
    <3>2. (Calls!HasRow /\ row.status = "failed" => effects = 0)'
      BY <3>1
    <3> QED BY <3>1, <3>2
  <2>3. CASE ~(~Calls!HasRow \/ row.expired)
    BY <1>1, <2>3 DEF Calls!Reserve
  <2> QED BY <2>2, <2>3
<1>2. ASSUME NEW r \in Request, Calls!Inspect(r) PROVE EffectInv'
  BY <1>2 DEF Calls!Inspect
<1>3. ASSUME NEW r \in Request, Calls!Reopen(r) PROVE EffectInv'
  <2>1. CASE Calls!HasRow /\ row.status = "failed"
    <3>1. row' = Calls!Reopened(row) /\ effects' = effects /\ effects = 0
          /\ callStep' = [callStep EXCEPT ![r] = "execute"]
      BY <1>3, <2>1 DEF Calls!Reopen
    <3> QED BY <3>1
  <2>2. CASE ~(Calls!HasRow /\ row.status = "failed")
    BY <1>3, <2>2 DEF Calls!Reopen
  <2> QED BY <2>1, <2>2
<1>4. ASSUME NEW r \in Request, Calls!HandlerCommits(r) PROVE EffectInv'
  BY <1>4 DEF Calls!HandlerCommits
<1>5. ASSUME NEW r \in Request, Calls!HandlerThrows(r) PROVE EffectInv'
  BY <1>5 DEF Calls!HandlerThrows
<1>6. ASSUME NEW r \in Request, Calls!Complete(r) PROVE EffectInv'
  <2>1. row \in Calls!Row /\ callStep[r] \in {"save", "reject", "fail"} /\ effects' = effects
        /\ callStep' = [callStep EXCEPT ![r] = "done"]
    BY <1>6 DEF Calls!Complete
  <2>2. CASE callStep[r] = "fail"
    BY <2>1, <2>2
  <2>3. CASE callStep[r] # "fail"
    <3>1. row' = Calls!Closed(row, "completed", r)
      BY <1>6, <2>1, <2>3 DEF Calls!Complete, Calls!Snapshot
    <3>2. Calls!Closed(row, "completed", r).status = "completed"
      <4>1. "completed" \in Calls!Status /\ r \in Request \cup {NoRequest}
        BY CallParameters
      <4> QED BY <2>1, <4>1, ClosedRow
    <3>3. row'.status = "completed"
      BY <3>1, <3>2
    <3> QED BY <2>1, <3>3
  <2> QED BY <2>2, <2>3
<1>7. ASSUME NEW r \in Request,
             Calls!CompleteFails(r) \/ Calls!HandlerInDoubt(r) \/ Calls!Crash(r)
      PROVE  EffectInv'
  BY <1>7 DEF Calls!CompleteFails, Calls!HandlerInDoubt, Calls!Crash
<1>8. CASE Calls!Expire
  <2>1. row' = [row EXCEPT !.expired = TRUE] /\ UNCHANGED <<callStep, effects>> /\ row \in Calls!Row
    BY <1>8 DEF Calls!Expire
  <2>2. row'.status = row.status
    BY <2>1, ExpiredRow
  <2> QED BY <1>8, <2>1, <2>2 DEF Calls!Expire
<1>9. CASE Calls!PurgeExpired
  BY <1>9 DEF Calls!PurgeExpired
<1>10. CASE UNCHANGED Calls!vars
  BY <1>10 DEF Calls!vars
<1> QED
  BY <1>1, <1>2, <1>3, <1>4, <1>5, <1>6, <1>7, <1>8, <1>9, <1>10 DEF Calls!Next, Calls!Serve

\* While the key lives its effect is committed once: through any number of
\* retries and crashes, as long as no snapshot write fails.
THEOREM EffectIsNotRepeated == Calls!Spec => []NoRepeatedEffect
<1> DEFINE I == CallsLive /\ (~outlived /\ faults = 0 => EffectInv)
<1>1. Calls!Init => I
  <2>1. Calls!Init => CallsLive
    BY CallsStart DEF CallsLive, CallInv
  <2> QED BY <2>1 DEF Calls!Init, EffectInv, Calls!HasRow
<1>2. I /\ [Calls!Next]_(Calls!vars) => I'
  <2> SUFFICES ASSUME I, [Calls!Next]_(Calls!vars) PROVE I'
    OBVIOUS
  <2>1. CallsLive'
    BY CallsStep
  <2>2. faults' = 0 => faults = 0
    BY DEF CallsLive, Calls!TypeOK, Calls!Next, Calls!Serve, Calls!vars, Calls!Reserve,
       Calls!Inspect, Calls!Reopen, Calls!HandlerCommits, Calls!HandlerThrows,
       Calls!HandlerInDoubt, Calls!Complete, Calls!CompleteFails, Calls!Crash, Calls!Expire, Calls!PurgeExpired
  <2>3. ASSUME ~outlived', faults' = 0 PROVE EffectInv'
    <3>1. ~outlived /\ CallInv
      BY <2>3, OutlivedStays DEF CallsLive
    <3> QED BY <3>1, <2>2, <2>3, EffectStep
  <2> QED BY <2>1, <2>3
<1>3. I => NoRepeatedEffect
  BY DEF NoRepeatedEffect, EffectInv, Calls!NoRepeatedEffect
<1> HIDE DEF I
<1> QED BY <1>1, <1>2, <1>3, PTL DEF Calls!Spec
=============================================================================
