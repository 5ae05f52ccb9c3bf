----------------------------- MODULE MCRequests -----------------------------
(* What a request passes before its handler runs: the guard that counts it *)
(* and the interceptor that knows it by its Idempotency-Key, RateLimiter   *)
(* and Idempotency.  They share no state, and each run moves one of them.  *)
EXTENDS RateLimiter, TLC

CONSTANTS
  Hash, MaxCrashes, MaxFaults, NoRow, NoRequest, PayloadHash,
  Changed,          \* requests with another payload under the same key
  payload, another

VARIABLES row, callStep, answer, crashes, faults, effects, outlived

Calls == INSTANCE Idempotency WITH pc <- callStep

ASSUME CallsAssumption == Calls!IdempotencyAssumption

Payloads == [r \in Request |-> IF r \in Changed THEN another ELSE payload]

callVars == <<row, callStep, answer, crashes, faults, effects, outlived>>

Start == Init /\ Calls!Init

LimiterSpec == Start /\ [][Next /\ UNCHANGED callVars]_<<vars, callVars>>

CallsSpec ==
  /\ Start /\ [][Calls!Next /\ UNCHANGED vars]_<<vars, callVars>>
  /\ Calls!Fairness

OneExecution == Calls!OneExecution
NoRepeatedEffect == Calls!NoRepeatedEffect
AnswersMatchPayload == Calls!AnswersMatchPayload
OrphanIsReclaimed == Calls!OrphanIsReclaimed

\* The requests are alike to the limiter, and so are the critical keys.
Symmetry == Permutations(Request) \cup Permutations(Critical)
=============================================================================
