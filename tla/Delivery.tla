------------------------------ MODULE Delivery ------------------------------
(***************************************************************************)
(* The delivery queue of the notification module: rows enqueued with the   *)
(* notification, dispatchers that claim a batch under one lease and send   *)
(* its e-mails one after the other, retries, dead letters and the purge.   *)
(* Each action is one statement, or the call to the mail provider.         *)
(*                                                                         *)
(* As in Outbox, a row is `due' when its next_attempt_at is not after      *)
(* now(): a lease or a backoff of any length ends with Elapse.             *)
(***************************************************************************)
EXTENDS Integers, FiniteSets

CONSTANTS
  Worker,            \* the DeliveryDispatcher of each API process
  Delivery,          \* ids, numbers in the order of the ULIDs
  Push,              \* deliveries of a channel without a port
  Token,             \* deliveries whose payload has a link that expires
  BatchSize,         \* BATCH_SIZE
  MaxAttempts,       \* DELIVERY_MAX_ATTEMPTS
  MaxFaults,         \* bound: process crashes and failed statements
  Slow,              \* bound: deliveries whose batch may outlive LEASE_MS
  NoRow, NoClaim

Status == {"pending", "sent", "failed", "dead_letter"}
Terminal == {"sent", "dead_letter"}

Row == [status: Status, attempts: Nat, due: BOOLEAN, redacted: BOOLEAN]

\* What a dispatcher keeps of a row it claimed.
Claim == [id: Delivery, attempts: Nat, redacted: BOOLEAN]

\* What is assumed of them, by the modules that instantiate this one.
DeliveryAssumption ==
  /\ Delivery \subseteq Nat
  /\ Push \subseteq Delivery
  /\ Token \subseteq Delivery
  /\ BatchSize \in Nat \ {0}
  /\ MaxAttempts \in Nat \ {0}
  /\ MaxFaults \in Nat
  /\ Slow \subseteq Delivery
  /\ NoRow \notin Row
  /\ NoClaim \notin Claim

VARIABLES
  rows,      \* [Delivery -> Row or NoRow], table notification_deliveries
  expired,   \* deliveries whose token has expired
  pc,        \* [Worker -> step of runBatch]
  claimed,   \* [Worker -> SUBSET Claim]: rows of the batch not started yet
  current,   \* [Worker -> Claim or NoClaim]
  stopped,   \* [Worker -> BOOLEAN]
  faults,
  enqueued,  \* history
  overrun,   \* history: deliveries whose lease ended while a dispatcher held them
  unheard,   \* history: deliveries marked sent by an update whose answer was lost
  mailed,    \* history: <<id, redacted>> of the messages the provider accepted
  tries      \* history: [Delivery -> Nat], attempts that failed

table   == <<rows>>
worker  == <<pc, claimed, current, stopped>>
history == <<enqueued, overrun, unheard, mailed, tries>>
vars    == <<table, expired, worker, faults, history>>

Init ==
  /\ rows = [d \in Delivery |-> NoRow]
  /\ expired = {}
  /\ pc = [w \in Worker |-> "idle"]
  /\ claimed = [w \in Worker |-> {}]
  /\ current = [w \in Worker |-> NoClaim]
  /\ stopped = [w \in Worker |-> FALSE]
  /\ faults = 0
  /\ enqueued = {}
  /\ overrun = {}
  /\ unheard = {}
  /\ mailed = {}
  /\ tries = [d \in Delivery |-> 0]

-----------------------------------------------------------------------------
HasRow(d) == rows[d] # NoRow
Has(d, status) == HasRow(d) /\ rows[d].status = status
Settled(d) == HasRow(d) /\ rows[d].status \in Terminal
Now(w) == current[w].id

Holds(w, d) ==
  \/ \E c \in claimed[w] : c.id = d
  \/ current[w] # NoClaim /\ current[w].id = d

Queued == [status |-> "pending", attempts |-> 0, due |-> TRUE, redacted |-> FALSE]

\* Mutant of AsFailed: a failure is not counted.
FailureUncounted(row, n) == [row EXCEPT !.status = "failed", !.due = FALSE]

\* The columns each UPDATE sets.
Leased(row)      == [row EXCEPT !.due = FALSE]
AsSent(row)      == [row EXCEPT !.status = "sent", !.redacted = TRUE]
AsFailed(row, n) == [row EXCEPT !.status = "failed", !.attempts = n, !.due = FALSE]
AsDead(row, n)   == [row EXCEPT !.status = "dead_letter", !.attempts = n, !.redacted = TRUE]

\* UPDATE ... WHERE id = d: no row, no effect.
Update(d, row) == rows' = IF HasRow(d) THEN [rows EXCEPT ![d] = row] ELSE rows

Fault == faults < MaxFaults /\ faults' = faults + 1

-----------------------------------------------------------------------------
\* enqueue, in the transaction of the consumer that handles the event.
Enqueue(d) ==
  /\ d \notin enqueued
  /\ enqueued' = enqueued \cup {d}
  /\ rows' = [rows EXCEPT ![d] = Queued]
  /\ UNCHANGED <<expired, worker, faults, overrun, unheard, mailed, tries>>

\* now() reaches next_attempt_at, of a row nobody holds or of one whose batch
\* takes longer than its lease.
Elapse(d) ==
  /\ HasRow(d)
  /\ ~rows[d].due
  /\ d \in Slow \/ \A w \in Worker : ~Holds(w, d)
  /\ rows' = [rows EXCEPT ![d].due = TRUE]
  /\ overrun' = IF \E w \in Worker : Holds(w, d) THEN overrun \cup {d} ELSE overrun
  /\ UNCHANGED <<expired, worker, faults, enqueued, unheard, mailed, tries>>

TokenExpires(d) ==
  /\ d \in Token \ expired
  /\ expired' = expired \cup {d}
  /\ UNCHANGED <<table, worker, faults, history>>

\* Mutant of Due: dead letters are claimed too.
DueUnlessSent == {d \in Delivery : HasRow(d) /\ rows[d].due /\ ~Has(d, "sent")}

\* WHERE status IN ('pending', 'failed') AND next_attempt_at <= now()
Due == {d \in Delivery : HasRow(d) /\ rows[d].due /\ ~Settled(d)}

\* ORDER BY id LIMIT
IsBatch(S) ==
  /\ S \subseteq Due
  /\ S # {}
  /\ Cardinality(S) <= BatchSize
  /\ Cardinality(S) = BatchSize \/ S = Due
  /\ \A d \in S, f \in Due \ S : d < f

\* runBatch's short transaction: claim and lease, skipping locked rows.
ClaimBatch(w) ==
  /\ pc[w] = "idle"
  /\ ~stopped[w]
  /\ \E S \in SUBSET Delivery :
       /\ IsBatch(S)
       /\ rows' = [d \in Delivery |-> IF d \in S THEN Leased(rows[d]) ELSE rows[d]]
       /\ claimed' = [claimed EXCEPT ![w] =
            {[id |-> d, attempts |-> rows[d].attempts, redacted |-> rows[d].redacted] : d \in S}]
  /\ pc' = [pc EXCEPT ![w] = "batch"]
  /\ UNCHANGED <<expired, current, stopped, faults, history>>

\* processClaimed on the next row, in order of id.  A link whose token expired
\* is not sent; the date of a redacted payload is not a date, and never late.
\* A channel without a port throws.
StartRow(w) ==
  /\ pc[w] = "batch"
  /\ \E c \in claimed[w] :
       /\ \A d \in claimed[w] : c.id <= d.id
       /\ claimed' = [claimed EXCEPT ![w] = @ \ {c}]
       /\ current' = [current EXCEPT ![w] = c]
       /\ pc' = [pc EXCEPT ![w] =
            IF c.id \in expired /\ ~c.redacted THEN "late"
            ELSE IF c.id \in Push THEN "fail"
            ELSE "send"]
  /\ UNCHANGED <<table, expired, stopped, faults, history>>

\* channel.send resolves: the provider accepted the message.
SendSucceeds(w) ==
  /\ pc[w] = "send"
  /\ mailed' = mailed \cup {<<Now(w), current[w].redacted>>}
  /\ pc' = [pc EXCEPT ![w] = "mark"]
  /\ UNCHANGED <<table, expired, claimed, current, stopped, faults, enqueued, overrun, unheard, tries>>

\* channel.send rejects: a template error, a refusal, or an answer that was
\* lost after the provider accepted the message.
SendFails(w) ==
  /\ pc[w] = "send"
  /\ mailed' \in {mailed, mailed \cup {<<Now(w), current[w].redacted>>}}
  /\ pc' = [pc EXCEPT ![w] = "fail"]
  /\ UNCHANGED <<table, expired, claimed, current, stopped, faults, enqueued, overrun, unheard, tries>>

\* The row is done with: the next one, or the end of the batch.
RowDone(w) ==
  /\ pc' = [pc EXCEPT ![w] = IF claimed[w] = {} THEN "idle" ELSE "batch"]
  /\ current' = [current EXCEPT ![w] = NoClaim]
  /\ UNCHANGED <<claimed, stopped>>

MarkSent(w) ==
  /\ pc[w] = "mark"
  /\ Update(Now(w), AsSent(rows[Now(w)]))
  /\ RowDone(w)
  /\ UNCHANGED <<expired, faults, history>>

\* The UPDATE fails, or commits and its answer is lost: the catch handles either
\* like a failed sending.
MarkFails(w) ==
  /\ pc[w] = "mark"
  /\ Fault
  /\ pc' = [pc EXCEPT ![w] = "fail"]
  /\ \/ UNCHANGED <<rows, unheard>>
     \/ /\ HasRow(Now(w))
        /\ rows' = [rows EXCEPT ![Now(w)] = AsSent(@)]
        /\ unheard' = unheard \cup {Now(w)}
  /\ UNCHANGED <<expired, claimed, current, stopped, enqueued, overrun, mailed, tries>>

\* handleFailure counts from the row that was claimed.
Exhausted(w) == current[w].attempts + 1 >= MaxAttempts

CountTry(d) == tries' = [tries EXCEPT ![d] = IF @ < MaxAttempts THEN @ + 1 ELSE @]

RetryLater(w) ==
  /\ pc[w] = "fail"
  /\ ~Exhausted(w)
  /\ Update(Now(w), AsFailed(rows[Now(w)], current[w].attempts + 1))
  /\ CountTry(Now(w))
  /\ RowDone(w)
  /\ UNCHANGED <<expired, faults, enqueued, overrun, unheard, mailed>>

\* deadLetter: after the last attempt, or when the token expired before one.
DeadLetter(w) ==
  /\ \/ /\ pc[w] = "fail" /\ Exhausted(w)
        /\ Update(Now(w), AsDead(rows[Now(w)], current[w].attempts + 1))
        /\ CountTry(Now(w))
     \/ /\ pc[w] = "late"
        /\ Update(Now(w), AsDead(rows[Now(w)], current[w].attempts))
        /\ UNCHANGED tries
  /\ RowDone(w)
  /\ UNCHANGED <<expired, faults, enqueued, overrun, unheard, mailed>>

\* Memory of a dispatcher that gives up its batch.
Drop(w) ==
  /\ pc' = [pc EXCEPT ![w] = "idle"]
  /\ claimed' = [claimed EXCEPT ![w] = {}]
  /\ current' = [current EXCEPT ![w] = NoClaim]

\* The statement that records a failure fails: nothing in runBatch catches it
\* per row, and the rest of the batch is left to its lease.
BatchFails(w) ==
  /\ pc[w] \in {"fail", "late"}
  /\ Fault
  /\ Drop(w)
  /\ UNCHANGED <<table, expired, stopped, history>>

Crash(w) ==
  /\ pc[w] # "idle"
  /\ Fault
  /\ Drop(w)
  /\ stopped' = [stopped EXCEPT ![w] = FALSE]
  /\ UNCHANGED <<table, expired, history>>

\* onApplicationShutdown drains the batch; then the process is replaced.
Shutdown(w) ==
  /\ ~stopped[w]
  /\ Fault
  /\ stopped' = [stopped EXCEPT ![w] = TRUE]
  /\ UNCHANGED <<table, expired, pc, claimed, current, history>>

Restart(w) ==
  /\ stopped[w]
  /\ pc[w] = "idle"
  /\ stopped' = [stopped EXCEPT ![w] = FALSE]
  /\ UNCHANGED <<table, expired, pc, claimed, current, faults, history>>

\* purgeTerminal: settled rows created longer ago than the retention.
Purge ==
  \E S \in SUBSET {d \in Delivery : Settled(d)} :
    /\ S # {}
    /\ rows' = [d \in Delivery |-> IF d \in S THEN NoRow ELSE rows[d]]
    /\ UNCHANGED <<expired, worker, faults, history>>

-----------------------------------------------------------------------------
\* What a started dispatcher does; a sending ends one way or the other.
Dispatch(w) ==
  \/ ClaimBatch(w)
  \/ StartRow(w)
  \/ SendSucceeds(w)
  \/ SendFails(w)
  \/ MarkSent(w)
  \/ RetryLater(w)
  \/ DeadLetter(w)

Next ==
  \/ \E d \in Delivery : Enqueue(d) \/ Elapse(d) \/ TokenExpires(d)
  \/ \E w \in Worker :
       \/ Dispatch(w)
       \/ MarkFails(w)
       \/ BatchFails(w)
       \/ Crash(w)
       \/ Shutdown(w)
       \/ Restart(w)
  \/ Purge

Spec == Init /\ [][Next]_vars

\* Time passes, the interval polls, a sending ends.
Fairness ==
  /\ \A d \in Delivery : WF_vars(Elapse(d))
  /\ \A w \in Worker : WF_vars(Dispatch(w)) /\ WF_vars(Restart(w))

FairSpec == Spec /\ Fairness

-----------------------------------------------------------------------------
(* Properties *)

\* What a row says of its end has happened, whatever late answers, lost updates
\* and stale counts wrote it: a sent message was accepted by the provider, one
\* given up was tried MaxAttempts times or its link has died, and none was mailed
\* after a terminal status had masked it, unless its lease had ended under a
\* dispatcher or the answer to the UPDATE that marked it sent was lost.
OutcomeIsTrue ==
  /\ \A d \in Delivery : Has(d, "sent") => \E redacted \in BOOLEAN : <<d, redacted>> \in mailed
  /\ \A d \in Delivery : Has(d, "dead_letter") => tries[d] >= MaxAttempts \/ d \in expired
  /\ \A m \in mailed : m[2] => m[1] \in overrun \cup unheard

\* Every delivery is eventually sent, given up, or (later) purged.
DeliverySettles ==
  \A d \in Delivery : (d \in enqueued) ~> (Settled(d) \/ ~HasRow(d))
=============================================================================
