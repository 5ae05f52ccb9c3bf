------------------------------- MODULE Outbox -------------------------------
(***************************************************************************)
(* The transactional outbox of the API kernel: the publisher that inserts  *)
(* a row in the caller's transaction, the dispatchers that claim rows      *)
(* under a lease and emit them, the dead letter table, the maintenance     *)
(* purges and the replay command.  Every action is one database statement  *)
(* (or one transaction) or one step of the handlers the emitter runs, so   *)
(* that two dispatchers, their crashes and an operator's replay interleave *)
(* between any two of them.                                                *)
(*                                                                         *)
(* Time is abstracted to what the claim compares: a row is `due' when its  *)
(* nextAttemptAt is not after Postgres' now().  A lease or a backoff of    *)
(* any length is a row that is not due until Elapse makes it due.          *)
(***************************************************************************)
EXTENDS Integers, FiniteSets

CONSTANTS
  Worker,             \* the OutboxDispatcher of each API process
  Replayer,           \* operators running `outbox:replay'
  Event,
  Consumer,
  Listeners,          \* [Event -> SUBSET Consumer]: handlers registered
  Secret,             \* events whose payload redactSensitive changes
  Aggregate,          \* [Event -> Nat]: aggregate_id, as its sort position
  OccurredAt,         \* [Event -> Nat]: occurred_at
  BatchSize,          \* BATCH_SIZE
  MaxAttempts,        \* MAX_ATTEMPTS
  LeaseCoversBatch,   \* TRUE: no batch outlives LEASE_MS
  Suppressed,         \* handlers whose listener's wrapper swallows what they throw
  MaxFaults,          \* bound: process crashes and failed statements
  MaxReplays,         \* bound: replay commands
  NoRow, NoClaim, NoEvent

ASSUME OutboxAssumption ==
  /\ Listeners \in [Event -> SUBSET Consumer]
  /\ Secret \subseteq Event
  /\ Aggregate \in [Event -> Nat]
  /\ OccurredAt \in [Event -> Nat]
  /\ BatchSize \in Nat \ {0}
  /\ MaxAttempts \in Nat \ {0}
  /\ LeaseCoversBatch \in BOOLEAN
  /\ Suppressed \subseteq Consumer
  /\ MaxFaults \in Nat
  /\ MaxReplays \in Nat
  /\ NoEvent \notin Event

Row == [published: BOOLEAN, attempts: Nat, due: BOOLEAN, redacted: BOOLEAN]

\* What a dispatcher holds of a row it claimed: the columns it selected.
Claim == [event: Event, attempts: Nat, redacted: BOOLEAN]

ASSUME NullAssumption == NoRow \notin Row /\ NoClaim \notin Claim

VARIABLES
  outbox,     \* [Event -> Row or NoRow], table _kernel.outbox
  dead,       \* events with a row in _kernel.outbox_dead
  processed,  \* rows of _kernel.processed_events: <<event, consumer>>
  pc,         \* [Worker -> step of runBatch]
  claimed,    \* [Worker -> SUBSET Claim], rows of the batch not started yet
  current,    \* [Worker -> Claim or NoClaim], the row being processed
  pending,    \* [Worker -> SUBSET Consumer], handlers emitAsync waits for
  strays,     \* <<worker, event, consumer, redacted>>: handlers still running
              \* after emitAsync rejected because of another one
  stopped,    \* [Worker -> BOOLEAN], OutboxDispatcher.stopped
  rpc,        \* [Replayer -> step of replayByEventId]
  revent,     \* [Replayer -> Event or NoEvent]
  faults, replays,
  created,    \* history: events whose producer committed
  purged,     \* history: events a retention purge removed from the queue or, when
              \* no row was left there, from the dead letter table
  applied,    \* history: [Event \X Consumer -> Nat], committed effects
  masked,     \* history: effects computed from a redacted envelope
  failures,   \* history: [Event -> Nat], failures handled for the event
  unheard     \* history: events marked published by an update whose answer was lost

tables  == <<outbox, dead, processed>>
worker  == <<pc, claimed, current, pending, strays, stopped>>
replay  == <<rpc, revent, replays>>
history == <<created, purged, applied, masked, failures, unheard>>
vars    == <<tables, worker, replay, faults, history>>

-----------------------------------------------------------------------------
WorkerStep == {"idle", "batch", "emit", "mark", "fail", "bury"}
ReplayStep == {"idle", "select", "insert", "delete"}

TypeOK ==
  /\ outbox \in [Event -> Row \cup {NoRow}]
  /\ dead \subseteq Event
  /\ processed \subseteq Event \X Consumer
  /\ pc \in [Worker -> WorkerStep]
  /\ claimed \in [Worker -> SUBSET Claim]
  /\ current \in [Worker -> Claim \cup {NoClaim}]
  /\ pending \in [Worker -> SUBSET Consumer]
  /\ strays \subseteq Worker \X Event \X Consumer \X BOOLEAN
  /\ stopped \in [Worker -> BOOLEAN]
  /\ rpc \in [Replayer -> ReplayStep]
  /\ revent \in [Replayer -> Event \cup {NoEvent}]
  /\ faults \in Nat
  /\ replays \in Nat
  /\ created \subseteq Event
  /\ purged \subseteq Event
  /\ applied \in [Event \X Consumer -> Nat]
  /\ masked \subseteq Event \X Consumer
  /\ failures \in [Event -> Nat]
  /\ unheard \subseteq Event

Init ==
  /\ outbox = [e \in Event |-> NoRow]
  /\ dead = {}
  /\ processed = {}
  /\ pc = [w \in Worker |-> "idle"]
  /\ claimed = [w \in Worker |-> {}]
  /\ current = [w \in Worker |-> NoClaim]
  /\ pending = [w \in Worker |-> {}]
  /\ strays = {}
  /\ stopped = [w \in Worker |-> FALSE]
  /\ rpc = [r \in Replayer |-> "idle"]
  /\ revent = [r \in Replayer |-> NoEvent]
  /\ faults = 0
  /\ replays = 0
  /\ created = {}
  /\ purged = {}
  /\ applied = [p \in Event \X Consumer |-> 0]
  /\ masked = {}
  /\ failures = [e \in Event |-> 0]
  /\ unheard = {}

-----------------------------------------------------------------------------
HasRow(e) == outbox[e] # NoRow
Published(e) == HasRow(e) /\ outbox[e].published

\* The event whose row w is processing.
Now(w) == current[w].event

\* w holds a claim on e's row, still to be processed or in progress.
Holds(w, e) ==
  \/ \E c \in claimed[w] : c.event = e
  \/ current[w] # NoClaim /\ current[w].event = e

FreshRow(redacted) ==
  [published |-> FALSE, attempts |-> 0, due |-> TRUE, redacted |-> redacted]

\* Mutants of the next definitions: the claim forgets its lease, the failure
\* forgets to count itself.
LeaseForgotten(row)     == row
FailureUncounted(row, n) == [row EXCEPT !.due = FALSE]

\* Mutant of AsFailed: the payload is masked by the failure, not by the outcome.
FailureMasks(row, n) == [row EXCEPT !.attempts = n, !.due = FALSE, !.redacted = TRUE]

\* The columns each UPDATE of the outbox sets.
Leased(row)         == [row EXCEPT !.due = FALSE]
Ripe(row)           == [row EXCEPT !.due = TRUE]
AsPublished(row, e) == [row EXCEPT !.published = TRUE, !.redacted = row.redacted \/ e \in Secret]
AsFailed(row, n)    == [row EXCEPT !.attempts = n, !.due = FALSE]

\* UPDATE outbox SET ... WHERE event_id = e: no row, no effect.
UpdateRow(e, row) == outbox' = IF HasRow(e) THEN [outbox EXCEPT ![e] = row] ELSE outbox

\* One statement fails or one process dies: bounded by MaxFaults.
Fault == faults < MaxFaults /\ faults' = faults + 1

-----------------------------------------------------------------------------
(* Producer *)

\* OutboxPublisher.publish: the row is inserted in the transaction of the
\* business change, so the event exists exactly when the producer committed.
Publish(e) ==
  /\ e \notin created
  /\ outbox' = [outbox EXCEPT ![e] = FreshRow(FALSE)]
  /\ created' = created \cup {e}
  /\ UNCHANGED <<dead, processed, worker, replay, faults, purged, applied, masked, failures, unheard>>

\* now() reaches the row's nextAttemptAt: a lease or a backoff ends.
Elapse(e) ==
  /\ HasRow(e)
  /\ ~outbox[e].due
  /\ LeaseCoversBatch => \A w \in Worker : ~Holds(w, e)
  /\ outbox' = [outbox EXCEPT ![e] = Ripe(outbox[e])]
  /\ UNCHANGED <<dead, processed, worker, replay, faults, history>>

-----------------------------------------------------------------------------
(* Dispatcher *)

Due == {e \in Event : HasRow(e) /\ ~outbox[e].published /\ outbox[e].due}

\* ORDER BY aggregate_id, occurred_at
Before(e, f) ==
  \/ Aggregate[e] < Aggregate[f]
  \/ Aggregate[e] = Aggregate[f] /\ OccurredAt[e] < OccurredAt[f]

\* SELECT ... ORDER BY ... LIMIT: a prefix of the due rows.
IsBatch(S) ==
  /\ S \subseteq Due
  /\ S # {}
  /\ Cardinality(S) <= BatchSize
  /\ Cardinality(S) = BatchSize \/ S = Due
  /\ \A e \in S, f \in Due \ S : ~Before(f, e)

\* Phase 1 of runBatch: select due rows FOR UPDATE SKIP LOCKED and set their
\* lease, in one short transaction.
ClaimBatch(w) ==
  /\ pc[w] = "idle"
  /\ ~stopped[w]
  /\ \E S \in SUBSET Event :
       /\ IsBatch(S)
       /\ outbox' = [e \in Event |->
                       IF e \in S THEN Leased(outbox[e]) ELSE outbox[e]]
       /\ claimed' = [claimed EXCEPT ![w] =
            {[event |-> e, attempts |-> outbox[e].attempts,
              redacted |-> outbox[e].redacted] : e \in S}]
  /\ pc' = [pc EXCEPT ![w] = "batch"]
  /\ UNCHANGED <<dead, processed, current, pending, strays, stopped, replay, faults, history>>

\* Phase 2 takes the rows one by one, in the order they were selected.  An
\* event without a listener is a failure, the others are emitted.
StartRow(w) ==
  /\ pc[w] = "batch"
  /\ \E c \in claimed[w] :
       /\ \A d \in claimed[w] : ~Before(d.event, c.event)
       /\ claimed' = [claimed EXCEPT ![w] = @ \ {c}]
       /\ current' = [current EXCEPT ![w] = c]
       /\ pending' = [pending EXCEPT ![w] = Listeners[c.event]]
       /\ pc' = [pc EXCEPT ![w] = IF Listeners[c.event] = {} THEN "fail" ELSE "emit"]
  /\ UNCHANGED <<tables, strays, stopped, replay, faults, history>>

\* The row is done with: the loop goes to the next one or the batch ends.
RowDone(w) ==
  /\ pc' = [pc EXCEPT ![w] = IF claimed[w] = {} THEN "idle" ELSE "batch"]
  /\ current' = [current EXCEPT ![w] = NoClaim]
  /\ UNCHANGED <<claimed, pending, strays, stopped>>

\* Mutant of Consume: the handler ignores what markIfNew returned.
ConsumeUnchecked(e, c, redacted) ==
  /\ processed' = processed \cup {<<e, c>>}
  /\ applied' = [applied EXCEPT ![<<e, c>>] = IF @ < 2 THEN @ + 1 ELSE @]
  /\ masked' = masked

\* A consumer's transaction: markIfNew and, when the mark is new, the effect.
Consume(e, c, redacted) ==
  IF <<e, c>> \in processed
  THEN UNCHANGED <<processed, applied, masked>>
  ELSE /\ processed' = processed \cup {<<e, c>>}
       /\ applied' = [applied EXCEPT ![<<e, c>>] = @ + 1]
       /\ masked' = IF redacted THEN masked \cup {<<e, c>>} ELSE masked

\* Promise.all of emitAsync: resolved when the last handler is.
HandlerResolved(w, c) ==
  /\ pending' = [pending EXCEPT ![w] = @ \ {c}]
  /\ pc' = [pc EXCEPT ![w] = IF pending[w] = {c} THEN "mark" ELSE "emit"]
  /\ UNCHANGED <<claimed, current, strays, stopped>>

\* Handler c commits its transaction (or finds the event already processed).
HandlerCommits(w, c) ==
  /\ pc[w] = "emit"
  /\ c \in pending[w]
  /\ Consume(Now(w), c, current[w].redacted)
  /\ HandlerResolved(w, c)
  /\ UNCHANGED <<outbox, dead, replay, faults, created, purged, failures, unheard>>

\* emitAsync rejects at once: the handlers still running are no longer awaited.
HandlerRejected(w, c) ==
  /\ pc' = [pc EXCEPT ![w] = "fail"]
  /\ pending' = [pending EXCEPT ![w] = {}]
  /\ strays' = strays \cup {<<w, Now(w), d, current[w].redacted>> : d \in pending[w] \ {c}}
  /\ UNCHANGED <<claimed, current, stopped>>

\* Handler c throws: its transaction rolls back, mark included, and emitAsync
\* rejects, unless the wrapper the listener runs in swallows the error.
HandlerThrows(w, c) ==
  /\ pc[w] = "emit"
  /\ c \in pending[w]
  /\ IF c \in Suppressed
     THEN HandlerResolved(w, c)
     ELSE HandlerRejected(w, c)
  /\ UNCHANGED <<tables, replay, faults, history>>

\* Handler c throws on a COMMIT whose answer was lost: mark and effect stand.
HandlerInDoubt(w, c) ==
  /\ pc[w] = "emit"
  /\ c \in pending[w] \ Suppressed
  /\ Fault
  /\ Consume(Now(w), c, current[w].redacted)
  /\ HandlerRejected(w, c)
  /\ UNCHANGED <<outbox, dead, replay, created, purged, failures, unheard>>

\* A handler nobody awaits any more commits, or rolls back.
StrayCommits(s) ==
  /\ s \in strays
  /\ strays' = strays \ {s}
  /\ Consume(s[2], s[3], s[4])
  /\ UNCHANGED <<outbox, dead, pc, claimed, current, pending, stopped, replay,
                 faults, created, purged, failures, unheard>>

StrayThrows(s) ==
  /\ s \in strays
  /\ strays' = strays \ {s}
  /\ UNCHANGED <<tables, pc, claimed, current, pending, stopped, replay, faults, history>>

\* processClaimed marks the row published and redacts its payload, whatever
\* became of the row since it was claimed.
MarkPublished(w) ==
  /\ pc[w] = "mark"
  /\ UpdateRow(Now(w), AsPublished(outbox[Now(w)], Now(w)))
  /\ RowDone(w)
  /\ UNCHANGED <<dead, processed, replay, faults, history>>

\* The update that marks the row fails, or commits and its answer is lost: the
\* catch treats either as a failed emission.
MarkFails(w) ==
  /\ pc[w] = "mark"
  /\ Fault
  /\ pc' = [pc EXCEPT ![w] = "fail"]
  /\ \/ UNCHANGED <<outbox, unheard>>
     \/ /\ HasRow(Now(w))
        /\ outbox' = [outbox EXCEPT ![Now(w)] = AsPublished(@, Now(w))]
        /\ unheard' = unheard \cup {Now(w)}
  /\ UNCHANGED <<dead, processed, claimed, current, pending, strays, stopped, replay,
                 created, purged, applied, masked, failures>>

\* Mutant of Exhausted: one attempt too early.
ExhaustedEarly(w) == current[w].attempts + 2 >= MaxAttempts

\* handleFailure counts from the attempts read when the row was claimed.
Exhausted(w) == current[w].attempts + 1 >= MaxAttempts

CountFailure(e) == failures' = [failures EXCEPT ![e] = IF @ < MaxAttempts THEN @ + 1 ELSE @]

\* Retries are left: attempts, lastError and the backoff are written.
RetryLater(w) ==
  /\ pc[w] = "fail"
  /\ ~Exhausted(w)
  /\ UpdateRow(Now(w), AsFailed(outbox[Now(w)], current[w].attempts + 1))
  /\ CountFailure(Now(w))
  /\ RowDone(w)
  /\ UNCHANGED <<dead, processed, replay, faults, created, purged, applied, masked, unheard>>

\* The budget is spent: INSERT INTO outbox_dead ... ON CONFLICT DO NOTHING.
DeadLetter(w) ==
  /\ pc[w] = "fail"
  /\ Exhausted(w)
  /\ dead' = dead \cup {Now(w)}
  /\ CountFailure(Now(w))
  /\ pc' = [pc EXCEPT ![w] = "bury"]
  /\ UNCHANGED <<outbox, processed, claimed, current, pending, strays, stopped,
                 replay, faults, created, purged, applied, masked, unheard>>

\* ... and, in a statement of its own, DELETE FROM outbox.
Bury(w) ==
  /\ pc[w] = "bury"
  /\ outbox' = [outbox EXCEPT ![Now(w)] = NoRow]
  /\ RowDone(w)
  /\ UNCHANGED <<dead, processed, replay, faults, history>>

\* A statement of handleFailure fails: runBatch logs it and takes the next row,
\* which leaves this one to its lease.
FailureNotRecorded(w) ==
  /\ pc[w] \in {"fail", "bury"}
  /\ Fault
  /\ RowDone(w)
  /\ UNCHANGED <<tables, replay, history>>

Forget(w) ==
  /\ pc' = [pc EXCEPT ![w] = "idle"]
  /\ claimed' = [claimed EXCEPT ![w] = {}]
  /\ current' = [current EXCEPT ![w] = NoClaim]
  /\ pending' = [pending EXCEPT ![w] = {}]
  /\ strays' = {s \in strays : s[1] # w}

\* The process dies and is replaced: what it held in memory is gone.
Crash(w) ==
  /\ pc[w] # "idle" \/ \E s \in strays : s[1] = w
  /\ Fault
  /\ Forget(w)
  /\ stopped' = [stopped EXCEPT ![w] = FALSE]
  /\ UNCHANGED <<tables, replay, history>>

\* onApplicationShutdown: no dispatch starts any more, the one in flight is
\* awaited; then the process ends and its successor starts.
Shutdown(w) ==
  /\ ~stopped[w]
  /\ Fault
  /\ stopped' = [stopped EXCEPT ![w] = TRUE]
  /\ UNCHANGED <<tables, pc, claimed, current, pending, strays, replay, history>>

Restart(w) ==
  /\ stopped[w]
  /\ pc[w] = "idle"
  /\ Forget(w)
  /\ stopped' = [stopped EXCEPT ![w] = FALSE]
  /\ UNCHANGED <<tables, replay, faults, history>>

-----------------------------------------------------------------------------
(* Maintenance and operators *)

\* purgePublished: rows published longer ago than the retention.
PurgePublished ==
  \E S \in SUBSET {e \in Event : Published(e)} :
    /\ S # {}
    /\ outbox' = [e \in Event |-> IF e \in S THEN NoRow ELSE outbox[e]]
    /\ purged' = purged \cup S
    /\ UNCHANGED <<dead, processed, worker, replay, faults, created, applied, masked, failures, unheard>>

\* purgeDeadLetters.  The retention is counted in days: no dead letter is old
\* enough while its dispatcher is between its two statements.
PurgeDead ==
  \E S \in SUBSET dead :
    /\ S # {}
    /\ \A w \in Worker : pc[w] = "bury" => Now(w) \notin S
    /\ dead' = dead \ S
    /\ purged' = purged \cup {e \in S : ~HasRow(e)}
    /\ UNCHANGED <<outbox, processed, worker, replay, faults, created, applied, masked, failures, unheard>>

CountReplay == replays < MaxReplays /\ replays' = replays + 1

\* replayByEventId, first statement: reset the row when there is one.  The id
\* the operator passes is one found in either table.
ReplayReset(r, e) ==
  /\ rpc[r] = "idle"
  /\ HasRow(e) \/ e \in dead
  /\ CountReplay
  /\ IF HasRow(e)
     THEN /\ outbox' = [outbox EXCEPT ![e] = FreshRow(outbox[e].redacted)]
          /\ UNCHANGED <<rpc, revent>>
     ELSE /\ rpc' = [rpc EXCEPT ![r] = "select"]
          /\ revent' = [revent EXCEPT ![r] = e]
          /\ UNCHANGED outbox
  /\ UNCHANGED <<dead, processed, worker, faults, history>>

Rpc(r, step) ==
  /\ rpc' = [rpc EXCEPT ![r] = step]
  /\ revent' = IF step = "idle" THEN [revent EXCEPT ![r] = NoEvent] ELSE revent

\* No row: look for the event in outbox_dead; absent there too, nothing is replayed.
ReplaySelect(r) ==
  /\ rpc[r] = "select"
  /\ Rpc(r, IF revent[r] \in dead THEN "insert" ELSE "idle")
  /\ UNCHANGED <<tables, worker, replays, faults, history>>

\* The dead row's payload is the redacted one.
ReplayInsert(r) ==
  /\ rpc[r] = "insert"
  /\ LET e == revent[r] IN
       outbox' = IF HasRow(e) THEN outbox ELSE [outbox EXCEPT ![e] = FreshRow(e \in Secret)]
  /\ Rpc(r, "delete")
  /\ UNCHANGED <<dead, processed, worker, replays, faults, history>>

ReplayDelete(r) ==
  /\ rpc[r] = "delete"
  /\ dead' = dead \ {revent[r]}
  /\ Rpc(r, "idle")
  /\ UNCHANGED <<outbox, processed, worker, replays, faults, history>>

\* The command is interrupted between two statements.
ReplayCrash(r) ==
  /\ rpc[r] # "idle"
  /\ Fault
  /\ Rpc(r, "idle")
  /\ UNCHANGED <<tables, worker, replays, history>>

\* replaySince: every published row that occurred at or after `since'.
ReplaySince(since) ==
  /\ Replayer # {}
  /\ CountReplay
  /\ outbox' = [e \in Event |->
       IF Published(e) /\ OccurredAt[e] >= since
       THEN FreshRow(outbox[e].redacted) ELSE outbox[e]]
  /\ UNCHANGED <<dead, processed, worker, rpc, revent, faults, history>>

-----------------------------------------------------------------------------
\* What a dispatcher does once started; crashes and shutdowns are not its doing.
Dispatch(w) ==
  \/ ClaimBatch(w)
  \/ StartRow(w)
  \/ MarkPublished(w)
  \/ RetryLater(w)
  \/ DeadLetter(w)
  \/ Bury(w)

HandlerEnds(w) ==
  \E c \in Consumer : HandlerCommits(w, c) \/ HandlerThrows(w, c) \/ HandlerInDoubt(w, c)

StrayEnds == \E s \in strays : StrayCommits(s) \/ StrayThrows(s)

Replay(r) ==
  \/ \E e \in Event : ReplayReset(r, e)
  \/ ReplaySelect(r)
  \/ ReplayInsert(r)
  \/ ReplayDelete(r)
  \/ ReplayCrash(r)

Next ==
  \/ \E e \in Event : Publish(e) \/ Elapse(e)
  \/ \E w \in Worker :
       \/ Dispatch(w)
       \/ HandlerEnds(w)
       \/ MarkFails(w)
       \/ FailureNotRecorded(w)
       \/ Crash(w)
       \/ Shutdown(w)
       \/ Restart(w)
  \/ StrayEnds
  \/ PurgePublished
  \/ PurgeDead
  \/ \E r \in Replayer : Replay(r)
  \/ \E e \in Event : ReplaySince(OccurredAt[e])

Spec == Init /\ [][Next]_vars

\* The poll interval drives every dispatcher, time passes, and a handler ends
\* one way or the other: the code sets no timeout on a handler, so this is an
\* assumption on the handlers.  Producers, operators, purges and faults owe nothing.
Fairness ==
  /\ \A e \in Event : WF_vars(Elapse(e))
  /\ \A w \in Worker : WF_vars(Dispatch(w)) /\ WF_vars(HandlerEnds(w)) /\ WF_vars(Restart(w))

FairSpec == Spec /\ Fairness

-----------------------------------------------------------------------------
(* Properties *)

\* At-least-once: a row is marked published only when every registered handler
\* whose errors surface committed for it, through stale claims, crashes, failed
\* statements, replays and the handlers that swallow theirs; an event nobody
\* listens to is never marked.
PublishedWereHandled ==
  \A e \in Event : Published(e) =>
    /\ Listeners[e] # {}
    /\ \A c \in Listeners[e] \ Suppressed : <<e, c>> \in processed

\* Said of the queue: a committed event is in it, in the dead letter table, or
\* was removed by a retention purge.
EventsAreKept ==
  \A e \in created : HasRow(e) \/ e \in dead \/ e \in purged

\* No interleaving of handleFailure's two statements with anything but a replay
\* makes a committed event disappear.
NoEventLost == replays = 0 => EventsAreKept

\* Effectively once: however often a row is emitted, a consumer's effect is
\* committed once, and an event marked processed had its effect.
EffectOnce ==
  \A e \in Event, c \in Consumer :
    applied[<<e, c>>] = IF <<e, c>> \in processed THEN 1 ELSE 0

\* An event reaches the dead letter table only after MaxAttempts failures.
DeadWereExhausted ==
  \A e \in dead : failures[e] >= MaxAttempts

\* A consumer's effect is computed from the envelope its producer published: only
\* a replay hands it one whose secrets a terminal status has masked.
EffectsSeeOriginal == replays = 0 => masked = {}

\* Every committed event is eventually published or dead-lettered (or was
\* already purged), or an operator intervenes: no row is claimed, retried and
\* released for ever.
Settled(e) == Published(e) \/ e \in dead \/ e \in purged

EventuallySettled == \A e \in Event : (e \in created) ~> (Settled(e) \/ replays > 0)

-----------------------------------------------------------------------------
\* What the outbox promises its producers and consumers.
Status(e) ==
  CASE e \notin created           -> "none"
    [] HasRow(e) /\ Published(e)   -> "published"
    [] HasRow(e) /\ ~Published(e)  -> "pending"
    [] ~HasRow(e) /\ e \in purged  -> "gone"
    [] OTHER                      -> "dead"

Promise == INSTANCE OutboxPromise WITH
  status <- [e \in created |-> Status(e)],
  handled <- processed

PromiseSpec == Promise!Spec
=============================================================================
