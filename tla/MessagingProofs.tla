--------------------------- MODULE MessagingProofs ---------------------------
(***************************************************************************)
(* Machine-checked facts about the way of an event to its recipient, for   *)
(* any number of processes, events and rows, and any batch size and retry  *)
(* budget: Outbox; Delivery, the queue of e-mails that a consumer of the   *)
(* outbox fills; and NotificationFeed, the items it inserts.               *)
(***************************************************************************)
EXTENDS MCNotifications, TLAPS

\* A dispatcher past StartRow has a row in hand.
WorkerOK == \A w \in Worker : pc[w] \in {"emit", "mark", "fail", "bury"} => current[w] \in Claim

TypeInv == TypeOK /\ WorkerOK

\* Every UPDATE of the outbox turns a row into a row.
LEMMA RowOps ==
  /\ \A row \in Row : Leased(row) \in Row /\ Ripe(row) \in Row
  /\ \A row \in Row, e \in Event : AsPublished(row, e) \in Row
  /\ \A row \in Row, n \in Nat : AsFailed(row, n) \in Row
  /\ \A redacted \in BOOLEAN : FreshRow(redacted) \in Row
BY DEF Row, Leased, Ripe, AsPublished, AsFailed, FreshRow

\* The columns read from a row have their types.
LEMMA RowColumns ==
  ASSUME NEW row \in Row
  PROVE  row.published \in BOOLEAN /\ row.attempts \in Nat /\ row.due \in BOOLEAN /\ row.redacted \in BOOLEAN
BY DEF Row

\* The dispatcher's own steps preserve the types.
LEMMA TypeDispatch ==
  ASSUME TypeInv, NEW w \in Worker, Dispatch(w)
  PROVE  TypeInv'
<1> USE OutboxAssumption, NullAssumption
<1> USE DEF TypeInv, WorkerOK, TypeOK, tables, worker, replay, history, WorkerStep
<1>1. CASE ClaimBatch(w)
  <2>1. PICK S \in SUBSET Event :
          /\ IsBatch(S)
          /\ outbox' = [e \in Event |-> IF e \in S THEN Leased(outbox[e]) ELSE outbox[e]]
          /\ claimed' = [claimed EXCEPT ![w] =
               {[event |-> e, attempts |-> outbox[e].attempts,
                 redacted |-> outbox[e].redacted] : e \in S}]
    BY <1>1 DEF ClaimBatch
  <2>2. \A e \in S : outbox[e] \in Row
    BY <2>1 DEF IsBatch, Due, HasRow
  <2>3. outbox' \in [Event -> Row \cup {NoRow}]
    BY <2>1, <2>2, RowOps
  <2>4. \A e \in S : [event |-> e, attempts |-> outbox[e].attempts,
                      redacted |-> outbox[e].redacted] \in Claim
    BY <2>2, RowColumns DEF Claim
  <2>5. claimed' \in [Worker -> SUBSET Claim]
    BY <2>1, <2>4
  <2>6. QED
    BY <1>1, <2>3, <2>5 DEF ClaimBatch
<1>2. CASE StartRow(w)
  BY <1>2 DEF StartRow, Claim
<1>3. CASE MarkPublished(w)
  <2>1. Now(w) \in Event
    BY <1>3 DEF MarkPublished, Now, Claim
  <2>2. outbox' \in [Event -> Row \cup {NoRow}]
    BY <1>3, <2>1, RowOps DEF MarkPublished, UpdateRow, HasRow
  <2>3. QED
    BY <1>3, <2>2 DEF MarkPublished, RowDone
<1>4. CASE RetryLater(w)
  <2>1. Now(w) \in Event /\ current[w].attempts + 1 \in Nat
    BY <1>4 DEF RetryLater, Now, Claim
  <2>2. outbox' \in [Event -> Row \cup {NoRow}]
    BY <1>4, <2>1, RowOps DEF RetryLater, UpdateRow, HasRow
  <2>3. failures' \in [Event -> Nat]
    BY <1>4, <2>1 DEF RetryLater, CountFailure
  <2>4. QED
    BY <1>4, <2>2, <2>3 DEF RetryLater, RowDone
<1>5. CASE DeadLetter(w)
  BY <1>5 DEF DeadLetter, Now, CountFailure, Claim
<1>6. CASE Bury(w)
  BY <1>6 DEF Bury, RowDone
<1>7. QED
  BY <1>1, <1>2, <1>3, <1>4, <1>5, <1>6 DEF Dispatch

\* A consumer's transaction keeps the types of what it writes.
LEMMA ConsumeTypes ==
  ASSUME TypeInv, NEW e \in Event, NEW c \in Consumer, NEW redacted, Consume(e, c, redacted)
  PROVE  /\ processed' \subseteq Event \X Consumer
         /\ applied' \in [Event \X Consumer -> Nat]
         /\ masked' \subseteq Event \X Consumer
<1> DEFINE mark == <<e, c>>
<1>1. mark \in Event \X Consumer
  OBVIOUS
<1>2. /\ masked' = masked \/ masked' = masked \cup {mark}
      /\ \/ UNCHANGED <<processed, applied>>
         \/ /\ processed' = processed \cup {mark}
            /\ applied' = [applied EXCEPT ![mark] = @ + 1]
  BY DEF Consume
<1> HIDE DEF mark
<1>3. processed' \subseteq Event \X Consumer /\ masked' \subseteq Event \X Consumer
  BY <1>1, <1>2 DEF TypeInv, TypeOK
<1>4. applied' \in [Event \X Consumer -> Nat]
  BY <1>1, <1>2 DEF TypeInv, TypeOK
<1> QED BY <1>3, <1>4

\* So does everything else that can happen.
LEMMA TypeStep == TypeInv /\ [Next]_vars => TypeInv'
<1> SUFFICES ASSUME TypeInv, [Next]_vars PROVE TypeInv'
  OBVIOUS
<1> USE OutboxAssumption, NullAssumption
<1>1. ASSUME NEW e \in Event, Publish(e) \/ Elapse(e) \/ ReplaySince(OccurredAt[e]) PROVE TypeInv'
  <2>1. \A f \in Event : HasRow(f) => outbox[f] \in Row /\ outbox[f].redacted \in BOOLEAN
    BY RowColumns DEF HasRow, TypeInv, TypeOK
  <2>2. CASE Publish(e)
    <3>1. outbox' \in [Event -> Row \cup {NoRow}]
      BY <2>2, RowOps DEF Publish, TypeInv, TypeOK
    <3>2. QED
      BY <2>2, <3>1 DEF Publish, TypeInv, WorkerOK, TypeOK, worker, replay
  <2>3. CASE Elapse(e)
    <3>1. outbox' \in [Event -> Row \cup {NoRow}]
      BY <2>1, <2>3, RowOps DEF Elapse, TypeInv, TypeOK
    <3>2. QED
      BY <2>3, <3>1 DEF Elapse, TypeInv, WorkerOK, TypeOK, worker, replay, history
  <2>4. CASE ReplaySince(OccurredAt[e])
    <3>1. outbox' \in [Event -> Row \cup {NoRow}]
      BY <2>1, <2>4, RowOps DEF ReplaySince, Published, TypeInv, TypeOK
    <3>2. replays' \in Nat
      BY <2>4 DEF ReplaySince, CountReplay, TypeInv, TypeOK
    <3>3. QED
      BY <2>4, <3>1, <3>2 DEF ReplaySince, TypeInv, WorkerOK, TypeOK, worker, history
  <2>5. QED
    BY <1>1, <2>2, <2>3, <2>4
<1>2. ASSUME NEW w \in Worker, Dispatch(w) PROVE TypeInv'
  BY <1>2, TypeDispatch
<1>3. ASSUME NEW w \in Worker, NEW c \in Consumer,
             HandlerCommits(w, c) \/ HandlerThrows(w, c) \/ HandlerInDoubt(w, c) PROVE TypeInv'
  <2>1. current[w] \in Claim /\ Now(w) \in Event /\ current[w].redacted \in BOOLEAN
    BY <1>3 DEF HandlerCommits, HandlerThrows, HandlerInDoubt, Now, TypeInv, WorkerOK, Claim
  <2>2. CASE HandlerCommits(w, c)
    <3>1. /\ processed' \subseteq Event \X Consumer
          /\ applied' \in [Event \X Consumer -> Nat]
          /\ masked' \subseteq Event \X Consumer
      BY <2>1, <2>2, ConsumeTypes DEF HandlerCommits
    <3>2. QED
      BY <2>1, <2>2, <3>1 DEF HandlerCommits, HandlerResolved,
         TypeInv, WorkerOK, TypeOK, replay, WorkerStep
  <2>3. CASE HandlerThrows(w, c)
    <3>1. strays' \subseteq Worker \X Event \X Consumer \X BOOLEAN
      BY <2>1, <2>3 DEF HandlerThrows, HandlerRejected, HandlerResolved, TypeInv, TypeOK
    <3>2. CASE c \in Suppressed
      BY <2>1, <2>3, <3>1, <3>2 DEF HandlerThrows, HandlerResolved,
         TypeInv, WorkerOK, TypeOK, tables, replay, history, WorkerStep
    <3>3. CASE c \notin Suppressed
      BY <2>1, <2>3, <3>1, <3>3 DEF HandlerThrows, HandlerRejected,
         TypeInv, WorkerOK, TypeOK, tables, replay, history, WorkerStep
    <3>4. QED
      BY <3>2, <3>3
  <2>4. CASE HandlerInDoubt(w, c)
    <3>1. Consume(Now(w), c, current[w].redacted) /\ HandlerRejected(w, c)
      BY <2>4 DEF HandlerInDoubt
    <3>2. /\ processed' \subseteq Event \X Consumer
          /\ applied' \in [Event \X Consumer -> Nat]
          /\ masked' \subseteq Event \X Consumer
      BY <2>1, <3>1, ConsumeTypes
    <3>3. strays' \subseteq Worker \X Event \X Consumer \X BOOLEAN
      BY <2>1, <3>1 DEF HandlerRejected, TypeInv, TypeOK
    <3>4. /\ pc' \in [Worker -> WorkerStep] /\ pending' \in [Worker -> SUBSET Consumer] /\ faults' \in Nat
          /\ UNCHANGED <<claimed, current, stopped, outbox, dead, replay, created, purged, failures, unheard>>
          /\ WorkerOK'
      BY <2>1, <2>4, <3>1 DEF HandlerInDoubt, HandlerRejected, Fault, TypeInv, WorkerOK, TypeOK, WorkerStep
    <3>5. QED
      BY <3>2, <3>3, <3>4 DEF TypeInv, TypeOK, replay
  <2>5. QED
    BY <1>3, <2>2, <2>3, <2>4
<1>4. ASSUME NEW w \in Worker,
             MarkFails(w) \/ FailureNotRecorded(w) \/ Crash(w) \/ Shutdown(w) \/ Restart(w)
      PROVE TypeInv'
  <2>1. CASE MarkFails(w)
    <3>1. Now(w) \in Event
      BY <2>1 DEF MarkFails, Now, Claim, TypeInv, WorkerOK
    <3>2. PICK e \in Event : \/ UNCHANGED <<outbox, unheard>>
                            \/ /\ HasRow(e)
                               /\ outbox' = [outbox EXCEPT ![e] = AsPublished(@, e)]
                               /\ unheard' = unheard \cup {e}
      BY <2>1, <3>1 DEF MarkFails
    <3>3. outbox' \in [Event -> Row \cup {NoRow}]
      <4>1. CASE UNCHANGED outbox
        BY <4>1 DEF TypeInv, TypeOK
      <4>2. CASE HasRow(e) /\ outbox' = [outbox EXCEPT ![e] = AsPublished(@, e)]
        <5>1. outbox \in [Event -> Row \cup {NoRow}] /\ outbox[e] \in Row
          BY <4>2 DEF HasRow, TypeInv, TypeOK
        <5>2. AsPublished(outbox[e], e) \in Row
          BY <5>1, RowOps
        <5>3. QED
          BY <4>2, <5>1, <5>2
      <4>3. QED
        BY <3>2, <4>1, <4>2
    <3>4. unheard' \subseteq Event
      BY <3>2 DEF TypeInv, TypeOK
    <3>5. QED
      BY <2>1, <3>3, <3>4 DEF MarkFails, Fault, TypeInv, WorkerOK, TypeOK, replay, WorkerStep
  <2>2. CASE FailureNotRecorded(w)
    BY <2>2 DEF FailureNotRecorded, Fault, RowDone,
       TypeInv, WorkerOK, TypeOK, tables, replay, history, WorkerStep
  <2>3. CASE Crash(w) \/ Restart(w)
    <3>0. Forget(w)
      BY <2>3 DEF Crash, Restart
    <3>1. strays' \subseteq Worker \X Event \X Consumer \X BOOLEAN
      BY <3>0 DEF Forget, TypeInv, TypeOK
    <3>2. /\ pc' \in [Worker -> WorkerStep]
          /\ claimed' \in [Worker -> SUBSET Claim]
          /\ current' \in [Worker -> Claim \cup {NoClaim}]
          /\ pending' \in [Worker -> SUBSET Consumer]
          /\ WorkerOK'
      BY <3>0 DEF Forget, TypeInv, WorkerOK, TypeOK, WorkerStep
    <3>3. stopped' \in [Worker -> BOOLEAN] /\ faults' \in Nat
      <4>1. stopped' = [stopped EXCEPT ![w] = FALSE] /\ (faults' = faults \/ faults' = faults + 1)
        BY <2>3 DEF Crash, Restart, Fault
      <4>2. QED
        BY <4>1 DEF TypeInv, TypeOK
    <3>4. UNCHANGED <<tables, replay, history>>
      BY <2>3 DEF Crash, Restart
    <3>5. QED
      BY <3>1, <3>2, <3>3, <3>4 DEF TypeInv, TypeOK, tables, replay, history
  <2>4. CASE Shutdown(w)
    BY <2>4 DEF Shutdown, Fault, TypeInv, WorkerOK, TypeOK, tables, replay, history
  <2>5. QED
    BY <1>4, <2>1, <2>2, <2>3, <2>4
<1>5. ASSUME NEW s \in strays, StrayCommits(s) \/ StrayThrows(s) PROVE TypeInv'
  <2>1. s[2] \in Event /\ s[3] \in Consumer /\ s[4] \in BOOLEAN
    BY DEF TypeInv, TypeOK
  <2>2. /\ processed' \subseteq Event \X Consumer
        /\ applied' \in [Event \X Consumer -> Nat]
        /\ masked' \subseteq Event \X Consumer
    <3>1. CASE StrayCommits(s)
      BY <2>1, <3>1, ConsumeTypes DEF StrayCommits
    <3>2. CASE StrayThrows(s)
      BY <3>2 DEF StrayThrows, tables, history, TypeInv, TypeOK
    <3>3. QED
      BY <1>5, <3>1, <3>2
  <2>3. QED
    BY <1>5, <2>2 DEF StrayCommits, StrayThrows,
       TypeInv, WorkerOK, TypeOK, tables, replay, history
<1>6. ASSUME PurgePublished \/ PurgeDead PROVE TypeInv'
  BY <1>6 DEF PurgePublished, PurgeDead, TypeInv, WorkerOK, TypeOK, worker, replay
<1>7. ASSUME NEW r \in Replayer, Replay(r) PROVE TypeInv'
  <2>1. \A f \in Event : HasRow(f) => outbox[f] \in Row /\ outbox[f].redacted \in BOOLEAN
    BY RowColumns DEF HasRow, TypeInv, TypeOK
  <2>2. outbox' \in [Event -> Row \cup {NoRow}]
    <3>1. ASSUME NEW e \in Event, ReplayReset(r, e) PROVE outbox' \in [Event -> Row \cup {NoRow}]
      <4> DEFINE redacted == outbox[e].redacted
      <4>1. CASE HasRow(e)
        <5>1. redacted \in BOOLEAN
          BY <2>1, <4>1
        <5>2. outbox' = [outbox EXCEPT ![e] = FreshRow(redacted)]
          BY <3>1, <4>1 DEF ReplayReset
        <5> HIDE DEF redacted
        <5>3. QED
          BY <5>1, <5>2, RowOps DEF TypeInv, TypeOK
      <4>2. CASE ~HasRow(e)
        BY <3>1, <4>2 DEF ReplayReset, TypeInv, TypeOK
      <4>3. QED
        BY <4>1, <4>2
    <3>2. CASE ReplayInsert(r)
      <4>1. (revent[r] \in Secret) \in BOOLEAN
        OBVIOUS
      <4>2. FreshRow(revent[r] \in Secret) \in Row
        BY <4>1, RowOps
      <4>3. QED
        BY <3>2, <4>2 DEF ReplayInsert, TypeInv, TypeOK
    <3>3. CASE ReplaySelect(r) \/ ReplayDelete(r) \/ ReplayCrash(r)
      BY <3>3 DEF ReplaySelect, ReplayDelete, ReplayCrash, TypeInv, TypeOK, tables
    <3>4. QED
      BY <1>7, <3>1, <3>2, <3>3 DEF Replay
  <2>3. rpc' \in [Replayer -> ReplayStep] /\ revent' \in [Replayer -> Event \cup {NoEvent}]
    BY SMTT(20), <1>7 DEF Replay, ReplayReset, ReplaySelect, ReplayInsert, ReplayDelete, ReplayCrash, Rpc,
       TypeInv, TypeOK, ReplayStep
  <2>4. dead' \subseteq Event /\ faults' \in Nat /\ replays' \in Nat
    BY <1>7 DEF Replay, ReplayReset, ReplaySelect, ReplayInsert, ReplayDelete, ReplayCrash,
       Fault, CountReplay, TypeInv, TypeOK, tables
  <2>5. UNCHANGED <<processed, worker, created, purged, applied, masked, failures, unheard>>
    BY <1>7 DEF Replay, ReplayReset, ReplaySelect, ReplayInsert, ReplayDelete, ReplayCrash,
       tables, history
  <2>6. QED
    BY <2>2, <2>3, <2>4, <2>5 DEF TypeInv, WorkerOK, TypeOK, worker
<1>8. CASE UNCHANGED vars
  BY <1>8 DEF vars, TypeInv, WorkerOK, TypeOK, tables, worker, replay, history
<1>9. QED
  BY <1>1, <1>2, <1>3, <1>4, <1>5, <1>6, <1>7, <1>8 DEF Next, HandlerEnds, StrayEnds

\* Every variable of the outbox keeps its type, and a dispatcher that marks,
\* retries or buries a row has one in hand (the state runBatch and
\* handleFailure work on).
THEOREM TypeCorrect == Spec => []TypeInv
<1>1. Init => TypeInv
  BY OutboxAssumption, NullAssumption DEF Init, TypeInv, WorkerOK, TypeOK, WorkerStep, ReplayStep
<1>2. QED
  BY <1>1, TypeStep, PTL DEF Spec

-----------------------------------------------------------------------------
(* Published rows were handled *)

\* What a dispatcher has established so far about the row in its hand: the
\* handlers emitAsync no longer waits for have committed, if their errors surface.
HandledSoFar ==
  \A w \in Worker :
    /\ pc[w] \in {"emit", "mark"} => Listeners[Now(w)] # {}
    /\ pc[w] = "emit" => \A c \in Listeners[Now(w)] \ (pending[w] \cup Suppressed) : <<Now(w), c>> \in processed
    /\ pc[w] = "mark" => \A c \in Listeners[Now(w)] \ Suppressed : <<Now(w), c>> \in processed

\* A mark of processed_events is never taken back.
LEMMA ProcessedGrows == [Next]_vars => processed \subseteq processed'
<1>1. \A e, c, redacted : Consume(e, c, redacted) => processed \subseteq processed'
  BY DEF Consume
<1>2. ASSUME NEW w \in Worker, NEW c \in Consumer,
             HandlerCommits(w, c) \/ HandlerThrows(w, c) \/ HandlerInDoubt(w, c)
      PROVE  processed \subseteq processed'
  BY <1>1, <1>2 DEF HandlerCommits, HandlerThrows, HandlerInDoubt, tables
<1>3. ASSUME NEW s \in strays, StrayCommits(s) \/ StrayThrows(s) PROVE processed \subseteq processed'
  BY <1>1, <1>3 DEF StrayCommits, StrayThrows, tables
<1> QED
  BY <1>2, <1>3 DEF Next, vars, tables, Publish, Elapse, ReplaySince, Dispatch, ClaimBatch, StartRow,
     MarkPublished, RetryLater, DeadLetter, Bury, HandlerEnds, MarkFails, FailureNotRecorded, Crash,
     Shutdown, Restart, StrayEnds, PurgePublished, PurgeDead, Replay, ReplayReset, ReplaySelect,
     ReplayInsert, ReplayDelete, ReplayCrash

\* The columns only two statements change: published, and the row's presence.
LEMMA PublishedColumn ==
  /\ \A row \in Row : Leased(row).published = row.published /\ Ripe(row).published = row.published
  /\ \A row \in Row, n \in Nat : AsFailed(row, n).published = row.published
  /\ \A redacted : FreshRow(redacted).published = FALSE
BY DEF Row, Leased, Ripe, AsFailed, FreshRow

\* Only the update of processClaimed makes a row published, heard or not.
LEMMA PublishedBy ==
  ASSUME TypeInv, [Next]_vars, NEW e \in Event, ~Published(e), Published(e)'
  PROVE  \E w \in Worker : (MarkPublished(w) \/ MarkFails(w)) /\ e = Now(w)
<1> USE NullAssumption
<1>1. \A f \in Event : HasRow(f) => outbox[f] \in Row
  BY DEF TypeInv, TypeOK, HasRow
<1>2. outbox \in [Event -> Row \cup {NoRow}]
  BY DEF TypeInv, TypeOK
<1>3. ASSUME NEW f \in Event, Publish(f) \/ Elapse(f) \/ ReplaySince(OccurredAt[f]) PROVE FALSE
  <2>1. CASE Publish(f)
    BY <1>2, <2>1, PublishedColumn DEF Publish, Published, HasRow
  <2>2. CASE Elapse(f)
    BY <1>1, <1>2, <2>2, PublishedColumn DEF Elapse, Published, HasRow
  <2>3. CASE ReplaySince(OccurredAt[f])
    <3>1. outbox'[e] = outbox[e] \/ outbox'[e] = FreshRow(outbox[e].redacted)
      BY <2>3 DEF ReplaySince
    <3>2. QED
      BY <3>1, PublishedColumn DEF Published, HasRow
  <2>4. QED
    BY <1>3, <2>1, <2>2, <2>3
<1>4. ASSUME NEW w \in Worker, Dispatch(w) PROVE MarkPublished(w) /\ e = Now(w)
  <2>1. CASE ClaimBatch(w)
    BY <1>1, <1>2, <2>1, PublishedColumn DEF ClaimBatch, IsBatch, Due, Published, HasRow
  <2>2. CASE StartRow(w) \/ DeadLetter(w)
    BY <2>2 DEF StartRow, DeadLetter, tables, Published, HasRow
  <2>3. CASE MarkPublished(w)
    BY <1>2, <2>3 DEF MarkPublished, UpdateRow, Published, HasRow
  <2>4. CASE RetryLater(w)
    <3>1. Now(w) \in Event /\ current[w].attempts + 1 \in Nat
      BY <2>4 DEF RetryLater, Now, Claim, TypeInv, WorkerOK
    <3>2. QED
      BY <1>1, <1>2, <2>4, <3>1, PublishedColumn DEF RetryLater, UpdateRow, Published, HasRow
  <2>5. CASE Bury(w)
    BY <1>2, <2>5 DEF Bury, Published, HasRow
  <2>6. QED
    BY <1>4, <2>1, <2>2, <2>3, <2>4, <2>5 DEF Dispatch
<1>5. ASSUME NEW r \in Replayer, Replay(r) PROVE FALSE
  BY <1>1, <1>2, <1>5, PublishedColumn DEF Replay, ReplayReset, ReplaySelect, ReplayInsert,
     ReplayDelete, ReplayCrash, tables, Published, HasRow
<1>6. PurgePublished => FALSE
  BY <1>2 DEF PurgePublished, Published, HasRow
<1>7. UNCHANGED outbox => FALSE
  BY DEF Published, HasRow
<1>8. ASSUME NEW w \in Worker, MarkFails(w) PROVE e = Now(w)
  BY <1>2, <1>8 DEF MarkFails, Published, HasRow
<1>9. QED
  BY <1>3, <1>4, <1>5, <1>6, <1>7, <1>8 DEF Next, vars, tables, HandlerEnds, HandlerCommits, HandlerThrows,
     HandlerInDoubt, FailureNotRecorded, Crash, Shutdown, Restart, StrayEnds, StrayCommits, StrayThrows,
     PurgeDead

\* Nothing a step does breaks what a dispatcher has
\* established about the row in its hand.
LEMMA HandledSoFarStep ==
  ASSUME TypeInv, [Next]_vars, HandledSoFar
  PROVE  HandledSoFar'
<1>1. processed \subseteq processed'
  BY ProcessedGrows
<1>2. CASE UNCHANGED <<pc, current, pending>>
  BY <1>1, <1>2 DEF HandledSoFar, Now
<1>3. ASSUME NEW w \in Worker, RowDone(w), UNCHANGED pending PROVE HandledSoFar'
  BY <1>1, <1>3 DEF HandledSoFar, Now, RowDone, TypeInv, TypeOK
<1>4. ASSUME NEW w \in Worker, Forget(w) PROVE HandledSoFar'
  BY <1>1, <1>4 DEF HandledSoFar, Now, Forget, TypeInv, TypeOK
<1>5. ASSUME NEW w \in Worker, pc' = [pc EXCEPT ![w] = "fail"] \/ pc' = [pc EXCEPT ![w] = "bury"],
             current' = current,
             \A v \in Worker \ {w} : pending'[v] = pending[v]
      PROVE HandledSoFar'
  BY <1>1, <1>5 DEF HandledSoFar, Now, TypeInv, TypeOK
<1>6. ASSUME NEW w \in Worker, ClaimBatch(w) PROVE HandledSoFar'
  BY <1>1, <1>6 DEF HandledSoFar, Now, ClaimBatch, TypeInv, TypeOK
<1>7. ASSUME NEW w \in Worker, StartRow(w) PROVE HandledSoFar'
  <2>1. PICK c \in claimed[w] :
          /\ current' = [current EXCEPT ![w] = c]
          /\ pending' = [pending EXCEPT ![w] = Listeners[c.event]]
          /\ pc' = [pc EXCEPT ![w] = IF Listeners[c.event] = {} THEN "fail" ELSE "emit"]
    BY <1>7 DEF StartRow
  <2>2. QED
    BY <1>1, <2>1 DEF HandledSoFar, Now, TypeInv, TypeOK
<1>8. ASSUME NEW w \in Worker, NEW c \in Consumer, HandlerCommits(w, c) PROVE HandledSoFar'
  <2>1. <<Now(w), c>> \in processed'
    BY <1>8 DEF HandlerCommits, Consume
  <2>2. /\ pc[w] = "emit"
        /\ pending' = [pending EXCEPT ![w] = pending[w] \ {c}]
        /\ pc' = [pc EXCEPT ![w] = IF pending[w] = {c} THEN "mark" ELSE "emit"]
        /\ current' = current
    BY <1>8 DEF HandlerCommits, HandlerResolved
  <2>3. QED
    BY <1>1, <2>1, <2>2 DEF HandledSoFar, Now, TypeInv, TypeOK
<1>9. ASSUME NEW w \in Worker, Dispatch(w) PROVE HandledSoFar'
  BY <1>9, <1>3, <1>5, <1>6, <1>7 DEF Dispatch, MarkPublished, RetryLater, DeadLetter, Bury, RowDone
<1>10. ASSUME NEW w \in Worker, NEW c \in Consumer, HandlerThrows(w, c) PROVE HandledSoFar'
  <2>1. CASE c \in Suppressed
    <3>1. /\ pc[w] = "emit"
          /\ pending' = [pending EXCEPT ![w] = pending[w] \ {c}]
          /\ pc' = [pc EXCEPT ![w] = IF pending[w] = {c} THEN "mark" ELSE "emit"]
          /\ current' = current
      BY <1>10, <2>1 DEF HandlerThrows, HandlerInDoubt, HandlerRejected, HandlerResolved
    <3>2. QED
      BY <1>1, <2>1, <3>1 DEF HandledSoFar, Now, TypeInv, TypeOK
  <2>2. CASE c \notin Suppressed
    <3>1. /\ pc' = [pc EXCEPT ![w] = "fail"]
          /\ pending' = [pending EXCEPT ![w] = {}]
          /\ current' = current
      BY <1>10, <2>2 DEF HandlerThrows, HandlerInDoubt, HandlerRejected
    <3>2. QED
      BY <1>5, <3>1 DEF TypeInv, TypeOK
  <2>3. QED
    BY <2>1, <2>2
<1>0. ASSUME NEW w \in Worker, NEW c \in Consumer, HandlerInDoubt(w, c) PROVE HandledSoFar'
  <2>1. /\ pc' = [pc EXCEPT ![w] = "fail"]
        /\ pending' = [pending EXCEPT ![w] = {}]
        /\ current' = current
    BY <1>0 DEF HandlerInDoubt, HandlerRejected
  <2>2. QED
    BY <1>5, <2>1 DEF TypeInv, TypeOK
<1>11. ASSUME NEW w \in Worker,
              MarkFails(w) \/ FailureNotRecorded(w) \/ Crash(w) \/ Shutdown(w) \/ Restart(w)
       PROVE HandledSoFar'
  BY <1>11, <1>2, <1>3, <1>4, <1>5
     DEF MarkFails, FailureNotRecorded, Crash, Shutdown, Restart, RowDone
<1>12. QED
  BY <1>0, <1>2, <1>8, <1>9, <1>10, <1>11 DEF Next, vars, worker, HandlerEnds, Publish, Elapse, ReplaySince,
     StrayEnds, StrayCommits, StrayThrows, PurgePublished, PurgeDead, Replay, ReplayReset,
     ReplaySelect, ReplayInsert, ReplayDelete, ReplayCrash

\* At-least-once.  A row is marked published only after every handler registered
\* for it whose errors reach emitAsync committed, however many dispatchers hold it,
\* whichever die, whatever operators replay and whichever others swallow theirs.
THEOREM PublishedCorrect == Spec => []PublishedWereHandled
<1>1. Init => HandledSoFar /\ PublishedWereHandled
  BY DEF Init, HandledSoFar, PublishedWereHandled, Published, HasRow
<1>2. TypeInv /\ HandledSoFar /\ PublishedWereHandled /\ [Next]_vars
        => HandledSoFar' /\ PublishedWereHandled'
  <2> SUFFICES ASSUME TypeInv, HandledSoFar, PublishedWereHandled, [Next]_vars
               PROVE  HandledSoFar' /\ PublishedWereHandled'
    OBVIOUS
  <2>1. HandledSoFar'
    BY HandledSoFarStep
  <2>2. ASSUME NEW e \in Event, Published(e)'
        PROVE  Listeners[e] # {} /\ \A c \in Listeners[e] \ Suppressed : <<e, c>> \in processed'
    <3>1. CASE Published(e)
      BY <3>1, ProcessedGrows DEF PublishedWereHandled
    <3>2. CASE ~Published(e)
      <4>1. PICK w \in Worker : pc[w] = "mark" /\ e = Now(w)
        BY <2>2, <3>2, PublishedBy DEF MarkPublished, MarkFails
      <4>2. QED
        BY <4>1, ProcessedGrows DEF HandledSoFar
    <3>3. QED
      BY <3>1, <3>2
  <2>3. QED
    BY <2>1, <2>2 DEF PublishedWereHandled
<1>3. QED
  BY <1>1, <1>2, TypeCorrect, PTL DEF Spec

-----------------------------------------------------------------------------
(* Effects happen once *)

\* processed and applied change together, by a consumer's transaction only.
LEMMA ConsumedBy ==
  ASSUME [Next]_vars
  PROVE  \/ UNCHANGED <<processed, applied>>
         \/ \E p : /\ p \notin processed
                   /\ processed' = processed \cup {p}
                   /\ applied' = [applied EXCEPT ![p] = @ + 1]
<1>1. ASSUME NEW w \in Worker, NEW c \in Consumer, HandlerCommits(w, c) \/ HandlerInDoubt(w, c)
      PROVE  Consume(Now(w), c, current[w].redacted)
  BY <1>1 DEF HandlerCommits, HandlerInDoubt
<1>2. ASSUME NEW s \in strays, StrayCommits(s) PROVE Consume(s[2], s[3], s[4])
  BY <1>2 DEF StrayCommits
<1>3. ASSUME NEW e, NEW c, NEW redacted, Consume(e, c, redacted)
      PROVE  \/ UNCHANGED <<processed, applied>>
             \/ /\ <<e, c>> \notin processed
                /\ processed' = processed \cup {<<e, c>>}
                /\ applied' = [applied EXCEPT ![<<e, c>>] = @ + 1]
  BY <1>3 DEF Consume
<1>4. \/ UNCHANGED <<processed, applied>>
      \/ \E w \in Worker, c \in Consumer : HandlerCommits(w, c) \/ HandlerInDoubt(w, c)
      \/ \E s \in strays : StrayCommits(s)
  BY DEF Next, vars, tables, history, Publish, Elapse, ReplaySince, Dispatch, ClaimBatch, StartRow,
     MarkPublished, RetryLater, DeadLetter, Bury, HandlerEnds, HandlerThrows,
     MarkFails, FailureNotRecorded, Crash, Shutdown, Restart, StrayEnds,
     StrayThrows, PurgePublished, PurgeDead, Replay, ReplayReset, ReplaySelect, ReplayInsert,
     ReplayDelete, ReplayCrash
<1>5. QED
  BY <1>1, <1>2, <1>3, <1>4

\* Effectively once.  However often a row is emitted (lease expiry, retry,
\* crash, replay, two dispatchers), a consumer whose effect and markIfNew share
\* a transaction has one effect per event.
THEOREM EffectCorrect == Spec => []EffectOnce
<1>1. Init => EffectOnce
  BY DEF Init, EffectOnce
<1>2. TypeInv /\ EffectOnce /\ [Next]_vars => EffectOnce'
  <2> SUFFICES ASSUME TypeInv, EffectOnce, [Next]_vars PROVE EffectOnce'
    OBVIOUS
  <2>1. CASE UNCHANGED <<processed, applied>>
    BY <2>1 DEF EffectOnce
  <2>2. ASSUME NEW p, p \notin processed, processed' = processed \cup {p},
               applied' = [applied EXCEPT ![p] = @ + 1]
        PROVE  EffectOnce'
    <3> SUFFICES ASSUME NEW e \in Event, NEW c \in Consumer
                 PROVE  applied'[<<e, c>>] = IF <<e, c>> \in processed' THEN 1 ELSE 0
      BY DEF EffectOnce
    <3>1. applied[<<e, c>>] = IF <<e, c>> \in processed THEN 1 ELSE 0
      BY DEF EffectOnce
    <3>2. <<e, c>> \in DOMAIN applied
      BY DEF TypeInv, TypeOK
    <3>3. CASE p = <<e, c>>
      BY <2>2, <3>1, <3>2, <3>3
    <3>4. CASE p # <<e, c>>
      BY <2>2, <3>1, <3>2, <3>4
    <3>5. QED
      BY <3>3, <3>4
  <2>3. QED
    BY <2>1, <2>2, ConsumedBy
<1>3. QED
  BY <1>1, <1>2, TypeCorrect, PTL DEF Spec

-----------------------------------------------------------------------------
(* No event is lost *)

\* Between its two statements, a dispatcher's dead letter is in place.
DeadLetterFirst == \A w \in Worker : pc[w] = "bury" => Now(w) \in dead

\* Unless an operator replays it, a dead letter a dispatcher relies on stays.
LEMMA DeadLetterFirstStep ==
  ASSUME TypeInv, [Next]_vars, DeadLetterFirst, Replayer = {}
  PROVE  DeadLetterFirst'
<1>1. CASE UNCHANGED <<pc, current, dead>>
  BY <1>1 DEF DeadLetterFirst, Now
<1>2. ASSUME NEW w \in Worker, RowDone(w), UNCHANGED dead PROVE DeadLetterFirst'
  BY <1>2 DEF DeadLetterFirst, Now, RowDone, TypeInv, TypeOK
<1>3. ASSUME NEW w \in Worker, Forget(w), UNCHANGED dead PROVE DeadLetterFirst'
  BY <1>3 DEF DeadLetterFirst, Now, Forget, TypeInv, TypeOK
<1>4. ASSUME NEW w \in Worker, NEW step \in {"emit", "mark", "fail"},
             pc' = [pc EXCEPT ![w] = step], UNCHANGED <<current, dead>>
      PROVE  DeadLetterFirst'
  BY <1>4 DEF DeadLetterFirst, Now, TypeInv, TypeOK
<1>5. ASSUME NEW w \in Worker, Dispatch(w) PROVE DeadLetterFirst'
  <2>1. CASE ClaimBatch(w)
    BY <2>1 DEF ClaimBatch, DeadLetterFirst, Now, TypeInv, TypeOK
  <2>2. CASE StartRow(w)
    BY <2>2 DEF StartRow, tables, DeadLetterFirst, Now, TypeInv, TypeOK
  <2>3. CASE MarkPublished(w) \/ RetryLater(w) \/ Bury(w)
    BY <2>3, <1>2 DEF MarkPublished, RetryLater, Bury
  <2>4. CASE DeadLetter(w)
    BY <2>4 DEF DeadLetter, DeadLetterFirst, Now, TypeInv, TypeOK
  <2>5. QED
    BY <1>5, <2>1, <2>2, <2>3, <2>4 DEF Dispatch
<1>6. ASSUME NEW w \in Worker, NEW c \in Consumer, HandlerCommits(w, c) \/ HandlerThrows(w, c) \/ HandlerInDoubt(w, c)
      PROVE DeadLetterFirst'
  <2>1. PICK step \in {"emit", "mark", "fail"} : pc' = [pc EXCEPT ![w] = step]
    BY <1>6 DEF HandlerCommits, HandlerThrows, HandlerInDoubt, HandlerRejected, HandlerResolved
  <2>2. UNCHANGED <<current, dead>>
    BY <1>6 DEF HandlerCommits, HandlerThrows, HandlerInDoubt, HandlerRejected, HandlerResolved, tables
  <2>3. QED
    BY <2>1, <2>2, <1>4
<1>7. ASSUME NEW w \in Worker,
             MarkFails(w) \/ FailureNotRecorded(w) \/ Crash(w) \/ Shutdown(w) \/ Restart(w)
      PROVE DeadLetterFirst'
  BY <1>7, <1>1, <1>2, <1>3, <1>4 DEF MarkFails, FailureNotRecorded, Crash, Shutdown, Restart, tables
<1>8. CASE PurgeDead
  BY <1>8 DEF PurgeDead, worker, DeadLetterFirst, Now
<1>9. QED
  BY <1>1, <1>5, <1>6, <1>7, <1>8 DEF Next, vars, worker, tables, HandlerEnds, Publish, Elapse,
     ReplaySince, StrayEnds, StrayCommits, StrayThrows, PurgePublished

\* A committed event leaves the queue for the dead letter table or by the purge
\* of published rows, and the dead letter table by its own purge.
LEMMA EventsAreKeptStep ==
  ASSUME TypeInv, [Next]_vars, DeadLetterFirst, EventsAreKept, Replayer = {}
  PROVE  EventsAreKept'
<1> USE NullAssumption
<1>1. CASE UNCHANGED <<outbox, dead, created, purged>>
  BY <1>1 DEF EventsAreKept, HasRow
<1>2. \A e \in Event : HasRow(e) => outbox[e] \in Row
  BY DEF TypeInv, TypeOK, HasRow
<1>3. ASSUME \A e \in Event : HasRow(e) => HasRow(e)', dead \subseteq dead', UNCHANGED <<created, purged>>
      PROVE  EventsAreKept'
  BY <1>3 DEF EventsAreKept, TypeInv, TypeOK
<1>4. ASSUME NEW e \in Event, Publish(e) PROVE EventsAreKept'
  <2>1. FreshRow(FALSE) # NoRow
    BY RowOps
  <2>2. /\ outbox' = [outbox EXCEPT ![e] = FreshRow(FALSE)]
        /\ created' = created \cup {e}
        /\ UNCHANGED <<dead, purged>>
    BY <1>4 DEF Publish
  <2>3. QED
    BY ZenonT(40), <2>1, <2>2 DEF EventsAreKept, HasRow, TypeInv, TypeOK
<1>5. ASSUME NEW e \in Event, Elapse(e) PROVE EventsAreKept'
  BY <1>2, <1>3, <1>5, RowOps DEF Elapse, history, HasRow, TypeInv, TypeOK
<1>6. ASSUME NEW w \in Worker, Dispatch(w) PROVE EventsAreKept'
  <2>1. CASE ClaimBatch(w)
    BY <1>2, <1>3, <2>1, RowOps DEF ClaimBatch, history, HasRow
  <2>2. CASE StartRow(w)
    BY <1>1, <2>2 DEF StartRow, tables, history
  <2>3. CASE MarkPublished(w)
    <3>1. Now(w) \in Event
      BY <2>3 DEF MarkPublished, Now, Claim, TypeInv, WorkerOK
    <3>2. QED
      BY <1>2, <1>3, <2>3, <3>1, RowOps DEF MarkPublished, UpdateRow, history, HasRow, TypeInv, TypeOK
  <2>4. CASE RetryLater(w)
    <3>1. Now(w) \in Event /\ current[w].attempts + 1 \in Nat
      BY <2>4 DEF RetryLater, Now, Claim, TypeInv, WorkerOK
    <3>2. QED
      BY <1>2, <1>3, <2>4, <3>1, RowOps DEF RetryLater, UpdateRow, HasRow, TypeInv, TypeOK
  <2>5. CASE DeadLetter(w)
    BY <1>3, <2>5 DEF DeadLetter, HasRow
  <2>6. CASE Bury(w)
    BY <2>6 DEF Bury, DeadLetterFirst, history, EventsAreKept, HasRow, TypeInv, TypeOK
  <2>7. QED
    BY <1>6, <2>1, <2>2, <2>3, <2>4, <2>5, <2>6 DEF Dispatch
<1>7. CASE PurgePublished
  BY <1>7 DEF PurgePublished, EventsAreKept, HasRow, TypeInv, TypeOK
<1>8. CASE PurgeDead
  BY <1>8 DEF PurgeDead, EventsAreKept, HasRow, TypeInv, TypeOK
<1>9. ASSUME NEW w \in Worker, MarkFails(w) PROVE EventsAreKept'
  <2>1. Now(w) \in Event
    BY <1>9 DEF MarkFails, Now, Claim, TypeInv, WorkerOK
  <2>2. QED
    BY <1>2, <1>3, <1>9, <2>1, RowOps DEF MarkFails, HasRow, TypeInv, TypeOK
<1>10. QED
  BY <1>1, <1>4, <1>5, <1>6, <1>7, <1>8, <1>9 DEF Next, vars, worker, tables, history, HandlerEnds,
     HandlerCommits, HandlerThrows, HandlerInDoubt, FailureNotRecorded, Crash, Shutdown, Restart,
     ReplaySince, StrayEnds, StrayCommits, StrayThrows

\* Without replays, an accepted event is always in the queue or in the dead
\* letter table until a retention purge takes it: the order of handleFailure's
\* two statements is what makes a crash between them harmless.
THEOREM NothingLost == ASSUME Replayer = {} PROVE Spec => []NoEventLost
<1>1. Init => DeadLetterFirst /\ EventsAreKept
  BY DEF Init, DeadLetterFirst, EventsAreKept
<1>2. TypeInv /\ DeadLetterFirst /\ EventsAreKept /\ [Next]_vars => DeadLetterFirst' /\ EventsAreKept'
  BY DeadLetterFirstStep, EventsAreKeptStep
<1>3. EventsAreKept => NoEventLost
  BY DEF NoEventLost
<1>4. QED
  BY <1>1, <1>2, <1>3, TypeCorrect, PTL DEF Spec
-----------------------------------------------------------------------------
(* What a claim remembers *)

\* The claims of a dispatcher, started or not.
Held(w) == claimed[w] \cup ({current[w]} \ {NoClaim})

\* A claim is what its dispatcher selected of a row that was due.
LEMMA ClaimedFrom ==
  ASSUME TypeInv, [Next]_vars, NEW w \in Worker, NEW c \in Held(w)', c \notin Held(w)
  PROVE  LET row == outbox[c.event] IN
         /\ c.event \in Event /\ HasRow(c.event) /\ ~row.published
         /\ c.attempts = row.attempts /\ c.redacted = row.redacted
<1> USE DEF Held
<1>1. /\ claimed \in [Worker -> SUBSET Claim]
      /\ current \in [Worker -> Claim \cup {NoClaim}]
  BY DEF TypeInv, TypeOK
<1>2. CASE UNCHANGED <<claimed, current>>
  BY <1>2
<1>3. ASSUME NEW v \in Worker, RowDone(v) \/ Forget(v) PROVE FALSE
  BY <1>1, <1>3 DEF RowDone, Forget
<1>4. ASSUME NEW v \in Worker, StartRow(v) PROVE FALSE
  BY <1>1, <1>4 DEF StartRow
<1>5. ASSUME NEW v \in Worker, ClaimBatch(v)
      PROVE  LET row == outbox[c.event] IN
             /\ c.event \in Event /\ HasRow(c.event) /\ ~row.published
             /\ c.attempts = row.attempts /\ c.redacted = row.redacted
  <2>1. PICK S \in SUBSET Event :
          /\ IsBatch(S)
          /\ claimed' = [claimed EXCEPT ![v] =
               {[event |-> e, attempts |-> outbox[e].attempts,
                 redacted |-> outbox[e].redacted] : e \in S}]
    BY <1>5 DEF ClaimBatch
  <2>2. current' = current
    BY <1>5 DEF ClaimBatch
  <2>3. PICK e \in S : c = [event |-> e, attempts |-> outbox[e].attempts,
                            redacted |-> outbox[e].redacted]
    BY <1>1, <2>1, <2>2
  <2>4. QED
    BY <2>1, <2>3 DEF IsBatch, Due
<1>6. QED
  BY ZenonT(40), <1>2, <1>3, <1>4, <1>5 DEF Next, vars, worker, tables, HandlerEnds, Publish, Elapse, Dispatch,
     MarkPublished, RetryLater, DeadLetter, Bury, HandlerCommits, HandlerThrows, HandlerInDoubt, HandlerRejected, HandlerResolved,
     MarkFails, FailureNotRecorded, Crash, Shutdown, Restart,
     ReplaySince, StrayEnds, StrayCommits, StrayThrows, PurgePublished, PurgeDead, Replay, ReplayReset,
     ReplaySelect, ReplayInsert, ReplayDelete, ReplayCrash

\* An operator between two statements has counted a replay.
RpcCounted == \A r \in Replayer : rpc[r] # "idle" => replays > 0

\* A replay under way has been counted.
LEMMA RpcCountedStep ==
  ASSUME TypeInv, [Next]_vars, RpcCounted
  PROVE  RpcCounted' /\ (replays' = 0 => replays = 0)
<1>1. replays \in Nat /\ rpc \in [Replayer -> ReplayStep]
  BY DEF TypeInv, TypeOK
<1>2. CASE UNCHANGED <<rpc, replays>>
  BY <1>2 DEF RpcCounted
<1>3. ASSUME NEW r \in Replayer, Replay(r) PROVE RpcCounted' /\ (replays' = 0 => replays = 0)
  BY <1>1, <1>3 DEF RpcCounted, Replay, ReplayReset, ReplaySelect, ReplayInsert, ReplayDelete,
     ReplayCrash, Rpc, CountReplay
<1>4. ASSUME NEW e \in Event, ReplaySince(OccurredAt[e]) PROVE RpcCounted' /\ (replays' = 0 => replays = 0)
  BY <1>1, <1>4 DEF RpcCounted, ReplaySince, CountReplay
<1>5. QED
  BY <1>2, <1>3, <1>4 DEF Next, vars, worker, replay, tables, HandlerEnds, Publish, Elapse, Dispatch,
     ClaimBatch, StartRow, MarkPublished, RetryLater, DeadLetter, Bury, HandlerCommits, HandlerThrows, HandlerInDoubt, HandlerRejected,
     MarkFails, FailureNotRecorded, Crash, Shutdown, Restart,
     StrayEnds, StrayCommits, StrayThrows, PurgePublished, PurgeDead

\* The columns each statement leaves alone.
LEMMA ColumnsKept ==
  /\ \A row \in Row : /\ Leased(row).attempts = row.attempts /\ Leased(row).redacted = row.redacted
                      /\ Ripe(row).attempts = row.attempts /\ Ripe(row).redacted = row.redacted
  /\ \A row \in Row, e \in Event : AsPublished(row, e).attempts = row.attempts /\ AsPublished(row, e).published
  /\ \A row \in Row, n \in Nat : AsFailed(row, n).attempts = n /\ AsFailed(row, n).redacted = row.redacted
  /\ \A redacted : FreshRow(redacted).attempts = 0 /\ FreshRow(redacted).redacted = redacted
BY DEF Row, Leased, Ripe, AsPublished, AsFailed, FreshRow

Same(e) == HasRow(e) /\ outbox'[e].attempts = outbox[e].attempts
Alike(e) == outbox'[e].published = outbox[e].published /\ outbox'[e].redacted = outbox[e].redacted

\* Where a row comes from, and who changed its attempts, or its payload.
LEMMA RowFrom ==
  ASSUME TypeInv, RpcCounted, [Next]_vars, NEW e \in Event, HasRow(e)'
  PROVE  \/ Same(e) /\ Alike(e)
         \/ Same(e) /\ outbox'[e].published
         \/ outbox'[e].attempts = 0 /\ (replays' > 0 \/ ~outbox'[e].redacted)
         \/ \E w \in Worker : RetryLater(w) /\ e = Now(w) /\ HasRow(e) /\ Alike(e)
                                /\ outbox'[e].attempts = current[w].attempts + 1
<1> USE NullAssumption DEF Same, Alike
<1> DEFINE Kept == Same(e) /\ Alike(e)
           Marked == Same(e) /\ outbox'[e].published
           Fresh == outbox'[e].attempts = 0 /\ (replays' > 0 \/ ~outbox'[e].redacted)
<1>1. \A f \in Event : HasRow(f) => outbox[f] \in Row
  BY DEF TypeInv, TypeOK, HasRow
<1>2. outbox \in [Event -> Row \cup {NoRow}] /\ replays \in Nat
  BY DEF TypeInv, TypeOK
<1>3. UNCHANGED outbox => Kept
  BY DEF HasRow
<1>4. ASSUME NEW f \in Event, Publish(f) \/ Elapse(f) \/ ReplaySince(OccurredAt[f]) PROVE Kept \/ Fresh
  <2>1. CASE Publish(f)
    BY <1>2, <2>1, ColumnsKept DEF Publish, HasRow
  <2>2. CASE Elapse(f)
    BY <1>1, <1>2, <2>2, ColumnsKept, PublishedColumn DEF Elapse, HasRow
  <2>3. CASE ReplaySince(OccurredAt[f])
    <3>1. outbox'[e] = outbox[e] \/ outbox'[e] = FreshRow(outbox[e].redacted)
      BY <2>3 DEF ReplaySince
    <3>2. replays' > 0
      BY <1>2, <2>3 DEF ReplaySince, CountReplay
    <3>3. QED
      BY <3>1, <3>2, ColumnsKept DEF HasRow
  <2>4. QED
    BY <1>4, <2>1, <2>2, <2>3
<1>5. ASSUME NEW r \in Replayer, Replay(r) PROVE Kept \/ Fresh
  <2>1. \/ outbox'[e] = outbox[e]
        \/ (\E redacted : outbox'[e] = FreshRow(redacted)) /\ replays' > 0
    BY <1>2, <1>5 DEF Replay, ReplayReset, ReplaySelect, ReplayInsert, ReplayDelete, ReplayCrash,
       RpcCounted, CountReplay, tables
  <2>2. QED
    BY <2>1, ColumnsKept DEF HasRow
<1>6. PurgePublished => Kept
  BY <1>2 DEF PurgePublished, HasRow
<1>7. ASSUME NEW w \in Worker, Dispatch(w)
      PROVE  Kept \/ Marked \/ (RetryLater(w) /\ e = Now(w) /\ HasRow(e) /\ Alike(e)
                                  /\ outbox'[e].attempts = current[w].attempts + 1)
  <2>1. CASE ClaimBatch(w)
    BY <1>1, <1>2, <2>1, ColumnsKept, PublishedColumn DEF ClaimBatch, IsBatch, Due, HasRow
  <2>2. CASE StartRow(w) \/ DeadLetter(w)
    BY <1>3, <2>2 DEF StartRow, DeadLetter, tables
  <2>3. CASE MarkPublished(w)
    BY <1>1, <1>2, <2>3, ColumnsKept DEF MarkPublished, UpdateRow, HasRow
  <2>4. CASE RetryLater(w)
    <3>1. Now(w) \in Event /\ current[w].attempts + 1 \in Nat
      BY <2>4 DEF RetryLater, Now, Claim, TypeInv, WorkerOK
    <3>2. CASE e = Now(w) /\ HasRow(e)
      <4>1. outbox'[e] = AsFailed(outbox[e], current[w].attempts + 1)
        BY <1>2, <2>4, <3>2 DEF RetryLater, UpdateRow
      <4>2. QED
        BY <1>1, <2>4, <3>1, <3>2, <4>1, ColumnsKept, PublishedColumn
    <3>3. CASE ~(e = Now(w) /\ HasRow(e))
      BY <1>2, <2>4, <3>1, <3>3 DEF RetryLater, UpdateRow, HasRow
    <3>4. QED
      BY <3>2, <3>3
  <2>5. CASE Bury(w)
    BY <1>2, <2>5 DEF Bury, HasRow
  <2>6. QED
    BY <1>7, <2>1, <2>2, <2>3, <2>4, <2>5 DEF Dispatch
<1>8. ASSUME NEW w \in Worker, MarkFails(w) PROVE Kept \/ Marked
  <2>1. Now(w) \in Event
    BY <1>8 DEF MarkFails, Now, Claim, TypeInv, WorkerOK
  <2>2. QED
    BY <1>1, <1>2, <1>8, <2>1, ColumnsKept DEF MarkFails, HasRow
<1>9. QED
  BY <1>3, <1>4, <1>5, <1>6, <1>7, <1>8 DEF Next, vars, tables, HandlerEnds, HandlerCommits, HandlerThrows,
     HandlerInDoubt, FailureNotRecorded, Crash, Shutdown, Restart, StrayEnds, StrayCommits, StrayThrows,
     PurgeDead

-----------------------------------------------------------------------------
(* Dead letters were exhausted *)

\* No row, and no dispatcher, counts more attempts than failed.
AttemptsFailed ==
  /\ \A e \in Event : HasRow(e) => outbox[e].attempts <= failures[e]
  /\ \A w \in Worker : \A c \in Held(w) : c.attempts <= failures[c.event]

\* Failures are never forgotten.
LEMMA FailuresGrow ==
  ASSUME TypeInv, [Next]_vars
  PROVE  \A e \in Event : failures[e] <= failures'[e] /\ failures'[e] \in Nat
<1>1. failures \in [Event -> Nat] /\ MaxAttempts \in Nat
  BY OutboxAssumption DEF TypeInv, TypeOK
<1>2. UNCHANGED failures \/ \E e : CountFailure(e)
  BY DEF Next, vars, history, HandlerEnds, Publish, Elapse, Dispatch,
     ClaimBatch, StartRow, MarkPublished, RetryLater, DeadLetter, Bury, HandlerCommits, HandlerThrows, HandlerInDoubt, HandlerRejected,
     MarkFails, FailureNotRecorded, Crash, Shutdown, Restart, ReplaySince,
     StrayEnds, StrayCommits, StrayThrows, PurgePublished, PurgeDead, Replay, ReplayReset,
     ReplaySelect, ReplayInsert, ReplayDelete, ReplayCrash
<1>3. ASSUME NEW e, CountFailure(e) PROVE \A f \in Event : failures[f] <= failures'[f] /\ failures'[f] \in Nat
  BY <1>1, <1>3 DEF CountFailure
<1>4. QED
  BY <1>1, <1>2, <1>3

\* The failure a dispatcher handles is counted with its own claim.
LEMMA HeldFailed ==
  ASSUME TypeInv, AttemptsFailed, NEW w \in Worker, pc[w] = "fail", CountFailure(Now(w))
  PROVE  /\ Now(w) \in Event /\ current[w].attempts \in Nat
         /\ current[w].attempts + 1 <= failures'[Now(w)] \/ MaxAttempts <= failures'[Now(w)]
<1>1. current[w] \in Claim /\ current[w] # NoClaim
  BY NullAssumption DEF TypeInv, WorkerOK
<1>2. Now(w) \in Event /\ current[w].attempts \in Nat /\ current[w].attempts <= failures[Now(w)]
  BY <1>1 DEF Now, Claim, Held, AttemptsFailed
<1>3. failures \in [Event -> Nat] /\ MaxAttempts \in Nat
  BY OutboxAssumption DEF TypeInv, TypeOK
<1>4. QED
  BY <1>2, <1>3 DEF CountFailure

\* No row and no claim counts more attempts than failed.
LEMMA AttemptsFailedStep ==
  ASSUME TypeInv, RpcCounted, AttemptsFailed, [Next]_vars
  PROVE  AttemptsFailed'
<1>1. \A e \in Event : failures[e] <= failures'[e] /\ failures[e] \in Nat /\ failures'[e] \in Nat
  BY FailuresGrow DEF TypeInv, TypeOK
<1>2. \A e \in Event : HasRow(e) => outbox[e].attempts \in Nat
  BY RowColumns DEF TypeInv, TypeOK, HasRow
<1>3. ASSUME NEW e \in Event, HasRow(e)' PROVE outbox'[e].attempts <= failures'[e]
  <2>1. CASE Same(e)
    BY <1>1, <1>2, <2>1 DEF Same, AttemptsFailed
  <2>2. CASE outbox'[e].attempts = 0
    BY <1>1, <2>2
  <2>3. ASSUME NEW w \in Worker, RetryLater(w), e = Now(w), outbox'[e].attempts = current[w].attempts + 1
        PROVE  outbox'[e].attempts <= failures'[e]
    <3>1. ~(current[w].attempts + 1 >= MaxAttempts) /\ MaxAttempts \in Nat
      BY <2>3, OutboxAssumption DEF RetryLater, Exhausted
    <3>2. QED
      BY <1>1, <2>3, <3>1, HeldFailed DEF RetryLater
  <2>4. QED
    BY <1>3, <2>1, <2>2, <2>3, RowFrom
<1>4. ASSUME NEW w \in Worker, NEW c \in Held(w)' PROVE c.attempts <= failures'[c.event]
  <2>1. CASE c \in Held(w)
    <3>1. c \in Claim
      BY <2>1 DEF Held, TypeInv, TypeOK
    <3>2. c.event \in Event /\ c.attempts \in Nat
      BY <3>1 DEF Claim
    <3>3. QED
      BY <1>1, <2>1, <3>2 DEF AttemptsFailed
  <2>2. CASE c \notin Held(w)
    BY <1>1, <1>2, <2>2, ClaimedFrom DEF AttemptsFailed
  <2>3. QED
    BY <2>1, <2>2
<1>5. QED
  BY <1>3, <1>4 DEF AttemptsFailed

\* An event reaches the dead letter table only after MaxAttempts failures, though
\* two dispatchers whose leases expired may each write the attempts they read.
THEOREM DeadExhausted == Spec => []DeadWereExhausted
<1>1. Init => RpcCounted /\ AttemptsFailed /\ DeadWereExhausted
  BY DEF Init, RpcCounted, AttemptsFailed, DeadWereExhausted, Held, HasRow
<1>2. TypeInv /\ RpcCounted /\ AttemptsFailed /\ DeadWereExhausted /\ [Next]_vars
        => RpcCounted' /\ AttemptsFailed' /\ DeadWereExhausted'
  <2> SUFFICES ASSUME TypeInv, RpcCounted, AttemptsFailed, DeadWereExhausted, [Next]_vars
               PROVE  DeadWereExhausted'
    BY RpcCountedStep, AttemptsFailedStep
  <2>1. \A e \in Event : failures[e] <= failures'[e] /\ failures[e] \in Nat /\ failures'[e] \in Nat
    BY FailuresGrow DEF TypeInv, TypeOK
  <2>2. dead \subseteq Event /\ MaxAttempts \in Nat
    BY OutboxAssumption DEF TypeInv, TypeOK
  <2>3. CASE dead' \subseteq dead
    BY <2>1, <2>2, <2>3 DEF DeadWereExhausted
  <2>4. ASSUME NEW w \in Worker, DeadLetter(w) PROVE DeadWereExhausted'
    <3>1. /\ dead' = dead \cup {Now(w)} /\ pc[w] = "fail" /\ CountFailure(Now(w))
          /\ current[w].attempts + 1 >= MaxAttempts
      BY <2>4 DEF DeadLetter, Exhausted
    <3>2. failures'[Now(w)] >= MaxAttempts
      BY <2>1, <2>2, <3>1, HeldFailed
    <3>3. QED
      BY <2>1, <2>2, <3>1, <3>2 DEF DeadWereExhausted
  <2>5. dead' \subseteq dead \/ \E w \in Worker : DeadLetter(w)
    BY DEF Next, vars, tables, HandlerEnds, Publish, Elapse, Dispatch,
       ClaimBatch, StartRow, MarkPublished, RetryLater, Bury, HandlerCommits, HandlerThrows, HandlerInDoubt, HandlerRejected,
       MarkFails, FailureNotRecorded, Crash, Shutdown, Restart, ReplaySince,
       StrayEnds, StrayCommits, StrayThrows, PurgePublished, PurgeDead, Replay, ReplayReset,
       ReplaySelect, ReplayInsert, ReplayDelete, ReplayCrash
  <2>6. QED
    BY <2>3, <2>4, <2>5
<1>3. QED
  BY <1>1, <1>2, TypeCorrect, PTL DEF Spec

-----------------------------------------------------------------------------
(* Effects see the original payload *)

\* Until an operator replays, only published rows are masked; what a dispatcher
\* holds, or a handler it left running, was read before.
NothingMasked ==
  replays = 0 =>
    /\ \A e \in Event : Published(e) \/ (HasRow(e) => ~outbox[e].redacted)
    /\ \A w \in Worker : \A c \in Held(w) : ~c.redacted
    /\ \A s \in strays : ~s[4]
    /\ masked = {}

\* Until a replay nothing was read masked.
LEMMA NothingMaskedStep ==
  ASSUME TypeInv, RpcCounted, NothingMasked, [Next]_vars
  PROVE  NothingMasked'
<1> SUFFICES ASSUME replays' = 0
             PROVE  /\ \A e \in Event : Published(e)' \/ (HasRow(e)' => ~outbox'[e].redacted)
                    /\ \A w \in Worker : \A c \in Held(w)' : ~c.redacted
                    /\ \A s \in strays' : ~s[4]
                    /\ masked' = {}
  BY DEF NothingMasked
<1>1. /\ \A e \in Event : Published(e) \/ (HasRow(e) => ~outbox[e].redacted)
      /\ \A w \in Worker : \A c \in Held(w) : ~c.redacted
      /\ \A s \in strays : ~s[4]
      /\ masked = {}
  BY RpcCountedStep DEF NothingMasked
<1>2. ASSUME NEW e \in Event, HasRow(e)' PROVE Published(e)' \/ ~outbox'[e].redacted
  <2>1. CASE HasRow(e) /\ Alike(e)
    BY <1>1, <1>2, <2>1 DEF Alike, Published
  <2>2. CASE outbox'[e].published
    BY <1>2, <2>2 DEF Published
  <2>3. QED
    BY <1>2, <2>1, <2>2, RowFrom DEF Same
<1>3. ASSUME NEW w \in Worker, NEW c \in Held(w)' PROVE ~c.redacted
  BY <1>1, <1>3, ClaimedFrom DEF Published
<1>4. ASSUME NEW w \in Worker, pc[w] = "emit" PROVE ~current[w].redacted
  BY <1>1, <1>4, NullAssumption DEF Held, TypeInv, WorkerOK
<1>5. ASSUME NEW e, NEW c, NEW redacted, Consume(e, c, redacted), ~redacted PROVE masked' = {}
  BY <1>1, <1>5 DEF Consume
<1>6. strays' \subseteq strays \/ \E w \in Worker, c \in Consumer : HandlerThrows(w, c) \/ HandlerInDoubt(w, c)
  BY DEF Next, vars, worker, HandlerEnds, Publish, Elapse, Dispatch, RowDone, Forget,
     ClaimBatch, StartRow, MarkPublished, RetryLater, DeadLetter, Bury, HandlerCommits, HandlerResolved,
     MarkFails, FailureNotRecorded, Crash, Shutdown, Restart, ReplaySince,
     StrayEnds, StrayCommits, StrayThrows, PurgePublished, PurgeDead, Replay, ReplayReset,
     ReplaySelect, ReplayInsert, ReplayDelete, ReplayCrash
<1>7. \A s \in strays' : ~s[4]
  <2>1. CASE strays' \subseteq strays
    BY <1>1, <2>1
  <2>2. ASSUME NEW w \in Worker, NEW c \in Consumer, HandlerThrows(w, c) \/ HandlerInDoubt(w, c)
        PROVE  \A s \in strays' : ~s[4]
    <3>1. strays' \subseteq strays \cup {<<w, Now(w), d, current[w].redacted>> : d \in pending[w] \ {c}}
      BY <2>2 DEF HandlerThrows, HandlerInDoubt, HandlerRejected, HandlerResolved
    <3>2. ~current[w].redacted
      BY <1>4, <2>2 DEF HandlerThrows, HandlerInDoubt
    <3>3. QED
      BY <1>1, <3>1, <3>2
  <2>3. QED
    BY <1>6, <2>1, <2>2
<1>8. \/ UNCHANGED masked
      \/ \E w \in Worker, c \in Consumer : HandlerCommits(w, c) \/ HandlerInDoubt(w, c)
      \/ \E s \in strays : StrayCommits(s)
  BY DEF Next, vars, history, HandlerEnds, Publish, Elapse, Dispatch,
     ClaimBatch, StartRow, MarkPublished, RetryLater, DeadLetter, Bury, HandlerThrows,
     MarkFails, FailureNotRecorded, Crash, Shutdown, Restart, ReplaySince,
     StrayEnds, StrayThrows, PurgePublished, PurgeDead, Replay, ReplayReset,
     ReplaySelect, ReplayInsert, ReplayDelete, ReplayCrash
<1>9. masked' = {}
  <2>1. ASSUME NEW w \in Worker, NEW c \in Consumer, HandlerCommits(w, c) \/ HandlerInDoubt(w, c) PROVE masked' = {}
    BY <1>4, <1>5, <2>1 DEF HandlerCommits, HandlerInDoubt
  <2>2. ASSUME NEW s \in strays, StrayCommits(s) PROVE masked' = {}
    BY <1>1, <1>5, <2>2 DEF StrayCommits
  <2>3. QED
    BY <1>1, <1>8, <2>1, <2>2
<1>10. QED
  BY <1>2, <1>3, <1>7, <1>9

\* A consumer computes its effect from the envelope its producer published, stale
\* claims and abandoned handlers included: the masking of secrets at a terminal
\* status is seen by a replay only.
THEOREM OriginalSeen == Spec => []EffectsSeeOriginal
<1>1. Init => RpcCounted /\ NothingMasked
  BY DEF Init, RpcCounted, NothingMasked, Held, HasRow
<1>2. TypeInv /\ RpcCounted /\ NothingMasked /\ [Next]_vars => RpcCounted' /\ NothingMasked'
  BY RpcCountedStep, NothingMaskedStep
<1>3. NothingMasked => EffectsSeeOriginal
  BY DEF NothingMasked, EffectsSeeOriginal
<1>4. QED
  BY <1>1, <1>2, <1>3, TypeCorrect, PTL DEF Spec
-----------------------------------------------------------------------------
(* The outbox keeps its promise *)

\* A row some dispatcher works on: in place, not published, under its lease.
Open(e) == HasRow(e) /\ ~outbox[e].published /\ ~outbox[e].due

\* A row marked published unheard: nobody claims it any more, and it may be purged
\* under the dispatcher that takes its mark for a failure.
Aside(e) == e \in created /\ e \in unheard /\ (HasRow(e) => outbox[e].published)

\* The stand of a row some dispatcher holds.
Stands(w, c) ==
  \/ Open(c.event)
  \/ c = current[w] /\ pc[w] \in {"fail", "bury"} /\ Aside(c.event)

\* While no batch outlives its lease, the lease is a lock: a claimed row stays
\* open until it is marked, and one claim of one dispatcher is all there is on it.
LeaseIsLock ==
  /\ \A e \in Event : HasRow(e) => e \in created
  /\ \A w \in Worker : current[w] \notin claimed[w]
  /\ \A w \in Worker : \A c \in Held(w) : Stands(w, c)
  /\ \A w, v \in Worker : \A c \in Held(w), d \in Held(v) : c.event = d.event => w = v /\ c = d

\* It is enough to see that no dispatcher gains a claim and none loses its row.
LEMMA LockKept ==
  ASSUME LeaseIsLock,
         \A e \in Event : HasRow(e)' => e \in created',
         \A w \in Worker : Held(w)' \subseteq Held(w) /\ current'[w] \notin claimed'[w],
         \A w \in Worker : \A c \in Held(w)' : Stands(w, c)'
  PROVE  LeaseIsLock'
BY DEF LeaseIsLock

\* The due column after each statement.
LEMMA DueColumn ==
  /\ \A row \in Row : ~Leased(row).due /\ Leased(row).published = row.published
  /\ \A row \in Row, n \in Nat : ~AsFailed(row, n).due
  /\ \A row \in Row, e \in Event : AsPublished(row, e).published
BY DEF Row, Leased, AsFailed, AsPublished

\* The row in hand is done with: its claim goes, no other claim is on it.
LEMMA DoneWith ==
  ASSUME TypeInv, LeaseIsLock, NEW w \in Worker, current[w] # NoClaim, RowDone(w)
  PROVE  \A v \in Worker : /\ Held(v)' \subseteq Held(v) /\ current'[v] \notin claimed'[v]
                            /\ \A c \in Held(v)' : c.event # Now(w)
<1> USE NullAssumption
<1>1. /\ claimed \in [Worker -> SUBSET Claim]
      /\ current \in [Worker -> Claim \cup {NoClaim}]
  BY DEF TypeInv, TypeOK
<1>2. claimed' = claimed /\ current' = [current EXCEPT ![w] = NoClaim]
  BY DEF RowDone
<1>3. \A v \in Worker : Held(v)' \subseteq Held(v) /\ current'[v] \notin claimed'[v]
  BY <1>1, <1>2 DEF Held, LeaseIsLock
<1>4. ASSUME NEW v \in Worker, NEW c \in Held(v)', c.event = Now(w) PROVE FALSE
  <2>1. current[w] \in Held(w) /\ c \in Held(v)
    BY <1>3, <1>4 DEF Held
  <2>2. v = w /\ c = current[w]
    BY <1>4, <2>1 DEF LeaseIsLock, Now
  <2>3. c \in claimed[w]
    BY <1>1, <1>2, <1>4, <2>2 DEF Held
  <2>4. QED
    BY <2>2, <2>3 DEF LeaseIsLock
<1>5. QED
  BY <1>3, <1>4

\* Claiming takes rows nobody holds: those are due, the held ones are not.
LEMMA LockClaims ==
  ASSUME TypeInv, LeaseIsLock, NEW w \in Worker, ClaimBatch(w)
  PROVE  LeaseIsLock'
<1> USE NullAssumption
<1>1. /\ claimed \in [Worker -> SUBSET Claim]
      /\ current \in [Worker -> Claim \cup {NoClaim}]
      /\ outbox \in [Event -> Row \cup {NoRow}]
  BY DEF TypeInv, TypeOK
<1> DEFINE From(e) == [event |-> e, attempts |-> outbox[e].attempts, redacted |-> outbox[e].redacted]
<1>2. PICK S \in SUBSET Event :
        /\ IsBatch(S)
        /\ outbox' = [e \in Event |-> IF e \in S THEN Leased(outbox[e]) ELSE outbox[e]]
        /\ claimed' = [claimed EXCEPT ![w] = {From(e) : e \in S}]
  BY DEF ClaimBatch
<1>3. /\ UNCHANGED <<current, created, unheard>>
      /\ pc[w] = "idle" /\ \A v \in Worker \ {w} : pc'[v] = pc[v]
  BY DEF ClaimBatch, history, TypeInv, TypeOK
<1>4. \A e \in S : e \in Event /\ HasRow(e) /\ outbox[e] \in Row /\ ~outbox[e].published /\ outbox[e].due
  BY <1>1, <1>2 DEF IsBatch, Due, HasRow
<1>5. \A e \in Event : e \in S => Open(e)'
  BY <1>2, <1>4, RowOps, DueColumn DEF Open, HasRow
<1>6. \A e \in Event : /\ Open(e) => (e \notin S /\ Open(e)')
                       /\ Aside(e) => (e \notin S /\ Aside(e)')
  BY <1>2, <1>3, <1>4 DEF Open, Aside, HasRow
<1>7. \A v \in Worker : \A c \in Held(v) : c.event \in Event /\ c.event \notin S /\ Stands(v, c)'
  <2>1. \A v \in Worker : \A c \in Held(v) : c.event \in Event /\ Stands(v, c)
    BY <1>1 DEF LeaseIsLock, Held, Claim
  <2>2. ASSUME NEW v \in Worker, NEW c \in Held(v), c = current[v], pc[v] \in {"fail", "bury"}
        PROVE  c = current'[v] /\ pc'[v] \in {"fail", "bury"}
    BY <1>3, <2>2
  <2>3. ASSUME NEW v \in Worker, NEW c \in Held(v) PROVE c.event \notin S /\ Stands(v, c)'
    <3>1. c.event \in Event /\ Stands(v, c)
      BY <2>1
    <3>2. CASE Open(c.event)
      BY <1>6, <3>1, <3>2 DEF Stands
    <3>3. CASE c = current[v] /\ pc[v] \in {"fail", "bury"} /\ Aside(c.event)
      <4>1. c.event \notin S /\ Aside(c.event)'
        BY <1>6, <3>1, <3>3
      <4>2. QED
        BY <2>2, <3>3, <4>1 DEF Stands
    <3>4. QED
      BY <3>1, <3>2, <3>3 DEF Stands
  <2> QED BY <2>1, <2>3
<1>8. ASSUME NEW v \in Worker, NEW c \in Held(v)'
      PROVE  c \in Held(v) \/ (v = w /\ \E e \in S : c = From(e))
  BY <1>1, <1>2, <1>3, <1>8 DEF Held
<1>9. \A e \in S : From(e).event = e
  OBVIOUS
<1> HIDE DEF From
<1>10. \A e \in Event : HasRow(e)' => e \in created'
  BY <1>1, <1>2, <1>3, <1>4 DEF LeaseIsLock, HasRow
<1>11. \A v \in Worker : current'[v] \notin claimed'[v]
  <2>1. ASSUME NEW v \in Worker, v # w PROVE current'[v] \notin claimed'[v]
    BY <1>1, <1>2, <1>3, <2>1 DEF LeaseIsLock
  <2>2. ASSUME current'[w] \in claimed'[w] PROVE FALSE
    <3>1. PICK e \in S : current[w] = From(e)
      BY <1>1, <1>2, <1>3, <2>2
    <3>2. From(e) \in Claim
      BY <1>4, RowColumns DEF Claim, From
    <3>3. current[w] \in Held(w)
      BY <3>1, <3>2 DEF Held
    <3>4. QED
      BY <1>6, <1>7, <1>9, <3>1, <3>3
  <2>3. QED
    BY <2>1, <2>2
<1>12. \A v \in Worker : \A c \in Held(v)' : Stands(v, c)'
  BY <1>4, <1>5, <1>7, <1>8, <1>9 DEF Stands
<1>13. ASSUME NEW u \in Worker, NEW v \in Worker, NEW c \in Held(u)', NEW d \in Held(v)', c.event = d.event
       PROVE  u = v /\ c = d
  BY <1>6, <1>7, <1>8, <1>9, <1>13 DEF LeaseIsLock
<1>14. QED
  BY <1>10, <1>11, <1>12, <1>13 DEF LeaseIsLock

\* The lease is a lock: a dispatcher moves on.
LEMMA LockDispatch ==
  ASSUME TypeInv, LeaseIsLock, NEW w \in Worker, Dispatch(w)
  PROVE  LeaseIsLock'
<1> USE NullAssumption
<1>1. /\ claimed \in [Worker -> SUBSET Claim]
      /\ current \in [Worker -> Claim \cup {NoClaim}]
      /\ outbox \in [Event -> Row \cup {NoRow}]
      /\ \A e \in Event : HasRow(e) => outbox[e] \in Row
  BY DEF TypeInv, TypeOK, HasRow
<1>2. \A v \in Worker : \A c \in Held(v) : c.event \in Event /\ Stands(v, c)
  BY <1>1 DEF LeaseIsLock, Held, Claim
<1>3. pc[w] \in {"emit", "mark", "fail", "bury"} =>
        current[w] # NoClaim /\ Now(w) \in Event /\ current[w].attempts + 1 \in Nat
  BY DEF TypeInv, WorkerOK, Now, Claim
<1>4. ASSUME pc[w] \in {"emit", "mark", "fail", "bury"}, RowDone(w), UNCHANGED <<created, unheard>>,
             \A e \in Event : HasRow(e)' => HasRow(e),
             \A e \in Event \ {Now(w)} : outbox'[e] = outbox[e]
      PROVE  LeaseIsLock'
  <2>1. \A v \in Worker : /\ Held(v)' \subseteq Held(v) /\ current'[v] \notin claimed'[v]
                           /\ \A c \in Held(v)' : c.event # Now(w)
    BY <1>3, <1>4, DoneWith
  <2>2. \A v \in Worker : \A c \in Held(v)' : Stands(v, c)'
    <3> SUFFICES ASSUME NEW v \in Worker, NEW c \in Held(v)' PROVE Stands(v, c)'
      OBVIOUS
    <3>1. c \in Held(v) /\ c.event \in Event /\ c.event # Now(w) /\ Stands(v, c)
      BY <1>2, <2>1
    <3>2. /\ Open(c.event) => Open(c.event)'
          /\ Aside(c.event) => Aside(c.event)'
      BY <1>4, <3>1 DEF Open, Aside, HasRow
    <3>3. v # w => pc'[v] = pc[v] /\ current'[v] = current[v]
      BY <1>1, <1>4 DEF RowDone, TypeInv, TypeOK
    <3>4. c # current[w] \/ v # w
      BY <3>1 DEF Now
    <3>5. QED
      BY <3>1, <3>2, <3>3, <3>4 DEF Stands
  <2>3. \A e \in Event : HasRow(e)' => e \in created'
    BY <1>4 DEF LeaseIsLock
  <2>4. QED
    BY <2>1, <2>2, <2>3, LockKept
<1>5. CASE ClaimBatch(w)
  BY <1>5, LockClaims
<1>6. CASE StartRow(w)
  <2>1. PICK c \in claimed[w] : claimed' = [claimed EXCEPT ![w] = @ \ {c}] /\ current' = [current EXCEPT ![w] = c]
    BY <1>6 DEF StartRow
  <2>2. \A v \in Worker : Held(v)' \subseteq Held(v) /\ current'[v] \notin claimed'[v]
    BY <1>1, <2>1 DEF Held, LeaseIsLock
  <2>3. /\ UNCHANGED <<outbox, created, unheard>> /\ pc[w] = "batch"
        /\ \A v \in Worker \ {w} : pc'[v] = pc[v] /\ current'[v] = current[v]
    BY <1>6 DEF StartRow, tables, history, TypeInv, TypeOK
  <2>4. \A v \in Worker : \A d \in Held(v)' : Stands(v, d)'
    BY <1>2, <2>2, <2>3 DEF Stands, Open, Aside, HasRow
  <2>5. \A e \in Event : HasRow(e)' => e \in created'
    BY <2>3 DEF LeaseIsLock, HasRow
  <2>6. QED
    BY <2>2, <2>4, <2>5, LockKept
<1>7. CASE MarkPublished(w)
  BY <1>1, <1>3, <1>4, <1>7 DEF MarkPublished, UpdateRow, HasRow, history
<1>8. CASE RetryLater(w)
  BY <1>1, <1>3, <1>4, <1>8 DEF RetryLater, UpdateRow, HasRow
<1>9. CASE DeadLetter(w)
  <2>1. /\ UNCHANGED <<outbox, created, unheard, claimed, current>>
        /\ pc' = [pc EXCEPT ![w] = "bury"]
    BY <1>9 DEF DeadLetter
  <2>2. \A v \in Worker : pc[v] \in {"fail", "bury"} => pc'[v] \in {"fail", "bury"}
    BY <2>1 DEF TypeInv, TypeOK
  <2>3. QED
    BY <2>1, <2>2 DEF LeaseIsLock, Held, Stands, Open, Aside, HasRow
<1>10. CASE Bury(w)
  BY <1>1, <1>3, <1>4, <1>10 DEF Bury, HasRow, history
<1>11. QED
  BY <1>5, <1>6, <1>7, <1>8, <1>9, <1>10 DEF Dispatch

\* The lease is a lock, whatever the step, while no batch outlives it and nobody replays.
LEMMA LeaseIsLockStep ==
  ASSUME TypeInv, LeaseIsLock, [Next]_vars, Replayer = {}, LeaseCoversBatch
  PROVE  LeaseIsLock'
<1> USE NullAssumption
<1>1. /\ claimed \in [Worker -> SUBSET Claim]
      /\ current \in [Worker -> Claim \cup {NoClaim}]
      /\ outbox \in [Event -> Row \cup {NoRow}]
  BY DEF TypeInv, TypeOK
<1>2. \A v \in Worker : \A c \in Held(v) : c.event \in Event /\ Stands(v, c)
  BY <1>1 DEF LeaseIsLock, Held, Claim
<1>3. ASSUME UNCHANGED <<outbox, created, unheard>>,
             \A v \in Worker : Held(v)' \subseteq Held(v) /\ current'[v] \notin claimed'[v],
             \A v \in Worker : \A c \in Held(v)' :
               c = current[v] /\ pc[v] \in {"fail", "bury"} => c = current'[v] /\ pc'[v] \in {"fail", "bury"}
      PROVE  LeaseIsLock'
  <2>1. \A v \in Worker : \A c \in Held(v)' : Stands(v, c)'
    BY <1>2, <1>3 DEF Stands, Open, Aside, HasRow
  <2>2. QED
    BY <1>3, <2>1, LockKept DEF LeaseIsLock, HasRow
<1>4. ASSUME UNCHANGED <<outbox, created, unheard, claimed, current>>,
             \A v \in Worker : pc[v] \in {"fail", "bury"} => pc'[v] \in {"fail", "bury"}
      PROVE  LeaseIsLock'
  BY <1>3, <1>4 DEF LeaseIsLock, Held
<1>5. ASSUME UNCHANGED <<claimed, current, pc>>, \A e \in Event : Open(e) => Open(e)',
             \A e \in Event : Aside(e) => Aside(e)', \A e \in Event : HasRow(e)' => e \in created'
      PROVE  LeaseIsLock'
  BY <1>2, <1>5 DEF LeaseIsLock, Held, Stands
<1>6. ASSUME NEW e \in Event, Publish(e) PROVE LeaseIsLock'
  BY <1>1, <1>5, <1>6 DEF Publish, worker, Open, Aside, HasRow, LeaseIsLock
<1>7. ASSUME NEW e \in Event, Elapse(e) PROVE LeaseIsLock'
  <2>1. \A f \in Event \ {e} : outbox'[f] = outbox[f]
    BY <1>1, <1>7 DEF Elapse
  <2>2. \A v \in Worker : \A c \in Held(v) : c.event # e
    BY <1>7 DEF Elapse, Holds, Held
  <2>3. UNCHANGED <<claimed, current, pc, created, unheard>>
    BY <1>7 DEF Elapse, worker, history
  <2>4. \A v \in Worker : \A c \in Held(v)' : Stands(v, c)'
    BY <1>2, <2>1, <2>2, <2>3 DEF Stands, Open, Aside, HasRow, Held
  <2>5. \A f \in Event : HasRow(f)' => f \in created'
    BY <1>7, <2>1, <2>3 DEF LeaseIsLock, HasRow, Elapse
  <2>6. QED
    BY <2>3, <2>4, <2>5, LockKept DEF LeaseIsLock, Held
<1>8. ASSUME NEW w \in Worker, Dispatch(w) PROVE LeaseIsLock'
  BY <1>8, LockDispatch
<1>9. ASSUME NEW w \in Worker, NEW c \in Consumer,
             HandlerCommits(w, c) \/ HandlerThrows(w, c) \/ HandlerInDoubt(w, c)
      PROVE  LeaseIsLock'
  <2>1. /\ UNCHANGED <<outbox, created, unheard, claimed, current>>
        /\ pc[w] = "emit" /\ \E step \in {"emit", "mark", "fail"} : pc' = [pc EXCEPT ![w] = step]
    BY <1>9 DEF HandlerCommits, HandlerThrows, HandlerInDoubt, HandlerRejected, HandlerResolved, tables, history
  <2>2. \A v \in Worker : pc[v] \in {"fail", "bury"} => pc'[v] \in {"fail", "bury"}
    BY <2>1 DEF TypeInv, TypeOK
  <2>3. QED
    BY <1>4, <2>1, <2>2
<1>10. ASSUME NEW w \in Worker, RowDone(w), UNCHANGED <<outbox, created, unheard>> PROVE LeaseIsLock'
  <2>1. /\ \A v \in Worker : Held(v)' \subseteq Held(v) /\ current'[v] \notin claimed'[v]
        /\ \A v \in Worker \ {w} : pc'[v] = pc[v] /\ current'[v] = current[v]
        /\ \A c \in Held(w)' : c # current[w]
    BY <1>1, <1>10 DEF RowDone, Held, LeaseIsLock, TypeInv, TypeOK
  <2>2. QED
    BY <1>3, <1>10, <2>1
<1>11. ASSUME NEW w \in Worker, Forget(w), UNCHANGED <<outbox, created, unheard>> PROVE LeaseIsLock'
  <2>1. /\ \A v \in Worker : Held(v)' \subseteq Held(v) /\ current'[v] \notin claimed'[v]
        /\ \A v \in Worker \ {w} : pc'[v] = pc[v] /\ current'[v] = current[v]
        /\ Held(w)' = {}
    BY <1>1, <1>11 DEF Forget, Held, LeaseIsLock, TypeInv, TypeOK
  <2>2. QED
    BY <1>3, <1>11, <2>1
<1>12. ASSUME NEW w \in Worker, FailureNotRecorded(w) \/ Crash(w) \/ Shutdown(w) \/ Restart(w)
       PROVE LeaseIsLock'
  BY <1>4, <1>10, <1>11, <1>12 DEF FailureNotRecorded, Crash, Shutdown, Restart, tables, history
<1>13. CASE PurgePublished
  BY <1>1, <1>5, <1>13 DEF PurgePublished, Published, worker, Open, Aside, HasRow, LeaseIsLock
<1>14. ASSUME NEW w \in Worker, MarkFails(w) PROVE LeaseIsLock'
  <2>1. /\ pc[w] = "mark" /\ pc' = [pc EXCEPT ![w] = "fail"] /\ UNCHANGED <<claimed, current, created>>
        /\ current[w] \in Claim /\ current[w] # NoClaim
    BY <1>14 DEF MarkFails, TypeInv, WorkerOK
  <2>2. pc'[w] = "fail" /\ \A v \in Worker \ {w} : pc'[v] = pc[v]
    BY <2>1 DEF TypeInv, TypeOK
  <2>3. CASE UNCHANGED <<outbox, unheard>>
    BY <1>4, <2>1, <2>2, <2>3
  <2>4. CASE /\ HasRow(Now(w)) /\ unheard' = unheard \cup {Now(w)}
             /\ outbox' = [outbox EXCEPT ![Now(w)] = AsPublished(@, Now(w))]
    <3>1. current[w] \in Held(w) /\ Now(w) \in Event
      BY <2>1 DEF Held, Now, Claim
    <3>2. /\ outbox[Now(w)] \in Row /\ outbox'[Now(w)] \in Row /\ outbox'[Now(w)].published
          /\ \A e \in Event \ {Now(w)} : outbox'[e] = outbox[e]
      BY <1>1, <2>4, <3>1, RowOps, DueColumn DEF HasRow
    <3>3. \A e \in Event : HasRow(e)' => e \in created'
      BY <2>1, <2>4, <3>2 DEF LeaseIsLock, HasRow
    <3>4. Now(w)' = Now(w) /\ Aside(Now(w))'
      <4>1. Now(w)' = Now(w) /\ Now(w) \in created' /\ Now(w) \in unheard'
        BY <2>1, <2>4, <3>1 DEF Now, LeaseIsLock
      <4>2. QED
        BY <3>2, <4>1 DEF Aside
    <3>5. \A v \in Worker : \A c \in Held(v) : (v = w /\ c = current[w]) \/ (c.event \in Event \ {Now(w)} /\ Stands(v, c))
      BY <1>2, <3>1 DEF LeaseIsLock, Now
    <3>6. \A e \in Event \ {Now(w)} : (Open(e) => Open(e)') /\ (Aside(e) => Aside(e)')
      BY <2>1, <2>4, <3>2 DEF Open, Aside, HasRow
    <3>7. \A v \in Worker : \A c \in Held(v) : Stands(v, c)'
      BY <2>1, <2>2, <3>4, <3>5, <3>6 DEF Stands, Now
    <3>8. QED
      BY <2>1, <3>3, <3>7, LockKept DEF Held, LeaseIsLock
  <2>5. QED
    BY <1>14, <2>3, <2>4 DEF MarkFails
<1>15. CASE UNCHANGED <<outbox, created, unheard, claimed, current, pc>>
  BY <1>4, <1>15
<1>16. QED
  BY <1>6, <1>7, <1>8, <1>9, <1>12, <1>13, <1>14, <1>15 DEF Next, vars, worker, tables, history, HandlerEnds,
     ReplaySince, StrayEnds, StrayCommits, StrayThrows, PurgeDead

\* Handlers run for accepted events that listen to them, and a purged event does
\* not come back.
HandlersListen ==
  /\ \A s \in strays : s[2] \in created /\ s[3] \in Listeners[s[2]]
  /\ \A w \in Worker : pc[w] = "emit" => pending[w] \subseteq Listeners[Now(w)]
PurgedIsGone ==
  /\ \A e \in purged : ~HasRow(e)
  /\ dead \subseteq created /\ purged \subseteq created

\* The row a dispatcher works on is an open one, of an accepted event, or one it
\* marked unheard.
LEMMA InHand ==
  ASSUME TypeInv, LeaseIsLock, NEW w \in Worker, pc[w] \in {"emit", "mark", "fail", "bury"}
  PROVE  /\ current[w] # NoClaim /\ Now(w) \in Event /\ Now(w) \in created
         /\ Open(Now(w)) \/ (pc[w] \in {"fail", "bury"} /\ Aside(Now(w)))
<1>1. current[w] \in Claim /\ current[w] # NoClaim
  BY NullAssumption DEF TypeInv, WorkerOK
<1>2. current[w] \in Held(w) /\ Now(w) \in Event
  BY <1>1 DEF Held, Now, Claim
<1>3. QED
  BY <1>1, <1>2 DEF LeaseIsLock, Stands, Now, Open, Aside

\* Who runs on after a failure listens to the event.
LEMMA HandlersListenStep ==
  ASSUME TypeInv, LeaseIsLock, HandlersListen, [Next]_vars
  PROVE  HandlersListen'
<1>1. created \subseteq created'
  BY DEF Next, vars, history, HandlerEnds, Publish, Elapse, Dispatch,
     ClaimBatch, StartRow, MarkPublished, RetryLater, DeadLetter, Bury, HandlerCommits, HandlerThrows, HandlerInDoubt, HandlerRejected,
     MarkFails, FailureNotRecorded, Crash, Shutdown, Restart, ReplaySince,
     StrayEnds, StrayCommits, StrayThrows, PurgePublished, PurgeDead, Replay, ReplayReset,
     ReplaySelect, ReplayInsert, ReplayDelete, ReplayCrash
<1>2. CASE strays' \subseteq strays /\ UNCHANGED <<pc, current, pending>>
  BY <1>1, <1>2 DEF HandlersListen, Now
<1>3. ASSUME NEW w \in Worker, strays' \subseteq strays, pc'[w] # "emit",
             \A v \in Worker \ {w} : /\ pc'[v] = pc[v] /\ current'[v] = current[v]
                                      /\ pending'[v] = pending[v]
      PROVE  HandlersListen'
  BY <1>1, <1>3 DEF HandlersListen, Now
<1>4. ASSUME NEW w \in Worker, RowDone(w) PROVE HandlersListen'
  BY <1>3, <1>4 DEF RowDone, TypeInv, TypeOK
<1>5. ASSUME NEW w \in Worker, Forget(w) PROVE HandlersListen'
  BY <1>3, <1>5 DEF Forget, TypeInv, TypeOK
<1>6. ASSUME NEW w \in Worker, StartRow(w) PROVE HandlersListen'
  <2>1. PICK c \in claimed[w] :
          /\ current' = [current EXCEPT ![w] = c]
          /\ pending' = [pending EXCEPT ![w] = Listeners[c.event]]
          /\ pc' = [pc EXCEPT ![w] = IF Listeners[c.event] = {} THEN "fail" ELSE "emit"]
    BY <1>6 DEF StartRow
  <2>2. UNCHANGED strays
    BY <1>6 DEF StartRow
  <2>3. QED
    BY <1>1, <2>1, <2>2 DEF HandlersListen, Now, TypeInv, TypeOK
<1>7. ASSUME NEW w \in Worker, Dispatch(w) PROVE HandlersListen'
  BY <1>3, <1>4, <1>6, <1>7 DEF Dispatch, ClaimBatch, MarkPublished, RetryLater, DeadLetter, Bury, TypeInv, TypeOK
<1>8. ASSUME NEW w \in Worker, NEW c \in Consumer, pc[w] = "emit", HandlerResolved(w, c) PROVE HandlersListen'
  BY <1>1, <1>8 DEF HandlerResolved, HandlersListen, Now, TypeInv, TypeOK
<1>9. ASSUME NEW w \in Worker, NEW c \in Consumer, pc[w] = "emit", HandlerRejected(w, c) PROVE HandlersListen'
  <2>1. /\ pc[w] = "emit" /\ pc' = [pc EXCEPT ![w] = "fail"]
        /\ pending' = [pending EXCEPT ![w] = {}]
        /\ strays' = strays \cup {<<w, Now(w), d, current[w].redacted>> : d \in pending[w] \ {c}}
        /\ UNCHANGED current
    BY <1>9 DEF HandlerRejected
  <2>2. Now(w) \in created /\ pending[w] \subseteq Listeners[Now(w)]
    BY <2>1, InHand DEF HandlersListen
  <2>3. \A s \in strays' : s[2] \in created' /\ s[3] \in Listeners[s[2]]
    BY <1>1, <2>1, <2>2 DEF HandlersListen
  <2>4. QED
    BY <2>1, <2>3 DEF HandlersListen, Now, TypeInv, TypeOK
<1>10. ASSUME NEW w \in Worker, NEW c \in Consumer, HandlerCommits(w, c) \/ HandlerThrows(w, c) \/ HandlerInDoubt(w, c) PROVE HandlersListen'
  BY <1>8, <1>9, <1>10 DEF HandlerCommits, HandlerThrows, HandlerInDoubt
<1>11. ASSUME NEW w \in Worker, MarkFails(w) \/ FailureNotRecorded(w) \/ Crash(w) \/ Shutdown(w) \/ Restart(w)
       PROVE HandlersListen'
  BY <1>2, <1>3, <1>4, <1>5, <1>11 DEF MarkFails, FailureNotRecorded, Crash, Shutdown, Restart, TypeInv, TypeOK
<1>12. QED
  BY <1>2, <1>7, <1>10, <1>11 DEF Next, vars, worker, HandlerEnds, Publish, Elapse, ReplaySince,
     StrayEnds, StrayCommits, StrayThrows, PurgePublished, PurgeDead, Replay, ReplayReset,
     ReplaySelect, ReplayInsert, ReplayDelete, ReplayCrash

\* Only a producer, or an operator, puts a row where there was none.
LEMMA RowsReturn ==
  ASSUME TypeInv, LeaseIsLock, [Next]_vars, Replayer = {}, NEW e \in Event, HasRow(e)', ~HasRow(e)
  PROVE  Publish(e)
<1>1. outbox \in [Event -> Row \cup {NoRow}]
  BY DEF TypeInv, TypeOK
<1>2. UNCHANGED outbox => FALSE
  BY DEF HasRow
<1>3. ASSUME NEW f \in Event, Publish(f) \/ Elapse(f) PROVE Publish(e)
  BY <1>1, <1>3 DEF Publish, Elapse, HasRow
<1>4. ASSUME NEW w \in Worker, Dispatch(w) PROVE FALSE
  BY <1>1, <1>2, <1>4 DEF Dispatch, ClaimBatch, StartRow, MarkPublished, RetryLater, DeadLetter, Bury,
     IsBatch, Due, UpdateRow, tables, HasRow
<1>5. PurgePublished => FALSE
  BY DEF PurgePublished, HasRow
<1>6. ASSUME NEW w \in Worker, MarkFails(w) PROVE FALSE
  BY <1>1, <1>6 DEF MarkFails, HasRow
<1>7. QED
  BY <1>2, <1>3, <1>4, <1>5, <1>6 DEF Next, vars, tables, HandlerEnds, HandlerCommits, HandlerThrows,
     HandlerInDoubt, FailureNotRecorded, Crash, Shutdown, Restart, ReplaySince, StrayEnds, StrayCommits,
     StrayThrows, PurgeDead

\* What the retention removed has no row.
LEMMA PurgedIsGoneStep ==
  ASSUME TypeInv, LeaseIsLock, PurgedIsGone, [Next]_vars, Replayer = {}
  PROVE  PurgedIsGone'
<1>1. ASSUME NEW e \in purged' PROVE ~HasRow(e)' /\ e \in created'
  <2>1. CASE e \in purged
    <3>1. e \in Event /\ e \in created /\ ~HasRow(e)
      BY <2>1 DEF PurgedIsGone, TypeInv, TypeOK
    <3>2. ~Publish(e)
      BY <3>1 DEF Publish
    <3>3. ~HasRow(e)'
      BY <3>1, <3>2, RowsReturn
    <3>4. QED
      BY <3>1, <3>3 DEF Next, vars, history, HandlerEnds, Publish, Elapse, Dispatch,
         ClaimBatch, StartRow, MarkPublished, RetryLater, DeadLetter, Bury, HandlerCommits, HandlerThrows, HandlerInDoubt, HandlerRejected,
         MarkFails, FailureNotRecorded, Crash, Shutdown, Restart, ReplaySince,
         StrayEnds, StrayCommits, StrayThrows, PurgePublished, PurgeDead
  <2>2. CASE e \notin purged
    <3>1. PurgePublished \/ PurgeDead
      BY <1>1, <2>2 DEF Next, vars, history, HandlerEnds, Publish, Elapse, Dispatch,
         ClaimBatch, StartRow, MarkPublished, RetryLater, DeadLetter, Bury, HandlerCommits, HandlerThrows, HandlerInDoubt, HandlerRejected,
         MarkFails, FailureNotRecorded, Crash, Shutdown, Restart, ReplaySince,
         StrayEnds, StrayCommits, StrayThrows
    <3>2. CASE PurgePublished
      BY <1>1, <2>2, <3>2 DEF PurgePublished, Published, HasRow, LeaseIsLock
    <3>3. CASE PurgeDead
      BY <1>1, <2>2, <3>3 DEF PurgeDead, PurgedIsGone, HasRow
    <3>4. QED
      BY <3>1, <3>2, <3>3
  <2>3. QED
    BY <2>1, <2>2
<1>2. dead' \subseteq created'
  <2>1. ASSUME NEW w \in Worker, DeadLetter(w) PROVE dead' \subseteq created'
    BY <2>1, InHand DEF DeadLetter, PurgedIsGone
  <2>2. QED
    BY <2>1 DEF PurgedIsGone, Next, vars, tables, history, HandlerEnds, Publish, Elapse, Dispatch,
       ClaimBatch, StartRow, MarkPublished, RetryLater, Bury, HandlerCommits, HandlerThrows, HandlerInDoubt, HandlerRejected,
       MarkFails, FailureNotRecorded, Crash, Shutdown, Restart, ReplaySince,
       StrayEnds, StrayCommits, StrayThrows, PurgePublished, PurgeDead
<1>3. QED
  BY <1>1, <1>2 DEF PurgedIsGone

\* Where an accepted event stands, read from its row and from the purges.
LEMMA StatusIs ==
  ASSUME NEW e \in created
  PROVE  /\ HasRow(e) /\ outbox[e].published => Status(e) = "published"
         /\ HasRow(e) /\ ~outbox[e].published => Status(e) = "pending"
         /\ ~HasRow(e) /\ e \in purged => Status(e) = "gone"
         /\ ~HasRow(e) /\ e \notin purged => Status(e) = "dead"
BY DEF Status, Published

\* The status of an event after a step.
LEMMA StatusIsNext ==
  ASSUME NEW e, e \in created'
  PROVE  /\ HasRow(e)' /\ outbox'[e].published => Status(e)' = "published"
         /\ HasRow(e)' /\ ~outbox'[e].published => Status(e)' = "pending"
         /\ ~HasRow(e)' /\ e \in purged' => Status(e)' = "gone"
         /\ ~HasRow(e)' /\ e \notin purged' => Status(e)' = "dead"
BY DEF Status, Published

\* The refinement mapping, and what is left alone leaves the promise alone.
status == [e \in created |-> Status(e)]

Unmoved(e) ==
  /\ HasRow(e)' <=> HasRow(e)
  /\ HasRow(e) => (outbox'[e].published <=> outbox[e].published)
  /\ e \in purged' <=> e \in purged

\* It is the same where its row and its dead letter are.
LEMMA StatusKept ==
  ASSUME NEW e \in created, e \in created', Unmoved(e)
  PROVE  Status(e)' = Status(e)
BY StatusIs, StatusIsNext DEF Unmoved

PromiseStep == [Promise!Next]_<<status, processed, unheard>>

\* A step that moves no event and commits no effect is none of the promise.
LEMMA Stutters ==
  ASSUME UNCHANGED <<created, processed, unheard>>, \A e \in created : Unmoved(e)
  PROVE  PromiseStep
<1>1. \A e \in created : Status(e)' = Status(e)
  BY StatusKept
<1>2. status' = status
  BY <1>1 DEF status
<1>3. QED
  BY <1>2 DEF PromiseStep

\* One row moves between two stands.
LEMMA Becomes ==
  ASSUME NEW e \in created, UNCHANGED <<created, processed>>,
         \A f \in created \ {e} : Unmoved(f)
  PROVE  Promise!Become(e, Status(e), Status(e)')
<1>1. \A f \in created \ {e} : Status(f)' = Status(f)
  BY StatusKept
<1>2. status' = [status EXCEPT ![e] = Status(e)'] /\ status[e] = Status(e) /\ DOMAIN status = created
  BY <1>1 DEF status
<1>3. QED
  BY <1>2 DEF Promise!Become, status

\* A consumer's transaction is one handling of an accepted event, or none.
LEMMA ConsumeHandles ==
  ASSUME NEW e \in Event, NEW c \in Consumer, NEW redacted, e \in created, c \in Listeners[e],
         Consume(e, c, redacted), UNCHANGED <<outbox, created, purged, unheard>>
  PROVE  PromiseStep
<1>1. \A f \in created : Unmoved(f)
  BY DEF Unmoved, HasRow
<1>2. CASE UNCHANGED processed
  BY <1>1, <1>2, Stutters
<1>3. CASE processed' = processed \cup {<<e, c>>}
  <2>1. \A f \in created : Status(f)' = Status(f)
    BY <1>1, StatusKept
  <2>2. status' = status /\ e \in DOMAIN status
    BY <2>1 DEF status
  <2>3. Promise!Handle(e, c)
    BY <1>3, <2>2 DEF Promise!Handle, status
  <2>4. QED
    BY <2>3 DEF PromiseStep, Promise!Next
<1>4. QED
  BY <1>2, <1>3 DEF Consume

\* Accepting an event is its producer's commit.
LEMMA PublishAccepts ==
  ASSUME TypeInv, PurgedIsGone, NEW e \in Event, Publish(e)
  PROVE  PromiseStep
<1> USE NullAssumption
<1>1. /\ outbox' = [outbox EXCEPT ![e] = FreshRow(FALSE)]
      /\ created' = created \cup {e} /\ e \notin created
      /\ UNCHANGED <<processed, purged, unheard>>
  BY DEF Publish
<1>2. outbox'[e] = FreshRow(FALSE) /\ FreshRow(FALSE) \in Row /\ ~FreshRow(FALSE).published
  BY <1>1, RowOps, PublishedColumn DEF TypeInv, TypeOK
<1>3. Status(e)' = "pending"
  BY <1>1, <1>2, StatusIsNext DEF HasRow
<1>4. \A f \in created : Unmoved(f)
  BY <1>1 DEF Unmoved, HasRow, TypeInv, TypeOK
<1>5. \A f \in created : Status(f)' = Status(f)
  BY <1>1, <1>4, StatusKept
<1>6. status' = [f \in DOMAIN status \cup {e} |-> IF f = e THEN "pending" ELSE status[f]]
  BY <1>1, <1>3, <1>5 DEF status
<1>7. Promise!Accept(e)
  BY <1>1, <1>6 DEF Promise!Accept, status
<1>8. QED
  BY <1>7 DEF PromiseStep, Promise!Next

\* A mark publishes what was handled, heard or not.
LEMMA MarkPublishes ==
  ASSUME TypeInv, LeaseIsLock, HandledSoFar, NEW w \in Worker, pc[w] = "mark",
         outbox' = [outbox EXCEPT ![Now(w)] = AsPublished(outbox[Now(w)], Now(w))],
         UNCHANGED <<created, processed, purged>>, unheard' \in {unheard, unheard \cup {Now(w)}}
  PROVE  PromiseStep
<1> USE NullAssumption
<1>0. PICK e : e = Now(w)
  OBVIOUS
<1>1. outbox \in [Event -> Row \cup {NoRow}] /\ created \subseteq Event
  BY DEF TypeInv, TypeOK
<1>2. e \in Event /\ e \in created /\ Open(e) /\ outbox[e] \in Row
  BY <1>0, <1>1, InHand DEF Open, HasRow
<1>3. HasRow(e)' /\ outbox'[e].published /\ \A f \in Event \ {e} : outbox'[f] = outbox[f]
  BY <1>0, <1>1, <1>2, RowOps, DueColumn DEF HasRow
<1>4. Status(e) = "pending" /\ Status(e)' = "published"
  BY <1>2, <1>3, StatusIs, StatusIsNext DEF Open
<1>5. \A f \in created \ {e} : Unmoved(f)
  BY <1>1, <1>3 DEF Unmoved, HasRow
<1>6. Promise!Become(e, "pending", "published")
  BY <1>2, <1>4, <1>5, Becomes
<1>7. Listeners[e] # {} /\ Promise!Handled(e)
  BY <1>0 DEF HandledSoFar, Promise!Handled
<1>8. Promise!Publish(e)
  BY <1>0, <1>6, <1>7 DEF Promise!Publish
<1>9. QED
  BY <1>2, <1>8 DEF PromiseStep, Promise!Next

\* The dispatcher's steps: its mark publishes what was handled, its burial is of a
\* row nobody else moved or of one marked unheard, the rest is not seen.
LEMMA DispatchPromises ==
  ASSUME TypeInv, LeaseIsLock, PurgedIsGone, HandledSoFar, NEW w \in Worker, Dispatch(w)
  PROVE  PromiseStep
<1> USE NullAssumption
<1>0. PICK e : e = Now(w)
  OBVIOUS
<1>1. outbox \in [Event -> Row \cup {NoRow}] /\ created \subseteq Event
  BY DEF TypeInv, TypeOK
<1>2. \A f \in Event : HasRow(f) => outbox[f] \in Row
  BY <1>1 DEF HasRow
<1>3. pc[w] \in {"emit", "mark", "fail", "bury"} =>
        e \in Event /\ e \in created /\ (Open(e) \/ (pc[w] \in {"fail", "bury"} /\ Aside(e)))
  BY <1>0, InHand
<1>5. CASE ClaimBatch(w)
  <2>1. PICK S \in SUBSET Event :
          /\ IsBatch(S)
          /\ outbox' = [f \in Event |-> IF f \in S THEN Leased(outbox[f]) ELSE outbox[f]]
    BY <1>5 DEF ClaimBatch
  <2>2. UNCHANGED <<created, processed, purged, unheard>>
    BY <1>5 DEF ClaimBatch, history
  <2>3. \A f \in S : HasRow(f)
    BY <2>1 DEF IsBatch, Due
  <2>4. \A f \in created : Unmoved(f)
    BY <1>1, <1>2, <2>1, <2>2, <2>3, RowOps, DueColumn DEF Unmoved, HasRow
  <2>5. QED
    BY <2>2, <2>4, Stutters
<1>6. CASE StartRow(w) \/ DeadLetter(w)
  BY <1>6, Stutters DEF StartRow, DeadLetter, tables, history, Unmoved, HasRow
<1>7. CASE MarkPublished(w)
  <2>1. UNCHANGED <<created, processed, purged, unheard>> /\ pc[w] = "mark"
    BY <1>7 DEF MarkPublished, history
  <2>2. outbox' = [outbox EXCEPT ![e] = AsPublished(outbox[e], e)]
    BY <1>0, <1>3, <1>7, <2>1 DEF MarkPublished, UpdateRow, Open
  <2>3. QED
    BY <1>0, <2>1, <2>2, MarkPublishes
<1>8. CASE RetryLater(w)
  <2>1. UNCHANGED <<created, processed, purged, unheard>> /\ pc[w] = "fail"
    BY <1>8 DEF RetryLater
  <2>2. outbox' = IF HasRow(e) THEN [outbox EXCEPT ![e] = AsFailed(outbox[e], current[w].attempts + 1)] ELSE outbox
    BY <1>0, <1>8 DEF RetryLater, UpdateRow
  <2>3. current[w].attempts + 1 \in Nat
    BY <2>1 DEF TypeInv, WorkerOK, Claim
  <2>4. HasRow(e) => HasRow(e)' /\ outbox'[e].published = outbox[e].published
    BY <1>1, <1>2, <1>3, <2>1, <2>2, <2>3, RowOps, PublishedColumn DEF HasRow
  <2>5. \A f \in created : Unmoved(f)
    BY <1>1, <2>1, <2>2, <2>4 DEF Unmoved, HasRow
  <2>6. QED
    BY <2>1, <2>5, Stutters
<1>9. CASE Bury(w)
  <2>1. /\ UNCHANGED <<created, processed, purged, unheard>> /\ pc[w] = "bury"
        /\ outbox' = [outbox EXCEPT ![e] = NoRow]
    BY <1>0, <1>9 DEF Bury, history
  <2>2. e \in created /\ ~HasRow(e)' /\ \A f \in created \ {e} : Unmoved(f)
    BY <1>1, <1>3, <2>1 DEF Unmoved, HasRow
  <2>3. CASE ~HasRow(e)
    <3>1. \A f \in created : Unmoved(f)
      BY <2>1, <2>2, <2>3 DEF Unmoved
    <3>2. QED
      BY <2>1, <3>1, Stutters
  <2>4. CASE HasRow(e)
    <3>1. e \notin purged'
      BY <2>1, <2>4 DEF PurgedIsGone
    <3>2. Status(e)' = "dead"
      BY <2>1, <2>2, <3>1, StatusIsNext
    <3>3. Promise!Become(e, Status(e), "dead")
      BY <2>1, <2>2, <3>2, Becomes
    <3>4. Status(e) = "pending" \/ (e \in unheard /\ Status(e) = "published")
      BY <1>3, <2>1, <2>2, <2>4, StatusIs DEF Open, Aside
    <3>5. Promise!Bury(e)
      BY <2>1, <3>3, <3>4 DEF Promise!Bury
    <3>6. QED
      BY <1>3, <2>1, <3>5 DEF PromiseStep, Promise!Next
  <2>5. QED
    BY <2>3, <2>4
<1>10. QED
  BY <1>5, <1>6, <1>7, <1>8, <1>9 DEF Dispatch

\* A purge removes settled events only.
LEMMA PurgeForgets ==
  ASSUME TypeInv, LeaseIsLock, PurgedIsGone, PurgePublished \/ PurgeDead
  PROVE  PromiseStep
<1> USE NullAssumption
<1>1. outbox \in [Event -> Row \cup {NoRow}] /\ created \subseteq Event
  BY DEF TypeInv, TypeOK
<1>2. UNCHANGED <<created, processed, unheard>>
  BY DEF PurgePublished, PurgeDead
<1>3. PICK S \in SUBSET created :
        /\ \A e \in S : Status(e) \in {"published", "dead"} /\ Status(e)' = "gone"
        /\ \A e \in created \ S : Unmoved(e)
  <2>1. CASE PurgePublished
    <3>1. PICK S \in SUBSET {e \in Event : Published(e)} :
            /\ outbox' = [e \in Event |-> IF e \in S THEN NoRow ELSE outbox[e]]
            /\ purged' = purged \cup S
      BY <2>1 DEF PurgePublished
    <3>2. S \subseteq created
      BY <3>1 DEF LeaseIsLock, Published
    <3>3. \A e \in S : Status(e) = "published"
      BY <3>1, <3>2, StatusIs DEF Published
    <3>4. \A e \in S : Status(e)' = "gone"
      BY <1>1, <1>2, <3>1, <3>2, StatusIsNext DEF HasRow
    <3>5. \A e \in created \ S : Unmoved(e)
      BY <1>1, <3>1 DEF Unmoved, HasRow
    <3>6. QED
      BY <3>2, <3>3, <3>4, <3>5
  <2>2. CASE PurgeDead
    <3>1. PICK D \in SUBSET dead : purged' = purged \cup {e \in D : ~HasRow(e)}
      BY <2>2 DEF PurgeDead
    <3>2. UNCHANGED outbox /\ D \subseteq created
      BY <2>2, <3>1 DEF PurgeDead, PurgedIsGone
    <3> DEFINE S == {e \in D : ~HasRow(e) /\ e \notin purged}
    <3>3. S \subseteq created /\ \A e \in S : Status(e) = "dead"
      BY <3>2, StatusIs
    <3>4. \A e \in S : Status(e)' = "gone"
      BY <1>2, <3>1, <3>2, <3>3, StatusIsNext DEF HasRow
    <3>5. \A e \in created \ S : Unmoved(e)
      BY <1>1, <3>1, <3>2 DEF Unmoved, HasRow
    <3>6. QED
      BY <3>3, <3>4, <3>5
  <2>3. QED
    BY <2>1, <2>2
<1>4. \A e \in created \ S : Status(e)' = Status(e)
  BY <1>2, <1>3, StatusKept
<1>5. /\ S \in SUBSET {e \in DOMAIN status : status[e] \in {"published", "dead"}}
      /\ status' = [e \in DOMAIN status |-> IF e \in S THEN "gone" ELSE status[e]]
  BY <1>2, <1>3, <1>4 DEF status
<1>6. QED
  BY <1>2, <1>5 DEF PromiseStep, Promise!Next, Promise!Purge, status

\* Every step is one of the promise, or none.
LEMMA NextPromises ==
  ASSUME TypeInv, LeaseIsLock, HandlersListen, PurgedIsGone, HandledSoFar, [Next]_vars, Replayer = {}
  PROVE  PromiseStep
<1>1. ASSUME UNCHANGED <<outbox, created, purged, processed, unheard>> PROVE PromiseStep
  BY <1>1, Stutters DEF Unmoved, HasRow
<1>2. ASSUME NEW e \in Event, Elapse(e) PROVE PromiseStep
  <2>1. outbox \in [Event -> Row \cup {NoRow}] /\ outbox[e] \in Row /\ NoRow \notin Row
    BY <1>2, NullAssumption DEF Elapse, HasRow, TypeInv, TypeOK
  <2>2. \A f \in created : Unmoved(f)
    BY <1>2, <2>1, RowOps, PublishedColumn DEF Elapse, Unmoved, HasRow, history, TypeInv, TypeOK
  <2>3. QED
    BY <1>2, <2>2, Stutters DEF Elapse, history
<1>3. ASSUME NEW w \in Worker, NEW c \in Consumer, HandlerCommits(w, c) \/ HandlerInDoubt(w, c) PROVE PromiseStep
  <2>1. Now(w) \in Event /\ Now(w) \in created /\ c \in Listeners[Now(w)]
    BY <1>3, InHand DEF HandlerCommits, HandlerInDoubt, HandlersListen
  <2>2. Consume(Now(w), c, current[w].redacted) /\ UNCHANGED <<outbox, created, purged, unheard>>
    BY <1>3 DEF HandlerCommits, HandlerInDoubt
  <2>3. QED
    BY <2>1, <2>2, ConsumeHandles
<1>4. ASSUME NEW s \in strays, StrayCommits(s) PROVE PromiseStep
  <2>1. s[2] \in Event /\ s[3] \in Consumer /\ s[2] \in created /\ s[3] \in Listeners[s[2]]
    BY DEF HandlersListen, TypeInv, TypeOK
  <2>2. Consume(s[2], s[3], s[4]) /\ UNCHANGED <<outbox, created, purged, unheard>>
    BY <1>4 DEF StrayCommits
  <2>3. QED
    BY <2>1, <2>2, ConsumeHandles
<1>5. ASSUME NEW w \in Worker, MarkFails(w) PROVE PromiseStep
  <2>1. pc[w] = "mark" /\ UNCHANGED <<created, processed, purged>>
    BY <1>5 DEF MarkFails
  <2>2. CASE UNCHANGED <<outbox, unheard>>
    BY <1>1, <2>1, <2>2
  <2>3. CASE /\ outbox' = [outbox EXCEPT ![Now(w)] = AsPublished(outbox[Now(w)], Now(w))]
             /\ unheard' = unheard \cup {Now(w)}
    BY <2>1, <2>3, MarkPublishes
  <2>4. QED
    BY <1>5, <2>2, <2>3 DEF MarkFails
<1>6. QED
  BY <1>1, <1>2, <1>3, <1>4, <1>5, PublishAccepts, DispatchPromises, PurgeForgets
     DEF Next, vars, tables, history, HandlerEnds, HandlerThrows, FailureNotRecorded,
         Crash, Shutdown, Restart, StrayEnds, StrayThrows, ReplaySince

\* While no batch outlives its lease and no operator replays, dispatchers, leases,
\* retries, crashes, handlers left running and purges show nothing but the promise:
\* an accepted event waits, is handled, and is published or ends dead, once; only
\* one whose mark committed unheard may be buried after it was published.
THEOREM PromiseKept == ASSUME Replayer = {}, LeaseCoversBatch PROVE Spec => PromiseSpec
<1>1. Init => /\ LeaseIsLock /\ HandlersListen /\ PurgedIsGone /\ HandledSoFar
  BY DEF Init, LeaseIsLock, HandlersListen, PurgedIsGone, HandledSoFar, Held, HasRow
<1>2. TypeInv /\ LeaseIsLock /\ HandlersListen /\ PurgedIsGone /\ HandledSoFar /\ [Next]_vars
        => LeaseIsLock' /\ HandlersListen' /\ PurgedIsGone' /\ HandledSoFar'
  BY LeaseIsLockStep, HandlersListenStep, PurgedIsGoneStep, HandledSoFarStep
<1>3. Init => Promise!Init
  <2>1. Init => created = {} /\ processed = {} /\ unheard = {}
    BY DEF Init
  <2>2. QED
    BY <2>1 DEF Promise!Init
<1>4. TypeInv /\ LeaseIsLock /\ HandlersListen /\ PurgedIsGone /\ HandledSoFar /\ [Next]_vars
        => [Promise!Next]_<<status, processed, unheard>>
  BY NextPromises DEF PromiseStep
<1>5. QED
  BY <1>1, <1>2, <1>3, <1>4, TypeCorrect, PTL DEF Spec, PromiseSpec, Promise!Spec, status

(***************************************************************************)
(* Delivery, the queue a consumer of the outbox fills.                     *)
(***************************************************************************)

AtMail == {"send", "mark", "fail", "late"}

\* A dispatcher past StartRow has a claim in hand, another has none; the rows of
\* a batch are different ones.
MailTypes ==
  /\ rows \in [Delivery -> Mail!Row \cup {NoMail}]
  /\ mailStep \in [Worker -> AtMail \cup {"idle", "batch"}]
  /\ taken \in [Worker -> SUBSET Mail!Claim]
  /\ inHand \in [Worker -> Mail!Claim \cup {NoTaken}]
  /\ mailed \subseteq Delivery \X BOOLEAN
  /\ tries \in [Delivery -> 0 .. MailAttempts]
  /\ \A d \in Delivery \ enqueued : ~Mail!HasRow(d)

MailBatches ==
  \A w \in Worker :
    /\ mailStep[w] \in AtMail <=> inHand[w] # NoTaken
    /\ mailStep[w] = "idle" => taken[w] = {}
    /\ inHand[w] # NoTaken => \A c \in taken[w] : c.id # Mail!Now(w)
    /\ \A b, c \in taken[w] : b.id = c.id => b = c

Taken(w) == taken[w] \cup ({inHand[w]} \ {NoTaken})

\* No count is above the attempts that failed, and a claim has one left.
MailCounts ==
  /\ \A d \in Delivery : Mail!HasRow(d) => rows[d].attempts <= tries[d]
  /\ \A d \in Delivery : Mail!HasRow(d) /\ ~Mail!Settled(d) => rows[d].attempts < MailAttempts
  /\ \A w \in Worker : \A c \in Taken(w) :
       c.attempts <= tries[c.id] /\ c.attempts < MailAttempts

\* What a dispatcher is about to write has happened.
MailSteps ==
  \A w \in Worker :
    /\ mailStep[w] = "mark" => <<Mail!Now(w), inHand[w].redacted>> \in mailed
    /\ mailStep[w] = "late" => Mail!Now(w) \in expired

\* Until its lease ends under a dispatcher, or it is marked sent unheard, a row is
\* held by one, waits for it, and has its payload while it is not settled.
MailLocks ==
  \A d \in Delivery \ (overrun \cup lost) :
    /\ Mail!HasRow(d) /\ ~Mail!Settled(d) => ~rows[d].redacted
    /\ \A w \in Worker : Mail!Holds(w, d) =>
         /\ Mail!HasRow(d) /\ ~rows[d].due /\ ~Mail!Settled(d)
         /\ \A v \in Worker : Mail!Holds(v, d) => v = w
    /\ \A w \in Worker : \A c \in Taken(w) : c.id = d => ~c.redacted

MailInv == MailTypes /\ MailBatches /\ MailCounts /\ MailSteps /\ MailLocks /\ Mail!OutcomeIsTrue

\* The assumptions, for the provers.
LEMMA MailParameters ==
  MailAttempts \in Nat \ {0} /\ NoMail \notin Mail!Row /\ NoTaken \notin Mail!Claim
BY NotificationsAssumption DEF Mail!DeliveryAssumption

\* Every UPDATE turns a row into a row.
LEMMA MailRowOps ==
  ASSUME NEW row \in Mail!Row, NEW n \in Nat
  PROVE  /\ row.status \in Mail!Status /\ row.attempts \in Nat
         /\ row.due \in BOOLEAN /\ row.redacted \in BOOLEAN
         /\ Mail!Leased(row) \in Mail!Row /\ Mail!AsSent(row) \in Mail!Row /\ Mail!AsFailed(row, n) \in Mail!Row
         /\ Mail!AsDead(row, n) \in Mail!Row /\ [row EXCEPT !.due = TRUE] \in Mail!Row
         /\ Mail!Leased(row).status = row.status /\ Mail!Leased(row).attempts = row.attempts
         /\ Mail!Leased(row).redacted = row.redacted /\ ~Mail!Leased(row).due
BY DEF Mail!Row, Mail!Status, Mail!Leased, Mail!AsSent, Mail!AsFailed, Mail!AsDead

\* What a dispatcher holds are its claims, different rows all.
LEMMA MailHolds ==
  ASSUME NEW w \in Worker, NEW d
  PROVE  Mail!Holds(w, d) <=> \E c \in Taken(w) : c.id = d
BY DEF Mail!Holds, Taken

\* What a dispatcher has taken is a claim.
LEMMA MailClaimTyped ==
  ASSUME MailInv, NEW w \in Worker, NEW c \in Taken(w)
  PROVE  c \in Mail!Claim /\ c.id \in Delivery /\ c.attempts \in Nat /\ c.redacted \in BOOLEAN
BY DEF MailInv, MailTypes, Taken, Mail!Claim

\* A dispatcher at a row has it in hand, and not twice.
LEMMA MailAtHand ==
  ASSUME MailInv, NEW w \in Worker, mailStep[w] \in AtMail
  PROVE  /\ inHand[w] \in Taken(w) /\ inHand[w] \in Mail!Claim /\ Mail!Now(w) \in Delivery
         /\ inHand[w].redacted \in BOOLEAN /\ inHand[w].attempts \in Nat
         /\ Mail!Holds(w, Mail!Now(w)) /\ \A c \in taken[w] : c.id # Mail!Now(w)
BY DEF MailInv, MailTypes, MailBatches, Taken, Mail!Claim, Mail!Now, Mail!Holds

-----------------------------------------------------------------------------
\* At the start.
LEMMA MailInit == Mail!Init => MailInv
BY MailParameters DEF Mail!Init, MailInv, MailTypes, MailBatches, MailCounts, MailSteps, MailLocks,
   Mail!OutcomeIsTrue, Mail!Holds, Taken, Mail!HasRow, Mail!Has, Mail!Settled, AtMail, Mail!Claim

\* Nothing of the queue changes but, maybe, that a dispatcher is stopped.
LEMMA MailStutters ==
  ASSUME MailInv, UNCHANGED <<rows, mailStep, taken, inHand, enqueued, overrun, lost, mailed, tries>>,
         expired \subseteq expired'
  PROVE  MailInv'
BY DEF MailInv, MailTypes, MailBatches, MailCounts, MailSteps, MailLocks, Mail!OutcomeIsTrue,
   Mail!Holds, Taken, Mail!HasRow, Mail!Has, Mail!Settled, Mail!Now

\* A delivery is enqueued.
LEMMA MailEnqueue ==
  ASSUME MailInv, NEW d \in Delivery, Mail!Enqueue(d)
  PROVE  MailInv'
<1>1. Mail!Queued \in Mail!Row /\ rows'[d] = Mail!Queued /\ \A o \in Delivery \ {d} : rows'[o] = rows[o]
  BY DEF Mail!Enqueue, Mail!Queued, Mail!Row, Mail!Status, MailInv, MailTypes
<1>2. UNCHANGED <<expired, mailStep, taken, inHand, overrun, lost, mailed, tries>> /\ enqueued' = enqueued \cup {d}
  BY DEF Mail!Enqueue, Mail!worker
<1>3. MailTypes'
  BY <1>1, <1>2 DEF Mail!Enqueue, MailInv, MailTypes, Mail!HasRow
<1>4. MailBatches' /\ MailSteps'
  BY <1>2 DEF MailInv, MailBatches, MailSteps, Mail!Now
<1>5. MailCounts'
  BY <1>1, <1>2, MailParameters DEF MailInv, MailTypes, MailCounts, Mail!HasRow, Mail!Settled,
     Mail!Queued, Taken
<1>6. MailLocks'
  <2>1. d \in overrun \cup lost \/ \A w \in Worker : ~Mail!Holds(w, d)
    BY DEF Mail!Enqueue, MailInv, MailTypes, MailLocks
  <2> QED BY <1>1, <1>2, <2>1 DEF MailInv, MailLocks, Mail!Holds, Taken, Mail!HasRow, Mail!Settled,
             Mail!Queued
<1>7. Mail!OutcomeIsTrue'
  <2>1. \A o \in Delivery : (Mail!Has(o, "sent")' => Mail!Has(o, "sent"))
                           /\ (Mail!Has(o, "dead_letter")' => Mail!Has(o, "dead_letter"))
    BY <1>1 DEF Mail!Has, Mail!HasRow, Mail!Queued
  <2>2. QED
    BY <1>2, <2>1 DEF MailInv, Mail!OutcomeIsTrue
<1> QED BY <1>3, <1>4, <1>5, <1>6, <1>7 DEF MailInv

\* Time passes.
LEMMA MailElapse ==
  ASSUME MailInv, NEW d \in Delivery, Mail!Elapse(d)
  PROVE  MailInv'
<1>1. /\ rows[d] \in Mail!Row /\ rows'[d] \in Mail!Row /\ rows'[d].status = rows[d].status
      /\ rows'[d].attempts = rows[d].attempts /\ rows'[d].redacted = rows[d].redacted
      /\ \A o \in Delivery \ {d} : rows'[o] = rows[o]
  BY DEF Mail!Elapse, Mail!HasRow, MailInv, MailTypes, Mail!Row
<1>2. /\ UNCHANGED <<expired, mailStep, taken, inHand, enqueued, lost, mailed, tries>>
      /\ overrun' = IF \E w \in Worker : Mail!Holds(w, d) THEN overrun \cup {d} ELSE overrun
  BY DEF Mail!Elapse, Mail!worker
<1>3. \A o \in Delivery : /\ Mail!HasRow(o)' = Mail!HasRow(o) /\ Mail!Settled(o)' = Mail!Settled(o)
                           /\ \A s : Mail!Has(o, s)' = Mail!Has(o, s)
  BY <1>1, MailParameters DEF Mail!HasRow, Mail!Settled, Mail!Has
<1>4. MailTypes'
  BY <1>1, <1>2, <1>3 DEF Mail!Elapse, MailInv, MailTypes
<1>5. MailBatches' /\ MailSteps'
  BY <1>2 DEF MailInv, MailBatches, MailSteps, Mail!Now
<1>6. MailCounts'
  BY <1>1, <1>2, <1>3 DEF MailInv, MailCounts, Taken
<1>7. MailLocks'
  <2>1. \A w \in Worker, o \in Delivery : Mail!Holds(w, o)' = Mail!Holds(w, o)
    BY <1>2 DEF Mail!Holds
  <2>2. \A w \in Worker : Taken(w)' = Taken(w)
    BY <1>2 DEF Taken
  <2>3. d \in (overrun \cup lost)' \/ \A w \in Worker : ~Mail!Holds(w, d)
    BY <1>2
  <2> QED BY <1>1, <1>2, <1>3, <2>1, <2>2, <2>3 DEF MailInv, MailLocks
<1>8. Mail!OutcomeIsTrue'
  BY <1>2, <1>3 DEF MailInv, Mail!OutcomeIsTrue
<1> QED BY <1>4, <1>5, <1>6, <1>7, <1>8 DEF MailInv

\* The retention removes old rows.
LEMMA MailPurge ==
  ASSUME MailInv, Mail!Purge
  PROVE  MailInv'
<1>1. PICK S \in SUBSET {d \in Delivery : Mail!Settled(d)} :
        rows' = [d \in Delivery |-> IF d \in S THEN NoMail ELSE rows[d]]
  BY DEF Mail!Purge
<1>2. UNCHANGED <<expired, mailStep, taken, inHand, enqueued, overrun, lost, mailed, tries>>
  BY DEF Mail!Purge, Mail!worker, Mail!history
<1>3. MailTypes' /\ MailBatches' /\ MailSteps'
  BY <1>1, <1>2 DEF MailInv, MailTypes, MailBatches, MailSteps, Mail!Now, Mail!HasRow
<1>4. MailCounts' /\ Mail!OutcomeIsTrue'
  BY <1>1, <1>2 DEF MailInv, MailCounts, Mail!OutcomeIsTrue, Mail!HasRow, Mail!Has, Mail!Settled,
     Taken
<1>5. MailLocks'
  BY <1>1, <1>2 DEF MailInv, MailLocks, Mail!HasRow, Mail!Settled, Mail!Holds, Taken
<1> QED BY <1>3, <1>4, <1>5 DEF MailInv

-----------------------------------------------------------------------------
\* A batch is claimed: its rows wait for nobody else, or were overrun.
LEMMA MailClaim ==
  ASSUME MailInv, NEW w \in Worker, Mail!ClaimBatch(w)
  PROVE  MailInv'
<1> DEFINE C(d) == [id |-> d, attempts |-> rows[d].attempts, redacted |-> rows[d].redacted]
<1>1. PICK S \in SUBSET Delivery :
        /\ Mail!IsBatch(S)
        /\ rows' = [d \in Delivery |-> IF d \in S THEN Mail!Leased(rows[d]) ELSE rows[d]]
        /\ taken' = [taken EXCEPT ![w] = {C(d) : d \in S}]
  BY DEF Mail!ClaimBatch
<1>2. /\ mailStep[w] = "idle" /\ mailStep' = [mailStep EXCEPT ![w] = "batch"]
      /\ UNCHANGED <<expired, inHand, enqueued, overrun, lost, mailed, tries>>
  BY DEF Mail!ClaimBatch, Mail!history
<1>3. \A d \in S : rows[d] \in Mail!Row /\ rows[d].due /\ Mail!HasRow(d) /\ ~Mail!Settled(d) /\ C(d) \in Mail!Claim
  <2>1. \A d \in S : d \in Delivery /\ rows[d].due /\ Mail!HasRow(d) /\ ~Mail!Settled(d)
    BY <1>1 DEF Mail!IsBatch, Mail!Due
  <2> QED BY <2>1, MailRowOps DEF MailInv, MailTypes, Mail!HasRow, Mail!Claim
<1>4. \A d \in Delivery : /\ Mail!HasRow(d)' = Mail!HasRow(d) /\ Mail!Settled(d)' = Mail!Settled(d)
                           /\ rows'[d].attempts = rows[d].attempts /\ rows'[d].redacted = rows[d].redacted
                           /\ \A s : Mail!Has(d, s)' = Mail!Has(d, s)
  <2>1. \A d \in Delivery \ S : rows'[d] = rows[d]
    BY <1>1
  <2>2. \A d \in S : /\ rows'[d] \in Mail!Row /\ rows'[d].status = rows[d].status
                     /\ rows'[d].attempts = rows[d].attempts /\ rows'[d].redacted = rows[d].redacted
    BY <1>1, <1>3, MailRowOps
  <2> QED BY <1>3, <2>1, <2>2, MailParameters DEF Mail!HasRow, Mail!Settled, Mail!Has
<1>5. /\ taken[w] = {} /\ inHand[w] = NoTaken /\ Taken(w)' = {C(d) : d \in S}
      /\ \A v \in Worker \ {w} : taken'[v] = taken[v] /\ Taken(v)' = Taken(v) /\ mailStep'[v] = mailStep[v]
  BY <1>1, <1>2, <1>3, MailParameters DEF MailInv, MailTypes, MailBatches, Taken, AtMail
<1>6. MailTypes'
  <2>1. rows' \in [Delivery -> Mail!Row \cup {NoMail}]
    BY <1>1, <1>3, MailRowOps DEF MailInv, MailTypes
  <2>2. taken' \in [Worker -> SUBSET Mail!Claim] /\ mailStep' \in [Worker -> AtMail \cup {"idle", "batch"}]
    BY <1>1, <1>2, <1>3 DEF MailInv, MailTypes
  <2> QED BY <1>2, <1>4, <2>1, <2>2 DEF MailInv, MailTypes
<1>7. MailBatches'
  <2>1. mailStep'[w] = "batch" /\ taken'[w] = {C(d) : d \in S}
    BY <1>1, <1>2 DEF MailInv, MailTypes
  <2>2. \A b, c \in taken'[w] : b.id = c.id => b = c
    BY <2>1
  <2> QED BY <1>2, <1>5, <2>1, <2>2 DEF MailInv, MailBatches, Mail!Now, AtMail
<1>8. MailSteps'
  BY <1>2, <1>5 DEF MailInv, MailTypes, MailSteps, Mail!Now
<1>9. MailCounts'
  <2>1. \A c \in Taken(w)' : c.attempts <= tries[c.id] /\ c.attempts < MailAttempts
    BY <1>3, <1>5 DEF MailInv, MailCounts
  <2> QED BY <1>2, <1>4, <1>5, <2>1 DEF MailInv, MailCounts
<1>10. MailLocks'
  <2>1. \A d \in S : d \in overrun \cup lost \/ \A v \in Worker : ~Mail!Holds(v, d)
    BY <1>3 DEF MailInv, MailLocks
  <2>2. \A v \in Worker \ {w} : \A d : Mail!Holds(v, d)' = Mail!Holds(v, d)
    BY <1>2, <1>5 DEF Mail!Holds
  <2>3. \A d : Mail!Holds(w, d)' <=> d \in S
    <3>1. taken'[w] = {C(d) : d \in S} /\ inHand'[w] = NoTaken
      BY <1>1, <1>2, <1>5 DEF MailInv, MailTypes
    <3>2. \A d \in S : C(d).id = d
      OBVIOUS
    <3> HIDE DEF C
    <3> QED BY <3>1, <3>2 DEF Mail!Holds
  <2>4. \A d \in S : ~rows'[d].due
    BY <1>1, <1>3, MailRowOps
  <2>5. \A d \in Delivery \ S : rows'[d] = rows[d]
    BY <1>1
  <2>6. \A c \in Taken(w)' : c.id \in S /\ c.redacted = rows[c.id].redacted
    BY <1>5
  <2> HIDE DEF C
  <2> QED BY <1>2, <1>3, <1>4, <1>5, <2>1, <2>2, <2>3, <2>4, <2>5, <2>6 DEF MailInv, MailLocks
<1>11. Mail!OutcomeIsTrue'
  BY <1>2, <1>4 DEF MailInv, Mail!OutcomeIsTrue
<1> QED BY <1>6, <1>7, <1>8, <1>9, <1>10, <1>11 DEF MailInv

\* A dispatcher moves within its batch, or gives it up: what it holds was held.
LEMMA MailMoves ==
  ASSUME MailInv, NEW w \in Worker, NEW next \in AtMail \cup {"idle", "batch"},
         NEW C \in SUBSET taken[w], NEW c \in Taken(w) \cup {NoTaken},
         mailStep' = [mailStep EXCEPT ![w] = next], taken' = [taken EXCEPT ![w] = C],
         inHand' = [inHand EXCEPT ![w] = c],
         UNCHANGED <<rows, expired, enqueued, overrun, lost, mailed, tries>>,
         next \in AtMail <=> c # NoTaken, next = "idle" => C = {},
         c # NoTaken => \A b \in C : b.id # c.id,
         next = "mark" => <<c.id, c.redacted>> \in mailed,
         next = "late" => c.id \in expired
  PROVE  MailInv'
<1>1. /\ mailStep'[w] = next /\ taken'[w] = C /\ inHand'[w] = c
      /\ \A v \in Worker \ {w} : mailStep'[v] = mailStep[v] /\ taken'[v] = taken[v] /\ inHand'[v] = inHand[v]
  BY DEF MailInv, MailTypes
<1>2. \A v \in Worker : Taken(v)' \subseteq Taken(v)
  BY <1>1 DEF Taken
<1>3. \A v \in Worker : \A d : Mail!Holds(v, d)' => Mail!Holds(v, d)
  <2>1. \A v \in Worker : \A d : Mail!Holds(v, d)' <=> \E b \in Taken(v)' : b.id = d
    BY DEF Mail!Holds, Taken
  <2> QED BY <1>2, <2>1, MailHolds
<1>4. MailTypes'
  <2>1. c \in Mail!Claim \cup {NoTaken}
    BY MailClaimTyped
  <2> QED BY <2>1 DEF MailInv, MailTypes, Mail!HasRow
<1>5. MailBatches' /\ MailSteps'
  BY <1>1 DEF MailInv, MailBatches, MailSteps, Mail!Now
<1>6. MailCounts' /\ Mail!OutcomeIsTrue'
  BY <1>2 DEF MailInv, MailCounts, Mail!OutcomeIsTrue, Mail!HasRow, Mail!Has, Mail!Settled
<1>7. MailLocks'
  BY <1>2, <1>3 DEF MailInv, MailLocks, Mail!HasRow, Mail!Settled
<1> QED BY <1>4, <1>5, <1>6, <1>7 DEF MailInv

\* How often the row in hand has been tried.
LEMMA MailTries ==
  ASSUME MailInv, NEW w \in Worker, mailStep[w] \in AtMail
  PROVE  /\ \A d \in Delivery : tries[d] \in Nat /\ tries[d] <= MailAttempts
         /\ inHand[w].attempts <= tries[Mail!Now(w)] /\ inHand[w].attempts < MailAttempts
BY MailAtHand, MailParameters DEF MailInv, MailTypes, MailCounts, Mail!Now

\* What a dispatcher writes of the row in hand is its last word on it: had the
\* lease not ended, it would be the only one.
LEMMA MailWrite ==
  ASSUME MailInv, NEW w \in Worker, mailStep[w] \in AtMail, NEW row,
         Mail!Update(Mail!Now(w), row), Mail!RowDone(w), UNCHANGED <<expired, enqueued, overrun, lost, mailed>>,
         tries' \in [Delivery -> 0 .. MailAttempts], \A d \in Delivery : tries[d] <= tries'[d],
         Mail!HasRow(Mail!Now(w)) =>
           /\ row \in Mail!Row /\ row.attempts <= tries'[Mail!Now(w)]
           /\ row.status \notin Mail!Terminal =>
                row.attempts < MailAttempts /\ row.redacted = rows[Mail!Now(w)].redacted
           /\ row.status = "sent" => \E redacted \in BOOLEAN : <<Mail!Now(w), redacted>> \in mailed
           /\ row.status = "dead_letter" => tries'[Mail!Now(w)] >= MailAttempts \/ Mail!Now(w) \in expired
  PROVE  MailInv'
<1>0. PICK d \in Delivery : d = Mail!Now(w)
  BY MailAtHand
<1>1. /\ d \in Delivery /\ inHand[w] \in Taken(w) /\ Mail!Holds(w, d) /\ \A c \in taken[w] : c.id # d
  BY <1>0, MailAtHand
<1>2. /\ mailStep' = [mailStep EXCEPT ![w] = IF taken[w] = {} THEN "idle" ELSE "batch"]
      /\ inHand' = [inHand EXCEPT ![w] = NoTaken] /\ taken' = taken
  BY DEF Mail!RowDone
<1>3. /\ mailStep'[w] = (IF taken[w] = {} THEN "idle" ELSE "batch") /\ inHand'[w] = NoTaken
      /\ \A v \in Worker \ {w} : mailStep'[v] = mailStep[v] /\ inHand'[v] = inHand[v]
  BY <1>2 DEF MailInv, MailTypes
<1>4. \A v \in Worker : Taken(v)' \subseteq Taken(v)
  BY <1>2, <1>3 DEF Taken
<1>5. \A v \in Worker : \A o : Mail!Holds(v, o)' => Mail!Holds(v, o)
  BY <1>2, <1>3 DEF Mail!Holds
<1>6. ~Mail!Holds(w, d)'
  BY <1>1, <1>2, <1>3 DEF Mail!Holds
<1>7. /\ \A o \in Delivery \ {d} : rows'[o] = rows[o]
      /\ Mail!HasRow(d) => rows'[d] = row
      /\ ~Mail!HasRow(d) => rows'[d] = rows[d]
  BY <1>0 DEF Mail!Update, MailInv, MailTypes
<1>8. \A o \in Delivery : Mail!HasRow(o)' = Mail!HasRow(o)
  BY <1>0, <1>7, MailParameters DEF Mail!HasRow
<1>9. MailTypes'
  <2>1. rows' \in [Delivery -> Mail!Row \cup {NoMail}]
    BY <1>0 DEF Mail!Update, MailInv, MailTypes
  <2> QED BY <1>2, <1>8, <2>1 DEF MailInv, MailTypes
<1>10. MailBatches' /\ MailSteps'
  BY <1>2, <1>3 DEF MailInv, MailBatches, MailSteps, Mail!Now, AtMail
<1>11. MailCounts'
  <2>1. \A o \in Delivery : Mail!HasRow(o)' => rows'[o].attempts <= tries'[o]
    <3> SUFFICES ASSUME NEW o \in Delivery, Mail!HasRow(o)' PROVE rows'[o].attempts <= tries'[o]
      OBVIOUS
    <3>1. CASE o = d
      BY <1>0, <1>7, <1>8, <3>1
    <3>2. CASE o # d
      <4>1. rows'[o] = rows[o] /\ rows[o] \in Mail!Row
        BY <1>7, <1>8, <3>2 DEF MailInv, MailTypes, Mail!HasRow
      <4>2. rows[o].attempts \in Nat /\ rows[o].attempts <= tries[o]
        BY <1>8, <4>1, MailRowOps DEF MailInv, MailCounts
      <4>3. tries[o] \in Nat /\ tries'[o] \in Nat /\ tries[o] <= tries'[o]
        BY MailParameters DEF MailInv, MailTypes
      <4> QED BY <4>1, <4>2, <4>3
    <3> QED BY <3>1, <3>2
  <2>2. \A o \in Delivery : Mail!HasRow(o)' /\ ~Mail!Settled(o)' => rows'[o].attempts < MailAttempts
    BY <1>0, <1>7, <1>8 DEF MailInv, MailCounts, Mail!Settled
  <2>3. \A v \in Worker : \A c \in Taken(v)' : c.attempts <= tries'[c.id] /\ c.attempts < MailAttempts
    <3> SUFFICES ASSUME NEW v \in Worker, NEW c \in Taken(v)
                 PROVE  c.attempts <= tries'[c.id] /\ c.attempts < MailAttempts
      BY <1>4
    <3>1. c.attempts \in Nat /\ c.id \in Delivery /\ tries[c.id] \in Nat /\ tries'[c.id] \in Nat
      BY MailClaimTyped, MailParameters DEF MailInv, MailTypes
    <3> QED BY <3>1 DEF MailInv, MailCounts
  <2> QED BY <2>1, <2>2, <2>3 DEF MailCounts
<1>12. MailLocks'
  <2>1. d \notin overrun \cup lost =>
          /\ Mail!HasRow(d) /\ ~rows[d].redacted /\ \A v \in Worker : Mail!Holds(v, d) => v = w
    BY <1>1 DEF MailInv, MailLocks
  <2>2. d \notin overrun \cup lost => \A v \in Worker : ~Mail!Holds(v, d)'
    BY <1>5, <1>6, <2>1
  <2>3. d \notin overrun \cup lost => (~Mail!Settled(d)' => ~rows'[d].redacted)
    BY <1>0, <1>7, <1>8, <2>1 DEF Mail!Settled
  <2> QED BY <1>4, <1>5, <1>7, <1>8, <2>2, <2>3 DEF MailInv, MailLocks, Mail!Settled
<1>13. Mail!OutcomeIsTrue'
  <2>1. \A o \in Delivery : Mail!Has(o, "sent")' => \E redacted \in BOOLEAN : <<o, redacted>> \in mailed
    BY <1>0, <1>7, <1>8 DEF MailInv, Mail!OutcomeIsTrue, Mail!Has
  <2>2. \A o \in Delivery : Mail!Has(o, "dead_letter")' => tries'[o] >= MailAttempts \/ o \in expired
    <3> SUFFICES ASSUME NEW o \in Delivery, Mail!Has(o, "dead_letter")'
                 PROVE  tries'[o] >= MailAttempts \/ o \in expired
      OBVIOUS
    <3>1. CASE o = d
      BY <1>0, <1>7, <1>8, <3>1 DEF Mail!Has
    <3>2. CASE o # d
      <4>1. tries[o] \in Nat /\ tries'[o] \in Nat /\ tries[o] <= tries'[o] /\ Mail!Has(o, "dead_letter")
        BY <1>7, <1>8, <3>2, MailParameters DEF MailInv, MailTypes, Mail!Has
      <4> QED BY <4>1, MailParameters DEF MailInv, Mail!OutcomeIsTrue
    <3> QED BY <3>1, <3>2
  <2> QED BY <2>1, <2>2 DEF MailInv, Mail!OutcomeIsTrue
<1> QED BY <1>9, <1>10, <1>11, <1>12, <1>13 DEF MailInv

\* How often it has when one more try failed.
LEMMA MailCounted ==
  ASSUME MailInv, NEW w \in Worker, mailStep[w] \in AtMail, Mail!CountTry(Mail!Now(w))
  PROVE  /\ tries' \in [Delivery -> 0 .. MailAttempts] /\ \A d \in Delivery : tries[d] <= tries'[d]
         /\ inHand[w].attempts + 1 <= tries'[Mail!Now(w)]
<1>1. Mail!Now(w) \in Delivery /\ inHand[w].attempts \in Nat
  BY MailAtHand
<1>2. \A d \in Delivery : tries'[d] = IF d = Mail!Now(w) /\ tries[d] < MailAttempts THEN tries[d] + 1 ELSE tries[d]
  BY <1>1 DEF Mail!CountTry, MailInv, MailTypes
<1>3. tries' = [d \in Delivery |-> tries'[d]]
  BY DEF Mail!CountTry, MailInv, MailTypes
<1> QED BY <1>1, <1>2, <1>3, MailTries, MailParameters

\* A row is marked sent.
LEMMA MailMarked ==
  ASSUME MailInv, NEW w \in Worker, Mail!MarkSent(w)
  PROVE  MailInv'
<1>1. mailStep[w] \in AtMail /\ <<Mail!Now(w), inHand[w].redacted>> \in mailed
  BY DEF Mail!MarkSent, AtMail, MailInv, MailSteps
<1>2. UNCHANGED <<expired, enqueued, overrun, lost, mailed, tries>> /\ Mail!RowDone(w)
      /\ Mail!Update(Mail!Now(w), Mail!AsSent(rows[Mail!Now(w)]))
  BY DEF Mail!MarkSent, Mail!history
<1>3. Mail!HasRow(Mail!Now(w)) => /\ Mail!AsSent(rows[Mail!Now(w)]) \in Mail!Row
                                  /\ Mail!AsSent(rows[Mail!Now(w)]).status = "sent"
                                  /\ Mail!AsSent(rows[Mail!Now(w)]).attempts <= tries[Mail!Now(w)]
  <2>1. Mail!HasRow(Mail!Now(w)) =>
          rows[Mail!Now(w)] \in Mail!Row /\ rows[Mail!Now(w)].attempts <= tries[Mail!Now(w)]
    BY <1>1, MailAtHand DEF MailInv, MailTypes, MailCounts, Mail!HasRow
  <2> QED BY <2>1 DEF Mail!AsSent, Mail!Row, Mail!Status
<1>4. tries' \in [Delivery -> 0 .. MailAttempts] /\ \A d \in Delivery : tries[d] <= tries'[d]
  BY <1>2, MailParameters DEF MailInv, MailTypes
<1>5. inHand[w].redacted \in BOOLEAN
  BY <1>1, MailAtHand
<1> QED BY <1>1, <1>2, <1>3, <1>4, <1>5, MailWrite DEF Mail!Terminal

\* A row is put back for later.
LEMMA MailRetry ==
  ASSUME MailInv, NEW w \in Worker, Mail!RetryLater(w)
  PROVE  MailInv'
<1> DEFINE n == inHand[w].attempts + 1
           new == Mail!AsFailed(rows[Mail!Now(w)], n)
<1>1. mailStep[w] \in AtMail
  BY DEF Mail!RetryLater, AtMail
<1>2. /\ UNCHANGED <<expired, enqueued, overrun, lost, mailed>> /\ Mail!RowDone(w)
      /\ Mail!Update(Mail!Now(w), new) /\ Mail!CountTry(Mail!Now(w)) /\ ~(n >= MailAttempts)
  BY DEF Mail!RetryLater, Mail!Exhausted
<1>3. n \in Nat /\ n < MailAttempts /\ n <= tries'[Mail!Now(w)]
  BY <1>1, <1>2, MailAtHand, MailCounted, MailParameters
<1>4. Mail!HasRow(Mail!Now(w)) => /\ new \in Mail!Row /\ new.status = "failed" /\ new.attempts = n
                                  /\ new.redacted = rows[Mail!Now(w)].redacted
  <2>1. Mail!HasRow(Mail!Now(w)) => rows[Mail!Now(w)] \in Mail!Row
    BY <1>1, MailAtHand DEF MailInv, MailTypes, Mail!HasRow
  <2> QED BY <1>3, <2>1 DEF Mail!AsFailed, Mail!Row, Mail!Status
<1> HIDE DEF n, new
<1> QED BY <1>1, <1>2, <1>3, <1>4, MailCounted, MailWrite DEF Mail!Terminal

\* A row is buried.
LEMMA MailDead ==
  ASSUME MailInv, NEW w \in Worker, Mail!DeadLetter(w)
  PROVE  MailInv'
<1>0. UNCHANGED <<expired, enqueued, overrun, lost, mailed>> /\ Mail!RowDone(w) /\ mailStep[w] \in AtMail
  BY DEF Mail!DeadLetter, AtMail
<1>1. ASSUME NEW n \in Nat, Mail!Update(Mail!Now(w), Mail!AsDead(rows[Mail!Now(w)], n)), n <= tries'[Mail!Now(w)],
             tries' \in [Delivery -> 0 .. MailAttempts], \A d \in Delivery : tries[d] <= tries'[d],
             tries'[Mail!Now(w)] >= MailAttempts \/ Mail!Now(w) \in expired
      PROVE  MailInv'
  <2> DEFINE new == Mail!AsDead(rows[Mail!Now(w)], n)
  <2>1. Mail!HasRow(Mail!Now(w)) => rows[Mail!Now(w)] \in Mail!Row
    BY <1>0, MailAtHand DEF MailInv, MailTypes, Mail!HasRow
  <2>2. Mail!HasRow(Mail!Now(w)) => new \in Mail!Row /\ new.status = "dead_letter" /\ new.attempts = n
    BY <2>1 DEF Mail!AsDead, Mail!Row, Mail!Status
  <2>3. Mail!Update(Mail!Now(w), new)
    BY <1>1
  <2> HIDE DEF new
  <2> QED BY <1>0, <1>1, <2>2, <2>3, MailWrite DEF Mail!Terminal
<1> DEFINE n == inHand[w].attempts
<1>2. CASE /\ mailStep[w] = "fail" /\ Mail!Exhausted(w) /\ Mail!CountTry(Mail!Now(w))
           /\ Mail!Update(Mail!Now(w), Mail!AsDead(rows[Mail!Now(w)], n + 1))
  <2>1. n + 1 \in Nat /\ n + 1 >= MailAttempts /\ n + 1 <= tries'[Mail!Now(w)] /\ tries'[Mail!Now(w)] \in Nat
    BY <1>0, <1>2, MailAtHand, MailCounted, MailParameters DEF Mail!Exhausted
  <2> HIDE DEF n
  <2> QED BY <1>0, <1>1, <1>2, <2>1, MailCounted, MailParameters
<1>3. CASE /\ mailStep[w] = "late" /\ Mail!Update(Mail!Now(w), Mail!AsDead(rows[Mail!Now(w)], n)) /\ UNCHANGED tries
  <2>1. Mail!Now(w) \in expired
    BY <1>3 DEF MailInv, MailSteps
  <2>2. n \in Nat /\ n <= tries'[Mail!Now(w)]
    BY <1>0, <1>3, MailAtHand, MailTries
  <2>3. tries' \in [Delivery -> 0 .. MailAttempts] /\ \A d \in Delivery : tries[d] <= tries'[d]
    BY <1>3, MailParameters DEF MailInv, MailTypes
  <2> HIDE DEF n
  <2> QED BY <1>1, <1>3, <2>1, <2>2, <2>3
<1> QED BY <1>2, <1>3 DEF Mail!DeadLetter

\* The provider is asked: what it accepts has its payload, or the lease has ended.
LEMMA MailSend ==
  ASSUME MailInv, NEW w \in Worker, Mail!SendSucceeds(w) \/ Mail!SendFails(w)
  PROVE  MailInv'
<1> DEFINE m == <<Mail!Now(w), inHand[w].redacted>>
<1>1. PICK next \in {"mark", "fail"} :
        /\ mailStep' = [mailStep EXCEPT ![w] = next] /\ mailed' \in {mailed, mailed \cup {m}}
        /\ next = "mark" => m \in mailed'
  BY DEF Mail!SendSucceeds, Mail!SendFails
<1>2. mailStep[w] = "send" /\ UNCHANGED <<rows, expired, taken, inHand, enqueued, overrun, lost, tries>>
  BY DEF Mail!SendSucceeds, Mail!SendFails, Mail!table
<1>3. /\ m \in Delivery \X BOOLEAN /\ mailed \subseteq mailed' /\ mailed' \subseteq mailed \cup {m}
      /\ m[1] = Mail!Now(w) /\ m[2] = inHand[w].redacted
  BY <1>1, <1>2, MailAtHand DEF AtMail
<1>4. m[2] => m[1] \in overrun \cup lost
  BY <1>2, <1>3, MailAtHand DEF AtMail, MailInv, MailLocks, Mail!Now
<1>5. mailStep'[w] = next /\ \A v \in Worker \ {w} : mailStep'[v] = mailStep[v]
  BY <1>1 DEF MailInv, MailTypes
<1>6. MailBatches' /\ MailSteps'
  BY <1>1, <1>2, <1>3, <1>5 DEF MailInv, MailBatches, MailSteps, Mail!Now, AtMail
<1> HIDE DEF m
<1>7. MailTypes'
  BY <1>1, <1>2, <1>3 DEF MailInv, MailTypes, Mail!HasRow, AtMail
<1>8. MailCounts' /\ MailLocks'
  BY <1>2 DEF MailInv, MailCounts, MailLocks, Mail!HasRow, Mail!Settled, Taken, Mail!Holds
<1>9. Mail!OutcomeIsTrue'
  BY <1>2, <1>3, <1>4 DEF MailInv, Mail!OutcomeIsTrue, Mail!Has, Mail!HasRow
<1> QED BY <1>6, <1>7, <1>8, <1>9 DEF MailInv

\* The next row of the batch is started.
LEMMA MailStart ==
  ASSUME MailInv, NEW w \in Worker, Mail!StartRow(w)
  PROVE  MailInv'
<1>1. PICK c \in taken[w] :
        /\ taken' = [taken EXCEPT ![w] = @ \ {c}] /\ inHand' = [inHand EXCEPT ![w] = c]
        /\ mailStep' = [mailStep EXCEPT ![w] = IF c.id \in expired /\ ~c.redacted THEN "late"
                                   ELSE IF c.id \in Push THEN "fail" ELSE "send"]
  BY DEF Mail!StartRow
<1>2. UNCHANGED <<rows, expired, enqueued, overrun, lost, mailed, tries>>
  BY DEF Mail!StartRow, Mail!table, Mail!history
<1>3. c \in Taken(w) /\ c # NoTaken /\ \A b \in taken[w] \ {c} : b.id # c.id
  BY <1>1, MailParameters DEF Taken, MailInv, MailTypes, MailBatches
<1> DEFINE next == IF c.id \in expired /\ ~c.redacted THEN "late"
                   ELSE IF c.id \in Push THEN "fail" ELSE "send"
           C == taken[w] \ {c}
<1>4. next \in AtMail /\ next \notin {"idle", "mark"} /\ (next = "late" => c.id \in expired)
  BY DEF AtMail
<1>5. /\ taken' = [taken EXCEPT ![w] = C] /\ mailStep' = [mailStep EXCEPT ![w] = next]
      /\ C \in SUBSET taken[w] /\ \A b \in C : b.id # c.id
  BY <1>1, <1>3
<1> HIDE DEF next, C
<1> QED BY <1>1, <1>2, <1>3, <1>4, <1>5, MailMoves

\* The UPDATE that marks it sent fails, or commits unheard.
LEMMA MailMarkFails ==
  ASSUME MailInv, NEW w \in Worker, Mail!MarkFails(w)
  PROVE  MailInv'
<1>1. /\ mailStep[w] = "mark" /\ mailStep' = [mailStep EXCEPT ![w] = "fail"]
      /\ UNCHANGED <<expired, taken, inHand, enqueued, overrun, mailed, tries>>
  BY DEF Mail!MarkFails
<1>2. CASE UNCHANGED <<rows, lost>>
  <2>1. PICK c \in Taken(w), C \in SUBSET taken[w] : c = inHand[w] /\ C = taken[w]
    BY <1>1, MailAtHand DEF AtMail
  <2>2. taken' = [taken EXCEPT ![w] = C] /\ inHand' = [inHand EXCEPT ![w] = c]
    BY <1>1, <2>1 DEF MailInv, MailTypes
  <2>3. c # NoTaken /\ \A b \in C : b.id # c.id
    BY <1>1, <2>1, MailAtHand, MailParameters DEF AtMail, Mail!Now
  <2>4. UNCHANGED <<rows, expired, enqueued, overrun, lost, mailed, tries>>
    BY <1>1, <1>2
  <2> QED BY <1>1, <2>2, <2>3, <2>4, MailMoves DEF AtMail
<1>3. CASE /\ Mail!HasRow(Mail!Now(w)) /\ lost' = lost \cup {Mail!Now(w)}
           /\ rows' = [rows EXCEPT ![Mail!Now(w)] = Mail!AsSent(@)]
  <2>0. PICK d \in Delivery : d = Mail!Now(w)
    BY <1>1, MailAtHand DEF AtMail
  <2>1. /\ rows[d] \in Mail!Row /\ rows'[d] \in Mail!Row /\ rows'[d].status = "sent"
        /\ rows'[d].attempts = rows[d].attempts /\ \A o \in Delivery \ {d} : rows'[o] = rows[o]
    BY <1>3, <2>0 DEF MailInv, MailTypes, Mail!HasRow, Mail!AsSent, Mail!Row, Mail!Status
  <2>2. \A o \in Delivery : Mail!HasRow(o)' = Mail!HasRow(o)
    BY <1>3, <2>0, <2>1, MailParameters DEF Mail!HasRow
  <2>3. \A o \in Delivery \ {d} : Mail!Settled(o)' = Mail!Settled(o) /\ \A s : Mail!Has(o, s)' = Mail!Has(o, s)
    BY <2>1, <2>2 DEF Mail!Settled, Mail!Has
  <2>4. /\ mailStep'[w] = "fail" /\ \A v \in Worker \ {w} : mailStep'[v] = mailStep[v]
        /\ \A v \in Worker : Taken(v)' = Taken(v) /\ \A o : Mail!Holds(v, o)' = Mail!Holds(v, o)
    BY <1>1 DEF MailInv, MailTypes, Taken, Mail!Holds
  <2>5. MailTypes'
    BY <1>1, <1>3, <2>0, <2>1, <2>2 DEF MailInv, MailTypes, AtMail
  <2>6. MailBatches' /\ MailSteps'
    BY <1>1, <2>4 DEF MailInv, MailBatches, MailSteps, Mail!Now, AtMail
  <2>7. MailCounts'
    BY <1>1, <2>1, <2>2, <2>3, <2>4 DEF MailInv, MailCounts, Mail!Settled, Mail!Terminal
  <2>8. MailLocks'
    BY <1>1, <1>3, <2>0, <2>1, <2>2, <2>3, <2>4 DEF MailInv, MailLocks
  <2>9. Mail!OutcomeIsTrue'
    <3>1. <<d, inHand[w].redacted>> \in mailed /\ inHand[w].redacted \in BOOLEAN
      BY <1>1, <2>0, MailAtHand DEF MailInv, MailSteps, AtMail
    <3>2. ~Mail!Has(d, "dead_letter")'
      BY <2>1 DEF Mail!Has
    <3> QED BY <1>1, <1>3, <2>3, <3>1, <3>2 DEF MailInv, Mail!OutcomeIsTrue
  <2> QED BY <2>5, <2>6, <2>7, <2>8, <2>9 DEF MailInv
<1> QED BY <1>2, <1>3 DEF Mail!MarkFails

\* The batch or its process dies.
LEMMA MailDrop ==
  ASSUME MailInv, NEW w \in Worker, Mail!BatchFails(w) \/ Mail!Crash(w)
  PROVE  MailInv'
<1>1. Mail!Drop(w) /\ UNCHANGED <<rows, expired, enqueued, overrun, lost, mailed, tries>>
  BY DEF Mail!BatchFails, Mail!Crash, Mail!table, Mail!history
<1> QED BY <1>1, MailMoves DEF Mail!Drop, AtMail

-----------------------------------------------------------------------------
\* The invariant is inductive.
LEMMA MailStep == MailInv /\ [Mail!Next]_(Mail!vars) => MailInv'
<1> SUFFICES ASSUME MailInv, [Mail!Next]_(Mail!vars) PROVE MailInv'
  OBVIOUS
<1>1. CASE UNCHANGED Mail!vars
  BY <1>1, MailStutters DEF Mail!vars, Mail!table, Mail!worker, Mail!history
<1>2. ASSUME NEW d \in Delivery, Mail!TokenExpires(d) PROVE MailInv'
  BY <1>2, MailStutters DEF Mail!TokenExpires, Mail!table, Mail!worker, Mail!history
<1>3. ASSUME NEW w \in Worker, Mail!Shutdown(w) \/ Mail!Restart(w) PROVE MailInv'
  BY <1>3, MailStutters DEF Mail!Shutdown, Mail!Restart, Mail!table, Mail!history
<1>4. ASSUME NEW w \in Worker, Mail!Dispatch(w) PROVE MailInv'
  BY <1>4, MailClaim, MailStart, MailSend, MailMarked, MailRetry, MailDead DEF Mail!Dispatch
<1> QED BY <1>1, <1>2, <1>3, <1>4, MailEnqueue, MailElapse, MailPurge, MailMarkFails, MailDrop
        DEF Mail!Next

\* Whatever stale dispatchers, retries, crashes and failed updates do: a row marked
\* sent was accepted by the provider, one given up was tried MaxAttempts times or
\* its link had expired, and nothing is mailed from a masked payload unless a batch
\* outlived the lease of that row, or the answer to the update that marked it sent
\* was lost.
THEOREM OutcomesAreTrue == Mail!Spec => []OutcomeIsTrue
<1>1. MailInv => OutcomeIsTrue
  BY DEF MailInv, OutcomeIsTrue
<1> QED BY <1>1, MailInit, MailStep, PTL DEF Mail!Spec

(***************************************************************************)
(* NotificationFeed, the items the same consumer inserts.                  *)
(***************************************************************************)

\* The stamps of an item outlive another's writing over it.
Kept(old, new) ==
  /\ Feed!Keeps(old.seenAt, new.seenAt)
  /\ Feed!Keeps(old.readAt, new.readAt)
  /\ Feed!Keeps(old.archivedAt, new.archivedAt)

\* An item exists only of an event that was handled, so no redelivery makes it anew;
\* and what a request is about to write has every stamp of what it read.
FeedInv ==
  /\ clock \in Feed!Stamp
  /\ feed \in [Event -> Feed!Item \cup {NoItem}]
  /\ target \in [Call -> Event \cup {NoEvent}] /\ loaded = [c \in Call |-> loaded[c]]
  /\ read = [c \in Call |-> read[c]]
  /\ \A e \in Event : Feed!HasItem(e) => e \in handled
  /\ \A c \in Call : target[c] # NoEvent =>
       /\ Feed!HasItem(target[c])
       /\ read[c] \in Feed!Item /\ loaded[c] \in Feed!Item /\ Kept(read[c], loaded[c])

\* The assumptions, for the provers.
LEMMA FeedParameters == MaxClock \in Nat /\ NoItem \notin Feed!Item /\ NoEvent \notin Event
BY NotificationsAssumption DEF Feed!FeedAssumption

\* A mark adds a stamp and keeps the others.
LEMMA FeedItems ==
  ASSUME NEW item \in Feed!Item, NEW at \in Feed!Stamp
  PROVE  /\ Feed!MarkedSeen(item, at) \in Feed!Item /\ Kept(item, Feed!MarkedSeen(item, at))
         /\ Feed!MarkedRead(item, at) \in Feed!Item /\ Kept(item, Feed!MarkedRead(item, at))
         /\ Feed!Archived(item, at) \in Feed!Item /\ Kept(item, Feed!Archived(item, at))
         /\ Kept(item, item)
BY FeedParameters DEF Feed!Item, Feed!MarkedSeen, Feed!MarkedRead, Feed!Archived, Feed!Stamped,
   Kept, Feed!Keeps

\* At the start.
LEMMA FeedStarts == Feed!Init => FeedInv
BY FeedParameters DEF Feed!Init, FeedInv, Feed!Stamp, Feed!HasItem

\* The invariant is inductive, and a stamp goes only where a later commit overwrites it.
LEMMA FeedStep ==
  ASSUME FeedInv, [Feed!Next]_(Feed!vars)
  PROVE  FeedInv' /\ ((\A e \in Event : Feed!KeepsStamps(e)) \/ \E c \in Call : Feed!Overwrites(c))
<1> USE FeedParameters
<1> DEFINE Goal == FeedInv' /\ ((\A e \in Event : Feed!KeepsStamps(e)) \/ \E c \in Call : Feed!Overwrites(c))
<1>0. ASSUME Feed!Tick PROVE clock' \in Feed!Stamp
  BY <1>0 DEF Feed!Tick, FeedInv, Feed!Stamp
<1>1. CASE UNCHANGED Feed!vars
  BY <1>1 DEF Feed!vars, FeedInv, Feed!HasItem, Feed!KeepsStamps, Feed!Keeps
<1>2. ASSUME NEW e \in Event, Feed!Requested(e) PROVE Goal
  <2>1. ~Feed!HasItem(e) /\ e \notin handled /\ UNCHANGED <<clock, target, loaded, read>>
    BY <1>2 DEF Feed!Requested, FeedInv
  <2>2. /\ \A o \in Event \ {e} : feed'[o] = feed[o]
        /\ feed'[e] \in {Feed!Created, feed[e]} /\ feed' \in [Event -> Feed!Item \cup {NoItem}]
    BY <1>2 DEF Feed!Requested, FeedInv, Feed!Created, Feed!Item, Feed!Stamp
  <2>3. \A o \in Event : Feed!HasItem(o)' => o \in handled'
    BY <1>2, <2>1, <2>2 DEF Feed!Requested, FeedInv, Feed!HasItem
  <2>4. FeedInv'
    BY <2>1, <2>2, <2>3 DEF FeedInv, Feed!HasItem
  <2> QED BY <2>1, <2>2, <2>4 DEF Feed!KeepsStamps, Feed!Keeps, Feed!HasItem
<1>3. ASSUME NEW c \in Call, NEW e \in Event, Feed!Load(c, e) PROVE Goal
  <2>1. PICK item \in {Feed!MarkedRead(feed[e], clock'), Feed!Archived(feed[e], clock')} :
          loaded' = [loaded EXCEPT ![c] = item]
    BY <1>3 DEF Feed!Load
  <2>2. /\ Feed!HasItem(e) /\ UNCHANGED <<feed, handled>> /\ clock' \in Feed!Stamp
        /\ target' = [target EXCEPT ![c] = e] /\ read' = [read EXCEPT ![c] = feed[e]]
    BY <1>0, <1>3 DEF Feed!Load
  <2>3. feed[e] \in Feed!Item /\ item \in Feed!Item /\ Kept(feed[e], item)
    BY <2>1, <2>2, FeedItems DEF FeedInv, Feed!HasItem
  <2>4. /\ target'[c] = e /\ read'[c] = feed[e] /\ loaded'[c] = item
        /\ \A d \in Call \ {c} : target'[d] = target[d] /\ read'[d] = read[d] /\ loaded'[d] = loaded[d]
    BY <2>1, <2>2 DEF FeedInv
  <2>5. \A d \in Call : target'[d] # NoEvent =>
          /\ Feed!HasItem(target'[d])
          /\ read'[d] \in Feed!Item /\ loaded'[d] \in Feed!Item /\ Kept(read'[d], loaded'[d])
    BY <2>2, <2>3, <2>4 DEF FeedInv
  <2>6. FeedInv'
    BY <2>1, <2>2, <2>5 DEF FeedInv, Feed!HasItem, Kept, Feed!Keeps
  <2> QED BY <2>2, <2>6 DEF Feed!KeepsStamps, Feed!Keeps
<1>4. ASSUME NEW c \in Call, Feed!Save(c) PROVE Goal
  <2>1. PICK e \in Event : e = target[c]
    BY <1>4 DEF Feed!Save, FeedInv
  <2>2. /\ Feed!HasItem(e) /\ read[c] \in Feed!Item /\ loaded[c] \in Feed!Item /\ Kept(read[c], loaded[c])
        /\ target'[c] = NoEvent /\ feed' = [feed EXCEPT ![e] = loaded[c]]
    BY <1>4, <2>1 DEF Feed!Save, FeedInv
  <2>3. FeedInv'
    <3>1. /\ clock' \in Feed!Stamp /\ feed' \in [Event -> Feed!Item \cup {NoItem}]
          /\ target' \in [Call -> Event \cup {NoEvent}] /\ loaded' = [d \in Call |-> loaded'[d]]
          /\ read' = [d \in Call |-> read'[d]]
      BY <1>4, <2>1, <2>2 DEF Feed!Save, FeedInv
    <3>2. \A o \in Event : Feed!HasItem(o)' = Feed!HasItem(o)
      BY <2>2 DEF FeedInv, Feed!HasItem
    <3>3. \A d \in Call \ {c} : target'[d] = target[d] /\ read'[d] = read[d] /\ loaded'[d] = loaded[d]
      BY <1>4 DEF Feed!Save, FeedInv
    <3>4. \A d \in Call : target'[d] # NoEvent => Feed!HasItem(target[d])'
      BY <2>2, <3>2, <3>3 DEF FeedInv, Feed!HasItem
    <3> QED BY <1>4, <2>2, <3>1, <3>2, <3>3, <3>4 DEF Feed!Save, FeedInv, Feed!HasItem, Kept,
               Feed!Keeps
  <2>4. CASE feed[e] # read[c]
    BY <1>4, <2>1, <2>2, <2>3, <2>4 DEF Feed!Save, Feed!Overwrites
  <2>5. CASE feed[e] = read[c]
    <3>1. \A o \in Event : o # e => feed'[o] = feed[o]
      BY <2>2 DEF FeedInv
    <3>2. feed'[e] = loaded[c]
      BY <2>2 DEF FeedInv
    <3> QED BY <2>2, <2>3, <2>5, <3>1, <3>2 DEF Feed!KeepsStamps, Feed!Keeps, Kept
  <2> QED BY <2>4, <2>5
<1>5. ASSUME Feed!MarkAllSeen \/ Feed!MarkAllRead PROVE Goal
  <2>1. Feed!Tick /\ UNCHANGED <<handled, target, loaded, read>>
    BY <1>5 DEF Feed!MarkAllSeen, Feed!MarkAllRead
  <2>2. /\ feed' = [e \in Event |-> feed'[e]]
        /\ \A e \in Event : \/ feed'[e] = feed[e]
                            \/ /\ Feed!HasItem(e)
                               /\ feed'[e] \in {Feed!MarkedSeen(feed[e], clock'), Feed!MarkedRead(feed[e], clock')}
    BY <1>5 DEF Feed!MarkAllSeen, Feed!MarkAllRead
  <2>3. \A e \in Event : /\ Feed!HasItem(e) => feed'[e] \in Feed!Item /\ Kept(feed[e], feed'[e])
                         /\ ~Feed!HasItem(e) => feed'[e] = feed[e]
    BY <1>0, <2>1, <2>2, FeedItems DEF FeedInv, Feed!HasItem
  <2>4. \A e \in Event : Feed!HasItem(e)' = Feed!HasItem(e)
    BY <2>3 DEF Feed!HasItem
  <2>5. FeedInv'
    <3>1. feed' \in [Event -> Feed!Item \cup {NoItem}]
      BY <2>2, <2>3 DEF FeedInv
    <3>2. \A d \in Call : target'[d] # NoEvent => Feed!HasItem(target[d])'
      BY <2>1, <2>4 DEF FeedInv, Feed!HasItem
    <3> QED BY <1>0, <2>1, <2>4, <3>1, <3>2 DEF FeedInv, Feed!HasItem, Kept, Feed!Keeps
  <2> QED BY <2>3, <2>5 DEF Feed!KeepsStamps, Kept, Feed!Keeps
<1> QED BY <1>1, <1>2, <1>3, <1>4, <1>5 DEF Feed!Next

\* However marks, archives, bulk marks and redelivered events interleave, a stamp
\* is lost only by a request that writes over what it has not read.
THEOREM StampsAreKept == Feed!Spec => StampsOutliveRequests
<1>1. Feed!Init => FeedInv
  BY FeedStarts
<1>2. FeedInv /\ [Feed!Next]_(Feed!vars) => FeedInv'
  BY FeedStep
<1>3. FeedInv /\ [Feed!Next]_(Feed!vars) =>
        [(\A e \in Event : Feed!KeepsStamps(e)) \/ \E c \in Call : Feed!Overwrites(c)]_(Feed!vars)
  BY FeedStep
<1> QED BY <1>1, <1>2, <1>3, PTL DEF Feed!Spec, Feed!StampsOutliveRequests, StampsOutliveRequests
=============================================================================
