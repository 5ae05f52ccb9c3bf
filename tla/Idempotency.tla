---------------------------- MODULE Idempotency ----------------------------
(***************************************************************************)
(* The Idempotency-Key interceptor of the API kernel, for the requests     *)
(* that carry one key in one scope: every statement addresses one row of   *)
(* idempotency_keys, so keys do not interact.  A request is one delivery   *)
(* of the client's call (a retry is another request), served by any of the *)
(* API processes; its payload stands for the hash of method, path and body.*)
(* Each action is one statement, or the handler between two of them.       *)
(*                                                                         *)
(* Time is abstracted to what the statements compare: the row is `expired' *)
(* when its expires_at is before Postgres' now().                          *)
(***************************************************************************)
EXTENDS Integers

CONSTANTS
  Request,
  Hash,
  PayloadHash,  \* [Request -> Hash], hashRequest
  MaxCrashes,   \* bound: requests cut short by the death of their process
  MaxFaults,    \* bound: failed statements
  NoRow, NoRequest

Status == {"in_progress", "completed", "failed"}

\* A snapshot is named by the request whose execution produced the response.
Row == [requestHash: Hash, status: Status, response: Request \cup {NoRequest},
        expired: BOOLEAN]

\* What is assumed of them, by the modules that instantiate this one.
IdempotencyAssumption ==
  /\ PayloadHash \in [Request -> Hash]
  /\ MaxCrashes \in Nat
  /\ MaxFaults \in Nat
  /\ NoRow \notin Row
  /\ NoRequest \notin Request

VARIABLES
  row,      \* the key's row of idempotency_keys, or NoRow
  pc,       \* [Request -> where process/execute is]
  answer,   \* [Request -> Request or NoRequest]: whose response r was given
  crashes, faults,
  effects,  \* history: effects committed since the key was last reserved
  outlived  \* history: the row expired while a request was being served

vars == <<row, pc, answer, crashes, faults, effects, outlived>>

\* Where a request may stand once it runs the handler, and while it is served.
Executing == {"execute", "save", "reject", "fail"}
Served    == {"select", "reopen"} \cup Executing

TypeOK ==
  /\ row \in Row \cup {NoRow}
  /\ pc \in [Request -> {"sent", "done"} \cup Served]
  /\ answer \in [Request -> Request \cup {NoRequest}]
  /\ crashes \in Nat
  /\ faults \in Nat
  /\ effects \in Nat
  /\ outlived \in BOOLEAN

Init ==
  /\ row = NoRow
  /\ pc = [r \in Request |-> "sent"]
  /\ answer = [r \in Request |-> NoRequest]
  /\ crashes = 0
  /\ faults = 0
  /\ effects = 0
  /\ outlived = FALSE

-----------------------------------------------------------------------------
Goto(r, step) == pc' = [pc EXCEPT ![r] = step]

\* The response the client reads: the one of x, or an error when there is none.
Answer(r, x) ==
  /\ Goto(r, "done")
  /\ answer' = [answer EXCEPT ![r] = x]

HasRow == row # NoRow

Reserved(h) == [requestHash |-> h, status |-> "in_progress",
                response |-> NoRequest, expired |-> FALSE]

\* The columns reopen and complete set.
Reopened(old)              == [old EXCEPT !.status = "in_progress", !.response = NoRequest]
Closed(old, status, reply) == [old EXCEPT !.status = status, !.response = reply]

\* tryReserve, INSERT ... ON CONFLICT DO UPDATE WHERE expires_at < now(): the
\* key is reserved when it is free or expired, else its row is left alone.
Reserve(r) ==
  /\ pc[r] = "sent"
  /\ IF ~HasRow \/ row.expired
     THEN /\ row' = Reserved(PayloadHash[r])
          /\ effects' = 0
          /\ Goto(r, "execute")
     ELSE /\ Goto(r, "select")
          /\ UNCHANGED <<row, effects>>
  /\ UNCHANGED <<answer, crashes, faults, outlived>>

\* Mutant of Inspect: the payload of the two requests is not compared.
InspectAnyPayload(r) ==
  /\ pc[r] = "select"
  /\ \/ HasRow /\ row.status = "in_progress" /\ Answer(r, NoRequest)
     \/ HasRow /\ row.status = "completed" /\ Answer(r, row.response)
     \/ (HasRow => row.status = "failed") /\ Goto(r, "reopen") /\ UNCHANGED answer
  /\ UNCHANGED <<row, crashes, faults, effects, outlived>>

\* tryReserve's second statement reads the row that was in the way, and
\* process decides on what it read: 422 for another payload, 409 while in
\* progress, the snapshot once completed, and an attempt to reopen after a
\* failure.  A row deleted meanwhile reads as a key that was reserved.
Inspect(r) ==
  /\ pc[r] = "select"
  /\ \/ ~HasRow /\ Goto(r, "execute") /\ UNCHANGED answer
     \/ HasRow /\ row.requestHash # PayloadHash[r] /\ Answer(r, NoRequest)
     \/ /\ HasRow /\ row.requestHash = PayloadHash[r]
        /\ \/ row.status = "in_progress" /\ Answer(r, NoRequest)
           \/ row.status = "completed" /\ Answer(r, row.response)
           \/ row.status = "failed" /\ Goto(r, "reopen") /\ UNCHANGED answer
  /\ UNCHANGED <<row, crashes, faults, effects, outlived>>

\* Mutant of Reopen: without the predicate on the status.
ReopenUnchecked(r) ==
  /\ pc[r] = "reopen"
  /\ HasRow
  /\ row' = Reopened(row)
  /\ Goto(r, "execute")
  /\ UNCHANGED <<answer, crashes, faults, effects, outlived>>

\* reopen: UPDATE ... WHERE status = 'failed'; the loser gets a 409.
Reopen(r) ==
  /\ pc[r] = "reopen"
  /\ \/ /\ HasRow /\ row.status = "failed"
        /\ row' = Reopened(row)
        /\ Goto(r, "execute")
        /\ UNCHANGED answer
     \/ /\ ~(HasRow /\ row.status = "failed")
        /\ Answer(r, NoRequest)
        /\ UNCHANGED row
  /\ UNCHANGED <<crashes, faults, effects, outlived>>

\* The handler's own transaction commits and it returns.
HandlerCommits(r) ==
  /\ pc[r] = "execute"
  /\ effects' = effects + 1
  /\ Goto(r, "save")
  /\ UNCHANGED <<row, answer, crashes, faults, outlived>>

\* The handler throws on a COMMIT whose answer was lost: its effect stands.
HandlerInDoubt(r) ==
  /\ pc[r] = "execute"
  /\ faults < MaxFaults
  /\ faults' = faults + 1
  /\ effects' = effects + 1
  /\ Goto(r, "fail")
  /\ UNCHANGED <<row, answer, crashes, outlived>>

\* It rolls back: with an HTTP status below 500 (reject), or anything else (fail).
HandlerThrows(r) ==
  /\ pc[r] = "execute"
  /\ \E step \in {"reject", "fail"} : Goto(r, step)
  /\ UNCHANGED <<row, answer, crashes, faults, effects, outlived>>

\* Mutant of Snapshot: a success is recorded as a failure.
SnapshotAsFailed(r) ==
  row' = IF HasRow THEN Closed(row, "failed", NoRequest) ELSE row

\* complete: UPDATE ... WHERE scope, key, whoever owns the row by now.  A
\* response below 500 closes the key, another one leaves it to be reopened.
Snapshot(r) ==
  row' = IF ~HasRow THEN row
         ELSE IF pc[r] = "fail" THEN Closed(row, "failed", NoRequest)
         ELSE Closed(row, "completed", r)

\* The snapshot is written, after the handler's commit and apart from it.
Complete(r) ==
  /\ pc[r] \in {"save", "reject", "fail"}
  /\ Snapshot(r)
  /\ Answer(r, IF pc[r] = "fail" THEN NoRequest ELSE r)
  /\ UNCHANGED <<crashes, faults, effects, outlived>>

\* The write fails, or is committed and its answer lost.  After a success the catch
\* takes the error for one of the handler and writes `failed', over the snapshot if
\* it is there; in the catch itself the error goes to the client.
CompleteFails(r) ==
  /\ pc[r] \in {"save", "reject", "fail"}
  /\ faults < MaxFaults
  /\ faults' = faults + 1
  /\ IF pc[r] = "save"
     THEN Goto(r, "fail") /\ UNCHANGED answer
     ELSE Answer(r, NoRequest)
  /\ UNCHANGED row \/ Snapshot(r)
  /\ UNCHANGED <<crashes, effects, outlived>>

\* The process serving r dies, between any two steps.
Crash(r) ==
  /\ pc[r] \in Served
  /\ crashes < MaxCrashes
  /\ crashes' = crashes + 1
  /\ Answer(r, NoRequest)
  /\ UNCHANGED <<row, faults, effects, outlived>>

\* now() passes expires_at.  reopen does not move expires_at, so nothing but
\* the duration of requests keeps a row from expiring under one.
Expire ==
  /\ HasRow
  /\ ~row.expired
  /\ row' = [row EXCEPT !.expired = TRUE]
  /\ outlived' = (outlived \/ \E r \in Request : pc[r] \in Served)
  /\ UNCHANGED <<pc, answer, crashes, faults, effects>>

\* Mutant of PurgeExpired: only completed keys are deleted.
PurgeCompleted ==
  /\ HasRow
  /\ row.expired
  /\ row.status = "completed"
  /\ row' = NoRow
  /\ UNCHANGED <<pc, answer, crashes, faults, effects, outlived>>

\* The nightly cleanup, deleteExpired.
PurgeExpired ==
  /\ HasRow
  /\ row.expired
  /\ row' = NoRow
  /\ UNCHANGED <<pc, answer, crashes, faults, effects, outlived>>

-----------------------------------------------------------------------------
Serve(r) ==
  \/ Reserve(r)
  \/ Inspect(r)
  \/ Reopen(r)
  \/ HandlerCommits(r)
  \/ HandlerThrows(r)
  \/ Complete(r)

Next ==
  \/ \E r \in Request :
       \/ Serve(r)
       \/ HandlerInDoubt(r)
       \/ CompleteFails(r)
       \/ Crash(r)
  \/ Expire
  \/ PurgeExpired

Spec == Init /\ [][Next]_vars

\* A request that is being served goes on, time passes and the nightly cleanup
\* runs; nobody has to send a request.
Fairness ==
  /\ \A r \in Request : WF_vars(pc[r] \in Served /\ Serve(r))
  /\ WF_vars(Expire)
  /\ WF_vars(PurgeExpired)

FairSpec == Spec /\ Fairness

-----------------------------------------------------------------------------
(* Properties *)

\* As long as no request has outlived the row it was served under, the handler
\* runs for one request of the key at a time: neither the gap between
\* tryReserve's two statements nor two retries of a failed request that race to
\* reopen it let a second one in.
OneExecution ==
  ~outlived => \A r, s \in Request : pc[r] \in Executing /\ pc[s] \in Executing => r = s

\* While the key lives its effect is committed once, whatever was retried and
\* wherever a process died, if no request outlived it, no write of a snapshot
\* failed and no answer to a statement was lost.
NoRepeatedEffect == ~outlived /\ faults = 0 /\ HasRow /\ ~row.expired => effects <= 1

\* A client is answered with a response to the payload it sent, its own or a
\* replayed one, unless a request outlived the key it was served under.
AnswersMatchPayload ==
  ~outlived => \A r \in Request : answer[r] # NoRequest => PayloadHash[answer[r]] = PayloadHash[r]

\* Said of a key that is used with another payload: it is refused, never
\* answered with the response to the first.
PayloadsAreToldApart ==
  \A r \in Request : answer[r] # NoRequest => PayloadHash[answer[r]] = PayloadHash[r]

\* A completed snapshot is what every retry is given until the key expires: no
\* writer changes it but one that outlived its own reservation, or the one that
\* wrote it and lost the answer, whose catch turns it into a failure to be retried.
SnapshotIsStable ==
  [][~outlived' /\ HasRow /\ row.status = "completed" /\ ~row.expired =>
       \/ row' \in {row, [row EXCEPT !.expired = TRUE]}
       \/ pc[row.response] = "fail" /\ row' = Closed(row, "failed", NoRequest)]_vars

\* A key whose process died in the middle does not stay in progress for ever.
Orphan == HasRow /\ row.status = "in_progress" /\ \A r \in Request : pc[r] \notin Executing

OrphanIsReclaimed == Orphan ~> ~Orphan
=============================================================================
