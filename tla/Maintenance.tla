----------------------------- MODULE Maintenance -----------------------------
(***************************************************************************)
(* A maintenance job in several API processes: every attempt, by cron or   *)
(* by hand, opens a session of its own outside the pool, tries the         *)
(* advisory lock of the job there, runs the body on other connections and  *)
(* closes the session.  Sessions die, processes stop and crash; the        *)
(* database frees a lock only with its session.                            *)
(***************************************************************************)
EXTENDS Naturals

CONSTANTS
  Process,           \* API processes
  Attempt,           \* runs of the job in flight
  Host,              \* [Attempt -> Process]
  MaxLosses,         \* bound: sessions cut, processes stopped or crashed
  None

MaintenanceAssumption ==
  /\ Host \in [Attempt -> Process]
  /\ MaxLosses \in Nat
  /\ None \notin Attempt

VARIABLES
  pc,        \* [Attempt -> step of run]
  session,   \* [Attempt -> state of its dedicated client in the database]
  live,      \* attempts whose client is in the factory's `live'
  lock,      \* the attempt whose session holds the advisory lock, or None
  up,        \* [Process -> "up", "closing" or "down"]
  losses,
  cut        \* history: attempts whose session ended before their body did

jobs    == <<pc, session, live, lock>>
jobVars == <<jobs, up, losses, cut>>

Closed == {"none", "lost"}

JobTypeOK ==
  /\ pc \in [Attempt -> {"idle", "connect", "try", "leave", "body", "unlock", "end"}]
  /\ session \in [Attempt -> {"none", "open", "lost", "orphan"}]
  /\ live \subseteq Attempt
  /\ lock \in Attempt \cup {None}
  /\ up \in [Process -> {"up", "closing", "down"}]
  /\ losses \in 0..MaxLosses
  /\ cut \subseteq Attempt

JobInit ==
  /\ pc = [a \in Attempt |-> "idle"]
  /\ session = [a \in Attempt |-> "none"]
  /\ live = {}
  /\ lock = None
  /\ up = [p \in Process |-> "up"]
  /\ losses = 0
  /\ cut = {}

-----------------------------------------------------------------------------
Goes(a, step) == pc' = [pc EXCEPT ![a] = step]
Runs(a) == pc[a] = "body"

\* The database drops what a session holds when the session ends.
Freed(S) == IF lock \in S THEN None ELSE lock

\* client.end(), and the 'end' event that takes it off the factory's list.
EndSession(a) ==
  /\ session' = [session EXCEPT ![a] = "none"]
  /\ live' = live \ {a}
  /\ lock' = Freed({a})

Loss == losses < MaxLosses /\ losses' = losses + 1

-----------------------------------------------------------------------------
\* The cron of each process, or an operator.  A process that is stopping
\* still fires its timers.
Start(a) ==
  /\ pc[a] = "idle" /\ session[a] = "none"
  /\ up[Host[a]] # "down"
  /\ Goes(a, "connect")
  /\ cut' = cut \ {a}
  /\ UNCHANGED <<session, live, lock, up, losses>>

Connected(a) ==
  /\ pc[a] = "connect"
  /\ session' = [session EXCEPT ![a] = "open"]
  /\ live' = live \cup {a}
  /\ Goes(a, "try")
  /\ UNCHANGED <<lock, up, losses, cut>>

\* The client does not come up: the job is skipped.
ConnectFails(a) ==
  /\ pc[a] = "connect"
  /\ Goes(a, "idle")
  /\ UNCHANGED <<session, live, lock, up, losses, cut>>

\* Mutant of TryLock: the answer is not looked at.
TryLockUnread(a) ==
  /\ pc[a] = "try" /\ session[a] = "open"
  /\ lock' = IF lock = None THEN a ELSE lock
  /\ Goes(a, "body")
  /\ UNCHANGED <<session, live, up, losses, cut>>

\* pg_try_advisory_lock: true and the body starts, false and the job is skipped.
TryLock(a) ==
  /\ pc[a] = "try" /\ session[a] = "open"
  /\ \/ lock = None /\ lock' = a /\ Goes(a, "body")
     \/ lock # None /\ Goes(a, "leave") /\ UNCHANGED lock
  /\ UNCHANGED <<session, live, up, losses, cut>>

\* The query fails on a session that is gone.
TryLockFails(a) ==
  /\ pc[a] = "try" /\ session[a] = "lost"
  /\ Goes(a, "leave")
  /\ UNCHANGED <<session, live, lock, up, losses, cut>>

\* Mutant of BodyEnds: no finally, a body that throws is the end of the run.
BodyEndsAlone(a) ==
  /\ pc[a] = "body"
  /\ \E step \in {"unlock", "idle"} : Goes(a, step)
  /\ UNCHANGED <<session, live, lock, up, losses, cut>>

\* The body returns or throws; a job that is atomic commits or rolls back here.
BodyEnds(a) ==
  /\ pc[a] = "body"
  /\ Goes(a, "unlock")
  /\ UNCHANGED <<session, live, lock, up, losses, cut>>

\* pg_advisory_unlock on the session that took the lock; on a lost session the
\* query throws and the run counts as failed.
Unlock(a) ==
  /\ pc[a] = "unlock"
  /\ \/ /\ session[a] = "open"
        /\ lock' = Freed({a})
     \/ /\ session[a] \in Closed
        /\ UNCHANGED lock
  /\ Goes(a, "end")
  /\ UNCHANGED <<session, live, up, losses, cut>>

Leave(a) ==
  /\ pc[a] \in {"leave", "end"}
  /\ EndSession(a)
  /\ Goes(a, "idle")
  /\ UNCHANGED <<up, losses, cut>>

-----------------------------------------------------------------------------
\* The session dies: the backend is terminated, the network drops it.
SessionLost(a) ==
  /\ session[a] = "open" /\ Loss
  /\ session' = [session EXCEPT ![a] = "lost"]
  /\ live' = live \ {a}
  /\ lock' = Freed({a})
  /\ cut' = IF Runs(a) THEN cut \cup {a} ELSE cut
  /\ UNCHANGED <<pc, up>>

\* onApplicationShutdown of the factory ends the clients it lists; a job in
\* its body is not awaited, a client still connecting is not on the list.
CloseJobs(p) ==
  LET Ended == {a \in live : Host[a] = p} IN
    /\ up[p] = "up" /\ Loss
    /\ up' = [up EXCEPT ![p] = "closing"]
    /\ session' = [a \in Attempt |-> IF a \in Ended THEN "lost" ELSE session[a]]
    /\ live' = live \ Ended
    /\ lock' = Freed(Ended)
    /\ cut' = cut \cup {a \in Ended : Runs(a)}
    /\ UNCHANGED pc

\* The process is gone, at the end of its shutdown or without one: what it
\* had open is closed by the database in its own time.
ExitJobs(p) ==
  LET Here == {a \in Attempt : Host[a] = p} IN
    /\ \/ up[p] = "closing" /\ UNCHANGED losses
       \/ up[p] = "up" /\ Loss
    /\ up' = [up EXCEPT ![p] = "down"]
    /\ pc' = [a \in Attempt |-> IF a \in Here THEN "idle" ELSE pc[a]]
    /\ session' = [a \in Attempt |-> IF a \notin Here THEN session[a]
                                     ELSE IF session[a] \in {"open", "orphan"} THEN "orphan" ELSE "none"]
    /\ live' = live \ Here
    /\ cut' = cut \ Here
    /\ UNCHANGED lock

Reaped(a) ==
  /\ session[a] = "orphan"
  /\ session' = [session EXCEPT ![a] = "none"]
  /\ lock' = Freed({a})
  /\ UNCHANGED <<pc, live, up, losses, cut>>

Boot(p) ==
  /\ up[p] = "down"
  /\ up' = [up EXCEPT ![p] = "up"]
  /\ UNCHANGED <<jobs, losses, cut>>

-----------------------------------------------------------------------------
JobStep(a) == \/ Connected(a) \/ ConnectFails(a) \/ TryLock(a) \/ TryLockFails(a)
              \/ BodyEnds(a) \/ Unlock(a) \/ Leave(a) \/ Reaped(a)

\* Two bodies of one job never run at once while their sessions stand: the one
\* that was cut from its session is the only one that may find company.
OneRun == \A a, b \in Attempt : Runs(a) /\ Runs(b) /\ a # b => a \in cut \/ b \in cut

\* Every session a job opened is closed by the attempt that opened it: those
\* that stand have an attempt in progress, or a process that just died.
JobSessionsAreOwned ==
  \A a \in Attempt : session[a] = "open" => pc[a] \notin {"idle", "connect"}

\* Whatever happens to the process or the session, the lock is free again.
LockIsFreed == \A a \in Attempt : lock = a ~> lock # a
=============================================================================
