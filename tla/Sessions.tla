------------------------------ MODULE Sessions ------------------------------
(***************************************************************************)
(* The sessions outside the pool of all processes together: the jobs'      *)
(* (Maintenance) and the LISTEN client of one process (ManagedClient).     *)
(* They meet in the DedicatedClientFactory, which ends every one of a      *)
(* process at its shutdown in no order with the rest, and in the exit.     *)
(***************************************************************************)
EXTENDS Maintenance, ManagedClient

CONSTANTS
  Listener,          \* the process whose client is modelled
  MaxFaults          \* bound: losses of the two kinds together

SessionsAssumption ==
  /\ MaintenanceAssumption /\ ManagedClientAssumption
  /\ Listener \in Process /\ MaxFaults \in Nat

vars == <<jobVars, clientVars>>

Init == JobInit /\ ClientInit

Shutdown(p) ==
  /\ CloseJobs(p)
  /\ IF p = Listener THEN FactoryCloses ELSE UNCHANGED clientVars

Exit(p) ==
  /\ ExitJobs(p)
  /\ IF p = Listener THEN ClientDies ELSE UNCHANGED clientVars

\* OutboxDispatcher.onApplicationShutdown; its poll and /ready still ask.
End == up[Listener] = "closing" /\ EndCalled

Alive == up[Listener] # "down"

Moves ==
  \/ /\ \/ \E a \in Attempt : Start(a) \/ JobStep(a) \/ SessionLost(a)
        \/ \E p \in Process : Boot(p)
     /\ UNCHANGED clientVars
  \/ /\ Alive /\ (ClientStep \/ End)
     /\ UNCHANGED jobVars
  \/ \E p \in Process : Shutdown(p) \/ Exit(p)

Next == Moves /\ losses' + breaks' <= MaxFaults

Spec == Init /\ [][Next]_vars

\* An attempt goes on, and its body ends; the database reaps the sessions of
\* the dead; the poll of the outbox asks for its client every second and
\* events are delivered.
Fairness ==
  /\ \A a \in Attempt : WF_vars(JobStep(a) /\ UNCHANGED clientVars)
  /\ WF_vars(Alive /\ Rebuild /\ UNCHANGED jobVars)
  /\ WF_vars(Alive /\ Events /\ UNCHANGED jobVars)

\* Every session outside the pool has an owner: a job's has an attempt in
\* progress, and of the LISTEN client there are never two.
NoSpareSession == JobSessionsAreOwned /\ NeverTwoAlive

\* A process that is up gets its LISTEN client back, however it was lost.
ClientRecovers == up[Listener] = "up" /\ ~InUse ~> up[Listener] # "up" \/ InUse
=============================================================================
