---------------------------- MODULE MCConnections ----------------------------
(* The connections of the API to its database: those of the pool of one    *)
(* process, Transactions, and the sessions of all processes outside their  *)
(* pools, Sessions.  They share no state, and each run moves one of them.  *)
EXTENDS Transactions, TLC

CONSTANTS
  Process, Attempt, Host, Listener, MaxLosses, MaxBreaks, NoConn,
  a1, a2, p1, p2

VARIABLES
  jobStep, session, live, lock, up, losses, cut,
  conn, unheard, client, usable, phase, kept, recent, ending, closing, breaks, ended

Outside == INSTANCE Sessions WITH pc <- jobStep, held <- kept

ASSUME OutsideAssumption == Outside!SessionsAssumption

OneEach == a1 :> p1 @@ a2 :> p2

outsideVars ==
  <<jobStep, session, live, lock, up, losses, cut,
    conn, unheard, client, usable, phase, kept, recent, ending, closing, breaks, ended>>

Start == Init /\ Outside!Init

PoolSpec ==
  /\ Start /\ [][Next /\ UNCHANGED outsideVars]_<<vars, outsideVars>>
  /\ Fairness

SessionsSpec ==
  /\ Start /\ [][Outside!Next /\ UNCHANGED vars]_<<vars, outsideVars>>
  /\ Outside!Fairness

OneRun == Outside!OneRun
NoSpareSession == Outside!NoSpareSession
LockIsFreed == Outside!LockIsFreed
ClientRecovers == Outside!ClientRecovers
=============================================================================
