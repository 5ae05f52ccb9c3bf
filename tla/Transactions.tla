---------------------------- MODULE Transactions ----------------------------
(***************************************************************************)
(* The transaction manager over the application pool of one process: root  *)
(* transactions, savepoints, the callbacks deferred to the commit, the     *)
(* context stamped for the audit trigger, and the requests that wait for a *)
(* connection.  A nested run that joins its scope (propagation "required") *)
(* is a call like any other and has no step here.                          *)
(***************************************************************************)
EXTENDS Naturals, FiniteSets, SequencesExt

CONSTANTS
  Request,           \* what runs in the process: requests, jobs, handlers
  Anonymous,         \* those that run without a request context
  Conn,              \* connections the pool may open: DATABASE_POOL_MAX
  Write,             \* row changes, each with its onCommit callback
  MaxWaiting,        \* DATABASE_POOL_MAX_WAITING
  MaxDepth,          \* bound: scopes open in one request
  MaxFaults,         \* bound: failed commits, lost connections, crashes
  None

ASSUME TransactionsAssumption ==
  /\ Anonymous \subseteq Request
  /\ MaxWaiting \in Nat \ {0} /\ MaxDepth \in Nat \ {0} /\ MaxFaults \in Nat
  /\ None \notin Request \cup Conn

VARIABLES
  pc,        \* [Request -> step]
  held,      \* [Request -> its connection, or None]
  scopes,    \* [Request -> open scopes, the root first]
  hooks,     \* [Request -> callbacks of the committed transaction still to run]
  idle,      \* connections open and free
  fresh,     \* connections the pool has not opened
  queue,     \* requests the pool has put off, the oldest first
  ctx,       \* [Conn -> who app.audit_ctx names]
  rows,      \* changes committed
  entries,   \* audit entries committed
  ran,       \* history: callbacks run, in order
  order,     \* history: the pairs of changes of which the first was made first,
             \* or which are the same
  unhooked,  \* history: changes whose callback nobody is left to run
  faults

pool   == <<idle, fresh, queue>>
db     == <<ctx, rows, entries>>
past   == <<ran, order, unhooked>>
vars   == <<pc, held, scopes, hooks, pool, db, past, faults>>

Scope == [onCommit |-> <<>>, entries |-> {}]

Init ==
  /\ pc = [r \in Request |-> "idle"]
  /\ held = [r \in Request |-> None]
  /\ scopes = [r \in Request |-> <<>>]
  /\ hooks = [r \in Request |-> <<>>]
  /\ idle = {} /\ fresh = Conn /\ queue = <<>>
  /\ ctx = [c \in Conn |-> None]
  /\ rows = {} /\ entries = {}
  /\ ran = <<>> /\ order = {} /\ unhooked = {}
  /\ faults = 0

-----------------------------------------------------------------------------
Goes(r, step) == pc' = [pc EXCEPT ![r] = step]
Fault == faults < MaxFaults /\ faults' = faults + 1

InTransaction(r) == scopes[r] # <<>>
Depth(r) == Len(scopes[r])
Top(r) == Last(scopes[r])
Below(r) == Front(scopes[r])

Changed(r) == {e.write : e \in UNION {s.entries : s \in ToSet(scopes[r])}}
Written == rows \cup UNION {Changed(r) : r \in Request}

\* Mutant of Refused: a transaction may ask for a second connection.
RefusedOnlyWhenFull(r) == Len(queue) >= MaxWaiting

\* refuseAcquisition: from inside a transaction, or with the queue at its limit.
Refused(r) == InTransaction(r) \/ Len(queue) >= MaxWaiting

\* applyAuditContext of a transaction that begins; without a request context
\* nothing is set.
Stamp(r) == ctx' = IF r \in Anonymous THEN ctx ELSE [ctx EXCEPT ![held[r]] = r]

\* Mutant of Unstamp: set_config for the session.
UnstampNothing(r) == UNCHANGED ctx

\* set_config is local: what it set goes with the transaction.
Unstamp(r) == ctx' = [ctx EXCEPT ![held[r]] = None]

Made == {p[1] : p \in order}
Precedes(v, w) == v # w /\ <<v, w>> \in order

\* The order once w is made, after all the others.
MadeLast(w) ==
  {p \in order : w \notin {p[1], p[2]}} \cup ((Made \cup {w}) \X {w})

Entry(r, w) == [write |-> w, of |-> r, actor |-> ctx[held[r]]]

-----------------------------------------------------------------------------
(* The pool.                                                               *)

\* What pg-pool does with an acquisition: to the queue when a connection is
\* idle or none can be opened, a new connection otherwise.
Acquire(r) ==
  \/ /\ idle # {} \/ fresh = {}
     /\ queue' = Append(queue, r)
     /\ UNCHANGED <<held, idle, fresh>>
  \/ /\ idle = {} /\ fresh # {}
     /\ \E c \in fresh : fresh' = fresh \ {c} /\ held' = [held EXCEPT ![r] = c]
     /\ UNCHANGED <<idle, queue>>

\* The connection goes back; Pulse hands it on.
Returned(r) ==
  /\ held' = [held EXCEPT ![r] = None]
  /\ idle' = idle \cup {held[r]}
  /\ UNCHANGED <<fresh, queue>>

\* A broken connection is closed, and its place is free to open another.
Broken(r) ==
  /\ held' = [held EXCEPT ![r] = None]
  /\ fresh' = fresh \cup {held[r]}
  /\ UNCHANGED <<idle, queue>>

Pulse ==
  /\ queue # <<>>
  /\ \E c \in IF idle # {} THEN idle ELSE fresh :
       /\ idle' = idle \ {c} /\ fresh' = fresh \ {c}
       /\ held' = [held EXCEPT ![Head(queue)] = c]
  /\ queue' = Tail(queue)
  /\ UNCHANGED <<pc, scopes, hooks, db, past, faults>>

\* db.transaction(), or a query of its own, once it is not refused.
Ask(r, step) ==
  /\ pc[r] \in {"idle", "body"} /\ ~Refused(r)
  /\ Acquire(r)
  /\ Goes(r, step)
  /\ UNCHANGED <<scopes, hooks, db, past, faults>>

\* connectionTimeoutMillis pass: PoolSaturatedError, to a callback too.
AcquireTimeout(r) ==
  /\ \E i \in DOMAIN queue : queue[i] = r /\ queue' = RemoveAt(queue, i)
  /\ Goes(r, IF pc[r] = "hook" THEN "hooks" ELSE "idle")
  /\ hooks' = [hooks EXCEPT ![r] = IF pc[r] = "hook" THEN Tail(@) ELSE @]
  /\ ran' = IF pc[r] = "hook" THEN Append(ran, Head(hooks[r])) ELSE ran
  /\ UNCHANGED <<held, scopes, idle, fresh, db, order, unhooked, faults>>

-----------------------------------------------------------------------------
(* The transaction manager.                                                *)

\* BEGIN, and the context of the request.
Begin(r) ==
  /\ pc[r] = "begin" /\ held[r] # None
  /\ scopes' = [scopes EXCEPT ![r] = <<Scope>>]
  /\ Stamp(r)
  /\ Goes(r, "body")
  /\ UNCHANGED <<held, hooks, pool, rows, entries, past, faults>>

\* A change on the executor of the scope, the entry its trigger adds, and the
\* callback that waits for the commit.
Change(r, w) ==
  /\ pc[r] = "body" /\ w \notin Written
  /\ scopes' = [scopes EXCEPT ![r] =
       Append(Below(r), [onCommit |-> Append(Top(r).onCommit, w),
                         entries |-> Top(r).entries \cup {Entry(r, w)}])]
  /\ order' = MadeLast(w)
  /\ UNCHANGED <<pc, held, hooks, pool, db, ran, unhooked, faults>>

\* run with requires_new inside a transaction: SAVEPOINT.
Nest(r) ==
  /\ pc[r] = "body" /\ Depth(r) < MaxDepth
  /\ scopes' = [scopes EXCEPT ![r] = Append(@, Scope)]
  /\ UNCHANGED <<pc, held, hooks, pool, db, past, faults>>

\* Its scope joins the one below.
Unnested(below, top) ==
  Append(Front(below), [onCommit |-> Last(below).onCommit \o top.onCommit,
                        entries |-> Last(below).entries \cup top.entries])

NestReturns(r) ==
  /\ pc[r] = "body" /\ Depth(r) > 1
  /\ scopes' = [scopes EXCEPT ![r] = Unnested(Below(r), Top(r))]
  /\ UNCHANGED <<pc, held, hooks, pool, db, past, faults>>

\* Mutant of RolledBack: the callbacks of the savepoint outlive its changes.
RolledBackRows(below, top) ==
  Append(Front(below), [Last(below) EXCEPT !.onCommit = @ \o top.onCommit])

\* ROLLBACK TO SAVEPOINT: the scope and its callbacks are gone.
RolledBack(below, top) == below

Leaves(r) == scopes' = [scopes EXCEPT ![r] = <<>>]

\* The body throws, or the COMMIT is refused: the innermost transaction()
\* rolls back, and whoever called it goes on or throws in its turn.
Throw(r) ==
  /\ pc[r] = "body"
  /\ \/ /\ Depth(r) > 1
        /\ scopes' = [scopes EXCEPT ![r] = RolledBack(Below(r), Top(r))]
        /\ UNCHANGED <<pc, held, pool, ctx>>
     \/ /\ Depth(r) = 1
        /\ Leaves(r) /\ Returned(r) /\ Unstamp(r)
        /\ Goes(r, "idle")
  /\ UNCHANGED <<hooks, rows, entries, past, faults>>

Persist(r) ==
  /\ rows' = rows \cup {e.write : e \in Top(r).entries}
  /\ entries' = entries \cup Top(r).entries

Commit(r) ==
  /\ pc[r] = "body" /\ Depth(r) = 1
  /\ Persist(r)
  /\ Leaves(r) /\ Returned(r) /\ Unstamp(r)
  /\ hooks' = [hooks EXCEPT ![r] = Top(r).onCommit]
  /\ Goes(r, "hooks")
  /\ UNCHANGED <<past, faults>>

\* The connection breaks in the body, or in the COMMIT: which the database
\* may have done, though run rejects and no callback is called.
ConnectionLost(r) ==
  /\ pc[r] = "body" /\ Fault
  /\ \/ UNCHANGED <<rows, entries, unhooked>>
     \/ Depth(r) = 1 /\ Persist(r) /\ unhooked' = unhooked \cup Changed(r)
  /\ Leaves(r) /\ Broken(r) /\ Unstamp(r)
  /\ Goes(r, "idle")
  /\ UNCHANGED <<hooks, ran, order>>

\* Mutant of HookFails: the callbacks after one that throws are not called.
HookFailsAll(r) ==
  /\ hooks' = [hooks EXCEPT ![r] = <<>>]
  /\ UNCHANGED <<pool, held>>

\* A callback that throws is logged, and the next one is called.
HookFails(r) ==
  /\ hooks' = [hooks EXCEPT ![r] = Tail(@)]
  /\ UNCHANGED <<pool, held>>

\* runOnCommit, in the order of the pushes and outside the scope: a callback
\* does its work, fails, or asks for a connection.
RunHook(r) ==
  /\ pc[r] = "hooks" /\ hooks[r] # <<>>
  /\ \/ /\ HookFails(r)
        /\ ran' = Append(ran, Head(hooks[r]))
        /\ UNCHANGED pc
     \/ /\ ~Refused(r)
        /\ Acquire(r) /\ Goes(r, "hook")
        /\ UNCHANGED <<hooks, ran>>
  /\ UNCHANGED <<scopes, db, order, unhooked, faults>>

HooksDone(r) ==
  /\ pc[r] = "hooks" /\ hooks[r] = <<>>
  /\ Goes(r, "idle")
  /\ UNCHANGED <<held, scopes, hooks, pool, db, past, faults>>

\* A statement outside a transaction, on the connection it got: of a request,
\* with its change and the entry, or of a callback.
Query(r) ==
  /\ pc[r] \in {"query", "hook"} /\ held[r] # None
  /\ Returned(r)
  /\ \/ /\ pc[r] = "query" /\ Goes(r, "idle")
        /\ \E w \in Write \ Written :
             /\ rows' = rows \cup {w}
             /\ entries' = entries \cup {Entry(r, w)}
             /\ unhooked' = unhooked \cup {w}
        /\ UNCHANGED <<hooks, ran>>
     \/ /\ pc[r] = "query" /\ Goes(r, "idle")
        /\ UNCHANGED <<hooks, ran, rows, entries, unhooked>>
     \/ /\ pc[r] = "hook" /\ Goes(r, "hooks")
        /\ hooks' = [hooks EXCEPT ![r] = Tail(@)]
        /\ ran' = Append(ran, Head(hooks[r]))
        /\ UNCHANGED <<rows, entries, unhooked>>
  /\ UNCHANGED <<scopes, ctx, order, faults>>

\* The process dies: open transactions are rolled back, callbacks forgotten.
Crash ==
  /\ Fault
  /\ pc' = [r \in Request |-> "idle"]
  /\ held' = [r \in Request |-> None]
  /\ scopes' = [r \in Request |-> <<>>]
  /\ hooks' = [r \in Request |-> <<>>]
  /\ idle' = {} /\ fresh' = Conn /\ queue' = <<>>
  /\ ctx' = [c \in Conn |-> None]
  /\ unhooked' = unhooked \cup UNION {ToSet(hooks[r]) : r \in Request}
  /\ UNCHANGED <<rows, entries, ran, order>>

-----------------------------------------------------------------------------
Ends(r) == Depth(r) = 1 /\ (Throw(r) \/ Commit(r))
Proceeds(r) == Begin(r) \/ NestReturns(r) \/ RunHook(r) \/ HooksDone(r) \/ Query(r)

Next ==
  \/ Pulse \/ Crash
  \/ \E r \in Request :
       \/ Ask(r, "begin") \/ Ask(r, "query") \/ AcquireTimeout(r)
       \/ Nest(r) \/ Throw(r) \/ Commit(r) \/ ConnectionLost(r) \/ Proceeds(r)
       \/ \E w \in Write : Change(r, w)

Spec == Init /\ [][Next]_vars

\* A request goes on, and a body ends: it does not open savepoints for ever.
Fairness ==
  /\ WF_vars(Pulse)
  /\ \A r \in Request : WF_vars(Proceeds(r)) /\ SF_vars(Ends(r))

-----------------------------------------------------------------------------
\* A connection serves one request at a time, nobody waits for one with one in
\* its hands, and no more wait than the limit: requests in transactions cannot
\* starve each other.
HoldersNeverWait ==
  /\ \A c \in Conn : Cardinality({r \in Request : held[r] = c}) <= 1
  /\ Len(queue) <= MaxWaiting
  /\ \A r \in ToSet(queue) : held[r] = None /\ ~InTransaction(r)

\* A callback runs once, after the commit of its change however deep the
\* savepoint it was made in, and after those of the changes made before it.
HooksFollowCommit ==
  /\ ToSet(ran) \subseteq rows /\ IsInjective(ran)
  /\ \A d, e \in entries : \A i, j \in DOMAIN ran :
       d.of = e.of /\ d.write = ran[i] /\ e.write = ran[j] /\ i < j => Precedes(ran[i], ran[j])

\* The callback of every committed change is called: one that fails, or finds
\* the pool saturated, does not stop those after it.
HooksRun == \A w \in Write : w \in rows ~> w \in ToSet(ran) \cup unhooked

\* The entry of a change names who made it or nobody, whoever had the
\* connection before; every committed change has one, made in a transaction
\* with a context it names its maker.
AuditNamesTheMaker ==
  /\ \A w \in rows : \E e \in entries : e.write = w
  /\ \A e \in entries : e.actor \in {e.of, None}
  /\ \A e \in entries : e.write \notin unhooked /\ e.of \notin Anonymous => e.actor = e.of
=============================================================================
