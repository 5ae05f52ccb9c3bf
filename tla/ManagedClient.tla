---------------------------- MODULE ManagedClient ----------------------------
(***************************************************************************)
(* The long-lived dedicated client of one process (the outbox's LISTEN, or *)
(* the readiness probe): it is rebuilt by whoever asks for it once it was  *)
(* lost, and ended at shutdown.  Each action runs up to the next await.    *)
(***************************************************************************)
EXTENDS Naturals

CONSTANTS
  Conn,              \* connections, reused once they are dead
  MaxBreaks,         \* bound: connections lost, refused, in error or not prepared
  NoConn

ManagedClientAssumption == NoConn \notin Conn /\ MaxBreaks \in Nat

VARIABLES
  conn,      \* [Conn -> state in the database]
  unheard,   \* connections whose 'end' event has not been handled
  client,    \* this.client
  usable,    \* this.usable
  phase,     \* where this.connecting is, "no" when it is null
  held,      \* the connection connect() waits for: the old one, then the new one
  recent,    \* this.lastFailure is less than RECONNECT_BACKOFF_MS old
  ending,    \* step of end()
  closing,   \* the connection end() waits for
  breaks,
  ended      \* history: end() was called

clientVars == <<conn, unheard, client, usable, phase, held, recent, ending, closing, breaks, ended>>

ClientTypeOK ==
  /\ conn \in [Conn -> {"dead", "open", "closing"}]
  /\ unheard \subseteq Conn
  /\ client \in Conn \cup {NoConn} /\ held \in Conn \cup {NoConn} /\ closing \in Conn \cup {NoConn}
  /\ usable \in BOOLEAN /\ recent \in BOOLEAN /\ ended \in BOOLEAN
  /\ phase \in {"no", "drop", "create", "ready", "undo"}
  /\ ending \in {"no", "wait", "drop", "done"}
  /\ breaks \in 0..MaxBreaks

ClientInit ==
  /\ conn = [c \in Conn |-> "dead"]
  /\ unheard = {}
  /\ client = NoConn /\ usable = FALSE
  /\ phase = "no" /\ held = NoConn
  /\ recent = FALSE
  /\ ending = "no" /\ closing = NoConn
  /\ breaks = 0
  /\ ended = FALSE

-----------------------------------------------------------------------------
Break == breaks < MaxBreaks /\ breaks' = breaks + 1

\* client.end(): the session closes some time after.
Ending(c) == IF c = NoConn THEN conn ELSE [conn EXCEPT ![c] = IF @ = "open" THEN "closing" ELSE @]
Gone(c) == c \in Conn => conn[c] = "dead"

\* ensure() hands out the client in use.
Handed == client # NoConn /\ usable /\ UNCHANGED clientVars

\* ensure() when there is nothing to hand out: connect() up to the await of
\* drop('reconexao').
Ensure ==
  /\ ~(client # NoConn /\ usable)
  /\ ~recent
  /\ phase = "no"
  /\ phase' = "drop"
  /\ held' = client
  /\ conn' = Ending(client)
  /\ client' = NoConn /\ usable' = FALSE
  /\ UNCHANGED <<unheard, recent, ending, closing, breaks, ended>>

\* Mutant of Dropped: connect() does not wait for drop('reconexao').
DroppedAtOnce ==
  /\ phase = "drop"
  /\ phase' = "create" /\ held' = NoConn
  /\ UNCHANGED <<conn, unheard, client, usable, recent, ending, closing, breaks, ended>>

\* The connection that was lost, or whose session stood all the while, is gone.
Dropped ==
  /\ phase = "drop" /\ Gone(held)
  /\ phase' = "create" /\ held' = NoConn
  /\ UNCHANGED <<conn, unheard, client, usable, recent, ending, closing, breaks, ended>>

\* factory.create, the listeners, and onReady up to its await.
Created ==
  /\ phase = "create"
  /\ \E c \in Conn :
       /\ conn[c] = "dead" /\ c \notin unheard
       /\ conn' = [conn EXCEPT ![c] = "open"]
       /\ client' = c /\ held' = c
  /\ usable' = TRUE
  /\ phase' = "ready"
  /\ UNCHANGED <<unheard, recent, ending, closing, breaks, ended>>

CreateFails ==
  /\ phase = "create" /\ Break
  /\ phase' = "no" /\ recent' = TRUE
  /\ UNCHANGED <<conn, unheard, client, usable, held, ending, closing, ended>>

\* onReady returns: the connection is handed out, lost meanwhile or not.
Ready ==
  /\ phase = "ready"
  /\ phase' = "no" /\ held' = NoConn
  /\ recent' = FALSE
  /\ UNCHANGED <<conn, unheard, client, usable, ending, closing, breaks, ended>>

\* onReady throws: drop('preparacao falhou') up to its await.
ReadyFails ==
  /\ phase = "ready"
  /\ IF conn[held] = "open" THEN Break ELSE UNCHANGED breaks
  /\ phase' = "undo"
  /\ held' = client
  /\ conn' = Ending(client)
  /\ client' = NoConn /\ usable' = FALSE
  /\ UNCHANGED <<unheard, recent, ending, closing, ended>>

Undone ==
  /\ phase = "undo" /\ Gone(held)
  /\ phase' = "no" /\ held' = NoConn
  /\ recent' = TRUE
  /\ UNCHANGED <<conn, unheard, client, usable, ending, closing, breaks, ended>>

\* RECONNECT_BACKOFF_MS pass.
BackoffEnds ==
  /\ recent
  /\ recent' = FALSE
  /\ UNCHANGED <<conn, unheard, client, usable, phase, held, ending, closing, breaks, ended>>

-----------------------------------------------------------------------------
\* A connection dies under the process, or closes as asked.
Lost(c) ==
  /\ conn[c] = "open" /\ Break
  /\ conn' = [conn EXCEPT ![c] = "dead"]
  /\ unheard' = unheard \cup {c}
  /\ UNCHANGED <<client, usable, phase, held, recent, ending, closing, ended>>

Closes(c) ==
  /\ conn[c] = "closing"
  /\ conn' = [conn EXCEPT ![c] = "dead"]
  /\ unheard' = IF c = client THEN unheard \cup {c} ELSE unheard
  /\ UNCHANGED <<client, usable, phase, held, recent, ending, closing, breaks, ended>>

\* Mutant of Invalidate: the event of a lost connection is not listened to.
InvalidateNothing(c) ==
  /\ c \in unheard
  /\ unheard' = unheard \ {c}
  /\ UNCHANGED <<conn, client, usable, phase, held, recent, ending, closing, breaks, ended>>

\* The 'end' event of a dead connection, or its 'error': only of the client in use.
Invalidate(c) ==
  /\ c \in unheard
  /\ unheard' = unheard \ {c}
  /\ usable' = (usable /\ client # c)
  /\ UNCHANGED <<conn, client, phase, held, recent, ending, closing, breaks, ended>>

\* An 'error' event while the session stands, or is still closing: the client is
\* not handed out any more, and the next connect() has a live session to end.
Errs(c) ==
  /\ conn[c] # "dead" /\ c = client /\ usable
  /\ Break
  /\ usable' = FALSE
  /\ UNCHANGED <<conn, unheard, client, phase, held, recent, ending, closing, ended>>

\* end(): waits for a connection in progress, then drops what there is.
EndCalled ==
  /\ ending = "no"
  /\ ended' = TRUE
  /\ ending' = "wait"
  /\ UNCHANGED <<conn, unheard, client, usable, phase, held, recent, closing, breaks>>

EndDrops ==
  /\ ending = "wait" /\ phase = "no"
  /\ ending' = "drop"
  /\ closing' = client
  /\ conn' = Ending(client)
  /\ client' = NoConn /\ usable' = FALSE
  /\ UNCHANGED <<unheard, phase, held, recent, breaks, ended>>

EndReturns ==
  /\ ending = "drop" /\ Gone(closing)
  /\ ending' = "done" /\ closing' = NoConn
  /\ recent' = FALSE
  /\ UNCHANGED <<conn, unheard, client, usable, phase, held, breaks, ended>>

-----------------------------------------------------------------------------
Rebuild == Ensure \/ Dropped \/ Created \/ Ready \/ Undone \/ BackoffEnds
Events  == \E c \in Conn : Closes(c) \/ Invalidate(c)

\* onApplicationShutdown of the factory: every client it lists is ended.
FactoryCloses ==
  /\ conn' = [c \in Conn |-> IF conn[c] = "open" THEN "closing" ELSE conn[c]]
  /\ UNCHANGED <<unheard, client, usable, phase, held, recent, ending, closing, breaks, ended>>

\* The process is gone.
ClientDies ==
  /\ conn' = [c \in Conn |-> "dead"]
  /\ unheard' = {}
  /\ client' = NoConn /\ usable' = FALSE
  /\ phase' = "no" /\ held' = NoConn
  /\ recent' = FALSE
  /\ ending' = "no" /\ closing' = NoConn
  /\ ended' = FALSE
  /\ UNCHANGED breaks

ClientStep ==
  \/ Handed \/ Rebuild \/ CreateFails \/ ReadyFails
  \/ Events \/ \E c \in Conn : Lost(c) \/ Errs(c)
  \/ EndDrops \/ EndReturns

InUse == usable /\ conn[client] = "open"

\* Never two of them: the old one is ended before the new one is created.
\* end() gives up this order, as a request after it may connect again at once.
NeverTwoAlive == ended \/ \A c, d \in Conn : conn[c] # "dead" /\ conn[d] # "dead" => c = d
=============================================================================
