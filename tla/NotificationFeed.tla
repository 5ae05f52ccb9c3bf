-------------------------- MODULE NotificationFeed --------------------------
(***************************************************************************)
(* The in-app feed of one recipient: the handler that inserts items and    *)
(* the requests that mark them seen, read or archived.                     *)
(* Every transaction is READ COMMITTED: a mark or an archive reads the     *)
(* item, computes the new one in the domain entity and writes all three    *)
(* lifecycle columns back, with other transactions between its read and    *)
(* its write.  The bulk marks are one statement each.                      *)
(***************************************************************************)
EXTENDS Integers

CONSTANTS
  Event,      \* NotificationRequested events for the recipient, by event id
  InApp,      \* those whose catalog entry and preferences include `system'
  Call,       \* requests the API serves concurrently
  MaxClock,   \* bound: requests that read the clock
  NoItem, NoEvent

\* A timestamp column: 0 when it is null.
Stamp == 0 .. MaxClock
Item == [seenAt: Stamp, readAt: Stamp, archivedAt: Stamp]

\* What is assumed of the constants, by the modules that instantiate this one.
FeedAssumption ==
  /\ InApp \subseteq Event
  /\ MaxClock \in Nat
  /\ NoItem \notin Item
  /\ NoEvent \notin Event

VARIABLES
  feed,       \* [Event -> Item or NoItem]: the item an event produced
  processed,  \* events this consumer marked
  clock,
  target,     \* [Call -> Event or NoEvent]: the item a request has read
  loaded,     \* [Call -> Item or NoItem]: the entity it writes back
  read        \* history: [Call -> Item or NoItem], the item as it was read

vars == <<feed, processed, clock, target, loaded, read>>

Init ==
  /\ feed = [e \in Event |-> NoItem]
  /\ processed = {}
  /\ clock = 0
  /\ target = [c \in Call |-> NoEvent]
  /\ loaded = [c \in Call |-> NoItem]
  /\ read = [c \in Call |-> NoItem]

-----------------------------------------------------------------------------
HasItem(e) == feed[e] # NoItem
Unseen(item) == item.seenAt = 0 /\ item.archivedAt = 0
Unread(item) == item.readAt = 0 /\ item.archivedAt = 0

\* Notification.create, markSeen, markRead and archive: a stamp already there stays.
Created == [seenAt |-> 0, readAt |-> 0, archivedAt |-> 0]

Stamped(old, at) == IF old = 0 THEN at ELSE old
MarkedSeen(item, at) == [item EXCEPT !.seenAt = Stamped(@, at)]

MarkedRead(item, at) ==
  IF item.readAt # 0 THEN item
  ELSE [item EXCEPT !.readAt = at, !.seenAt = Stamped(@, at)]

\* Mutant of Archived: archiving stamps again.
ArchivedAgain(item, at) == [item EXCEPT !.archivedAt = at]

Archived(item, at) == [item EXCEPT !.archivedAt = Stamped(@, at)]

\* A request starts: it reads the clock.
Tick ==
  /\ clock < MaxClock
  /\ clock' = clock + 1

\* NotificationRequestedHandler.handle, one transaction: a redelivery is
\* dropped by markIfNew.  The nudge it leaves for after the commit changes nothing
\* here.
Requested(e) ==
  /\ e \notin processed
  /\ processed' = processed \cup {e}
  /\ feed' = IF e \in InApp THEN [feed EXCEPT ![e] = Created] ELSE feed
  /\ UNCHANGED <<clock, target, loaded, read>>

\* MarkRead and Archive, first statement: findByIdForRecipient.  An unknown or
\* foreign id is a silent no-op.  The entity is computed before any other read.
Load(c, e) ==
  /\ target[c] = NoEvent
  /\ HasItem(e)
  /\ Tick
  /\ target' = [target EXCEPT ![c] = e]
  /\ \E item \in {MarkedRead(feed[e], clock'), Archived(feed[e], clock')} :
       loaded' = [loaded EXCEPT ![c] = item]
  /\ read' = [read EXCEPT ![c] = feed[e]]
  /\ UNCHANGED <<feed, processed>>

\* ... second statement: update writes the three columns, and commits.
Save(c) ==
  /\ target[c] # NoEvent
  /\ feed' = [feed EXCEPT ![target[c]] = loaded[c]]
  /\ target' = [target EXCEPT ![c] = NoEvent]
  /\ loaded' = [loaded EXCEPT ![c] = NoItem]
  /\ read' = [read EXCEPT ![c] = NoItem]
  /\ UNCHANGED <<processed, clock>>

\* markAllSeen and markAllRead: one UPDATE of the rows that match.
MarkAllSeen ==
  /\ Tick
  /\ feed' = [e \in Event |->
       IF HasItem(e) /\ Unseen(feed[e]) THEN MarkedSeen(feed[e], clock') ELSE feed[e]]
  /\ UNCHANGED <<processed, target, loaded, read>>

MarkAllRead ==
  /\ Tick
  /\ feed' = [e \in Event |->
       IF HasItem(e) /\ Unread(feed[e]) THEN MarkedRead(feed[e], clock') ELSE feed[e]]
  /\ UNCHANGED <<processed, target, loaded, read>>

Next ==
  \/ \E e \in Event : Requested(e)
  \/ \E c \in Call : Save(c) \/ \E e \in Event : Load(c, e)
  \/ Call # {} /\ (MarkAllSeen \/ MarkAllRead)

Spec == Init /\ [][Next]_vars

-----------------------------------------------------------------------------
(* Properties *)

\* A stamp, once written, is the one that stays: what was seen, read or
\* archived does not become unseen, unread or unarchived, nor change its time.
Keeps(old, new) == old # 0 => new = old

KeepsStamps(e) ==
  HasItem(e) =>
    /\ Keeps(feed[e].seenAt, feed'[e].seenAt)
    /\ Keeps(feed[e].readAt, feed'[e].readAt)
    /\ Keeps(feed[e].archivedAt, feed'[e].archivedAt)

\* The request that ends in this step writes over something it has not read.
Overwrites(c) == target[c] # NoEvent /\ target'[c] = NoEvent /\ feed[target[c]] # read[c]

\* Only a request that overlapped another write of its item loses stamps.
StampsOutliveRequests == [][(\A e \in Event : KeepsStamps(e)) \/ \E c \in Call : Overwrites(c)]_vars
=============================================================================
