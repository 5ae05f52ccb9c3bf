----------------------------- MODULE Attachments -----------------------------
(***************************************************************************)
(* The attachment module: the table of attachments and the object storage, *)
(* which no transaction spans.  Requests upload a batch (objects first,    *)
(* then rows), confirm pending rows, replace an avatar or delete; the      *)
(* purge collects rows left pending for a day.  Each action is one call to *)
(* the storage or one transaction; a delete reads and writes in two.       *)
(* A request refused before it changes anything is a step back to idle.    *)
(***************************************************************************)
EXTENDS Integers, FiniteSets

CONSTANTS
  Request,           \* requests in flight
  Uploading, Confirming, Posing, Deleting,
                     \* bound: the requests that may be each of the operations
  Process,           \* API processes
  Home,              \* [Request -> Process]
  Attachment,        \* ids, numbers in the order of the ULIDs; also the keys
  MaxBytes,          \* profile.maxBytes
  MaxTotalBytes,     \* profile.maxTotalBytes
  MaxFiles,          \* profile.maxFiles
  MaxConcurrent,     \* ATTACHMENT_MAX_CONCURRENT_UPLOADS
  PendingQuota,      \* ATTACHMENT_PENDING_QUOTA_BYTES
  MaxFaults,         \* bound: crashes, storage and database failures
  NoRow, None

Row == [status: {"pending", "ready", "deleted"}, profile: {"multi", "avatar"}, size: Nat]

ASSUME AttachmentsAssumption ==
  /\ Attachment \subseteq Nat
  /\ Home \in [Request -> Process] /\ IsFiniteSet(Process)
  /\ MaxBytes \in Nat \ {0} /\ MaxTotalBytes \in Nat \ {0} /\ MaxFiles \in Nat \ {0}
  /\ MaxConcurrent \in Nat /\ PendingQuota \in Nat /\ MaxFaults \in Nat
  /\ Uploading \cup Confirming \cup Posing \cup Deleting \subseteq Request
  /\ NoRow \notin Row
  /\ None \notin Attachment

VARIABLES
  rows,      \* [Attachment -> Row or NoRow]: attachments and their ACL
  objects,   \* [Attachment -> Nat]: bytes stored under its key, 0 for no object
  avatar,    \* users.avatar_attachment_id of the user
  used,      \* ids already drawn
  stale,     \* rows that were still pending STALE_AFTER_HOURS after their creation
  pc,        \* [Request -> step]
  keys,      \* [Request -> SUBSET Attachment]: storedKeys, the ids to confirm
  done,      \* [Request -> SUBSET Attachment]: uploaded, the ids with an object
  total,     \* [Request -> Nat]: batchBytes, the bytes of the ids of done
  target,    \* [Request -> Attachment or None]: the one to insert or delete
  previous,  \* [Request -> Attachment or None]: previousAvatarId
  gate,      \* [Process -> Nat]: UploadGate
  sweeping,  \* the job runs
  picked,    \* ids the job selected
  left,      \* those whose object it has not tried to delete yet
  faults,
  waived,    \* history: attachments somebody asked to delete, or whose COMMIT
             \* was not acknowledged
  putBack    \* history: a stale save of the user put an old avatar back

world   == <<rows, objects, avatar, used>>
local   == <<pc, keys, done, total, target, previous>>
job     == <<sweeping, picked, left>>
history == <<waived, putBack>>
vars    == <<world, stale, local, gate, job, faults, history>>

Init ==
  /\ rows = [a \in Attachment |-> NoRow]
  /\ objects = [a \in Attachment |-> 0]
  /\ avatar = None
  /\ used = {} /\ stale = {}
  /\ pc = [r \in Request |-> "idle"]
  /\ keys = [r \in Request |-> {}] /\ done = [r \in Request |-> {}]
  /\ total = [r \in Request |-> 0]
  /\ target = [r \in Request |-> None] /\ previous = [r \in Request |-> None]
  /\ gate = [p \in Process |-> 0]
  /\ sweeping = FALSE /\ picked = {} /\ left = {}
  /\ faults = 0
  /\ waived = {} /\ putBack = FALSE

-----------------------------------------------------------------------------
HasRow(a) == rows[a] # NoRow
Has(a, status) == HasRow(a) /\ rows[a].status = status
Served(a) == Has(a, "ready")
Pending == {a \in Attachment : Has(a, "pending")}

\* The sum of the sizes, counted byte by byte.
Bytes(ids, size) == UNION {{a} \X (1..size[a]) : a \in ids}
TotalSize(ids, size) == Cardinality(Bytes(ids, size))

PendingBytes == TotalSize(Pending, [a \in Pending |-> rows[a].size])

\* ulid(): an id nobody drew.
Fresh == {a \in Attachment : a \notin used /\ \A b \in Attachment : b < a => b \in used}

NewRow(a, status, profile) == [status |-> status, profile |-> profile, size |-> objects[a]]

\* UPDATE ... WHERE id IN: rows that are gone stay gone.
AsReady(ids) ==
  [a \in Attachment |-> IF a \in ids /\ HasRow(a) THEN [rows[a] EXCEPT !.status = "ready"]
                                                  ELSE rows[a]]

Fault == faults < MaxFaults /\ faults' = faults + 1

\* The request ends: its local state is gone.
Ends(r) ==
  /\ pc' = [pc EXCEPT ![r] = "idle"]
  /\ keys' = [keys EXCEPT ![r] = {}] /\ done' = [done EXCEPT ![r] = {}]
  /\ total' = [total EXCEPT ![r] = 0]
  /\ target' = [target EXCEPT ![r] = None] /\ previous' = [previous EXCEPT ![r] = None]

Goes(r, step) == pc' = [pc EXCEPT ![r] = step]

Release(r) == gate' = [gate EXCEPT ![Home[r]] = @ - 1]

-----------------------------------------------------------------------------
(* A batch: the objects of the files first, then their rows, all or none.   *)

\* The slot and the pending quota.  A chunked body declares no length; the
\* quota is read before the body comes and never again.
Admit(r) ==
  /\ pc[r] = "idle" /\ r \in Uploading
  /\ gate[Home[r]] < MaxConcurrent
  /\ \E declared \in 0..MaxTotalBytes : PendingBytes + declared <= PendingQuota
  /\ gate' = [gate EXCEPT ![Home[r]] = @ + 1]
  /\ Goes(r, "body")
  /\ UNCHANGED <<world, stale, keys, done, total, target, previous, job, faults, history>>

\* Mutant of Allowance: each file may be as large as one may.
AllowanceOfFile(r) == MaxBytes

Allowance(r) ==
  LET rest == MaxTotalBytes - total[r] IN IF MaxBytes < rest THEN MaxBytes ELSE rest

\* A file of the body within its allowance reaches the storage.
PutFile(r) ==
  /\ pc[r] = "body"
  /\ Cardinality(done[r]) < MaxFiles
  /\ \E a \in Fresh, size \in 1..Allowance(r) :
       /\ objects' = [objects EXCEPT ![a] = size]
       /\ used' = used \cup {a}
       /\ keys' = [keys EXCEPT ![r] = @ \cup {a}]
       /\ done' = [done EXCEPT ![r] = @ \cup {a}]
       /\ total' = [total EXCEPT ![r] = @ + size]
  /\ UNCHANGED <<rows, avatar, stale, pc, target, previous, gate, job, faults, history>>

\* Mutant of PutFileFails: the key is kept only of an object that was stored.
PutFileFailsUnkept(r) ==
  /\ pc[r] = "body"
  /\ \E a \in Fresh, size \in 0..MaxBytes :
       /\ objects' = [objects EXCEPT ![a] = size]
       /\ used' = used \cup {a}
  /\ Goes(r, "discard")
  /\ UNCHANGED <<rows, avatar, stale, keys, done, total, target, previous, gate, job, faults, history>>

\* The file is over its allowance, the body stops or the storage refuses or
\* times out: the object may be there all the same.
PutFileFails(r) ==
  /\ pc[r] = "body"
  /\ \E a \in Fresh, size \in 0..MaxBytes :
       /\ objects' = [objects EXCEPT ![a] = size]
       /\ used' = used \cup {a}
       /\ keys' = [keys EXCEPT ![r] = @ \cup {a}]
  /\ Goes(r, "discard")
  /\ UNCHANGED <<rows, avatar, stale, done, total, target, previous, gate, job, faults, history>>

\* One file too many, a file that is not the image it says, a broken body or
\* an empty one: nothing more is stored.
BodyFails(r) ==
  /\ pc[r] = "body"
  /\ Goes(r, "discard")
  /\ UNCHANGED <<world, stale, keys, done, total, target, previous, gate, job, faults, history>>

InsertRows(r) ==
  rows' = [a \in Attachment |-> IF a \in done[r] THEN NewRow(a, "pending", "multi") ELSE rows[a]]

InsertBatch(r) ==
  /\ pc[r] = "body"
  /\ done[r] # {}
  /\ InsertRows(r)
  /\ Ends(r) /\ Release(r)
  /\ UNCHANGED <<objects, avatar, used, stale, job, faults, history>>

\* The transaction fails, or commits and the connection drops before saying so.
InsertBatchFails(r) ==
  /\ pc[r] = "body"
  /\ done[r] # {}
  /\ Fault
  /\ Goes(r, "discard")
  /\ \/ UNCHANGED <<rows, waived>>
     \/ InsertRows(r) /\ waived' = waived \cup done[r]
  /\ UNCHANGED <<objects, avatar, used, stale, keys, done, total, target, previous, gate, job, putBack>>

\* discard: every stored key, whatever the outcome of each.
Discard(r) ==
  /\ pc[r] = "discard"
  /\ \/ /\ objects' = [a \in Attachment |-> IF a \in keys[r] THEN 0 ELSE objects[a]]
        /\ UNCHANGED faults
     \/ /\ Fault
        /\ UNCHANGED objects
  /\ Ends(r) /\ Release(r)
  /\ UNCHANGED <<rows, avatar, used, stale, job, history>>

-----------------------------------------------------------------------------
(* The confirmation: a read, one head per object, one blind write.          *)

FindPending(r) ==
  /\ pc[r] = "idle" /\ r \in Confirming
  /\ \E ids \in SUBSET {a \in Attachment : Has(a, "pending") /\ rows[a].profile = "multi"} :
       /\ ids # {} /\ Cardinality(ids) <= MaxFiles
       /\ keys' = [keys EXCEPT ![r] = ids]
  /\ Goes(r, "head")
  /\ UNCHANGED <<world, stale, done, total, target, previous, gate, job, faults, history>>

\* storage.head, one after the other: the object is there.
Head(r) ==
  /\ pc[r] = "head"
  /\ \E a \in keys[r] \ done[r] :
       /\ \A b \in keys[r] \ done[r] : a <= b
       /\ objects[a] > 0
       /\ done' = [done EXCEPT ![r] = @ \cup {a}]
       /\ total' = [total EXCEPT ![r] = @ + objects[a]]
       /\ Goes(r, IF done'[r] = keys[r] THEN "save" ELSE "head")
  /\ UNCHANGED <<world, stale, keys, target, previous, gate, job, faults, history>>

\* An object is missing, the storage does not answer, or the sum of the files
\* is over the profile's total.
ConfirmFails(r) ==
  /\ pc[r] \in {"head", "save"}
  /\ Ends(r)
  /\ UNCHANGED <<world, stale, gate, job, faults, history>>

SaveReady(r) ==
  /\ pc[r] = "save"
  /\ total[r] <= MaxTotalBytes
  /\ rows' = AsReady(keys[r])
  /\ Ends(r)
  /\ UNCHANGED <<objects, avatar, used, stale, gate, job, faults, history>>

-----------------------------------------------------------------------------
(* The avatar: a single file, its row at once ready, then the user, then    *)
(* the old one.                                                             *)

FindUser(r) ==
  /\ pc[r] = "idle" /\ r \in Posing
  /\ previous' = [previous EXCEPT ![r] = avatar]
  /\ \/ Goes(r, "put")
     \/ Goes(r, "user")      \* another operation that saves the user whole
  /\ UNCHANGED <<world, stale, keys, done, total, target, gate, job, faults, history>>

PutAvatar(r) ==
  /\ pc[r] = "put"
  /\ \E a \in Fresh, size \in 1..MaxBytes :
       /\ objects' = [objects EXCEPT ![a] = size]
       /\ used' = used \cup {a}
       /\ target' = [target EXCEPT ![r] = a]
  /\ Goes(r, "insert")
  /\ UNCHANGED <<rows, avatar, stale, keys, done, total, previous, gate, job, faults, history>>

\* Too large, not an image, or the storage fails, with the object there or not.
PutAvatarFails(r) ==
  /\ pc[r] = "put"
  /\ Ends(r)
  /\ \/ UNCHANGED <<objects, used, faults>>
     \/ /\ Fault
        /\ \E a \in Fresh : objects' = [objects EXCEPT ![a] = 1] /\ used' = used \cup {a}
  /\ UNCHANGED <<rows, avatar, stale, gate, job, history>>

InsertAvatar(r) ==
  /\ pc[r] = "insert"
  /\ rows' = [rows EXCEPT ![target[r]] = NewRow(target[r], "ready", "avatar")]
  /\ Goes(r, "point")
  /\ UNCHANGED <<objects, avatar, used, stale, keys, done, total, target, previous, gate, job,
                 faults, history>>

\* The insert, or the record of the access after it, fails: nothing is undone.
InsertAvatarFails(r) ==
  /\ pc[r] = "insert"
  /\ Fault
  /\ Ends(r)
  /\ \/ rows' = [rows EXCEPT ![target[r]] = NewRow(target[r], "ready", "avatar")]
     \/ UNCHANGED rows
  /\ UNCHANGED <<objects, avatar, used, stale, gate, job, history>>

\* Mutant of PersistAvatar: the cleanup takes the avatar the user has by now.
PersistAvatarCleansCurrent(r) ==
  /\ pc[r] = "point"
  /\ avatar' = target[r]
  /\ Goes(r, "find")
  /\ waived' = waived \cup {target[r]}
  /\ UNCHANGED <<rows, objects, used, stale, keys, done, total, target, previous, gate, job, faults,
                 putBack>>

PersistAvatar(r) ==
  /\ pc[r] = "point"
  /\ avatar' = target[r]
  /\ IF previous[r] \in {None, target[r]}
     THEN Ends(r) /\ UNCHANGED history
     ELSE /\ target' = [target EXCEPT ![r] = previous[r]]
          /\ waived' = waived \cup {previous[r]}
          /\ Goes(r, "find")
          /\ UNCHANGED <<keys, done, total, previous, putBack>>
  /\ UNCHANGED <<rows, objects, used, stale, gate, job, faults>>

PersistAvatarFails(r) ==
  /\ pc[r] = "point"
  /\ Fault
  /\ Ends(r)
  /\ UNCHANGED <<world, stale, gate, job, history>>

\* Every other operation saves all of the columns it read.
SaveUser(r) ==
  /\ pc[r] = "user"
  /\ avatar' = previous[r]
  /\ putBack' = (putBack \/ avatar # previous[r])
  /\ Ends(r)
  /\ UNCHANGED <<rows, objects, used, stale, gate, job, faults, waived>>

-----------------------------------------------------------------------------
(* A deletion: read and blind write in one transaction, then the object.    *)

AskDelete(r, a) ==
  /\ pc[r] = "idle" /\ r \in Deleting
  /\ HasRow(a) /\ rows[a].profile = "multi"
  /\ target' = [target EXCEPT ![r] = a]
  /\ waived' = waived \cup {a}
  /\ Goes(r, "find")
  /\ UNCHANGED <<world, stale, keys, done, total, previous, gate, job, faults, putBack>>

FindToDelete(r) ==
  /\ pc[r] = "find"
  /\ IF HasRow(target[r]) /\ ~Has(target[r], "deleted")
     THEN Goes(r, "mark") /\ UNCHANGED <<keys, done, total, target, previous>>
     ELSE Ends(r)
  /\ UNCHANGED <<world, stale, gate, job, faults, history>>

MarkDeleted(r) ==
  /\ pc[r] = "mark"
  /\ rows' = IF HasRow(target[r]) THEN [rows EXCEPT ![target[r]].status = "deleted"] ELSE rows
  /\ Goes(r, "erase")
  /\ UNCHANGED <<objects, avatar, used, stale, keys, done, total, target, previous, gate, job,
                 faults, history>>

\* Rolled back: the hook of the commit is never called.
MarkFails(r) ==
  /\ pc[r] = "mark"
  /\ Fault
  /\ Ends(r)
  /\ UNCHANGED <<world, stale, gate, job, history>>

\* The hook after the commit; its failure is logged.
EraseObject(r) ==
  /\ pc[r] = "erase"
  /\ \/ objects' = [objects EXCEPT ![target[r]] = 0] /\ UNCHANGED faults
     \/ Fault /\ UNCHANGED objects
  /\ Ends(r)
  /\ UNCHANGED <<rows, avatar, used, stale, gate, job, history>>

-----------------------------------------------------------------------------
(* The purge, which runs alone, and what the environment does.              *)

\* A row turns a day old: only of a pending one does anybody ask.
Age(a) ==
  /\ Has(a, "pending") /\ a \notin stale
  /\ stale' = stale \cup {a}
  /\ UNCHANGED <<world, local, gate, job, faults, history>>

\* Mutant of StalePending: any pending row, however new.
AnyPending == Pending

StalePending == {a \in Pending : a \in stale}

Select ==
  /\ ~sweeping
  /\ StalePending # {}
  /\ sweeping' = TRUE
  /\ picked' = StalePending /\ left' = StalePending
  /\ UNCHANGED <<world, stale, local, gate, faults, history>>

\* One object; a failure is logged and the row goes all the same.
PurgeObject ==
  /\ \E a \in left :
       /\ \A b \in left : a <= b
       /\ left' = left \ {a}
       /\ \/ objects' = [objects EXCEPT ![a] = 0] /\ UNCHANGED faults
          \/ Fault /\ UNCHANGED objects
  /\ UNCHANGED <<rows, avatar, used, stale, local, gate, sweeping, picked, history>>

\* DELETE ... WHERE id IN picked AND status = 'pending'.
Purgeable(a) == a \in picked /\ Has(a, "pending")

PurgeRows ==
  /\ sweeping /\ left = {}
  /\ rows' = [a \in Attachment |-> IF Purgeable(a) THEN NoRow ELSE rows[a]]
  /\ stale' = {a \in stale : ~Purgeable(a)}
  /\ waived' = {a \in waived : ~Purgeable(a)}
  /\ sweeping' = FALSE /\ picked' = {}
  /\ UNCHANGED <<objects, avatar, used, local, gate, left, faults, putBack>>

\* The process of the job stops, or its last statement fails.
PurgeStops ==
  /\ sweeping /\ Fault
  /\ sweeping' = FALSE /\ picked' = {} /\ left' = {}
  /\ UNCHANGED <<world, stale, local, gate, history>>

Crash(p) ==
  /\ \E r \in Request : Home[r] = p /\ pc[r] # "idle"
  /\ Fault
  /\ LET Dies(r) == Home[r] = p IN
       /\ pc' = [r \in Request |-> IF Dies(r) THEN "idle" ELSE pc[r]]
       /\ keys' = [r \in Request |-> IF Dies(r) THEN {} ELSE keys[r]]
       /\ done' = [r \in Request |-> IF Dies(r) THEN {} ELSE done[r]]
       /\ total' = [r \in Request |-> IF Dies(r) THEN 0 ELSE total[r]]
       /\ target' = [r \in Request |-> IF Dies(r) THEN None ELSE target[r]]
       /\ previous' = [r \in Request |-> IF Dies(r) THEN None ELSE previous[r]]
  /\ gate' = [gate EXCEPT ![p] = 0]
  /\ UNCHANGED <<world, stale, job, history>>

-----------------------------------------------------------------------------
Batch(r)   == \/ Admit(r) \/ PutFile(r) \/ PutFileFails(r) \/ BodyFails(r)
              \/ InsertBatch(r) \/ InsertBatchFails(r) \/ Discard(r)
Confirm(r) == FindPending(r) \/ Head(r) \/ ConfirmFails(r) \/ SaveReady(r)
Avatar(r)  == \/ FindUser(r) \/ PutAvatar(r) \/ PutAvatarFails(r) \/ InsertAvatar(r)
              \/ InsertAvatarFails(r) \/ PersistAvatar(r) \/ PersistAvatarFails(r) \/ SaveUser(r)
Delete(r)  == \/ \E a \in Attachment : AskDelete(r, a)
              \/ FindToDelete(r) \/ MarkDeleted(r) \/ MarkFails(r) \/ EraseObject(r)
Purge      == Select \/ PurgeObject \/ PurgeRows

Next ==
  \/ \E r \in Request : Batch(r) \/ Confirm(r) \/ Avatar(r) \/ Delete(r)
  \/ \E a \in Attachment : Age(a)
  \/ Purge \/ PurgeStops
  \/ \E p \in Process : Crash(p)

Spec == Init /\ [][Next]_vars

-----------------------------------------------------------------------------
\* An attachment that was confirmed before it was a day old keeps its object:
\* the purge, the discarded batches and the other confirmations never take the
\* object of a row that stands.  A row that was pending at a day, one somebody
\* asked to delete and one whose insert was in doubt may lose it.
RowsKeepTheirObject ==
  \A a \in Attachment :
    (Has(a, "pending") \/ Has(a, "ready")) /\ a \notin stale \cup waived
      => objects[a] = rows[a].size

\* The user's avatar is a ready row with its object, whatever uploads of one
\* user overlap, unless a save of the whole user put an older one back.
AvatarIsServed ==
  avatar # None /\ ~putBack => Served(avatar) /\ objects[avatar] > 0

\* The pending quota is read before the body comes: what one owner can have
\* pending exceeds it by what the uploads in flight bring, and no more.
PendingIsBounded ==
  PendingBytes <= PendingQuota + Cardinality(Process) * MaxConcurrent * MaxTotalBytes

\* The purge can only collect an object that has a row: while nothing fails,
\* every object without one belongs to a request that will still delete it or
\* insert its row.
NoObjectLeaks ==
  faults = 0 =>
    \A a \in Attachment : objects[a] > 0 =>
      \/ Has(a, "pending") \/ Has(a, "ready")
      \/ \E r \in Request : a \in keys[r] \/ a = target[r]
=============================================================================
