-------------------------- MODULE AttachmentsProofs --------------------------
(***************************************************************************)
(* Machine-checked facts about Attachments, for any number of requests,    *)
(* processes, attachments and faults and any limits of sizes and files.    *)
(***************************************************************************)
EXTENDS Attachments, FiniteSetTheorems, TLAPS

Step == {"idle", "body", "discard", "head", "save", "put", "user", "insert", "point", "find",
         "mark", "erase"}

Id == Attachment \cup {None}

TypeInv ==
  /\ rows \in [Attachment -> Row \cup {NoRow}]
  /\ objects \in [Attachment -> Nat]
  /\ avatar \in Id
  /\ used \subseteq Attachment
  /\ pc \in [Request -> Step]
  /\ keys \in [Request -> SUBSET Attachment]
  /\ done \in [Request -> SUBSET Attachment]
  /\ target \in [Request -> Id]
  /\ previous \in [Request -> Id]
  /\ picked \subseteq Attachment
  /\ faults \in Nat
  /\ putBack \in BOOLEAN

\* What a request holds, by its step.
Batching(r) == pc[r] \in {"body", "discard", "head", "save"}
Targeting(r) == pc[r] \in {"insert", "point", "find", "mark", "erase"}
Removing(r) == pc[r] \in {"find", "mark", "erase"}

Tidy ==
  \A r \in Request :
    /\ ~Batching(r) => keys[r] = {} /\ done[r] = {}
    /\ IF Targeting(r) THEN target[r] \in Attachment ELSE target[r] = None
    /\ pc[r] = "body" => done[r] = keys[r]

\* Every id anything refers to was drawn.
IdsDrawn ==
  /\ \A a \in Attachment : HasRow(a) \/ objects[a] > 0 => a \in used
  /\ \A r \in Request : keys[r] \subseteq used /\ {target[r], previous[r]} \subseteq used \cup {None}
  /\ avatar \in used \cup {None}
  /\ waived \subseteq used /\ stale \subseteq used /\ picked \subseteq used

\* The ids a request drew and nobody else knows of yet.
Private(r) == IF pc[r] = "body" THEN keys[r]
              ELSE IF pc[r] \in {"insert", "point"} THEN {target[r]} ELSE {}

Secluded(r, a) ==
  /\ a \notin waived /\ a \notin stale /\ a # avatar
  /\ \A q \in Request : (a \in keys[q] \/ a = target[q] => q = r) /\ a # previous[q]
  /\ pc[r] \in {"body", "insert"} => ~HasRow(a)
  /\ pc[r] \in {"insert", "point"} => objects[a] > 0
  /\ pc[r] = "point" => Served(a) /\ rows[a].profile = "avatar"

PrivateIsPrivate == \A r \in Request : \A a \in Private(r) : Secluded(r, a)

\* The keys of a batch or a confirmation are never an avatar's, and those a batch
\* discards have no row but one whose insert was in doubt.
KeysAreFiles ==
  \A r \in Request : \A a \in keys[r] :
    /\ HasRow(a) => rows[a].profile = "multi"
    /\ pc[r] = "discard" /\ HasRow(a) => a \in waived

\* Only what somebody asked to delete is deleted, never the avatar in place.
RemovalsAreMeant ==
  /\ \A r \in Request : Removing(r) =>
       /\ HasRow(target[r]) => target[r] \in waived
       /\ putBack \/ target[r] # avatar
  /\ \A a \in Attachment : Has(a, "deleted") => a \in waived

\* The purge is about files left pending for a day: an avatar never is.
PurgeScope ==
  /\ left \subseteq picked /\ picked \subseteq stale
  /\ \A a \in Attachment : a \in stale \/ Has(a, "pending") => (HasRow(a) => rows[a].profile = "multi")

AvatarStands ==
  avatar # None /\ ~putBack => Served(avatar) /\ rows[avatar].profile = "avatar" /\ objects[avatar] > 0

\* While nothing fails, who has yet to insert the row of an object, or to delete it.
Owes(r, a) ==
  \/ pc[r] \in {"body", "discard"} /\ a \in keys[r]
  \/ pc[r] \in {"insert", "erase"} /\ a = target[r]

ObjectsAreOwed ==
  faults = 0 =>
    /\ \A a \in Attachment : objects[a] > 0 =>
         Has(a, "pending") \/ Has(a, "ready") \/ \E r \in Request : Owes(r, a)
    /\ \A a \in picked \ left : objects[a] = 0
-----------------------------------------------------------------------------
(* Types and drawn ids *)

\* A row whose status changed.
In(row, status) == [row EXCEPT !.status = status]

\* What the use cases make of a row.
LEMMA RowOps ==
  /\ \A row \in Row : row.size \in Nat /\ row.profile \in {"multi", "avatar"}
                      /\ row.status \in {"pending", "ready", "deleted"}
  /\ \A row \in Row : \A s \in {"pending", "ready", "deleted"} :
       /\ In(row, s) \in Row /\ In(row, s).status = s
       /\ In(row, s).profile = row.profile /\ In(row, s).size = row.size
  /\ \A a \in Attachment : \A s \in {"pending", "ready"}, p \in {"multi", "avatar"} :
       /\ objects[a] \in Nat => NewRow(a, s, p) \in Row
       /\ NewRow(a, s, p).size = objects[a] /\ NewRow(a, s, p).profile = p /\ NewRow(a, s, p).status = s
BY DEF Row, In, NewRow

\* The rows after each write.
LEMMA RowWrites ==
  ASSUME TypeInv
  PROVE  /\ \A ids : AsReady(ids) = [a \in Attachment |-> IF a \in ids /\ HasRow(a) THEN In(rows[a], "ready")
                                                                              ELSE rows[a]]
         /\ \A t \in Attachment : [rows EXCEPT ![t].status = "deleted"] = [rows EXCEPT ![t] = In(rows[t], "deleted")]
BY DEF AsReady, In, TypeInv

\* What the use cases make of the table.
LEMMA TypeRows ==
  ASSUME TypeInv
  PROVE  /\ \A r \in Request : InsertRows(r) => rows' \in [Attachment -> Row \cup {NoRow}]
         /\ \A a \in Attachment : \A p \in {"multi", "avatar"}, s \in {"pending", "ready"} : NewRow(a, s, p) \in Row
         /\ \A ids : AsReady(ids) \in [Attachment -> Row \cup {NoRow}]
<1>1. \A a \in Attachment : objects[a] \in Nat /\ rows[a] \in Row \cup {NoRow}
  BY DEF TypeInv
<1>2. \A a \in Attachment : \A p \in {"multi", "avatar"}, s \in {"pending", "ready"} : NewRow(a, s, p) \in Row
  BY <1>1, RowOps
<1>3. \A r \in Request : InsertRows(r) => rows' \in [Attachment -> Row \cup {NoRow}]
  BY <1>1, <1>2 DEF InsertRows
<1>4. \A ids : AsReady(ids) \in [Attachment -> Row \cup {NoRow}]
  BY <1>1, RowWrites, RowOps DEF HasRow
<1>5. QED
  BY <1>2, <1>3, <1>4

\* The types, when a batch moves on.
LEMMA TypeBatch ==
  ASSUME TypeInv, NEW r \in Request, Batch(r)
  PROVE  TypeInv'
<1> USE AttachmentsAssumption DEF TypeInv, Step, Id, world, local, job, history, Goes, Ends, Release, Fault
<1>1. CASE Admit(r)
  BY <1>1 DEF Admit
<1>2. CASE PutFile(r)
  BY <1>2 DEF PutFile, Fresh, Allowance
<1>3. CASE PutFileFails(r)
  BY <1>3 DEF PutFileFails, Fresh
<1>4. CASE BodyFails(r)
  BY <1>4 DEF BodyFails
<1>5. CASE InsertBatch(r)
  BY <1>5, TypeRows DEF InsertBatch
<1>6. CASE InsertBatchFails(r)
  BY <1>6, TypeRows DEF InsertBatchFails
<1>7. CASE Discard(r)
  BY <1>7 DEF Discard
<1>8. QED
  BY <1>1, <1>2, <1>3, <1>4, <1>5, <1>6, <1>7 DEF Batch

\* The types, when a confirmation does.
LEMMA TypeConfirm ==
  ASSUME TypeInv, NEW r \in Request, Confirm(r)
  PROVE  TypeInv'
<1> USE AttachmentsAssumption DEF TypeInv, Step, Id, world, local, job, history, Goes, Ends, Fault
<1>1. CASE FindPending(r)
  BY <1>1 DEF FindPending
<1>2. CASE Head(r)
  BY <1>2 DEF Head
<1>3. CASE ConfirmFails(r)
  BY <1>3 DEF ConfirmFails
<1>4. CASE SaveReady(r)
  BY <1>4, TypeRows DEF SaveReady
<1>5. QED
  BY <1>1, <1>2, <1>3, <1>4 DEF Confirm

\* The types, when an avatar does.
LEMMA TypeAvatar ==
  ASSUME TypeInv, Tidy, NEW r \in Request, Avatar(r)
  PROVE  TypeInv'
<1> USE AttachmentsAssumption DEF TypeInv, Step, Id, world, local, job, history, Goes, Ends, Fault
<1>1. CASE FindUser(r)
  BY <1>1 DEF FindUser
<1>2. CASE PutAvatar(r)
  BY <1>2 DEF PutAvatar, Fresh
<1>3. CASE PutAvatarFails(r)
  <2>1. objects' \in [Attachment -> Nat] /\ used' \subseteq Attachment /\ faults' \in Nat
    <3>1. CASE UNCHANGED <<objects, used, faults>>
      BY <3>1
    <3>2. ASSUME NEW a \in Fresh, Fault, objects' = [objects EXCEPT ![a] = 1], used' = used \cup {a}
          PROVE  objects' \in [Attachment -> Nat] /\ used' \subseteq Attachment /\ faults' \in Nat
      BY <3>2 DEF Fresh
    <3>3. QED
      BY <1>3, <3>1, <3>2 DEF PutAvatarFails
  <2>2. QED
    BY <1>3, <2>1 DEF PutAvatarFails
<1>4. CASE InsertAvatar(r)
  BY <1>4, TypeRows DEF InsertAvatar, Tidy, Targeting
<1>5. CASE InsertAvatarFails(r)
  BY <1>5, TypeRows DEF InsertAvatarFails, Tidy, Targeting
<1>6. CASE PersistAvatar(r)
  BY <1>6 DEF PersistAvatar
<1>7. CASE PersistAvatarFails(r)
  BY <1>7 DEF PersistAvatarFails
<1>8. CASE SaveUser(r)
  BY <1>8 DEF SaveUser
<1>9. QED
  BY <1>1, <1>2, <1>3, <1>4, <1>5, <1>6, <1>7, <1>8 DEF Avatar

\* The types, when a deletion does.
LEMMA TypeDelete ==
  ASSUME TypeInv, Tidy, NEW r \in Request, Delete(r)
  PROVE  TypeInv'
<1> USE AttachmentsAssumption DEF TypeInv, Step, Id, world, local, job, history, Goes, Ends, Fault
<1>1. ASSUME NEW a \in Attachment, AskDelete(r, a) PROVE TypeInv'
  BY <1>1 DEF AskDelete
<1>2. CASE FindToDelete(r)
  BY <1>2 DEF FindToDelete
<1>3. CASE MarkDeleted(r)
  <2>1. rows' \in [Attachment -> Row \cup {NoRow}]
    <3>1. CASE target[r] \in Attachment /\ HasRow(target[r])
      <4>1. rows' = [rows EXCEPT ![target[r]] = In(rows[target[r]], "deleted")]
        BY <1>3, <3>1, RowWrites DEF MarkDeleted
      <4>2. In(rows[target[r]], "deleted") \in Row
        <5>1. rows[target[r]] \in Row
          BY <3>1 DEF HasRow
        <5>2. QED
          BY <5>1, RowOps
      <4>3. QED
        BY <4>1, <4>2
    <3>2. CASE target[r] \in Attachment /\ ~HasRow(target[r])
      BY <1>3, <3>2 DEF MarkDeleted
    <3>3. QED
      BY <1>3, <3>1, <3>2 DEF MarkDeleted, Tidy, Targeting
  <2>2. QED
    BY <1>3, <2>1 DEF MarkDeleted
<1>4. CASE MarkFails(r)
  BY <1>4 DEF MarkFails
<1>5. CASE EraseObject(r)
  BY <1>5 DEF EraseObject
<1>6. QED
  BY <1>1, <1>2, <1>3, <1>4, <1>5 DEF Delete

\* The types, whatever the step.
LEMMA TypeStep ==
  ASSUME TypeInv, Tidy, [Next]_vars
  PROVE  TypeInv'
<1> USE DEF TypeInv, Id, world, local, job, history, Fault
<1>1. ASSUME NEW a \in Attachment, Age(a) PROVE TypeInv'
  BY <1>1 DEF Age
<1>2. CASE Select
  BY <1>2 DEF Select, StalePending, Pending
<1>3. CASE PurgeObject
  BY <1>3 DEF PurgeObject
<1>4. CASE PurgeRows
  BY <1>4 DEF PurgeRows
<1>5. CASE PurgeStops
  BY <1>5, AttachmentsAssumption DEF PurgeStops
<1>6. ASSUME NEW p \in Process, Crash(p) PROVE TypeInv'
  BY <1>6, AttachmentsAssumption DEF Crash, Step
<1>7. CASE UNCHANGED vars
  BY <1>7 DEF vars
<1>8. QED
  BY <1>1, <1>2, <1>3, <1>4, <1>5, <1>6, <1>7, TypeBatch, TypeConfirm, TypeAvatar, TypeDelete DEF Next, Purge

\* Exactly the steps that hold something hold it.
LEMMA TidyStep ==
  ASSUME TypeInv, Tidy, [Next]_vars
  PROVE  Tidy'
<1> USE DEF TypeInv, Batching, Targeting, Step, Id, Tidy
<1>1. ASSUME NEW r \in Request, Ends(r) PROVE Tidy'
  BY <1>1 DEF Ends
<1>2. CASE UNCHANGED local
  BY <1>2 DEF local
<1>3. ASSUME NEW r \in Request, Batch(r) PROVE Tidy'
  <2>1. CASE Admit(r)
    BY <2>1 DEF Admit, Goes
  <2>2. CASE PutFile(r)
    <3>1. PICK a \in Fresh : keys' = [keys EXCEPT ![r] = @ \cup {a}] /\ done' = [done EXCEPT ![r] = @ \cup {a}]
      BY <2>2 DEF PutFile
    <3>2. UNCHANGED <<pc, target>> /\ pc[r] = "body"
      BY <2>2 DEF PutFile
    <3>3. keys'[r] = done'[r] /\ \A q \in Request \ {r} : keys'[q] = keys[q] /\ done'[q] = done[q]
      BY <3>1, <3>2
    <3>4. QED
      BY <3>2, <3>3
  <2>3. CASE PutFileFails(r)
    BY <2>3 DEF PutFileFails, Goes
  <2>4. CASE BodyFails(r) \/ InsertBatchFails(r)
    BY <2>4 DEF BodyFails, InsertBatchFails, Goes
  <2>5. CASE InsertBatch(r) \/ Discard(r)
    BY <1>1, <2>5 DEF InsertBatch, Discard
  <2>6. QED
    BY <1>3, <2>1, <2>2, <2>3, <2>4, <2>5 DEF Batch
<1>4. ASSUME NEW r \in Request, Confirm(r) PROVE Tidy'
  BY <1>1, <1>4 DEF Confirm, FindPending, Head, ConfirmFails, SaveReady, Goes
<1>5. ASSUME NEW r \in Request, Avatar(r) PROVE Tidy'
  BY <1>1, <1>5 DEF Avatar, FindUser, PutAvatar, PutAvatarFails, InsertAvatar, InsertAvatarFails,
     PersistAvatar, PersistAvatarFails, SaveUser, Goes, Fresh
<1>6. ASSUME NEW r \in Request, Delete(r) PROVE Tidy'
  BY <1>1, <1>6 DEF Delete, AskDelete, FindToDelete, MarkDeleted, MarkFails, EraseObject, Goes
<1>7. ASSUME NEW p \in Process, Crash(p) PROVE Tidy'
  BY <1>7 DEF Crash
<1>8. QED
  BY <1>2, <1>3, <1>4, <1>5, <1>6, <1>7 DEF Next, vars, Age, Purge, Select, PurgeObject, PurgeRows, PurgeStops

\* Ids are drawn before anything refers to them.
LEMMA DrawnBatch ==
  ASSUME TypeInv, Tidy, IdsDrawn, NEW r \in Request, Batch(r)
  PROVE  IdsDrawn'
<1> USE DEF TypeInv, IdsDrawn, HasRow, world, local, job, history, Goes, Ends, Fresh, Fault
<1>1. CASE Admit(r) \/ BodyFails(r)
  BY <1>1 DEF Admit, BodyFails
<1>2. CASE PutFile(r)
  BY <1>2 DEF PutFile
<1>3. CASE PutFileFails(r)
  BY <1>3 DEF PutFileFails
<1>4. CASE InsertBatch(r) \/ InsertBatchFails(r)
  <2>1. done[r] \subseteq used
    BY <1>4 DEF InsertBatch, InsertBatchFails, Tidy
  <2>2. rows' = rows \/ InsertRows(r)
    BY <1>4 DEF InsertBatch, InsertBatchFails
  <2>3. \A a \in Attachment : HasRow(a)' => HasRow(a) \/ a \in used
    BY <2>1, <2>2 DEF InsertRows
  <2>4. QED
    BY <1>4, <2>1, <2>3 DEF InsertBatch, InsertBatchFails
<1>5. CASE Discard(r)
  BY <1>5 DEF Discard
<1>6. QED
  BY <1>1, <1>2, <1>3, <1>4, <1>5 DEF Batch

\* Ids in use were drawn: a confirmation moves on.
LEMMA DrawnConfirm ==
  ASSUME TypeInv, Tidy, IdsDrawn, NEW r \in Request, Confirm(r)
  PROVE  IdsDrawn'
<1> USE DEF TypeInv, IdsDrawn, HasRow, world, local, job, history, Goes, Ends
<1>1. CASE FindPending(r)
  BY <1>1 DEF FindPending, Has
<1>2. CASE Head(r) \/ ConfirmFails(r)
  BY <1>2 DEF Head, ConfirmFails
<1>3. CASE SaveReady(r)
  <2>1. \A a \in Attachment : HasRow(a)' => HasRow(a)
    BY <1>3 DEF SaveReady, AsReady
  <2>2. QED
    BY <1>3, <2>1 DEF SaveReady
<1>4. QED
  BY <1>1, <1>2, <1>3 DEF Confirm

\* Ids in use were drawn: an avatar does.
LEMMA DrawnAvatar ==
  ASSUME TypeInv, Tidy, IdsDrawn, NEW r \in Request, Avatar(r)
  PROVE  IdsDrawn'
<1> USE DEF TypeInv, IdsDrawn, HasRow, world, local, job, history, Goes, Ends, Fresh, Fault
<1>1. CASE FindUser(r) \/ PersistAvatarFails(r) \/ SaveUser(r)
  BY <1>1 DEF FindUser, PersistAvatarFails, SaveUser
<1>2. CASE PutAvatar(r)
  BY <1>2 DEF PutAvatar
<1>3. CASE PutAvatarFails(r)
  <2>1. CASE UNCHANGED <<objects, used>>
    BY <1>3, <2>1 DEF PutAvatarFails
  <2>2. ASSUME NEW a \in Fresh, objects' = [objects EXCEPT ![a] = 1], used' = used \cup {a}
        PROVE  IdsDrawn'
    BY <1>3, <2>2 DEF PutAvatarFails
  <2>3. QED
    BY <1>3, <2>1, <2>2 DEF PutAvatarFails
<1>4. CASE InsertAvatar(r) \/ InsertAvatarFails(r)
  <2>1. target[r] \in used \cap Attachment
    BY <1>4, AttachmentsAssumption DEF InsertAvatar, InsertAvatarFails, Tidy, Targeting, Id
  <2>2. \A a \in Attachment : HasRow(a)' => HasRow(a) \/ a \in used
    BY <1>4, <2>1 DEF InsertAvatar, InsertAvatarFails
  <2>3. QED
    BY <1>4, <2>2 DEF InsertAvatar, InsertAvatarFails
<1>5. CASE PersistAvatar(r)
  BY <1>5 DEF PersistAvatar
<1>6. QED
  BY <1>1, <1>2, <1>3, <1>4, <1>5 DEF Avatar

\* Ids in use were drawn: a deletion does.
LEMMA DrawnDelete ==
  ASSUME TypeInv, Tidy, IdsDrawn, NEW r \in Request, Delete(r)
  PROVE  IdsDrawn'
<1> USE DEF TypeInv, IdsDrawn, HasRow, world, local, job, history, Goes, Ends, Fault
<1>1. ASSUME NEW a \in Attachment, AskDelete(r, a) PROVE IdsDrawn'
  BY <1>1 DEF AskDelete
<1>2. CASE FindToDelete(r) \/ MarkFails(r)
  BY <1>2 DEF FindToDelete, MarkFails
<1>3. CASE MarkDeleted(r)
  <2>1. \A a \in Attachment : HasRow(a)' => HasRow(a)
    BY <1>3 DEF MarkDeleted
  <2>2. QED
    BY <1>3, <2>1 DEF MarkDeleted
<1>4. CASE EraseObject(r)
  BY <1>4 DEF EraseObject
<1>5. QED
  BY <1>1, <1>2, <1>3, <1>4 DEF Delete

\* Ids in use were drawn, whatever the step.
LEMMA DrawnStep ==
  ASSUME TypeInv, Tidy, IdsDrawn, [Next]_vars
  PROVE  IdsDrawn'
<1> USE DEF TypeInv, IdsDrawn, HasRow, world, local, job, history
<1>1. ASSUME NEW a \in Attachment, Age(a) PROVE IdsDrawn'
  BY <1>1 DEF Age, Has
<1>2. CASE Select \/ PurgeObject \/ PurgeStops
  BY <1>2 DEF Select, PurgeObject, PurgeStops, StalePending, Pending
<1>3. CASE PurgeRows
  BY <1>3 DEF PurgeRows
<1>4. ASSUME NEW p \in Process, Crash(p) PROVE IdsDrawn'
  BY <1>4 DEF Crash
<1>5. CASE UNCHANGED vars
  BY <1>5 DEF vars
<1>6. QED
  BY <1>1, <1>2, <1>3, <1>4, <1>5, DrawnBatch, DrawnConfirm, DrawnAvatar, DrawnDelete DEF Next, Purge

-----------------------------------------------------------------------------
(* Drawn ids stay private until their row is in place *)

\* A request's step is its own.
LEMMA OthersKept ==
  ASSUME TypeInv, NEW r \in Request, Batch(r) \/ Confirm(r) \/ Avatar(r) \/ Delete(r), NEW q \in Request, q # r
  PROVE  /\ pc'[q] = pc[q] /\ keys'[q] = keys[q] /\ target'[q] = target[q] /\ previous'[q] = previous[q]
         /\ Private(q)' = Private(q)
<1> USE DEF TypeInv, local, Goes, Ends
<1>1. /\ pc'[q] = pc[q] /\ keys'[q] = keys[q] /\ target'[q] = target[q] /\ previous'[q] = previous[q]
  <2>1. CASE Batch(r)
    BY <2>1 DEF Batch, Admit, PutFile, PutFileFails, BodyFails, InsertBatch, InsertBatchFails, Discard
  <2>2. CASE Confirm(r)
    BY <2>2 DEF Confirm, FindPending, Head, ConfirmFails, SaveReady
  <2>3. CASE Avatar(r)
    BY <2>3 DEF Avatar, FindUser, PutAvatar, PutAvatarFails, InsertAvatar, InsertAvatarFails,
       PersistAvatar, PersistAvatarFails, SaveUser
  <2>4. CASE Delete(r)
    BY <2>4 DEF Delete, AskDelete, FindToDelete, MarkDeleted, MarkFails, EraseObject
  <2>5. QED
    BY <2>1, <2>2, <2>3, <2>4
<1>2. QED
  BY <1>1 DEF Private

\* Private ids are drawn, and no fresh id is one.
LEMMA PrivateDrawn ==
  ASSUME TypeInv, Tidy, IdsDrawn, NEW r \in Request, NEW a \in Private(r)
  PROVE  a \in used /\ a \in Attachment
BY AttachmentsAssumption DEF TypeInv, Tidy, Targeting, IdsDrawn, Private

\* An id not drawn yet is nowhere.
LEMMA FreshIsNew ==
  ASSUME TypeInv, IdsDrawn, NEW a \in Fresh
  PROVE  /\ a \in Attachment /\ a \notin used /\ a # None /\ ~HasRow(a) /\ ~(objects[a] > 0)
         /\ a \notin waived /\ a \notin stale /\ a # avatar /\ a \notin picked
         /\ \A q \in Request : a \notin keys[q] /\ a # target[q] /\ a # previous[q]
BY AttachmentsAssumption DEF TypeInv, IdsDrawn, Fresh

\* What a step does to the table and the storage, seen from an id it does not hold.
LEMMA PrivateBatch ==
  ASSUME TypeInv, Tidy, IdsDrawn, PrivateIsPrivate, NEW r \in Request, Batch(r)
  PROVE  PrivateIsPrivate'
<1> USE DEF TypeInv, world, local, job, history, Goes, Ends, Fault
<1>1. ASSUME NEW q \in Request, NEW a \in Private(q), q # r PROVE Secluded(q, a)'
  <2>1. /\ Secluded(q, a) /\ a \in used /\ a \in Attachment
        /\ pc'[q] = pc[q] /\ keys'[q] = keys[q] /\ target'[q] = target[q] /\ previous'[q] = previous[q]
    BY <1>1, PrivateDrawn, OthersKept DEF PrivateIsPrivate
  <2>2. CASE Admit(r) \/ BodyFails(r)
    BY <1>1, <2>1, <2>2 DEF Admit, BodyFails, Secluded, HasRow, Served, Has
  <2>3. CASE PutFile(r)
    BY <1>1, <2>1, <2>3, FreshIsNew DEF PutFile, Secluded, HasRow, Served, Has
  <2>4. CASE PutFileFails(r)
    BY <1>1, <2>1, <2>4, FreshIsNew DEF PutFileFails, Secluded, HasRow, Served, Has
  <2>5. CASE InsertBatch(r) \/ InsertBatchFails(r)
    <3>1. a \notin done[r]
      BY <1>1, <2>1, <2>5 DEF Secluded, Tidy, InsertBatch, InsertBatchFails
    <3>2. rows'[a] = rows[a]
      BY <2>1, <2>5, <3>1 DEF InsertBatch, InsertBatchFails, InsertRows
    <3>3. waived' \subseteq waived \cup done[r] /\ UNCHANGED <<avatar, stale, objects>>
      BY <2>5 DEF InsertBatch, InsertBatchFails
    <3>4. \A p \in Request : keys'[p] \subseteq keys[p] /\ target'[p] \in {target[p], None}
                            /\ previous'[p] \in {previous[p], None}
      BY <2>5 DEF InsertBatch, InsertBatchFails
    <3>5. QED
      BY <1>1, <2>1, <3>1, <3>2, <3>3, <3>4, AttachmentsAssumption DEF Secluded, HasRow, Served, Has
  <2>6. CASE Discard(r)
    <3>1. objects'[a] = objects[a]
      BY <1>1, <2>1, <2>6 DEF Discard, Secluded
    <3>2. UNCHANGED <<rows, avatar, stale, waived>>
      BY <2>6 DEF Discard
    <3>3. \A p \in Request : keys'[p] \subseteq keys[p] /\ target'[p] \in {target[p], None}
                            /\ previous'[p] \in {previous[p], None}
      BY <2>6 DEF Discard
    <3>4. QED
      BY <1>1, <2>1, <3>1, <3>2, <3>3, AttachmentsAssumption DEF Secluded, HasRow, Served, Has
  <2>7. QED
    BY <2>2, <2>3, <2>4, <2>5, <2>6 DEF Batch
<1>2. ASSUME NEW a \in Private(r)' PROVE Secluded(r, a)'
  <2>1. CASE Admit(r)
    BY <1>2, <2>1 DEF Admit, Private, Tidy, Batching
  <2>2. CASE PutFile(r)
    <3>1. PICK b \in Fresh : keys' = [keys EXCEPT ![r] = @ \cup {b}]
      BY <2>2 DEF PutFile
    <3>2. UNCHANGED <<rows, avatar, stale, waived, pc, target, previous>> /\ pc[r] = "body"
      BY <2>2 DEF PutFile
    <3>3. a = b \/ a \in Private(r)
      BY <1>2, <3>1, <3>2 DEF Private
    <3>4. CASE a = b
      BY <3>1, <3>2, <3>4, FreshIsNew DEF Secluded, HasRow
    <3>5. CASE a \in Private(r)
      <4>1. Secluded(r, a) /\ a \in used
        BY <3>5, PrivateDrawn DEF PrivateIsPrivate
      <4>2. QED
        BY <3>1, <3>2, <4>1, FreshIsNew DEF Secluded, HasRow
    <3>6. QED
      BY <3>3, <3>4, <3>5
  <2>3. CASE PutFileFails(r) \/ BodyFails(r) \/ InsertBatch(r) \/ InsertBatchFails(r) \/ Discard(r)
    BY <1>2, <2>3 DEF PutFileFails, BodyFails, InsertBatch, InsertBatchFails, Discard, Private
  <2>4. QED
    BY <2>1, <2>2, <2>3 DEF Batch
<1>3. QED
  BY <1>1, <1>2, OthersKept DEF PrivateIsPrivate

\* What a request drew is its own: a confirmation moves on.
LEMMA PrivateConfirm ==
  ASSUME TypeInv, Tidy, IdsDrawn, PrivateIsPrivate, NEW r \in Request, Confirm(r)
  PROVE  PrivateIsPrivate'
<1> USE DEF TypeInv, world, local, job, history, Goes, Ends
<1>1. ASSUME NEW q \in Request, NEW a \in Private(q), q # r PROVE Secluded(q, a)'
  <2>1. /\ Secluded(q, a) /\ a \in used /\ a \in Attachment
        /\ pc'[q] = pc[q] /\ keys'[q] = keys[q] /\ target'[q] = target[q] /\ previous'[q] = previous[q]
        /\ ~Has(a, "pending") /\ a # None
    BY ZenonT(40), <1>1, PrivateDrawn, OthersKept, AttachmentsAssumption DEF PrivateIsPrivate, Secluded, Private, Served, Has
  <2>2. CASE FindPending(r)
    BY <1>1, <2>1, <2>2 DEF FindPending, Secluded, HasRow, Served, Has
  <2>3. CASE Head(r) \/ ConfirmFails(r)
    BY <1>1, <2>1, <2>3 DEF Head, ConfirmFails, Secluded, HasRow, Served, Has
  <2>4. CASE SaveReady(r)
    <3>1. rows'[a] = rows[a]
      BY <1>1, <2>1, <2>4 DEF SaveReady, AsReady, Secluded
    <3>2. UNCHANGED <<avatar, stale, waived, objects>>
      BY <2>4 DEF SaveReady
    <3>3. \A p \in Request : keys'[p] \subseteq keys[p] /\ target'[p] \in {target[p], None}
                            /\ previous'[p] \in {previous[p], None}
      BY <2>4 DEF SaveReady
    <3>4. QED
      BY <1>1, <2>1, <3>1, <3>2, <3>3 DEF Secluded, HasRow, Served, Has
  <2>5. QED
    BY <2>2, <2>3, <2>4 DEF Confirm
<1>2. Private(r)' = {}
  BY DEF Confirm, FindPending, Head, ConfirmFails, SaveReady, Private
<1>3. QED
  BY <1>1, <1>2, OthersKept DEF PrivateIsPrivate

\* What a request drew is its own: an avatar does.
LEMMA PrivateAvatar ==
  ASSUME TypeInv, Tidy, IdsDrawn, PrivateIsPrivate, NEW r \in Request, Avatar(r)
  PROVE  PrivateIsPrivate'
<1> USE DEF TypeInv, world, local, job, history, Goes, Ends, Fault
<1>1. ASSUME NEW q \in Request, NEW a \in Private(q), q # r PROVE Secluded(q, a)'
  <2>1. /\ Secluded(q, a) /\ a \in used /\ a \in Attachment /\ a # None
        /\ pc'[q] = pc[q] /\ keys'[q] = keys[q] /\ target'[q] = target[q] /\ previous'[q] = previous[q]
    BY <1>1, PrivateDrawn, OthersKept, AttachmentsAssumption DEF PrivateIsPrivate
  <2>2. CASE FindUser(r) \/ PersistAvatarFails(r)
    BY <1>1, <2>1, <2>2 DEF FindUser, PersistAvatarFails, Secluded, HasRow, Served, Has
  <2>3. CASE PutAvatar(r)
    BY <1>1, <2>1, <2>3, FreshIsNew DEF PutAvatar, Secluded, HasRow, Served, Has
  <2>4. CASE PutAvatarFails(r)
    <3>1. objects'[a] = objects[a]
      BY <2>1, <2>4, FreshIsNew DEF PutAvatarFails
    <3>2. UNCHANGED <<rows, avatar, stale, waived>>
      BY <2>4 DEF PutAvatarFails
    <3>3. \A p \in Request : keys'[p] \subseteq keys[p] /\ target'[p] \in {target[p], None}
                            /\ previous'[p] \in {previous[p], None}
      BY <2>4 DEF PutAvatarFails
    <3>4. QED
      BY <1>1, <2>1, <3>1, <3>2, <3>3 DEF Secluded, HasRow, Served, Has
  <2>5. CASE InsertAvatar(r) \/ InsertAvatarFails(r)
    <3>1. rows'[a] = rows[a]
      BY <1>1, <2>1, <2>5 DEF InsertAvatar, InsertAvatarFails, Secluded
    <3>2. UNCHANGED <<objects, avatar, stale, waived>>
      BY <2>5 DEF InsertAvatar, InsertAvatarFails
    <3>3. \A p \in Request : keys'[p] \subseteq keys[p] /\ target'[p] \in {target[p], None}
                            /\ previous'[p] \in {previous[p], None}
      BY <2>5 DEF InsertAvatar, InsertAvatarFails
    <3>4. QED
      BY <1>1, <2>1, <3>1, <3>2, <3>3 DEF Secluded, HasRow, Served, Has
  <2>6. CASE PersistAvatar(r)
    <3>1. a # target[r] /\ a # previous[r]
      BY <1>1, <2>1 DEF Secluded
    <3>2. UNCHANGED <<objects, rows, stale>> /\ avatar' = target[r] /\ waived' \subseteq waived \cup {previous[r]}
      BY <2>6 DEF PersistAvatar
    <3>3. \A p \in Request : keys'[p] \subseteq keys[p] /\ target'[p] \in {target[p], previous[r], None}
                            /\ previous'[p] \in {previous[p], None}
      BY <2>6 DEF PersistAvatar
    <3>4. QED
      BY <1>1, <2>1, <3>1, <3>2, <3>3 DEF Secluded, HasRow, Served, Has
  <2>7. CASE SaveUser(r)
    BY <1>1, <2>1, <2>7 DEF SaveUser, Secluded, HasRow, Served, Has
  <2>8. QED
    BY <2>2, <2>3, <2>4, <2>5, <2>6, <2>7 DEF Avatar
<1>2. ASSUME NEW a \in Private(r)' PROVE Secluded(r, a)'
  <2>1. CASE PutAvatar(r)
    <3>1. PICK b \in Fresh, size \in 1..MaxBytes :
            objects' = [objects EXCEPT ![b] = size] /\ target' = [target EXCEPT ![r] = b]
      BY <2>1 DEF PutAvatar
    <3>2. UNCHANGED <<rows, avatar, stale, waived, keys, previous>> /\ pc'[r] = "insert"
      BY <2>1 DEF PutAvatar
    <3>3. a = b
      BY <1>2, <3>1, <3>2 DEF Private
    <3>4. b \in Attachment /\ objects'[b] > 0
      BY <3>1, FreshIsNew
    <3>5. QED
      BY <3>1, <3>2, <3>3, <3>4, FreshIsNew DEF Secluded, HasRow
  <2>2. CASE InsertAvatar(r)
    <3>1. pc[r] = "insert" /\ pc'[r] = "point" /\ target'[r] = target[r] /\ a = target[r] /\ a \in Private(r)
      BY <1>2, <2>2 DEF InsertAvatar, Private
    <3>2. Secluded(r, a) /\ a \in Attachment
      BY <3>1, PrivateDrawn DEF PrivateIsPrivate
    <3>3. rows'[a] = NewRow(a, "ready", "avatar") /\ UNCHANGED <<objects, avatar, stale, waived, keys, target, previous>>
      BY <2>2, <3>1, <3>2 DEF InsertAvatar
    <3>4. HasRow(a)' /\ rows'[a].status = "ready" /\ rows'[a].profile = "avatar"
      BY <3>2, <3>3, TypeRows, RowOps, AttachmentsAssumption DEF HasRow
    <3>5. QED
      BY <3>1, <3>2, <3>3, <3>4 DEF Secluded, Served, Has
  <2>3. CASE FindUser(r) \/ PutAvatarFails(r) \/ InsertAvatarFails(r) \/ PersistAvatar(r)
             \/ PersistAvatarFails(r) \/ SaveUser(r)
    BY <1>2, <2>3 DEF FindUser, PutAvatarFails, InsertAvatarFails, PersistAvatar, PersistAvatarFails,
       SaveUser, Private
  <2>4. QED
    BY <2>1, <2>2, <2>3 DEF Avatar
<1>3. QED
  BY <1>1, <1>2, OthersKept DEF PrivateIsPrivate

\* What a request drew is its own: a deletion does.
LEMMA PrivateDelete ==
  ASSUME TypeInv, Tidy, IdsDrawn, PrivateIsPrivate, NEW r \in Request, Delete(r)
  PROVE  PrivateIsPrivate'
<1> USE DEF TypeInv, world, local, job, history, Goes, Ends, Fault
<1>1. ASSUME NEW q \in Request, NEW a \in Private(q), q # r PROVE Secluded(q, a)'
  <2>1. /\ Secluded(q, a) /\ a \in used /\ a \in Attachment /\ a # None
        /\ pc'[q] = pc[q] /\ keys'[q] = keys[q] /\ target'[q] = target[q] /\ previous'[q] = previous[q]
        /\ HasRow(a) => rows[a].profile # "multi"
    BY ZenonT(40), <1>1, PrivateDrawn, OthersKept, AttachmentsAssumption DEF PrivateIsPrivate, Secluded, Private
  <2>2. ASSUME NEW b \in Attachment, AskDelete(r, b) PROVE Secluded(q, a)'
    BY <1>1, <2>1, <2>2 DEF AskDelete, Secluded, HasRow, Served, Has
  <2>3. CASE FindToDelete(r) \/ MarkFails(r)
    BY <1>1, <2>1, <2>3 DEF FindToDelete, MarkFails, Secluded, HasRow, Served, Has
  <2>4. CASE MarkDeleted(r)
    <3>1. rows'[a] = rows[a]
      BY <1>1, <2>1, <2>4 DEF MarkDeleted, Secluded
    <3>2. UNCHANGED <<objects, avatar, stale, waived, keys, target, previous>>
      BY <2>4 DEF MarkDeleted
    <3>3. QED
      BY <1>1, <2>1, <3>1, <3>2 DEF Secluded, HasRow, Served, Has
  <2>5. CASE EraseObject(r)
    <3>1. objects'[a] = objects[a]
      BY <1>1, <2>1, <2>5 DEF EraseObject, Secluded
    <3>2. UNCHANGED <<rows, avatar, stale, waived>>
      BY <2>5 DEF EraseObject
    <3>3. \A p \in Request : keys'[p] \subseteq keys[p] /\ target'[p] \in {target[p], None}
                            /\ previous'[p] \in {previous[p], None}
      BY <2>5 DEF EraseObject
    <3>4. QED
      BY <1>1, <2>1, <3>1, <3>2, <3>3 DEF Secluded, HasRow, Served, Has
  <2>6. QED
    BY <2>2, <2>3, <2>4, <2>5 DEF Delete
<1>2. Private(r)' = {}
  BY DEF Delete, AskDelete, FindToDelete, MarkDeleted, MarkFails, EraseObject, Private
<1>3. QED
  BY <1>1, <1>2, OthersKept DEF PrivateIsPrivate

\* What a request drew is its own, whatever the step.
LEMMA PrivateStep ==
  ASSUME TypeInv, Tidy, IdsDrawn, PrivateIsPrivate, PurgeScope, [Next]_vars
  PROVE  PrivateIsPrivate'
<1> USE DEF TypeInv, world, local, job, history
<1>1. \A r \in Request : \A a \in Private(r) : Secluded(r, a) /\ a \in Attachment /\ ~Has(a, "pending") /\ a # None
  BY PrivateDrawn, AttachmentsAssumption DEF PrivateIsPrivate, Secluded, Private, Served, Has
<1>2. ASSUME NEW a \in Attachment, Age(a) PROVE PrivateIsPrivate'
  <2>1. UNCHANGED <<world, local, waived>> /\ stale' = stale \cup {a} /\ Has(a, "pending")
    BY <1>2 DEF Age
  <2>2. ASSUME NEW r \in Request, NEW f \in Private(r)' PROVE Secluded(r, f)'
    <3>1. f \in Private(r)
      BY <2>1, <2>2 DEF Private
    <3>2. Secluded(r, f) /\ f # a
      BY <1>1, <2>1, <3>1
    <3>3. QED
      BY <2>1, <3>2 DEF Secluded, Has, HasRow, Served
  <2>3. QED
    BY <2>2 DEF PrivateIsPrivate
<1>3. CASE Select \/ PurgeStops \/ UNCHANGED vars
  <2>1. UNCHANGED <<world, local, stale, waived>>
    BY <1>3 DEF Select, PurgeStops, vars
  <2>2. ASSUME NEW r \in Request, NEW f \in Private(r)' PROVE Secluded(r, f)'
    <3>1. f \in Private(r)
      BY <2>1, <2>2 DEF Private
    <3>2. Secluded(r, f)
      BY <1>1, <3>1
    <3>3. QED
      BY <2>1, <3>2 DEF Secluded, Has, HasRow, Served
  <2>3. QED
    BY <2>2 DEF PrivateIsPrivate
<1>4. CASE PurgeObject
  <2>1. PICK b \in left : objects' = [objects EXCEPT ![b] = 0] \/ UNCHANGED objects
    BY <1>4 DEF PurgeObject
  <2>2. UNCHANGED <<rows, avatar, stale, local, waived>> /\ b \in stale
    BY <1>4, <2>1 DEF PurgeObject, PurgeScope
  <2>3. \A r \in Request : Private(r)' = Private(r)
    BY <2>2 DEF Private
  <2>4. \A r \in Request : \A a \in Private(r) : objects'[a] = objects[a]
    BY <1>1, <2>1, <2>2 DEF Secluded
  <2>5. QED
    BY <1>1, <2>2, <2>3, <2>4 DEF PrivateIsPrivate, Secluded, Has, HasRow, Served
<1>5. CASE PurgeRows
  <2>1. UNCHANGED <<objects, avatar, local>> /\ stale' \subseteq stale /\ waived' \subseteq waived
    BY <1>5 DEF PurgeRows
  <2>2. \A r \in Request : Private(r)' = Private(r)
    BY <2>1 DEF Private
  <2>3. \A r \in Request : \A a \in Private(r) : rows'[a] = rows[a]
    BY <1>1, <1>5 DEF PurgeRows, Purgeable
  <2>4. QED
    BY <1>1, <2>1, <2>2, <2>3 DEF PrivateIsPrivate, Secluded, Has, HasRow, Served
<1>6. ASSUME NEW p \in Process, Crash(p) PROVE PrivateIsPrivate'
  <2>1. UNCHANGED <<world, stale, waived>>
    BY <1>6 DEF Crash
  <2>2. ASSUME NEW r \in Request
        PROVE  \/ pc'[r] = "idle" /\ keys'[r] = {} /\ target'[r] = None /\ previous'[r] = None
               \/ pc'[r] = pc[r] /\ keys'[r] = keys[r] /\ target'[r] = target[r] /\ previous'[r] = previous[r]
    BY <1>6 DEF Crash
  <2>3. ASSUME NEW r \in Request, NEW a \in Private(r)' PROVE Secluded(r, a)'
    <3>1. /\ pc'[r] = pc[r] /\ keys'[r] = keys[r] /\ target'[r] = target[r] /\ previous'[r] = previous[r]
          /\ a \in Private(r)
      BY <2>2, <2>3 DEF Private
    <3>2. Secluded(r, a) /\ a # None
      BY <1>1, <3>1
    <3>3. QED
      BY <2>1, <2>2, <3>1, <3>2 DEF Secluded, Has, HasRow, Served
  <2>4. QED
    BY <2>3 DEF PrivateIsPrivate
<1>7. QED
  BY <1>2, <1>3, <1>4, <1>5, <1>6, PrivateBatch, PrivateConfirm, PrivateAvatar, PrivateDelete DEF Next, Purge

-----------------------------------------------------------------------------
(* Who writes what *)

\* The five ways the row of an attachment changes.
Inserted(r, a) ==
  /\ pc[r] = "body" /\ a \in Private(r)
  /\ rows'[a] = NewRow(a, "pending", "multi")
  /\ pc'[r] = "idle" \/ a \in waived'
Posed(r, a) == pc[r] = "insert" /\ a \in Private(r) /\ rows'[a] = NewRow(a, "ready", "avatar")
Confirmed(r, a) == pc[r] = "save" /\ a \in keys[r] /\ HasRow(a) /\ rows'[a] = In(rows[a], "ready")
Deleted(r, a) ==
  /\ pc[r] = "mark" /\ a = target[r] /\ HasRow(a) /\ rows'[a] = In(rows[a], "deleted")
  /\ pc'[r] = "erase" /\ target'[r] = target[r]
Purged(a) == rows'[a] = NoRow /\ Purgeable(a) /\ left = {} /\ picked' = {}

RowChange(a) ==
  \/ \E r \in Request : Inserted(r, a) \/ Posed(r, a) \/ Confirmed(r, a) \/ Deleted(r, a)
  \/ Purged(a)

\* A step that changes a row changes no object, nor the avatar.
LEMMA RowsFrom ==
  ASSUME TypeInv, Tidy, [Next]_vars, NEW a \in Attachment, rows'[a] # rows[a]
  PROVE  RowChange(a) /\ UNCHANGED <<objects, avatar, putBack>>
<1> USE DEF TypeInv, world, history
<1>1. ASSUME NEW r \in Request, Batch(r)
      PROVE  Inserted(r, a) /\ UNCHANGED <<objects, avatar, putBack>>
  <2>1. CASE InsertBatch(r)
    <3>1. a \in done[r] /\ rows'[a] = NewRow(a, "pending", "multi") /\ pc'[r] = "idle" /\ pc[r] = "body"
      BY <2>1 DEF InsertBatch, InsertRows, Ends
    <3>2. QED
      BY <2>1, <3>1 DEF InsertBatch, Inserted, Private, Tidy
  <2>2. CASE InsertBatchFails(r)
    <3>1. /\ a \in done[r] /\ rows'[a] = NewRow(a, "pending", "multi") /\ pc[r] = "body" /\ a \in waived'
      BY <2>2 DEF InsertBatchFails, InsertRows
    <3>2. QED
      BY <2>2, <3>1 DEF InsertBatchFails, Inserted, Private, Tidy
  <2>3. QED
    BY <1>1, <2>1, <2>2 DEF Batch, Admit, PutFile, PutFileFails, BodyFails, Discard
<1>2. ASSUME NEW r \in Request, Confirm(r)
      PROVE  Confirmed(r, a) /\ UNCHANGED <<objects, avatar, putBack>>
  <2>1. CASE SaveReady(r)
    BY <2>1, RowWrites DEF SaveReady, Confirmed
  <2>2. QED
    BY <1>2, <2>1 DEF Confirm, FindPending, Head, ConfirmFails
<1>3. ASSUME NEW r \in Request, Avatar(r)
      PROVE  Posed(r, a) /\ UNCHANGED <<objects, avatar, putBack>>
  BY <1>3 DEF Avatar, FindUser, PutAvatar, PutAvatarFails, InsertAvatar, InsertAvatarFails,
     PersistAvatar, PersistAvatarFails, SaveUser, Posed, Private
<1>4. ASSUME NEW r \in Request, Delete(r)
      PROVE  Deleted(r, a) /\ UNCHANGED <<objects, avatar, putBack>>
  <2>1. CASE MarkDeleted(r)
    <3>1. HasRow(target[r]) /\ target[r] \in Attachment /\ pc[r] = "mark"
      BY <2>1 DEF MarkDeleted, Tidy, Targeting
    <3>2. rows' = [rows EXCEPT ![target[r]] = In(rows[target[r]], "deleted")]
      BY <2>1, <3>1, RowWrites DEF MarkDeleted
    <3>3. pc'[r] = "erase" /\ UNCHANGED <<objects, avatar, putBack, target>>
      BY <2>1 DEF MarkDeleted, Goes
    <3>4. QED
      BY <3>1, <3>2, <3>3 DEF Deleted
  <2>2. QED
    BY <1>4, <2>1 DEF Delete, AskDelete, FindToDelete, MarkFails, EraseObject
<1>5. CASE PurgeRows
  BY <1>5 DEF PurgeRows, RowChange, Purged
<1>6. QED
  BY <1>1, <1>2, <1>3, <1>4, <1>5 DEF RowChange, Next, vars, Age, Purge, Select, PurgeObject, PurgeStops, Crash

\* The four ways an object changes: one is stored under a fresh key, or one is
\* erased by a batch that gives up, by a deletion or by the purge.
Erasable(a) ==
  \/ \E r \in Request : pc[r] = "discard" /\ a \in keys[r]
  \/ \E r \in Request : pc[r] = "erase" /\ a = target[r]
  \/ a \in left

\* An object comes with a new id and goes where somebody may erase it.
LEMMA ObjectsFrom ==
  ASSUME TypeInv, Tidy, [Next]_vars, NEW a \in Attachment, objects'[a] # objects[a]
  PROVE  a \in Fresh \/ (objects'[a] = 0 /\ Erasable(a))
<1> USE DEF TypeInv, world, Erasable
<1>1. ASSUME NEW r \in Request, Batch(r) PROVE a \in Fresh \/ (objects'[a] = 0 /\ Erasable(a))
  BY <1>1 DEF Batch, Admit, PutFile, PutFileFails, BodyFails, InsertBatch, InsertBatchFails, Discard
<1>2. ASSUME NEW r \in Request, Avatar(r) PROVE a \in Fresh
  BY <1>2 DEF Avatar, FindUser, PutAvatar, PutAvatarFails, InsertAvatar, InsertAvatarFails,
     PersistAvatar, PersistAvatarFails, SaveUser
<1>3. ASSUME NEW r \in Request, Delete(r) PROVE objects'[a] = 0 /\ Erasable(a)
  BY <1>3 DEF Delete, AskDelete, FindToDelete, MarkDeleted, MarkFails, EraseObject
<1>4. CASE PurgeObject
  BY <1>4 DEF PurgeObject
<1>5. QED
  BY <1>1, <1>2, <1>3, <1>4 DEF Next, vars, Confirm, FindPending, Head, ConfirmFails, SaveReady,
     Age, Purge, Select, PurgeRows, PurgeStops, Crash

\* Only the purge of its row takes an attachment out of stale or waived.
LEMMA MarksKept ==
  ASSUME TypeInv, [Next]_vars, NEW a \in Attachment, HasRow(a)'
  PROVE  (a \in waived => a \in waived') /\ (a \in stale => a \in stale')
<1> USE DEF world, history, HasRow
<1>1. CASE PurgeRows
  BY <1>1 DEF PurgeRows
<1>2. QED
  BY ZenonT(40), <1>1 DEF Next, vars, Batch, Admit, PutFile, PutFileFails, BodyFails, InsertBatch, InsertBatchFails, Discard,
     Confirm, FindPending, Head, ConfirmFails, SaveReady, Avatar, FindUser, PutAvatar, PutAvatarFails,
     InsertAvatar, InsertAvatarFails, PersistAvatar, PersistAvatarFails, SaveUser, Delete, AskDelete,
     FindToDelete, MarkDeleted, MarkFails, EraseObject, Age, Purge, Select, PurgeObject, PurgeStops, Crash

\* A fresh id has no row in the next state either.
LEMMA FreshStays ==
  ASSUME TypeInv, Tidy, IdsDrawn, [Next]_vars, NEW a \in Fresh
  PROVE  ~HasRow(a)'
<1>1. a \in Attachment /\ a \notin used /\ ~HasRow(a) /\ \A q \in Request : a \notin keys[q] /\ a # target[q]
  BY FreshIsNew
<1>2. \A q \in Request : a \notin Private(q)
  BY <1>1, PrivateDrawn
<1>3. rows'[a] = rows[a]
  BY <1>1, <1>2, RowsFrom DEF RowChange, Inserted, Posed, Confirmed, Deleted, Purged, Purgeable, Has
<1>4. QED
  BY <1>1, <1>3 DEF HasRow

\* Rows come to ids that had none only through the request that drew them.
LEMMA RowsArrive ==
  ASSUME TypeInv, Tidy, PrivateIsPrivate, [Next]_vars, NEW a \in Attachment, ~HasRow(a), HasRow(a)'
  PROVE  \E r \in Request : /\ Inserted(r, a) \/ Posed(r, a)
                            /\ \A q \in Request : a \in keys[q] \/ a = target[q] => q = r
<1>1. rows'[a] # rows[a]
  BY DEF HasRow
<1>2. PICK r \in Request : Inserted(r, a) \/ Posed(r, a)
  BY <1>1, RowsFrom DEF RowChange, Confirmed, Deleted, Purged, Purgeable, Has, HasRow
<1>3. a \in Private(r)
  BY <1>2 DEF Inserted, Posed
<1>4. QED
  BY <1>2, <1>3 DEF PrivateIsPrivate, Secluded

-----------------------------------------------------------------------------
(* Keys, removals and the purge *)

\* Where the keys a request holds come from.
LEMMA KeysFrom ==
  ASSUME TypeInv, Tidy, [Next]_vars, NEW r \in Request, NEW a \in keys'[r]
  PROVE  \/ a \in keys[r] /\ (pc'[r] = "discard" => pc[r] \in {"body", "discard"})
         \/ a \in Fresh
         \/ Has(a, "pending") /\ a \in Attachment /\ rows[a].profile = "multi" /\ UNCHANGED rows /\ pc'[r] = "head"
<1> USE DEF TypeInv, Tidy, Batching, Goes, Ends, local
<1>1. ASSUME NEW q \in Request, Batch(q) \/ Confirm(q) \/ Avatar(q) \/ Delete(q), q # r
      PROVE  a \in keys[r] /\ (pc'[r] = "discard" => pc[r] \in {"body", "discard"})
  BY <1>1, OthersKept
<1>2. CASE Batch(r)
  BY <1>2 DEF Batch, Admit, PutFile, PutFileFails, BodyFails, InsertBatch, InsertBatchFails, Discard
<1>3. CASE Confirm(r)
  BY <1>3 DEF Confirm, FindPending, Head, ConfirmFails, SaveReady, world
<1>4. CASE Avatar(r)
  BY <1>4 DEF Avatar, FindUser, PutAvatar, PutAvatarFails, InsertAvatar, InsertAvatarFails,
     PersistAvatar, PersistAvatarFails, SaveUser
<1>5. CASE Delete(r)
  BY <1>5 DEF Delete, AskDelete, FindToDelete, MarkDeleted, MarkFails, EraseObject
<1>6. ASSUME NEW p \in Process, Crash(p) PROVE a \in keys[r] /\ (pc'[r] = "discard" => pc[r] \in {"body", "discard"})
  BY <1>6 DEF Crash
<1>7. CASE UNCHANGED local
  BY <1>7
<1>8. QED
  BY <1>1, <1>2, <1>3, <1>4, <1>5, <1>6, <1>7 DEF Next, vars, Age, Purge, Select, PurgeObject, PurgeRows, PurgeStops

\* What a change of a row leaves of its profile and its status.
LEMMA ProfileKept ==
  ASSUME TypeInv, Tidy, PrivateIsPrivate, [Next]_vars, NEW a \in Attachment, HasRow(a), HasRow(a)'
  PROVE  /\ rows'[a].profile = rows[a].profile /\ rows'[a].size = rows[a].size
         /\ rows'[a] = rows[a] \/ \E r \in Request : Confirmed(r, a) \/ Deleted(r, a)
<1>1. CASE rows'[a] = rows[a]
  BY <1>1
<1>2. CASE rows'[a] # rows[a]
  <2>1. rows[a] \in Row
    BY DEF TypeInv, HasRow
  <2>2. ASSUME NEW r \in Request, Inserted(r, a) \/ Posed(r, a) PROVE FALSE
    BY <2>2 DEF Inserted, Posed, PrivateIsPrivate, Secluded
  <2>3. \E r \in Request : Confirmed(r, a) \/ Deleted(r, a)
    BY <1>2, <2>2, RowsFrom DEF RowChange, Purged, HasRow
  <2>4. QED
    BY <2>1, <2>3, RowOps DEF Confirmed, Deleted
<1>3. QED
  BY <1>1, <1>2

\* The keys of a batch are never an avatar's.
LEMMA KeysStep ==
  ASSUME TypeInv, Tidy, IdsDrawn, PrivateIsPrivate, KeysAreFiles, [Next]_vars
  PROVE  KeysAreFiles'
<1> SUFFICES ASSUME NEW r \in Request, NEW a \in keys'[r], HasRow(a)'
             PROVE  rows'[a].profile = "multi" /\ (pc'[r] = "discard" => a \in waived')
  BY DEF KeysAreFiles
<1>1. CASE a \in Fresh
  BY <1>1, FreshStays
<1>2. CASE Has(a, "pending") /\ a \in Attachment /\ rows[a].profile = "multi" /\ UNCHANGED rows /\ pc'[r] = "head"
  BY <1>2
<1>3. CASE a \in keys[r] /\ (pc'[r] = "discard" => pc[r] \in {"body", "discard"})
  <2>1. a \in Attachment
    BY <1>3 DEF TypeInv
  <2>2. CASE HasRow(a)
    <3>1. pc[r] # "body"
      BY <1>3, <2>2 DEF Private, PrivateIsPrivate, Secluded
    <3>2. QED
      BY <1>3, <2>1, <2>2, <3>1, ProfileKept, MarksKept DEF KeysAreFiles
  <2>3. CASE ~HasRow(a)
    <3>1. Inserted(r, a) \/ Posed(r, a)
      BY <1>3, <2>1, <2>3, RowsArrive
    <3>2. pc[r] # "insert"
      BY <1>3 DEF Tidy, Batching
    <3>3. QED
      BY <2>1, <3>1, <3>2, RowOps DEF Inserted, Posed
  <2>4. QED
    BY <2>2, <2>3
<1>4. QED
  BY <1>1, <1>2, <1>3, KeysFrom

\* Where the id a request is about to remove comes from.
LEMMA RemovingFrom ==
  ASSUME TypeInv, Tidy, [Next]_vars, NEW r \in Request, Removing(r)'
  PROVE  \/ Removing(r) /\ target'[r] = target[r]
         \/ /\ HasRow(target'[r]) /\ rows[target'[r]].profile = "multi" /\ target'[r] \in waived' \cap Attachment
            /\ UNCHANGED <<rows, avatar, putBack>>
         \/ PersistAvatar(r) /\ target'[r] = previous[r] /\ previous[r] \in waived' /\ previous[r] # target[r]
<1> USE DEF TypeInv, Tidy, Removing, Targeting, Goes, Ends, local
<1>1. ASSUME NEW q \in Request, Batch(q) \/ Confirm(q) \/ Avatar(q) \/ Delete(q), q # r
      PROVE  Removing(r) /\ target'[r] = target[r]
  BY <1>1, OthersKept
<1>2. CASE Batch(r)
  BY <1>2 DEF Batch, Admit, PutFile, PutFileFails, BodyFails, InsertBatch, InsertBatchFails, Discard
<1>3. CASE Confirm(r)
  BY <1>3 DEF Confirm, FindPending, Head, ConfirmFails, SaveReady, world
<1>4. CASE Avatar(r)
  BY <1>4 DEF Avatar, FindUser, PutAvatar, PutAvatarFails, InsertAvatar, InsertAvatarFails,
     PersistAvatar, PersistAvatarFails, SaveUser
<1>5. CASE Delete(r)
  BY <1>5 DEF Delete, AskDelete, FindToDelete, MarkDeleted, MarkFails, EraseObject, world
<1>6. ASSUME NEW p \in Process, Crash(p) PROVE Removing(r) /\ target'[r] = target[r]
  BY <1>6 DEF Crash
<1>7. CASE UNCHANGED local
  BY <1>7
<1>8. QED
  BY <1>1, <1>2, <1>3, <1>4, <1>5, <1>6, <1>7 DEF Next, vars, Age, Purge, Select, PurgeObject, PurgeRows, PurgeStops

\* The avatar moves to the one just inserted, or back by a stale save of the user.
LEMMA AvatarFrom ==
  ASSUME TypeInv, [Next]_vars, ~putBack'
  PROVE  /\ ~putBack
         /\ \/ avatar' = avatar
            \/ \E r \in Request : pc[r] = "point" /\ avatar' = target[r] /\ PersistAvatar(r) /\ UNCHANGED <<rows, objects>>
<1> USE DEF TypeInv, world, history
<1>1. ASSUME NEW r \in Request, Avatar(r)
      PROVE  ~putBack /\ (avatar' = avatar \/ (pc[r] = "point" /\ avatar' = target[r] /\ PersistAvatar(r) /\ UNCHANGED <<rows, objects>>))
  BY <1>1 DEF Avatar, FindUser, PutAvatar, PutAvatarFails, InsertAvatar, InsertAvatarFails,
     PersistAvatar, PersistAvatarFails, SaveUser
<1>2. QED
  BY ZenonT(40), <1>1 DEF Next, vars, Batch, Admit, PutFile, PutFileFails, BodyFails, InsertBatch, InsertBatchFails, Discard,
     Confirm, FindPending, Head, ConfirmFails, SaveReady, Delete, AskDelete,
     FindToDelete, MarkDeleted, MarkFails, EraseObject, Age, Purge, Select, PurgeObject, PurgeRows, PurgeStops, Crash

\* What is removed was asked for.
LEMMA RemovalsStep ==
  ASSUME TypeInv, Tidy, PrivateIsPrivate, RemovalsAreMeant, AvatarStands, [Next]_vars
  PROVE  RemovalsAreMeant'
<1>1. ASSUME NEW r \in Request, NEW t \in Attachment, Removing(r), t = target[r], HasRow(t)'
      PROVE  t \in waived'
  <2>1. CASE HasRow(t)
    BY <1>1, <2>1, MarksKept DEF RemovalsAreMeant
  <2>2. CASE ~HasRow(t)
    <3>1. \E q \in Request : (Inserted(q, t) \/ Posed(q, t)) /\ r = q
      BY <1>1, <2>2, RowsArrive
    <3>2. QED
      BY <1>1, <3>1 DEF Inserted, Posed, Removing
  <2>3. QED
    BY <2>1, <2>2
<1>2. ASSUME NEW r \in Request, Removing(r)', NEW t, t = target'[r]
      PROVE  (HasRow(t)' => t \in waived') /\ (putBack' \/ t # avatar')
  <2>1. CASE Removing(r) /\ t = target[r]
    <3>1. t \in Attachment /\ (putBack \/ t # avatar)
      BY <2>1 DEF Tidy, Targeting, Removing, RemovalsAreMeant
    <3>2. HasRow(t)' => t \in waived'
      BY <1>1, <2>1, <3>1
    <3>3. ASSUME NEW q \in Request, pc[q] = "point", avatar' = target[q] PROVE t # avatar'
      BY <2>1, <3>3 DEF Private, PrivateIsPrivate, Secluded, Removing
    <3>4. QED
      BY <3>1, <3>2, <3>3, AvatarFrom DEF TypeInv
  <2>2. CASE /\ HasRow(t) /\ rows[t].profile = "multi" /\ t \in waived' \cap Attachment
             /\ UNCHANGED <<rows, avatar, putBack>>
    <3>1. putBack \/ t # avatar
      BY <2>2, AttachmentsAssumption DEF AvatarStands
    <3>2. QED
      BY <2>2, <3>1
  <2>3. CASE PersistAvatar(r) /\ t = previous[r] /\ previous[r] \in waived' /\ previous[r] # target[r]
    BY <2>3 DEF PersistAvatar
  <2>4. QED
    BY <1>2, <2>1, <2>2, <2>3, RemovingFrom
<1>3. ASSUME NEW a \in Attachment, Has(a, "deleted")' PROVE a \in waived'
  <2>1. HasRow(a)' /\ rows'[a].status = "deleted"
    BY <1>3 DEF Has
  <2>2. CASE rows'[a] = rows[a]
    BY <2>1, <2>2, MarksKept DEF RemovalsAreMeant, Has, HasRow
  <2>3. ASSUME NEW r \in Request, Deleted(r, a) PROVE a \in waived'
    <3>1. a \in waived
      BY <2>3 DEF Deleted, RemovalsAreMeant, Removing
    <3>2. QED
      BY <2>1, <3>1, MarksKept
  <2>4. ASSUME NEW r \in Request, Inserted(r, a) \/ Posed(r, a) \/ Confirmed(r, a) PROVE FALSE
    BY <2>1, <2>4, RowOps DEF Inserted, Posed, Confirmed, TypeInv, HasRow
  <2>5. QED
    BY <2>1, <2>2, <2>3, <2>4, RowsFrom DEF RowChange, Purged, HasRow
<1>4. ASSUME NEW r \in Request, Removing(r)'
      PROVE  (HasRow(target[r]) => target[r] \in waived)' /\ (putBack \/ target[r] # avatar)'
  BY <1>2, <1>4 DEF HasRow
<1>5. QED
  BY <1>3, <1>4 DEF RemovalsAreMeant

\* The purge sees files that waited for a day.
LEMMA ScopeStep ==
  ASSUME TypeInv, Tidy, PrivateIsPrivate, PurgeScope, [Next]_vars
  PROVE  PurgeScope'
<1> USE DEF world, job, history
<1>1. left' \subseteq picked' /\ picked' \subseteq stale'
  <2>1. CASE Select
    BY <2>1 DEF Select, StalePending, Pending
  <2>2. CASE PurgeObject \/ PurgeRows \/ PurgeStops
    BY <2>2 DEF PurgeObject, PurgeRows, PurgeStops, PurgeScope
  <2>3. CASE UNCHANGED <<picked, left>> /\ stale \subseteq stale'
    BY <2>3 DEF PurgeScope
  <2>4. QED
    BY ZenonT(40), <2>1, <2>2, <2>3 DEF Next, vars, Purge, Batch, Admit, PutFile, PutFileFails, BodyFails, InsertBatch,
       InsertBatchFails, Discard, Confirm, FindPending, Head, ConfirmFails, SaveReady, Avatar, FindUser,
       PutAvatar, PutAvatarFails, InsertAvatar, InsertAvatarFails, PersistAvatar, PersistAvatarFails, SaveUser,
       Delete, AskDelete, FindToDelete, MarkDeleted, MarkFails, EraseObject, Age, Crash
<1>2. ASSUME NEW a \in Attachment, a \in stale', a \notin stale PROVE Has(a, "pending")
  BY ZenonT(40), <1>2 DEF Next, vars, Purge, Batch, Admit, PutFile, PutFileFails, BodyFails, InsertBatch,
       InsertBatchFails, Discard, Confirm, FindPending, Head, ConfirmFails, SaveReady, Avatar, FindUser,
       PutAvatar, PutAvatarFails, InsertAvatar, InsertAvatarFails, PersistAvatar, PersistAvatarFails, SaveUser,
       Delete, AskDelete, FindToDelete, MarkDeleted, MarkFails, EraseObject, Age, Crash, Select, PurgeObject,
       PurgeRows, PurgeStops
<1>3. ASSUME NEW a \in Attachment, a \in stale' \/ Has(a, "pending")', HasRow(a)' PROVE rows'[a].profile = "multi"
  <2>1. CASE HasRow(a)
    <3>1. rows'[a] = rows[a] \/ ~Has(a, "pending")'
      <4>1. rows[a] \in Row
        BY <2>1 DEF TypeInv, HasRow
      <4>2. \A r \in Request : Confirmed(r, a) \/ Deleted(r, a) => rows'[a].status # "pending"
        BY <4>1, RowOps DEF Confirmed, Deleted
      <4>3. QED
        BY <1>3, <2>1, <4>2, ProfileKept DEF Has
    <3>2. a \in stale \/ Has(a, "pending")
      BY <1>2, <1>3, <3>1 DEF Has, HasRow
    <3>3. QED
      BY <1>3, <2>1, <3>2, ProfileKept DEF PurgeScope
  <2>2. CASE ~HasRow(a)
    <3>1. PICK r \in Request : Inserted(r, a) \/ Posed(r, a)
      BY <1>3, <2>2, RowsArrive
    <3>2. CASE Inserted(r, a)
      BY <3>2, RowOps DEF Inserted
    <3>3. CASE Posed(r, a)
      <4>1. a \notin stale /\ rows'[a].status = "ready"
        BY <3>3, RowOps DEF Posed, PrivateIsPrivate, Secluded
      <4>2. QED
        BY <1>2, <1>3, <2>2, <4>1 DEF Has
    <3>4. QED
      BY <3>1, <3>2, <3>3
  <2>3. QED
    BY <2>1, <2>2
<1>4. QED
  BY <1>1, <1>3 DEF PurgeScope

\* The avatar stands until its user is given another.
LEMMA AvatarStandsStep ==
  ASSUME TypeInv, Tidy, IdsDrawn, PrivateIsPrivate, KeysAreFiles, RemovalsAreMeant, PurgeScope, AvatarStands, [Next]_vars
  PROVE  AvatarStands'
<1> SUFFICES ASSUME avatar' # None, ~putBack'
             PROVE  Served(avatar)' /\ rows'[avatar'].profile = "avatar" /\ objects'[avatar'] > 0
  BY DEF AvatarStands
<1>1. ~putBack
  BY AvatarFrom
<1>2. CASE avatar' = avatar
  <2>1. /\ avatar \in Attachment /\ HasRow(avatar) /\ rows[avatar].status = "ready"
        /\ rows[avatar].profile = "avatar" /\ objects[avatar] > 0
    BY <1>1, <1>2 DEF TypeInv, Id, AvatarStands, Served, Has
  <2>2. \A r \in Request : avatar \notin keys[r] /\ (Removing(r) => avatar # target[r]) /\ avatar \notin Private(r)
    BY <1>1, <2>1 DEF KeysAreFiles, RemovalsAreMeant, PrivateIsPrivate, Secluded
  <2>3. rows'[avatar] = rows[avatar]
    BY <2>1, <2>2, RowsFrom DEF RowChange, Inserted, Posed, Confirmed, Deleted, Purged, Purgeable, Removing, Has
  <2>4. avatar \notin left /\ avatar \notin Fresh
    BY <2>1, FreshIsNew DEF PurgeScope
  <2>5. objects'[avatar] = objects[avatar]
    BY <2>1, <2>2, <2>4, ObjectsFrom DEF Erasable, Removing
  <2>6. QED
    BY <1>2, <2>1, <2>3, <2>5 DEF Served, Has, HasRow
<1>3. ASSUME NEW r \in Request, pc[r] = "point", avatar' = target[r], UNCHANGED <<rows, objects>>
      PROVE  Served(avatar)' /\ rows'[avatar'].profile = "avatar" /\ objects'[avatar'] > 0
  BY <1>3 DEF Private, PrivateIsPrivate, Secluded, Served, Has, HasRow
<1>4. QED
  BY <1>2, <1>3, AvatarFrom

-----------------------------------------------------------------------------
(* The theorems *)

IInv == /\ TypeInv /\ Tidy /\ IdsDrawn /\ PrivateIsPrivate
        /\ KeysAreFiles /\ RemovalsAreMeant /\ PurgeScope /\ AvatarStands

\* Types, and who may hold, write or remove what: the ground of the three others.
THEOREM Ownership == Spec => []IInv
<1>1. ASSUME Init PROVE IInv
  <2> USE <1>1 DEF Init, Has, HasRow
  <2>1. TypeInv
    BY AttachmentsAssumption DEF TypeInv, Step, Id
  <2>2. Tidy /\ PrivateIsPrivate /\ KeysAreFiles /\ RemovalsAreMeant
    BY DEF Tidy, Batching, Targeting, Removing, PrivateIsPrivate, Private, KeysAreFiles, RemovalsAreMeant
  <2>3. IdsDrawn /\ PurgeScope /\ AvatarStands
    BY DEF IdsDrawn, PurgeScope, AvatarStands
  <2>4. QED
    BY <2>1, <2>2, <2>3 DEF IInv
<1>2. IInv /\ [Next]_vars => IInv'
  BY TypeStep, TidyStep, DrawnStep, PrivateStep, KeysStep, RemovalsStep, ScopeStep, AvatarStandsStep DEF IInv
<1>3. QED
  BY <1>1, <1>2, PTL DEF Spec

\* The user's avatar is a ready row with its object, however many requests pose,
\* clean up, purge and crash, unless a save of the whole user put an old one back.
THEOREM AvatarServed == Spec => []AvatarIsServed
<1>1. IInv => AvatarIsServed
  BY DEF IInv, AvatarStands, AvatarIsServed
<1>2. QED
  BY <1>1, Ownership, PTL

\* A row keeps its object.
LEMMA ObjectsStep ==
  ASSUME IInv, RowsKeepTheirObject, [Next]_vars
  PROVE  RowsKeepTheirObject'
<1> USE DEF IInv
<1> SUFFICES ASSUME NEW a \in Attachment, (Has(a, "pending") \/ Has(a, "ready"))', a \notin stale' \cup waived'
             PROVE  objects'[a] = rows'[a].size
  BY DEF RowsKeepTheirObject
<1>1. HasRow(a)' /\ a \notin stale /\ a \notin waived
  BY MarksKept DEF Has
<1>2. CASE HasRow(a)
  <2>1. rows[a] \in Row
    BY <1>2 DEF TypeInv, HasRow
  <2>2. Has(a, "pending") \/ Has(a, "ready")
    BY <1>1, <1>2, <2>1, RowOps DEF RemovalsAreMeant, Has
  <2>3. objects[a] = rows[a].size
    BY <1>1, <2>2 DEF RowsKeepTheirObject
  <2>4. rows'[a].size = rows[a].size
    BY <1>1, <1>2, ProfileKept
  <2>5. a \notin Fresh /\ ~Erasable(a)
    BY <1>1, <1>2, FreshIsNew DEF Erasable, KeysAreFiles, RemovalsAreMeant, Removing, PurgeScope
  <2>6. QED
    BY <2>3, <2>4, <2>5, ObjectsFrom
<1>3. CASE ~HasRow(a)
  <2>1. rows'[a] # rows[a]
    BY <1>1, <1>3 DEF HasRow
  <2>2. UNCHANGED objects
    BY <2>1, RowsFrom
  <2>3. rows'[a].size = objects[a]
    BY <1>1, <1>3, RowsArrive, RowOps DEF Inserted, Posed
  <2>4. QED
    BY <2>2, <2>3
<1>4. QED
  BY <1>2, <1>3

\* No purge, discarded batch, deletion or confirmation, in any interleaving and with
\* any crash, takes the object of a row that stands, unless the row was left pending
\* for a day, somebody asked to delete it or its insert was in doubt.
THEOREM ObjectsKept == Spec => []RowsKeepTheirObject
<1>1. Init => RowsKeepTheirObject
  BY DEF Init, RowsKeepTheirObject, Has, HasRow
<1>2. IInv /\ RowsKeepTheirObject /\ [Next]_vars => RowsKeepTheirObject'
  BY ObjectsStep
<1>3. QED
  BY <1>1, <1>2, Ownership, PTL DEF Spec

-----------------------------------------------------------------------------
(* No object is left behind *)

LEMMA NoFaultYet ==
  ASSUME TypeInv, [Next]_vars, faults' = 0
  PROVE  faults = 0
<1> USE DEF TypeInv, Fault
<1>1. ASSUME NEW r \in Request, Batch(r) PROVE faults = 0
  BY <1>1 DEF Batch, Admit, PutFile, PutFileFails, BodyFails, InsertBatch, InsertBatchFails, Discard
<1>2. ASSUME NEW r \in Request, Confirm(r) PROVE faults = 0
  BY <1>2 DEF Confirm, FindPending, Head, ConfirmFails, SaveReady
<1>3. ASSUME NEW r \in Request, Avatar(r) PROVE faults = 0
  BY <1>3 DEF Avatar, FindUser, PutAvatar, PutAvatarFails, InsertAvatar, InsertAvatarFails, PersistAvatar,
     PersistAvatarFails, SaveUser
<1>4. ASSUME NEW r \in Request, Delete(r) PROVE faults = 0
  BY <1>4 DEF Delete, AskDelete, FindToDelete, MarkDeleted, MarkFails, EraseObject
<1>5. QED
  BY <1>1, <1>2, <1>3, <1>4 DEF Next, vars, Age, Purge, Select, PurgeObject, PurgeRows, PurgeStops, Crash

\* While nothing fails, a debt stands until the object is gone or has a row.
LEMMA DebtsStand ==
  ASSUME TypeInv, Tidy, [Next]_vars, faults' = 0, NEW r \in Request, NEW a \in Attachment, Owes(r, a)
  PROVE  Owes(r, a)' \/ objects'[a] = 0 \/ Has(a, "pending")' \/ Has(a, "ready")'
<1> USE AttachmentsAssumption DEF TypeInv, Owes, Goes, Ends, local, Fault
<1>1. \A s \in {"pending", "ready"}, p \in {"multi", "avatar"} : rows'[a] = NewRow(a, s, p) => Has(a, s)'
  <2>1. \A s \in {"pending", "ready"}, p \in {"multi", "avatar"} : NewRow(a, s, p) \in Row /\ NewRow(a, s, p).status = s
    BY RowOps
  <2>2. QED
    BY <2>1 DEF Has, HasRow
<1>2. ASSUME NEW q \in Request, Batch(q) \/ Confirm(q) \/ Avatar(q) \/ Delete(q), q # r
      PROVE  Owes(r, a)'
  BY <1>2, OthersKept
<1>3. CASE Batch(r)
  <2>1. CASE InsertBatch(r)
    BY <1>1, <2>1 DEF InsertBatch, InsertRows, Tidy
  <2>2. CASE InsertBatchFails(r)
    BY <2>2, NoFaultYet DEF InsertBatchFails
  <2>3. CASE Discard(r)
    BY <2>3, NoFaultYet DEF Discard
  <2>4. QED
    BY <1>3, <2>1, <2>2, <2>3 DEF Batch, Admit, PutFile, PutFileFails, BodyFails
<1>4. CASE Confirm(r)
  BY <1>4 DEF Confirm, FindPending, Head, ConfirmFails, SaveReady
<1>5. CASE Avatar(r)
  <2>1. CASE InsertAvatar(r)
    BY <1>1, <2>1 DEF InsertAvatar
  <2>2. CASE InsertAvatarFails(r)
    BY <2>2, NoFaultYet DEF InsertAvatarFails
  <2>3. QED
    BY <1>5, <2>1, <2>2 DEF Avatar, FindUser, PutAvatar, PutAvatarFails, PersistAvatar, PersistAvatarFails, SaveUser
<1>6. CASE Delete(r)
  <2>1. CASE EraseObject(r)
    BY <2>1, NoFaultYet DEF EraseObject
  <2>2. QED
    BY <1>6, <2>1 DEF Delete, AskDelete, FindToDelete, MarkDeleted, MarkFails
<1>7. ASSUME NEW p \in Process, Crash(p) PROVE FALSE
  BY <1>7, NoFaultYet DEF Crash
<1>8. CASE UNCHANGED local
  BY <1>8
<1>9. QED
  BY <1>2, <1>3, <1>4, <1>5, <1>6, <1>7, <1>8 DEF Next, vars, Age, Purge, Select, PurgeObject, PurgeRows, PurgeStops

\* Whoever stores an object owes it at once.
LEMMA FreshIsOwed ==
  ASSUME TypeInv, Tidy, IdsDrawn, [Next]_vars, faults' = 0, NEW a \in Fresh, objects'[a] > 0
  PROVE  \E r \in Request : Owes(r, a)'
<1> USE DEF TypeInv, Owes, Goes, world, Fault
<1>1. a \in Attachment /\ ~(objects[a] > 0)
  BY FreshIsNew
<1>2. ASSUME NEW r \in Request, Batch(r) PROVE Owes(r, a)'
  BY <1>1, <1>2 DEF Batch, Admit, PutFile, PutFileFails, BodyFails, InsertBatch, InsertBatchFails, Discard
<1>3. ASSUME NEW r \in Request, Avatar(r) PROVE Owes(r, a)'
  BY <1>1, <1>3, NoFaultYet DEF Avatar, FindUser, PutAvatar, PutAvatarFails, InsertAvatar, InsertAvatarFails,
     PersistAvatar, PersistAvatarFails, SaveUser
<1>4. ~Purge
  BY <1>1 DEF Purge, Select, PurgeObject, PurgeRows
<1>5. ASSUME NEW r \in Request, Delete(r) PROVE FALSE
  BY <1>1, <1>5 DEF Delete, AskDelete, FindToDelete, MarkDeleted, MarkFails, EraseObject
<1>6. QED
  BY <1>1, <1>2, <1>3, <1>4, <1>5 DEF Next, vars, Confirm, FindPending, Head, ConfirmFails, SaveReady, Age, PurgeStops, Crash

\* While nothing fails, the purge is through with an id when its object is gone.
LEMMA PurgedOnce ==
  ASSUME TypeInv, PurgeScope, [Next]_vars, faults' = 0, NEW a \in picked' \ left'
  PROVE  a \in picked \ left \/ objects'[a] = 0
<1> USE DEF TypeInv, Fault, job
<1>1. CASE PurgeObject
  <2>1. PICK b \in left : left' = left \ {b} /\ objects' = [objects EXCEPT ![b] = 0]
    BY <1>1, NoFaultYet DEF PurgeObject
  <2>2. b \in Attachment /\ picked' = picked
    BY <1>1, <2>1 DEF PurgeObject, PurgeScope
  <2>3. QED
    BY <2>1, <2>2
<1>2. CASE Select \/ PurgeRows \/ PurgeStops
  BY <1>2 DEF Select, PurgeRows, PurgeStops
<1>3. CASE UNCHANGED <<picked, left>>
  BY <1>3
<1>4. QED
  BY ZenonT(40), <1>1, <1>2, <1>3 DEF Next, vars, Purge, Batch, Admit, PutFile, PutFileFails, BodyFails, InsertBatch,
     InsertBatchFails, Discard, Confirm, FindPending, Head, ConfirmFails, SaveReady, Avatar, FindUser,
     PutAvatar, PutAvatarFails, InsertAvatar, InsertAvatarFails, PersistAvatar, PersistAvatarFails, SaveUser,
     Delete, AskDelete, FindToDelete, MarkDeleted, MarkFails, EraseObject, Age, Crash

\* An object without a row is owed one, or its removal.
LEMMA OwedStep ==
  ASSUME IInv, ObjectsAreOwed, [Next]_vars
  PROVE  ObjectsAreOwed'
<1> USE DEF IInv
<1> SUFFICES ASSUME faults' = 0
             PROVE  /\ \A a \in Attachment : objects'[a] > 0 =>
                         Has(a, "pending")' \/ Has(a, "ready")' \/ \E r \in Request : Owes(r, a)'
                    /\ \A a \in picked' \ left' : objects'[a] = 0
  BY DEF ObjectsAreOwed
<1>1. faults = 0
  BY NoFaultYet
<1>2. ASSUME NEW a \in Attachment, objects'[a] > 0
      PROVE  Has(a, "pending")' \/ Has(a, "ready")' \/ \E r \in Request : Owes(r, a)'
  <2>1. CASE objects'[a] # objects[a]
    BY <1>2, <2>1, ObjectsFrom, FreshIsOwed
  <2>2. CASE objects'[a] = objects[a] /\ rows'[a] = rows[a] /\ (Has(a, "pending") \/ Has(a, "ready"))
    BY <2>2 DEF Has, HasRow
  <2>3. CASE objects'[a] = objects[a] /\ rows'[a] # rows[a]
    <3>1. ~Purged(a)
      BY <1>1, <1>2, <2>3 DEF Purged, Purgeable, ObjectsAreOwed, TypeInv
    <3>2. ASSUME NEW r \in Request, Inserted(r, a) \/ Posed(r, a) \/ Confirmed(r, a)
          PROVE  Has(a, "pending")' \/ Has(a, "ready")'
      <4>1. objects[a] \in Nat /\ rows[a] \in Row \cup {NoRow}
        BY DEF TypeInv
      <4>2. QED
        BY <3>2, <4>1, RowOps, AttachmentsAssumption DEF Inserted, Posed, Confirmed, Has, HasRow
    <3>3. ASSUME NEW r \in Request, Deleted(r, a) PROVE Owes(r, a)'
      BY <3>3 DEF Deleted, Owes
    <3>4. QED
      BY <2>3, <3>1, <3>2, <3>3, RowsFrom DEF RowChange
  <2>4. ASSUME objects'[a] = objects[a], NEW r \in Request, Owes(r, a)
        PROVE  Has(a, "pending")' \/ Has(a, "ready")' \/ Owes(r, a)'
    BY <1>2, <2>4, DebtsStand
  <2>5. QED
    BY <1>1, <1>2, <2>1, <2>2, <2>3, <2>4 DEF ObjectsAreOwed
<1>3. ASSUME NEW a \in picked' \ left' PROVE objects'[a] = 0
  <2>1. CASE a \in picked \ left
    <3>1. a \in Attachment /\ objects[a] = 0 /\ a \notin Fresh
      BY <1>1, <2>1, FreshIsNew DEF ObjectsAreOwed, TypeInv
    <3>2. QED
      BY <3>1, ObjectsFrom
  <2>2. QED
    BY <1>3, <2>1, PurgedOnce
<1>4. QED
  BY <1>2, <1>3

\* While nothing fails, every object in the storage has a live row, which the purge or
\* a deletion can find, or a request in flight that will insert its row or erase it.
THEOREM NothingLeaks == Spec => []NoObjectLeaks
<1>1. Init => ObjectsAreOwed
  BY DEF Init, ObjectsAreOwed
<1>2. IInv /\ ObjectsAreOwed /\ [Next]_vars => ObjectsAreOwed'
  BY OwedStep
<1>3. ObjectsAreOwed => NoObjectLeaks
  BY DEF ObjectsAreOwed, NoObjectLeaks, Owes
<1>4. QED
  BY <1>1, <1>2, <1>3, Ownership, PTL DEF Spec

-----------------------------------------------------------------------------
(* Sums of sizes *)

\* An attachment has as many bytes as its size says.
LEMMA BytesOfOne ==
  ASSUME NEW a, NEW n \in Nat
  PROVE  IsFiniteSet({a} \X (1..n)) /\ Cardinality({a} \X (1..n)) = n
<1>1. IsFiniteSet({a}) /\ Cardinality({a}) = 1
  BY FS_Singleton
<1>2. IsFiniteSet(1..n) /\ Cardinality(1..n) = n
  BY FS_Interval
<1>3. Cardinality({a} \X (1..n)) = 1 * n
  BY <1>1, <1>2, FS_Product
<1> QED
  BY <1>1, <1>2, <1>3, FS_Product

\* A sum is the number of a finite set of bytes.
LEMMA SizesAreFinite ==
  ASSUME NEW ids, IsFiniteSet(ids), NEW size, \A a \in ids : size[a] \in Nat
  PROVE  IsFiniteSet(Bytes(ids, size)) /\ TotalSize(ids, size) \in Nat
<1> DEFINE Of == [a \in ids |-> {a} \X (1..size[a])]
           All == {{a} \X (1..size[a]) : a \in ids}
<1>1. Of \in Surjection(ids, All)
  BY DEF Surjection
<1>2. IsFiniteSet(All)
  BY <1>1, FS_Surjection
<1>3. \A a \in ids : IsFiniteSet({a} \X (1..size[a]))
  BY BytesOfOne
<1>4. IsFiniteSet(UNION All)
  BY <1>2, <1>3, FS_UNION
<1> QED
  BY <1>4, FS_CardinalityType DEF Bytes, TotalSize

\* The sum of one size is that size.
LEMMA TotalOfOne ==
  ASSUME NEW a, NEW size, size[a] \in Nat
  PROVE  TotalSize({a}, size) = size[a]
<1>1. Bytes({a}, size) = {a} \X (1..size[a])
  BY DEF Bytes
<1> QED
  BY <1>1, BytesOfOne DEF TotalSize

\* A sum is additive.
LEMMA TotalOfUnion ==
  ASSUME NEW A, NEW B, IsFiniteSet(A), IsFiniteSet(B), A \cap B = {},
         NEW size, \A a \in A \cup B : size[a] \in Nat
  PROVE  TotalSize(A \cup B, size) = TotalSize(A, size) + TotalSize(B, size)
<1>1. Bytes(A \cup B, size) = Bytes(A, size) \cup Bytes(B, size)
  BY DEF Bytes
<1>2. Bytes(A, size) \cap Bytes(B, size) = {}
  BY DEF Bytes
<1>3. IsFiniteSet(Bytes(A, size)) /\ IsFiniteSet(Bytes(B, size))
      /\ TotalSize(A, size) \in Nat /\ TotalSize(B, size) \in Nat
  BY SizesAreFinite
<1>4. Cardinality(Bytes(A, size) \cup Bytes(B, size))
        = Cardinality(Bytes(A, size)) + Cardinality(Bytes(B, size)) - Cardinality({})
  BY <1>2, <1>3, FS_Union
<1>5. TotalSize(A \cup B, size) = TotalSize(A, size) + TotalSize(B, size) - 0
  BY <1>1, <1>4, FS_EmptySet, Zenon DEF TotalSize
<1> QED
  BY <1>3, <1>5

\* A part of the attachments, each of its size.
LEMMA TotalOfPart ==
  ASSUME NEW B, IsFiniteSet(B), NEW A \in SUBSET B, NEW size, \A b \in B : size[b] \in Nat,
         NEW old, \A a \in A : old[a] = size[a]
  PROVE  TotalSize(A, old) <= TotalSize(B, size)
<1>1. Bytes(A, old) \subseteq Bytes(B, size)
  BY DEF Bytes
<1> QED
  BY <1>1, SizesAreFinite, FS_Subset DEF TotalSize

\* A family of sets none of which has more than m elements.
LEMMA FamilyIsBounded ==
  ASSUME NEW P, IsFiniteSet(P), NEW m \in Nat, NEW of,
         \A p \in P : IsFiniteSet(of[p]) /\ Cardinality(of[p]) <= m
  PROVE  LET all == UNION {of[p] : p \in P} IN
           IsFiniteSet(all) /\ Cardinality(all) <= Cardinality(P) * m
<1> DEFINE all == UNION {of[p] : p \in P}
           Places == P \X (1..m)
           Taken == {x \in Places : x[2] <= Cardinality(of[x[1]])}
           count == [p \in P |-> CHOOSE f : f \in Bijection(1..Cardinality(of[p]), of[p])]
           who == [x \in Taken |-> count[x[1]][x[2]]]
<1>1. IsFiniteSet(Places) /\ Cardinality(Places) = Cardinality(P) * m
  <2>1. IsFiniteSet(1..m) /\ Cardinality(1..m) = m  BY FS_Interval
  <2> QED BY <2>1, FS_Product
<1>2. ASSUME NEW p \in P
      PROVE  /\ Cardinality(of[p]) \in 0..m
             /\ count[p] \in Surjection(1..Cardinality(of[p]), of[p])
  <2>1. Cardinality(of[p]) \in Nat /\ ExistsBijection(1..Cardinality(of[p]), of[p])
    BY FS_CardinalityType
  <2>2. count[p] \in Bijection(1..Cardinality(of[p]), of[p])
    BY <2>1 DEF ExistsBijection
  <2> QED BY <2>1, <2>2 DEF Bijection
<1>3. who \in Surjection(Taken, all)
  <2>1. ASSUME NEW x \in Taken PROVE who[x] \in all
    <3>1. x[1] \in P /\ x[2] \in 1..Cardinality(of[x[1]])
      BY <1>2
    <3>2. count[x[1]][x[2]] \in of[x[1]]
      BY <1>2, <3>1 DEF Surjection
    <3> QED BY <3>1, <3>2
  <2>2. ASSUME NEW y \in all PROVE \E x \in Taken : who[x] = y
    <3>1. PICK p \in P : y \in of[p]  OBVIOUS
    <3>2. PICK i \in 1..Cardinality(of[p]) : count[p][i] = y
      BY <1>2, <3>1 DEF Surjection
    <3>3. <<p, i>> \in Taken
      BY <1>2
    <3>4. who[<<p, i>>] = y
      BY <3>2, <3>3
    <3> QED BY <3>3, <3>4
  <2> QED BY <2>1, <2>2 DEF Surjection
<1>4. IsFiniteSet(Taken) /\ Cardinality(Taken) <= Cardinality(Places)
  BY <1>1, FS_Subset
<1>5. IsFiniteSet(all) /\ Cardinality(all) <= Cardinality(Taken)
  BY <1>3, <1>4, FS_Surjection
<1>6. /\ Cardinality(all) \in Nat /\ Cardinality(Taken) \in Nat /\ Cardinality(Places) \in Nat
  BY <1>1, <1>4, <1>5, FS_CardinalityType
<1> QED
  BY <1>1, <1>4, <1>5, <1>6

-----------------------------------------------------------------------------
(* The slots and the quota *)

Holding(p) == {r \in Request : Home[r] = p /\ pc[r] \in {"body", "discard"}}
Uploads == {r \in Request : pc[r] = "body"}

\* A slot is taken while a batch is in progress, and by nothing else.
SlotsAreHeld ==
  /\ gate \in [Process -> Nat]
  /\ \A p \in Process :
       IsFiniteSet(Holding(p)) /\ Cardinality(Holding(p)) = gate[p] /\ gate[p] <= MaxConcurrent

\* What a batch has counted is what its rows will say, and within its total.
BatchesFit ==
  /\ total \in [Request -> Nat]
  /\ \A r \in Request : ~Batching(r) => total[r] = 0
  /\ \A r \in Uploads :
       IsFiniteSet(done[r]) /\ total[r] = TotalSize(done[r], objects) /\ total[r] <= MaxTotalBytes

\* The quota holds for what is pending and what every upload in progress may add.
QuotaKept ==
  /\ IsFiniteSet(Pending)
  /\ IsFiniteSet(Uploads)
  /\ PendingBytes + Cardinality(Uploads) * MaxTotalBytes
       <= PendingQuota + Cardinality(Process) * MaxConcurrent * MaxTotalBytes

\* A step that no batch takes leaves the slots as they are.
LEMMA SlotsStand ==
  ASSUME SlotsAreHeld, UNCHANGED gate, \A p \in Process : Holding(p)' = Holding(p)
  PROVE  SlotsAreHeld'
BY DEF SlotsAreHeld

\* An upload in progress holds a slot.
LEMMA SlotsStep ==
  ASSUME TypeInv, SlotsAreHeld, [Next]_vars
  PROVE  SlotsAreHeld'
<1> USE DEF TypeInv, Goes, Release, local
<1>1. ASSUME NEW r \in Request, Batch(r) PROVE SlotsAreHeld'
  <2>1. Home[r] \in Process
    BY AttachmentsAssumption
  <2>2. CASE Admit(r)
    <3>1. pc[r] = "idle" /\ gate[Home[r]] < MaxConcurrent
          /\ pc' = [pc EXCEPT ![r] = "body"] /\ gate' = [gate EXCEPT ![Home[r]] = @ + 1]
      BY <2>2 DEF Admit
    <3>2. r \notin Holding(Home[r]) /\ Holding(Home[r])' = Holding(Home[r]) \cup {r}
      BY <3>1 DEF Holding
    <3>3. \A p \in Process \ {Home[r]} : Holding(p)' = Holding(p) /\ gate'[p] = gate[p]
      BY <3>1 DEF Holding, SlotsAreHeld
    <3>4. /\ IsFiniteSet(Holding(Home[r]) \cup {r})
          /\ Cardinality(Holding(Home[r]) \cup {r}) = gate[Home[r]] + 1
      BY <2>1, <3>2, FS_AddElement DEF SlotsAreHeld
    <3>5. gate' \in [Process -> Nat] /\ gate'[Home[r]] = gate[Home[r]] + 1
          /\ gate'[Home[r]] <= MaxConcurrent
      BY <2>1, <3>1, AttachmentsAssumption DEF SlotsAreHeld
    <3> QED
      BY <3>2, <3>3, <3>4, <3>5 DEF SlotsAreHeld
  <2>3. CASE InsertBatch(r) \/ Discard(r)
    <3>1. pc[r] \in {"body", "discard"}
          /\ pc' = [pc EXCEPT ![r] = "idle"] /\ gate' = [gate EXCEPT ![Home[r]] = @ - 1]
      BY <2>3 DEF InsertBatch, Discard, Ends
    <3>2. r \in Holding(Home[r]) /\ Holding(Home[r])' = Holding(Home[r]) \ {r}
      BY <3>1 DEF Holding
    <3>3. \A p \in Process \ {Home[r]} : Holding(p)' = Holding(p) /\ gate'[p] = gate[p]
      BY <3>1 DEF Holding, SlotsAreHeld
    <3>4. /\ IsFiniteSet(Holding(Home[r]) \ {r})
          /\ Cardinality(Holding(Home[r]) \ {r}) = gate[Home[r]] - 1
      BY <2>1, <3>2, FS_RemoveElement DEF SlotsAreHeld
    <3>5. Cardinality(Holding(Home[r]) \ {r}) \in Nat
      BY <3>4, FS_CardinalityType
    <3>6. gate' \in [Process -> Nat] /\ gate'[Home[r]] = gate[Home[r]] - 1
          /\ gate'[Home[r]] <= MaxConcurrent
      BY <2>1, <3>1, <3>4, <3>5, AttachmentsAssumption DEF SlotsAreHeld
    <3> QED
      BY <3>2, <3>3, <3>4, <3>6 DEF SlotsAreHeld
  <2>4. CASE PutFile(r) \/ PutFileFails(r) \/ BodyFails(r) \/ InsertBatchFails(r)
    <3>1. UNCHANGED gate /\ \A p \in Process : Holding(p)' = Holding(p)
      BY <2>4 DEF PutFile, PutFileFails, BodyFails, InsertBatchFails, Holding
    <3> QED
      BY <3>1, SlotsStand
  <2> QED
    BY <1>1, <2>2, <2>3, <2>4 DEF Batch
<1>2. ASSUME NEW r \in Request, Confirm(r) \/ Avatar(r) \/ Delete(r) PROVE SlotsAreHeld'
  <2>1. UNCHANGED gate /\ pc[r] \notin {"body", "discard"} /\ pc'[r] \notin {"body", "discard"}
    <3>1. CASE Confirm(r)
      BY <3>1 DEF Confirm, FindPending, Head, ConfirmFails, SaveReady, Ends
    <3>2. CASE Avatar(r)
      BY <3>2 DEF Avatar, FindUser, PutAvatar, PutAvatarFails, InsertAvatar, InsertAvatarFails,
         PersistAvatar, PersistAvatarFails, SaveUser, Ends
    <3>3. CASE Delete(r)
      BY <3>3 DEF Delete, AskDelete, FindToDelete, MarkDeleted, MarkFails, EraseObject, Ends
    <3> QED
      BY <1>2, <3>1, <3>2, <3>3
  <2>2. \A q \in Request \ {r} : pc'[q] = pc[q]
    BY <1>2, OthersKept
  <2>3. \A p \in Process : Holding(p)' = Holding(p)
    BY <2>1, <2>2 DEF Holding
  <2> QED
    BY <2>1, <2>3, SlotsStand
<1>3. ASSUME NEW p \in Process, Crash(p) PROVE SlotsAreHeld'
  <2>1. gate' = [gate EXCEPT ![p] = 0]
        /\ pc' = [r \in Request |-> IF Home[r] = p THEN "idle" ELSE pc[r]]
    BY <1>3 DEF Crash
  <2>2. Holding(p)' = {} /\ \A q \in Process \ {p} : Holding(q)' = Holding(q) /\ gate'[q] = gate[q]
    BY <2>1 DEF Holding, SlotsAreHeld
  <2>3. gate' \in [Process -> Nat] /\ gate'[p] = 0 /\ gate'[p] <= MaxConcurrent
    BY <2>1, AttachmentsAssumption DEF SlotsAreHeld
  <2> QED
    BY <2>2, <2>3, FS_EmptySet DEF SlotsAreHeld
<1>4. CASE UNCHANGED <<gate, pc>>
  BY <1>4, SlotsStand DEF Holding
<1> QED
  BY <1>1, <1>2, <1>3, <1>4
  DEF Next, vars, Age, Purge, Select, PurgeObject, PurgeRows, PurgeStops

\* An upload in progress keeps its objects, and its count of them.
LEMMA UploadStands ==
  ASSUME TypeInv, Tidy, IdsDrawn, PrivateIsPrivate, PurgeScope, [Next]_vars,
         NEW r \in Request, pc[r] = "body"
  PROVE  \A a \in done[r] : objects'[a] = objects[a]
<1> SUFFICES ASSUME NEW a \in done[r], objects'[a] # objects[a] PROVE FALSE
  OBVIOUS
<1>1. a \in keys[r] /\ a \in Attachment /\ Secluded(r, a) /\ a \in used
  BY PrivateDrawn DEF Tidy, TypeInv, PrivateIsPrivate, Private
<1>2. a \notin Fresh
  BY <1>1 DEF Fresh
<1>3. Erasable(a)
  BY <1>1, <1>2, ObjectsFrom
<1> QED
  BY <1>1, <1>3 DEF Erasable, Secluded, PurgeScope

\* A sum depends on the sizes of what is summed alone.
LEMMA TotalStands ==
  ASSUME NEW ids, NEW old, NEW new, \A a \in ids : old[a] = new[a]
  PROVE  TotalSize(ids, old) = TotalSize(ids, new)
<1>1. Bytes(ids, old) = Bytes(ids, new)
  BY DEF Bytes
<1> QED
  BY <1>1 DEF TotalSize

\* A request counts for itself.
LEMMA TotalsFrom ==
  ASSUME TypeInv, Tidy, BatchesFit, [Next]_vars, NEW r \in Request
  PROVE  \/ ~Batching(r)' /\ total'[r] = 0
         \/ pc'[r] = "body" /\ pc[r] = "body" /\ total'[r] = total[r] /\ done'[r] = done[r]
         \/ Admit(r) /\ total'[r] = 0 /\ done'[r] = {}
         \/ PutFile(r)
         \/ Batching(r)' /\ pc'[r] # "body" /\ total'[r] \in Nat
<1> USE DEF TypeInv, BatchesFit, Batching, Goes, Ends, local
<1>1. ASSUME NEW q \in Request, q # r, Batch(q) \/ Confirm(q) \/ Avatar(q) \/ Delete(q)
      PROVE  pc'[r] = pc[r] /\ total'[r] = total[r] /\ done'[r] = done[r]
  <2>1. CASE Batch(q)
    BY <1>1, <2>1 DEF Batch, Admit, PutFile, PutFileFails, BodyFails, InsertBatch, InsertBatchFails, Discard
  <2>2. CASE Confirm(q)
    BY <1>1, <2>2 DEF Confirm, FindPending, Head, ConfirmFails, SaveReady
  <2>3. CASE Avatar(q)
    BY <1>1, <2>3 DEF Avatar, FindUser, PutAvatar, PutAvatarFails, InsertAvatar, InsertAvatarFails,
       PersistAvatar, PersistAvatarFails, SaveUser
  <2>4. CASE Delete(q)
    BY <1>1, <2>4 DEF Delete, AskDelete, FindToDelete, MarkDeleted, MarkFails, EraseObject
  <2> QED BY <1>1, <2>1, <2>2, <2>3, <2>4
<1>2. CASE Batch(r)
  <2>1. CASE Admit(r)
    BY <2>1 DEF Admit, Tidy
  <2> QED
    BY <1>2, <2>1 DEF Batch, PutFileFails, BodyFails, InsertBatch, InsertBatchFails, Discard
<1>3. CASE Confirm(r)
  BY <1>3 DEF Confirm, FindPending, Head, ConfirmFails, SaveReady
<1>4. CASE Avatar(r)
  BY <1>4 DEF Avatar, FindUser, PutAvatar, PutAvatarFails, InsertAvatar, InsertAvatarFails,
     PersistAvatar, PersistAvatarFails, SaveUser
<1>5. CASE Delete(r)
  BY <1>5 DEF Delete, AskDelete, FindToDelete, MarkDeleted, MarkFails, EraseObject
<1>6. ASSUME NEW p \in Process, Crash(p)
      PROVE  \/ pc'[r] = "idle" /\ total'[r] = 0
             \/ pc'[r] = pc[r] /\ total'[r] = total[r] /\ done'[r] = done[r]
  BY <1>6 DEF Crash
<1>7. CASE UNCHANGED local
  BY <1>7
<1> QED
  BY <1>1, <1>2, <1>3, <1>4, <1>5, <1>6, <1>7
  DEF Next, vars, Age, Purge, Select, PurgeObject, PurgeRows, PurgeStops

\* A batch holds no more than a request may bring.
LEMMA FitStep ==
  ASSUME TypeInv, Tidy, IdsDrawn, PrivateIsPrivate, PurgeScope, BatchesFit, [Next]_vars
  PROVE  BatchesFit'
<1>0. total' \in [Request -> Nat]
  <2> USE DEF TypeInv, BatchesFit, local, Ends
  <2>1. ASSUME NEW r \in Request, Batch(r) PROVE total' \in [Request -> Nat]
    BY <2>1 DEF Batch, Admit, PutFile, PutFileFails, BodyFails, InsertBatch, InsertBatchFails, Discard
  <2>2. ASSUME NEW r \in Request, Confirm(r) PROVE total' \in [Request -> Nat]
    BY <2>2 DEF Confirm, FindPending, Head, ConfirmFails, SaveReady
  <2>3. ASSUME NEW r \in Request, Avatar(r) PROVE total' \in [Request -> Nat]
    BY <2>3 DEF Avatar, FindUser, PutAvatar, PutAvatarFails, InsertAvatar, InsertAvatarFails,
       PersistAvatar, PersistAvatarFails, SaveUser
  <2>4. ASSUME NEW r \in Request, Delete(r) PROVE total' \in [Request -> Nat]
    BY <2>4 DEF Delete, AskDelete, FindToDelete, MarkDeleted, MarkFails, EraseObject
  <2>5. ASSUME NEW p \in Process, Crash(p) PROVE total' \in [Request -> Nat]
    BY <2>5 DEF Crash
  <2> QED
    BY <2>1, <2>2, <2>3, <2>4, <2>5 DEF Next, vars, Age, Purge, Select, PurgeObject, PurgeRows, PurgeStops
<1>1. ASSUME NEW r \in Request, ~Batching(r)' PROVE total'[r] = 0
  BY <1>1, TotalsFrom DEF Batching, PutFile, Admit, Goes, TypeInv
<1>2. ASSUME NEW r \in Request, pc'[r] = "body"
      PROVE  /\ IsFiniteSet(done'[r]) /\ total'[r] = TotalSize(done'[r], objects')
             /\ total'[r] <= MaxTotalBytes
  <2>1. CASE pc[r] = "body" /\ total'[r] = total[r] /\ done'[r] = done[r]
    BY <2>1, UploadStands, TotalStands DEF BatchesFit, Uploads
  <2>2. CASE Admit(r) /\ total'[r] = 0 /\ done'[r] = {}
    <3>1. Bytes({}, objects') = {}
      BY DEF Bytes
    <3> QED
      BY <2>2, <3>1, FS_EmptySet, AttachmentsAssumption DEF TotalSize
  <2>3. CASE PutFile(r)
    <3>1. PICK a \in Fresh, size \in 1..Allowance(r) :
            /\ objects' = [objects EXCEPT ![a] = size]
            /\ done' = [done EXCEPT ![r] = @ \cup {a}]
            /\ total' = [total EXCEPT ![r] = @ + size]
      BY <2>3 DEF PutFile
    <3>2. pc[r] = "body" /\ done[r] \subseteq Attachment
      BY <2>3 DEF PutFile, TypeInv
    <3>3. a \notin done[r] /\ a \in Attachment
      BY <3>2, FreshIsNew DEF Tidy
    <3>4. /\ IsFiniteSet(done[r]) /\ total[r] = TotalSize(done[r], objects)
          /\ total[r] <= MaxTotalBytes /\ total[r] \in Nat
      BY <3>2 DEF BatchesFit, Uploads
    <3>5. size \in Nat /\ total[r] + size <= MaxTotalBytes
      BY <3>4, AttachmentsAssumption DEF Allowance
    <3>6. done'[r] = done[r] \cup {a} /\ total'[r] = total[r] + size
      BY <3>1, <3>4 DEF TypeInv, BatchesFit
    <3>7. objects'[a] = size /\ \A b \in done[r] : objects'[b] = objects[b] /\ objects'[b] \in Nat
      BY <3>1, <3>2, <3>3 DEF TypeInv
    <3>8. TotalSize(done[r], objects') = total[r]
      BY <3>4, <3>7, TotalStands
    <3>9. TotalSize({a}, objects') = size
      BY <3>5, <3>7, TotalOfOne
    <3>10. IsFiniteSet({a}) /\ done[r] \cap {a} = {} /\ \A b \in done[r] \cup {a} : objects'[b] \in Nat
      BY <3>3, <3>5, <3>7, FS_Singleton
    <3>11. TotalSize(done[r] \cup {a}, objects') = total[r] + size
      BY <3>4, <3>8, <3>9, <3>10, TotalOfUnion
    <3> QED
      BY <3>4, <3>5, <3>6, <3>11, FS_AddElement
  <2> QED
    BY <1>2, <2>1, <2>2, <2>3, TotalsFrom DEF Batching
<1> QED
  BY <1>0, <1>1, <1>2 DEF BatchesFit, Uploads

\* The uploads in progress have a slot each.
LEMMA UploadsAreBounded ==
  ASSUME SlotsAreHeld
  PROVE  IsFiniteSet(Uploads) /\ Cardinality(Uploads) <= Cardinality(Process) * MaxConcurrent
<1> DEFINE holding == [p \in Process |-> Holding(p)]
           all == UNION {holding[p] : p \in Process}
<1>1. IsFiniteSet(Process) /\ MaxConcurrent \in Nat
  BY AttachmentsAssumption
<1>2. \A p \in Process : IsFiniteSet(holding[p]) /\ Cardinality(holding[p]) <= MaxConcurrent
  BY DEF SlotsAreHeld
<1> HIDE DEF holding
<1>3. IsFiniteSet(all) /\ Cardinality(all) <= Cardinality(Process) * MaxConcurrent
  BY <1>1, <1>2, FamilyIsBounded
<1>4. Uploads \subseteq all
  BY AttachmentsAssumption DEF holding, Uploads, Holding
<1>5. IsFiniteSet(Uploads) /\ Cardinality(Uploads) <= Cardinality(all)
  BY <1>3, <1>4, FS_Subset
<1>6. /\ Cardinality(Uploads) \in Nat /\ Cardinality(all) \in Nat
      /\ Cardinality(Process) * MaxConcurrent \in Nat
  <2>1. Cardinality(Process) \in Nat
    BY <1>1, FS_CardinalityType
  <2> QED
    BY <1>1, <1>3, <1>5, <2>1, FS_CardinalityType
<1> QED
  BY <1>3, <1>5, <1>6

\* What n uploads may bring.
LEMMA Room ==
  ASSUME NEW n \in Nat, NEW m \in Nat, n <= m, NEW each \in Nat
  PROVE  n * each <= m * each /\ n * each \in Nat /\ m * each \in Nat
         /\ (n + 1) * each = n * each + each
OBVIOUS

\* The step of an upload that leaves its rows in the table, whatever it is told.
Inserts(r) ==
  /\ pc[r] = "body" /\ InsertRows(r) /\ UNCHANGED objects
  /\ pc'[r] # "body" /\ \A q \in Request \ {r} : pc'[q] = pc[q]

\* A batch inserts all its rows at once, or none.
LEMMA BatchRows ==
  ASSUME TypeInv, NEW r \in Request, Batch(r)
  PROVE  UNCHANGED rows \/ Inserts(r)
<1> USE DEF TypeInv, Ends, Goes
<1>1. CASE InsertBatch(r)
  BY <1>1 DEF InsertBatch, Inserts
<1>2. CASE InsertBatchFails(r)
  BY <1>2 DEF InsertBatchFails, Inserts
<1> QED
  BY <1>1, <1>2 DEF Batch, Admit, PutFile, PutFileFails, BodyFails, Discard, world

\* Nothing else becomes pending, and what stays pending keeps its size.
LEMMA PendingFrom ==
  ASSUME TypeInv, Tidy, [Next]_vars, ~\E r \in Request : Inserts(r), NEW a \in Pending'
  PROVE  a \in Pending /\ rows'[a].size = rows[a].size
<1>1. a \in Attachment /\ HasRow(a)' /\ rows'[a].status = "pending"
  BY DEF Pending, Has
<1>2. CASE rows'[a] = rows[a]
  BY <1>1, <1>2 DEF Pending, Has, HasRow
<1>3. CASE rows'[a] # rows[a]
  <2>1. rows[a] \in Row \/ ~HasRow(a)
    BY <1>1 DEF TypeInv, HasRow
  <2>2. ASSUME NEW r \in Request, Batch(r) PROVE FALSE
    BY <1>3, <2>2, BatchRows
  <2>3. ASSUME NEW r \in Request, Confirm(r) PROVE FALSE
    <3>1. rows'[a] = In(rows[a], "ready") /\ HasRow(a)
      BY <1>1, <1>3, <2>3, RowWrites DEF Confirm, FindPending, Head, ConfirmFails, SaveReady, world
    <3> QED
      BY <1>1, <2>1, <3>1, RowOps
  <2>4. ASSUME NEW r \in Request, Avatar(r) PROVE FALSE
    <3>1. rows'[a] = NewRow(a, "ready", "avatar")
      BY <1>1, <1>3, <2>4 DEF TypeInv, Avatar, FindUser, PutAvatar, PutAvatarFails, InsertAvatar,
         InsertAvatarFails, PersistAvatar, PersistAvatarFails, SaveUser, world
    <3> QED
      BY <1>1, <3>1, RowOps
  <2>5. ASSUME NEW r \in Request, Delete(r) PROVE FALSE
    <3>1. MarkDeleted(r)
      BY <1>3, <2>5 DEF Delete, AskDelete, FindToDelete, MarkFails, EraseObject, world
    <3>2. target[r] \in Attachment /\ HasRow(target[r])
      BY <1>3, <3>1 DEF MarkDeleted, Tidy, Targeting
    <3>3. rows' = [rows EXCEPT ![target[r]] = In(rows[target[r]], "deleted")]
      BY <3>1, <3>2, RowWrites DEF MarkDeleted
    <3>4. rows'[a] = In(rows[a], "deleted") /\ HasRow(a)
      BY <1>1, <1>3, <3>2, <3>3 DEF TypeInv
    <3> QED
      BY <1>1, <2>1, <3>4, RowOps
  <2>6. CASE PurgeRows
    BY <1>1, <1>3, <2>6 DEF PurgeRows, HasRow
  <2> QED
    BY <1>3, <2>2, <2>3, <2>4, <2>5, <2>6
    DEF Next, vars, world, Age, Purge, Select, PurgeObject, PurgeStops, Crash
<1> QED
  BY <1>2, <1>3

Sizes == [a \in Pending |-> rows[a].size]

\* What is pending has a size.
LEMMA PendingSizes ==
  ASSUME TypeInv
  PROVE  \A a \in Pending : Sizes[a] \in Nat
<1>1. \A a \in Pending : rows[a] \in Row
  BY DEF TypeInv, Pending, Has, HasRow
<1> QED
  BY <1>1 DEF Sizes, Row

\* The rows of a batch weigh what it has counted.
LEMMA InsertAdds ==
  ASSUME TypeInv, Tidy, PrivateIsPrivate, IdsDrawn, BatchesFit, IsFiniteSet(Pending),
         NEW r \in Request, Inserts(r)
  PROVE  IsFiniteSet(Pending') /\ PendingBytes' \in Nat /\ PendingBytes' <= PendingBytes + MaxTotalBytes
<1> DEFINE batch == done[r]
<1>1. /\ IsFiniteSet(batch) /\ total[r] = TotalSize(batch, objects)
      /\ total[r] <= MaxTotalBytes /\ total[r] \in Nat
  BY DEF Inserts, BatchesFit, Uploads
<1>2. batch \subseteq Attachment /\ \A a \in batch : ~HasRow(a)
  BY PrivateDrawn DEF Inserts, Tidy, TypeInv, PrivateIsPrivate, Private, Secluded
<1>3. \A a \in Attachment : rows'[a] = IF a \in batch THEN NewRow(a, "pending", "multi") ELSE rows[a]
  BY DEF Inserts, InsertRows
<1>4. \A a \in batch : NewRow(a, "pending", "multi") \in Row /\ NewRow(a, "pending", "multi").size = objects[a]
                       /\ NewRow(a, "pending", "multi").status = "pending"
  BY <1>2, RowOps DEF TypeInv
<1>5. Pending' = Pending \cup batch /\ Pending \cap batch = {}
  BY <1>2, <1>3, <1>4, AttachmentsAssumption DEF Pending, Has, HasRow
<1>6. \A a \in Pending : Sizes'[a] = Sizes[a]
  BY <1>2, <1>3, <1>5 DEF Sizes, Pending
<1>7. \A a \in batch : Sizes'[a] = objects[a]
  BY <1>2, <1>3, <1>4, <1>5 DEF Sizes
<1>8. PICK size : size = Sizes'
  OBVIOUS
<1>9. \A a \in Pending \cup batch : size[a] \in Nat
  BY <1>2, <1>6, <1>7, <1>8, PendingSizes DEF TypeInv
<1>10. TotalSize(Pending \cup batch, size) = TotalSize(Pending, size) + TotalSize(batch, size)
  BY <1>1, <1>5, <1>9, TotalOfUnion
<1>11. TotalSize(Pending, size) = TotalSize(Pending, Sizes)
  BY <1>6, <1>8, TotalStands
<1>12. TotalSize(batch, size) = total[r]
  BY <1>1, <1>7, <1>8, TotalStands
<1>13. PendingBytes = TotalSize(Pending, Sizes) /\ PendingBytes' = TotalSize(Pending \cup batch, size)
  BY <1>5, <1>8 DEF PendingBytes, Sizes, TotalSize, Bytes
<1>14. PendingBytes \in Nat
  BY <1>13, PendingSizes, SizesAreFinite
<1>15. PendingBytes' = PendingBytes + total[r]
  BY <1>10, <1>11, <1>12, <1>13
<1>16. IsFiniteSet(Pending')
  BY <1>1, <1>5, FS_Union
<1> QED
  BY <1>1, <1>14, <1>15, <1>16, AttachmentsAssumption

\* Fewer pending rows are fewer bytes.
LEMMA PendingShrinks ==
  ASSUME TypeInv, IsFiniteSet(Pending), Pending' \subseteq Pending,
         \A a \in Pending' : rows'[a].size = rows[a].size
  PROVE  IsFiniteSet(Pending') /\ PendingBytes' \in Nat /\ PendingBytes' <= PendingBytes
<1>1. \A a \in Pending' : Sizes'[a] = Sizes[a]
  BY DEF Sizes
<1>2. PICK ids, size : ids = Pending' /\ size = Sizes'
  OBVIOUS
<1>3. TotalSize(ids, size) <= TotalSize(Pending, Sizes)
  BY <1>1, <1>2, PendingSizes, TotalOfPart
<1>4. PendingBytes = TotalSize(Pending, Sizes) /\ PendingBytes' = TotalSize(ids, size)
  BY <1>2 DEF PendingBytes, Sizes, TotalSize, Bytes
<1>5. IsFiniteSet(Pending')
  BY FS_Subset
<1>6. TotalSize(ids, size) \in Nat
  BY <1>1, <1>2, <1>5, PendingSizes, SizesAreFinite
<1> QED
  BY <1>3, <1>4, <1>5, <1>6

\* Only an admission starts an upload.
LEMMA UploadsFrom ==
  ASSUME TypeInv, Tidy, BatchesFit, [Next]_vars, ~\E r \in Request : Admit(r)
  PROVE  Uploads' \subseteq Uploads
BY TotalsFrom DEF Uploads, Batching, PutFile

\* What is pending, and what may still come, stay within quota and slots.
LEMMA QuotaStep ==
  ASSUME TypeInv, Tidy, IdsDrawn, PrivateIsPrivate, SlotsAreHeld, SlotsAreHeld', BatchesFit, QuotaKept,
         [Next]_vars
  PROVE  QuotaKept'
<1> DEFINE bound == PendingQuota + Cardinality(Process) * MaxConcurrent * MaxTotalBytes
<1>1. /\ PendingQuota \in Nat /\ MaxConcurrent \in Nat /\ MaxTotalBytes \in Nat
      /\ Cardinality(Process) \in Nat /\ Cardinality(Process) * MaxConcurrent \in Nat /\ bound \in Nat
  <2>1. Cardinality(Process) \in Nat
    BY AttachmentsAssumption, FS_CardinalityType
  <2>2. PendingQuota \in Nat /\ MaxConcurrent \in Nat /\ MaxTotalBytes \in Nat
    BY AttachmentsAssumption
  <2>3. Cardinality(Process) * MaxConcurrent \in Nat
    BY <2>1, <2>2
  <2> QED
    BY <2>1, <2>2, <2>3
<1>2. PendingBytes \in Nat /\ Cardinality(Uploads) \in Nat
  <2>1. PendingBytes = TotalSize(Pending, Sizes)
    BY DEF PendingBytes, Sizes
  <2> QED
    BY <2>1, PendingSizes, SizesAreFinite, FS_CardinalityType DEF QuotaKept
<1>3. CASE \E r \in Request : Admit(r)
  <2>1. PICK r \in Request : Admit(r)
    BY <1>3
  <2>2. UNCHANGED rows /\ PendingBytes <= PendingQuota
    <3>1. PICK declared \in 0..MaxTotalBytes : PendingBytes + declared <= PendingQuota
      BY <2>1 DEF Admit
    <3> QED
      BY <1>1, <1>2, <2>1, <3>1 DEF Admit, world
  <2>3. Pending' = Pending /\ PendingBytes' = PendingBytes
    BY <2>2 DEF Pending, PendingBytes, Has, HasRow
  <2>4. PICK n : n = Cardinality(Uploads')
    OBVIOUS
  <2>5. IsFiniteSet(Uploads') /\ n <= Cardinality(Process) * MaxConcurrent
    <3>1. (IsFiniteSet(Uploads) /\ Cardinality(Uploads) <= Cardinality(Process) * MaxConcurrent)'
      BY UploadsAreBounded, PTL
    <3> QED BY <2>4, <3>1
  <2>6. n \in Nat
    BY <2>4, <2>5, FS_CardinalityType
  <2>7. n * MaxTotalBytes <= Cardinality(Process) * MaxConcurrent * MaxTotalBytes
        /\ n * MaxTotalBytes \in Nat
    BY <1>1, <2>5, <2>6, Room
  <2>8. PendingBytes + n * MaxTotalBytes <= bound
    BY <1>1, <1>2, <2>2, <2>7
  <2> QED
    BY <2>3, <2>4, <2>5, <2>8 DEF QuotaKept
<1>4. ASSUME NEW r \in Request, Inserts(r) PROVE QuotaKept'
  <2>1. IsFiniteSet(Pending') /\ PendingBytes' \in Nat /\ PendingBytes' <= PendingBytes + MaxTotalBytes
    BY <1>4, InsertAdds DEF QuotaKept
  <2>2. Uploads' = Uploads \ {r} /\ r \in Uploads
    BY <1>4 DEF Inserts, Uploads
  <2>3. PICK n : n = Cardinality(Uploads')
    OBVIOUS
  <2>4. IsFiniteSet(Uploads') /\ n = Cardinality(Uploads) - 1 /\ n \in Nat
    BY <2>2, <2>3, FS_RemoveElement, FS_CardinalityType DEF QuotaKept
  <2>5. Cardinality(Uploads) * MaxTotalBytes = n * MaxTotalBytes + MaxTotalBytes
        /\ n * MaxTotalBytes \in Nat
    <3>1. Cardinality(Uploads) = n + 1
      BY <1>2, <2>4
    <3> QED BY <1>1, <2>4, <3>1, Room
  <2> QED
    BY <1>1, <1>2, <2>1, <2>3, <2>4, <2>5 DEF QuotaKept
<1>5. CASE ~(\E r \in Request : Admit(r)) /\ ~\E r \in Request : Inserts(r)
  <2>1. IsFiniteSet(Pending') /\ PendingBytes' \in Nat /\ PendingBytes' <= PendingBytes
    BY <1>5, PendingFrom, PendingShrinks DEF QuotaKept
  <2>2. PICK n : n = Cardinality(Uploads')
    OBVIOUS
  <2>3. IsFiniteSet(Uploads') /\ n <= Cardinality(Uploads)
    BY <1>5, <2>2, UploadsFrom, FS_Subset DEF QuotaKept
  <2>4. n \in Nat
    BY <2>2, <2>3, FS_CardinalityType
  <2>5. n * MaxTotalBytes <= Cardinality(Uploads) * MaxTotalBytes
        /\ n * MaxTotalBytes \in Nat /\ Cardinality(Uploads) * MaxTotalBytes \in Nat
    BY <1>1, <1>2, <2>3, <2>4, Room
  <2> QED
    BY <1>1, <1>2, <2>1, <2>2, <2>3, <2>5 DEF QuotaKept
<1> QED
  BY <1>3, <1>4, <1>5

BoundInv == SlotsAreHeld /\ BatchesFit /\ QuotaKept

\* What one owner has pending exceeds the quota by what the uploads in progress
\* bring and no more, for any number of processes, requests and files, through
\* failed transactions and crashes.
THEOREM QuotaBounds == Spec => []PendingIsBounded
<1>1. ASSUME Init PROVE BoundInv
  <2>1. Pending = {} /\ Uploads = {} /\ \A p \in Process : Holding(p) = {}
    BY <1>1 DEF Init, Pending, Uploads, Holding, Has, HasRow
  <2>2. Bytes(Pending, Sizes) = {}
    BY <2>1 DEF Bytes
  <2>3. PendingBytes = 0 /\ Cardinality(Uploads) = 0 /\ IsFiniteSet(Pending) /\ IsFiniteSet(Uploads)
    BY <2>1, <2>2, FS_EmptySet, Zenon DEF PendingBytes, TotalSize, Sizes
  <2>4. 0 * MaxTotalBytes = 0 /\ PendingQuota + Cardinality(Process) * MaxConcurrent * MaxTotalBytes \in Nat
    <3>1. Cardinality(Process) \in Nat
      BY AttachmentsAssumption, FS_CardinalityType
    <3>2. Cardinality(Process) * MaxConcurrent \in Nat
      BY <3>1, AttachmentsAssumption
    <3> QED
      BY <3>2, AttachmentsAssumption
  <2>5. QuotaKept
    BY <2>3, <2>4 DEF QuotaKept
  <2>6. SlotsAreHeld
    <3>1. gate = [p \in Process |-> 0]
      BY <1>1 DEF Init
    <3>2. \A p \in Process : gate[p] = 0 /\ Holding(p) = {} /\ 0 <= MaxConcurrent
      BY <2>1, <3>1, AttachmentsAssumption
    <3>3. gate \in [Process -> Nat]
      BY <3>1
    <3> QED
      BY <3>2, <3>3, FS_EmptySet, Zenon DEF SlotsAreHeld
  <2>7. BatchesFit
    BY <1>1, <2>1 DEF Init, BatchesFit
  <2> QED
    BY <2>5, <2>6, <2>7 DEF BoundInv
<1>2. IInv /\ BoundInv /\ [Next]_vars => BoundInv'
  BY SlotsStep, FitStep, QuotaStep DEF IInv, BoundInv
<1>3. ASSUME IInv, BoundInv PROVE PendingIsBounded
  <2>1. PendingBytes \in Nat
    <3>1. PendingBytes = TotalSize(Pending, Sizes)
      BY DEF PendingBytes, Sizes
    <3> QED
      BY <1>3, <3>1, PendingSizes, SizesAreFinite DEF IInv, BoundInv, QuotaKept
  <2>2. Cardinality(Uploads) \in Nat /\ Cardinality(Process) \in Nat
    BY <1>3, FS_CardinalityType, AttachmentsAssumption DEF BoundInv, QuotaKept
  <2>3. /\ Cardinality(Uploads) * MaxTotalBytes \in Nat
        /\ Cardinality(Process) * MaxConcurrent * MaxTotalBytes \in Nat
    <3>1. Cardinality(Process) * MaxConcurrent \in Nat
      BY <2>2, AttachmentsAssumption
    <3> QED
      BY <2>2, <3>1, AttachmentsAssumption
  <2> QED
    BY <1>3, <2>1, <2>3, AttachmentsAssumption DEF BoundInv, QuotaKept, PendingIsBounded
<1> QED
  BY <1>1, <1>2, <1>3, Ownership, PTL DEF Spec
=============================================================================
