-------------------------------- MODULE Tags --------------------------------
(***************************************************************************)
(* The catalogue of tags and its trash, under overlapping requests.  A     *)
(* step is a statement, or the last of them with the commit, under READ    *)
(* COMMITTED: nothing read before it is locked.                            *)
(***************************************************************************)
EXTENDS Naturals, FiniteSets

CONSTANTS
  Tag, Request,
  Name,          \* names, as lower() compares them
  Unborn, Gone,  \* no row yet, no row any more
  MaxRequest     \* bound: requests started

NoRow == {Unborn, Gone}

VARIABLES
  tag,        \* [Tag -> name and whether in the trash, Unborn or Gone]: as committed
  edit,       \* [Request -> the use case, the rows it read by tag, those it has saved]
  asked,      \* history: [Tag -> whether the last to create, stash or restore it meant the trash]
  revived,    \* history: tags an update took out of the trash unawares
  announced,  \* ids of every TagPurged published
  requests    \* started so far

vars == <<tag, edit, asked, revived, announced, requests>>

Edit(op, read) == [op |-> op, read |-> read, saved |-> {}]
None == Edit("none", [t \in {} |-> Unborn])

HasRow(t) == tag[t] \notin NoRow
Live(t) == HasRow(t) /\ ~tag[t].deleted
Stashed(t) == HasRow(t) /\ tag[t].deleted

Init ==
  /\ tag = [t \in Tag |-> Unborn] /\ edit = [r \in Request |-> None]
  /\ asked = [t \in Tag |-> FALSE] /\ revived = {} /\ announced = {} /\ requests = 0

-----------------------------------------------------------------------------
Starts == requests < MaxRequest /\ requests' = requests + 1
Ends(r) == edit' = [edit EXCEPT ![r] = None]
Working(r, op) == edit[r].op = op
Asks(ts, trash) == asked' = [t \in Tag |-> IF t \in ts THEN trash ELSE asked[t]]

\* A row saved and not committed is locked.
Free(r, t) == \A d \in Request \ {r} : t \notin edit[d].saved

\* tags_name_unique: no other live row has the name, committed or about to be.
NameIsFree(r, t, name) ==
  /\ \A o \in Tag \ {t} : Live(o) => tag[o].name # name
  /\ \A d \in Request : \A o \in edit[d].saved \ {t} : edit[d].read[o].name # name

\* CreateTag: the insertion, the view of what it inserted, the commit.
Create(r) ==
  /\ Working(r, "none") /\ Starts
  /\ \E t \in Tag, name \in Name :
       /\ tag[t] = Unborn /\ NameIsFree(r, t, name)
       /\ tag' = [tag EXCEPT ![t] = [name |-> name, deleted |-> FALSE]]
       /\ Asks({t}, FALSE)
  /\ UNCHANGED <<edit, revived, announced>>

\* Mutant of Editable: a tag of the trash is edited too.
EditableInTrash(t) == HasRow(t)
\* What UpdateTag and StashTag find: a tag outside the trash.
Editable(t) == Live(t)

\* findById
ReadsOne(r, op) ==
  /\ Working(r, "none") /\ Starts
  /\ \E t \in Tag : Editable(t) /\ edit' = [edit EXCEPT ![r] = Edit(op, [x \in {t} |-> tag[x]])]
  /\ UNCHANGED <<tag, asked, revived, announced>>

\* findByIds: of a batch those in the trash; a live one is left out by a restore
\* and has a purge refused.
ReadsTrash(r, op) ==
  /\ Working(r, "none") /\ Starts
  /\ \E batch \in SUBSET {t \in Tag : Stashed(t)} \ {{}} :
       edit' = [edit EXCEPT ![r] = Edit(op, [t \in batch |-> tag[t]])]
  /\ UNCHANGED <<tag, asked, revived, announced>>

\* `save': every column; a row that is gone is no error.
Saved(t, new) == [tag EXCEPT ![t] = IF HasRow(t) THEN new ELSE @]

\* An update of a row that is gone does not find it again: 404, and nothing to roll back.
Update(r) ==
  /\ Working(r, "update")
  /\ \E t \in DOMAIN edit[r].read, name \in Name :
       LET read == edit[r].read[t] IN
         /\ Free(r, t) /\ (HasRow(t) /\ ~read.deleted => NameIsFree(r, t, name))
         /\ tag' = Saved(t, [read EXCEPT !.name = name])
         /\ revived' = IF Stashed(t) THEN revived \cup {t} ELSE revived
  /\ Ends(r) /\ UNCHANGED <<asked, announced, requests>>

\* `save' of a stash: the name as read as well.
Stash(r) ==
  /\ Working(r, "stash")
  /\ \E t \in DOMAIN edit[r].read :
       /\ Free(r, t)
       /\ tag' = Saved(t, [edit[r].read[t] EXCEPT !.deleted = TRUE])
       /\ Asks({t}, TRUE) /\ revived' = revived \ {t}
  /\ Ends(r) /\ UNCHANGED <<announced, requests>>

\* One `save' of a restore, in the order they were read; one without a row counts too.
RestoreOne(r) ==
  /\ Working(r, "restore")
  /\ \E t \in DOMAIN edit[r].read \ edit[r].saved :
       /\ Free(r, t)
       /\ HasRow(t) => NameIsFree(r, t, edit[r].read[t].name)
       /\ edit' = IF HasRow(t) THEN [edit EXCEPT ![r].saved = @ \cup {t}]
                  ELSE [edit EXCEPT ![r].read = [x \in DOMAIN @ \ {t} |-> @[x]]]
  /\ UNCHANGED <<tag, asked, revived, announced, requests>>

\* The commit of a restore.
Restore(r) ==
  /\ Working(r, "restore") /\ edit[r].saved = DOMAIN edit[r].read
  /\ tag' = [t \in Tag |-> IF t \in edit[r].saved THEN [edit[r].read[t] EXCEPT !.deleted = FALSE] ELSE tag[t]]
  /\ Asks(edit[r].saved, FALSE) /\ revived' = revived \ edit[r].saved
  /\ Ends(r) /\ UNCHANGED <<announced, requests>>

\* Mutant of Purges: the deletion looks at the trash again, what is announced does not.
PurgesTrash(r, t) == t \in DOMAIN edit[r].read /\ Stashed(t)
\* hardDeleteByIds: by id alone.
Purges(r, t) == t \in DOMAIN edit[r].read /\ HasRow(t)

\* PurgeTags: the deletion, TagPurged in the outbox, the commit.
Purge(r) ==
  /\ Working(r, "purge")
  /\ \A t \in DOMAIN edit[r].read : Free(r, t)
  /\ tag' = [t \in Tag |-> IF Purges(r, t) THEN Gone ELSE tag[t]]
  /\ announced' = announced \cup DOMAIN edit[r].read
  /\ Ends(r) /\ UNCHANGED <<asked, revived, requests>>

\* A name taken, a deadlock of two restores, a failed statement: all is rolled back.
Fails(r) == ~Working(r, "none") /\ Ends(r) /\ UNCHANGED <<tag, asked, revived, announced, requests>>

Next ==
  \E r \in Request :
    \/ Create(r) \/ ReadsOne(r, "update") \/ ReadsOne(r, "stash")
    \/ ReadsTrash(r, "restore") \/ ReadsTrash(r, "purge")
    \/ Update(r) \/ Stash(r) \/ RestoreOne(r) \/ Restore(r) \/ Purge(r) \/ Fails(r)

Spec == Init /\ [][Next]_vars

-----------------------------------------------------------------------------
\* A tag is in the trash exactly when the last to create, stash or restore it
\* meant it to be, however updates of it overlap; but for the update that read
\* it before it was stashed and brings it back, which `revived' names.
TrashIsMeant == \A t \in Tag \ revived : HasRow(t) => tag[t].deleted = asked[t]

\* The modules that link to tags drop their links on TagPurged and learn of a
\* purge by nothing else: what is gone was announced, and what was announced is
\* gone, whoever restored, edited or purged it in the meantime.
GoneIsAnnounced == \A t \in Tag : tag[t] = Gone <=> t \in announced
=============================================================================
