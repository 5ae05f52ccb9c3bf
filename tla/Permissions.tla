----------------------------- MODULE Permissions -----------------------------
(***************************************************************************)
(* Who may do what: the permissions of accounts and of the templates they  *)
(* are filled in from, under overlapping requests.  A step is a statement, *)
(* or the last of them with the commit; READ COMMITTED, so a request sees  *)
(* what the others committed before each of its statements.                *)
(***************************************************************************)
EXTENDS Naturals, FiniteSets

CONSTANTS
  User, Template, Request,
  Key,         \* PERMISSION_KEYS
  Manage,      \* the key of every guarded route
  Requires,    \* requiresOf: [Key -> SUBSET Key]
  ModuleOf,    \* moduleOf: [Key -> profile]
  Floored,     \* profiles that require a permission of their own module
  Profile,     \* ASSIGNABLE_ACCESS_PROFILES
  Name,        \* names of templates
  Root, Born,  \* the master, who is one, and what there is at the start
  Unborn, Gone,
  MaxRequest   \* bound: requests started

Master == "master"
Subject == User \cup Template
Label == Profile \cup {Master} \cup Name
Row == [label : Label, deleted : BOOLEAN]
Null == {Unborn, Gone}

ASSUME PermissionsAssumption ==
  /\ Manage \in Key /\ Requires \in [Key -> SUBSET Key] /\ ModuleOf \in [Key -> Profile]
  /\ Floored \subseteq Profile /\ Master \notin Profile /\ MaxRequest \in Nat
  /\ User \cap Template = {} /\ Root \in User /\ Root \in Born /\ Born \subseteq Subject /\ Unborn # Gone /\ Null \cap Row = {}

\* What a request carries once the guard let it in, and once it has read.
Op == {"create", "update", "edit", "delete", "restore", "purge", "template"}
Entered == [at : {"entered"}, op : Op, actor : User, reach : SUBSET Key]
Carried == [at : {"read", "wrote", "missed", "cleared"}, op : Op, actor : User, reach : SUBSET Key,
            on : Subject, row : Row, current : SUBSET Key, label : Label, set : SUBSET Key,
            doomed : SUBSET Key]
Idle == [at |-> "idle"]

VARIABLES
  row,          \* [Subject -> row of its table, Unborn or Gone]
  grants,       \* [Subject -> permissions: user_permissions, permission_template_permissions]
  work,         \* [Request -> what it carries, or Idle]
  started,
  last,         \* history: [Subject -> label and permissions last asked for]
  overwritten   \* history: subjects whose label a use case wrote back over a newer one

vars == <<row, grants, work, started, last, overwritten>>

Exists(s) == row[s] \notin Null
At(r, place) == work[r].at = place
Ends(r) == work' = [work EXCEPT ![r] = Idle]
Goes(r, place) == work' = [work EXCEPT ![r].at = place]

\* assertValidPermissionSet: the prerequisites are in the set.
Valid(set) == \A key \in set : Requires[key] \subseteq set
\* assertProfileFloor
HasFloor(profile, set) == profile \in Floored => \E key \in set : ModuleOf[key] = profile

Delta(a, b) == (a \ b) \cup (b \ a)

\* Mutant of CanGrant: the additions alone.
CanGrantAdditions(reach, current, set) == set \ current \subseteq reach
\* assertCanGrant: the symmetric difference is within what the actor has.
CanGrant(reach, current, set) == Delta(current, set) \subseteq reach

Asked(labels, trash) == [label : labels, deleted : trash, set : {set \in SUBSET Key : Valid(set)}]

\* The master, the accounts and the templates created before.
First(s, accounts, templates) ==
  IF s = Root THEN [label |-> Master, deleted |-> FALSE, set |-> {}]
  ELSE IF s \in User THEN accounts[s] ELSE templates[s]

Init ==
  /\ \E accounts \in [(Born \cap User) \ {Root} ->
                        {x \in Asked(Profile, BOOLEAN) : HasFloor(x.label, x.set)}],
        templates \in [Born \cap Template -> Asked(Name, {FALSE})] :
       /\ \A a, b \in Born \cap Template : templates[a].label = templates[b].label => a = b
       /\ row = [s \in Subject |->
            IF s \in Born THEN [label |-> First(s, accounts, templates).label,
                                deleted |-> First(s, accounts, templates).deleted]
            ELSE Unborn]
       /\ grants = [s \in Subject |-> IF s \in Born THEN First(s, accounts, templates).set ELSE {}]
  /\ work = [r \in Request |-> Idle] /\ started = 0 /\ overwritten = {}
  /\ last = [s \in Subject |-> [label |-> IF Exists(s) THEN row[s].label ELSE Unborn, set |-> grants[s]]]

-----------------------------------------------------------------------------
\* Mutant of Holds: a row whose label stays is not written, hence not locked.
HoldsIfChanged(r, s) == work[r].at \in {"wrote", "cleared"} /\ work[r].on = s /\ work[r].label # row[s].label

\* Who has written a row holds its lock to the commit.
Holds(r, s) == work[r].at \in {"wrote", "cleared"} /\ work[r].on = s
Free(r, s) == \A d \in Request \ {r} : ~Holds(d, s)

\* AuthMiddleware and AccessGuard: what the actor may is read once, here.
Enters(r) ==
  /\ At(r, "idle")
  /\ started < MaxRequest /\ started' = started + 1
  /\ \E a \in User, op \in Op :
       LET reach == IF row[a].label = Master THEN Key ELSE grants[a] IN
         /\ Exists(a) /\ ~row[a].deleted
         /\ op = "edit" \/ Manage \in reach
         /\ work' = [work EXCEPT ![r] = [at |-> "entered", op |-> op, actor |-> a, reach |-> reach]]
  /\ UNCHANGED <<row, grants, last, overwritten>>

\* What a request carries on from its read.
Carries(r, s, label, set) ==
  work' = [work EXCEPT ![r] =
    [at |-> "read", op |-> @.op, actor |-> @.actor, reach |-> @.reach, on |-> s, row |-> row[s],
     current |-> grants[s], label |-> label, set |-> set, doomed |-> {}]]

Does(r, op) == At(r, "entered") /\ work[r].op = op

\* CreateUser: account and permissions are seen by the others together.
CreateUser(r) ==
  /\ Does(r, "create")
  /\ \E u \in User, label \in Profile, set \in SUBSET Key :
       /\ row[u] = Unborn
       /\ CanGrant(work[r].reach, {}, set) /\ Valid(set) /\ HasFloor(label, set)
       /\ row' = [row EXCEPT ![u] = [label |-> label, deleted |-> FALSE]]
       /\ grants' = [grants EXCEPT ![u] = set]
       /\ last' = [last EXCEPT ![u] = [label |-> label, set |-> set]]
  /\ Ends(r) /\ UNCHANGED <<started, overwritten>>

\* UpdateUser: the account as it is now, with no lock; of itself nothing may change.
ReadUser(r) ==
  /\ Does(r, "update")
  /\ \E u \in User, label \in Profile, set \in SUBSET Key :
       /\ Exists(u) /\ ~row[u].deleted /\ row[u].label # Master
       /\ u = work[r].actor => label = row[u].label /\ set = grants[u]
       /\ CanGrant(work[r].reach, grants[u], set) /\ Valid(set) /\ HasFloor(label, set)
       /\ Carries(r, u, label, set)
  /\ UNCHANGED <<row, grants, started, last, overwritten>>

\* UpdatePermissionTemplate: any set that is whole in itself.
ReadTemplate(r) ==
  /\ Does(r, "template")
  /\ \E t \in Template, label \in Name, set \in SUBSET Key :
       /\ Exists(t) /\ Valid(set)
       /\ \A o \in Template \ {t} : Exists(o) => row[o].label # label
       /\ Carries(r, t, label, set)
  /\ UNCHANGED <<row, grants, started, last, overwritten>>

\* The unique index lets one of two templates have a name, the other fails or waits.
NameIsFree(r, s) ==
  s \in Template =>
    \A o \in Template \ {s} :
      /\ Exists(o) => row[o].label # work[r].label
      /\ \A d \in Request \ {r} : Holds(d, o) => work[d].label # work[r].label

\* `update' of either repository: the row; one that is gone is no error.
UpdatesRow(r) ==
  /\ At(r, "read") /\ work[r].op \in {"update", "template"}
  /\ Free(r, work[r].on) /\ NameIsFree(r, work[r].on)
  /\ Goes(r, IF Exists(work[r].on) THEN "wrote" ELSE "missed")
  /\ UNCHANGED <<row, grants, started, last, overwritten>>

\* The deletion of the permissions, as committed when it runs.
Clears(r) ==
  /\ At(r, "wrote")
  /\ work' = [work EXCEPT ![r] = [@ EXCEPT !.at = "cleared", !.doomed = grants[work[r].on]]]
  /\ UNCHANGED <<row, grants, started, last, overwritten>>

\* Their insertion, which the primary key may refuse, and the commit.
Inserts(r) ==
  LET w == work[r]
      kept == grants[w.on] \ w.doomed
  IN
    /\ At(r, "cleared")
    /\ kept \cap w.set = {}
    /\ grants' = [grants EXCEPT ![w.on] = kept \cup w.set]
    /\ row' = [row EXCEPT ![w.on] = [w.row EXCEPT !.label = w.label]]
    /\ last' = [last EXCEPT ![w.on] = [label |-> w.label, set |-> w.set]]
    /\ overwritten' = overwritten \ {w.on}
    /\ Ends(r) /\ UNCHANGED started

\* CreatePermissionTemplate
CreateTemplate(r) ==
  /\ Does(r, "template")
  /\ \E t \in Template, label \in Name, set \in SUBSET Key :
       /\ row[t] = Unborn /\ Valid(set)
       /\ \A o \in Template \ {t} :
            /\ Exists(o) => row[o].label # label
            /\ \A d \in Request \ {r} : Holds(d, o) => work[d].label # label
       /\ row' = [row EXCEPT ![t] = [label |-> label, deleted |-> FALSE]]
       /\ grants' = [grants EXCEPT ![t] = set]
       /\ last' = [last EXCEPT ![t] = [label |-> label, set |-> set]]
  /\ Ends(r) /\ UNCHANGED <<started, overwritten>>

\* A row that is gone takes its permissions along (on delete cascade).
Removes(r, s) ==
  /\ Free(r, s)
  /\ row' = [row EXCEPT ![s] = IF Exists(s) THEN Gone ELSE @]
  /\ grants' = [grants EXCEPT ![s] = {}]
  /\ Ends(r) /\ UNCHANGED <<started, last, overwritten>>

DeleteTemplate(r) ==
  /\ Does(r, "template")
  /\ \E t \in Template : Exists(t) /\ Removes(r, t)

\* The use cases that read an account and write its whole row back.
ReadRow(r) ==
  LET w == work[r] IN
    /\ At(r, "entered") /\ w.op \in {"edit", "delete", "restore", "purge"}
    /\ \E u \in User :
         /\ Exists(u)
         /\ w.op = "edit" => u = w.actor
         /\ w.op = "delete" => ~row[u].deleted /\ row[u].label # Master /\ u # w.actor
         /\ w.op \in {"restore", "purge"} => row[u].deleted
         /\ Carries(r, u, row[u].label, grants[u])
    /\ UNCHANGED <<row, grants, started, last, overwritten>>

\* users.update: the label too, as it was read.
WritesBack(r) ==
  LET w == work[r]
      deleted == w.op = "delete" \/ (w.op = "edit" /\ w.row.deleted)
  IN
    /\ At(r, "read") /\ w.op \in {"edit", "delete", "restore"}
    /\ Free(r, w.on)
    /\ row' = [row EXCEPT ![w.on] = IF Exists(w.on) THEN [w.row EXCEPT !.deleted = deleted] ELSE @]
    /\ overwritten' = overwritten \cup {s \in {w.on} : Exists(s) /\ row[s].label # w.row.label}
    /\ Ends(r) /\ UNCHANGED <<grants, started, last>>

\* hardDeleteByIds: the trash is not looked at again.
PurgeUser(r) == At(r, "read") /\ work[r].op = "purge" /\ Removes(r, work[r].on)

\* A refusal, a failed statement (the foreign key of a row that is gone) or a
\* lost client: nothing is committed.  With no permission to insert, the same.
Refused(r) ==
  /\ ~At(r, "idle")
  /\ Ends(r) /\ UNCHANGED <<row, grants, started, last, overwritten>>

Updates(r) == ReadUser(r) \/ ReadTemplate(r) \/ UpdatesRow(r) \/ Clears(r) \/ Inserts(r)
Others(r) ==
  \/ CreateUser(r) \/ CreateTemplate(r) \/ DeleteTemplate(r)
  \/ ReadRow(r) \/ WritesBack(r) \/ PurgeUser(r)

Next == \E r \in Request : Enters(r) \/ Updates(r) \/ Others(r) \/ Refused(r)

Spec == Init /\ [][Next]_vars

-----------------------------------------------------------------------------
TypeOK ==
  /\ row \in [Subject -> Row \cup Null] /\ grants \in [Subject -> SUBSET Key]
  /\ work \in [Request -> {Idle} \cup Entered \cup Carried]
  /\ started \in 0..MaxRequest /\ overwritten \subseteq Subject
  /\ last \in [Subject -> [label : Label \cup {Unborn}, set : SUBSET Key]]

\* However edits overlap, the permissions of an account or template are those
\* one request asked for, never a mixture of two, and so is the profile or the
\* name they were checked with, unless a use case wrote the row back (overwritten).
SetsAreWhole ==
  \A s \in Subject : Exists(s) =>
    /\ grants[s] = last[s].set
    /\ s \notin overwritten => row[s].label = last[s].label

\* access-policy.ts: every edit of a set, what it gives and what it takes away,
\* is within what the actor had when the request came in, and none is of the
\* actor's own, if the set is still the one the request has read.
EditsAreWithinReach ==
  [][\A r \in Request : At(r, "cleared") /\ ~At(r, "cleared")' /\ work[r].on \in User
       /\ work[r].current = grants[work[r].on] =>
         LET edit == Delta(grants[work[r].on], grants'[work[r].on]) IN
           edit \subseteq work[r].reach /\ (work[r].actor = work[r].on => edit = {})]_vars
=============================================================================
