------------------------ MODULE AdministrationProofs ------------------------
(***************************************************************************)
(* Proofs about what administrators do: Permissions, for any number of     *)
(* accounts, templates, keys and requests, where a set of permissions is   *)
(* one request's and what an edit changes in it is within what its actor   *)
(* had; and Tags, for any number of tags, names and requests, where the    *)
(* trash is as it was meant and every purge is announced.                  *)
(***************************************************************************)
EXTENDS MCAdministration, TLAPS

(***************************************************************************)
(* Permissions.                                                            *)
(***************************************************************************)

\* A row has one writer.
LocksAreAlone == \A r, d \in Request, s \in Subject : Holds(r, s) /\ Holds(d, s) => r = d

\* The permissions the writer has deleted are all there are.
ClearedIsAll == \A r \in Request : At(r, "cleared") => work[r].doomed = grants[work[r].on]

\* What a use case has checked of the row it carries.
Checked(w) ==
  /\ w.op = "update" => /\ CanGrant(w.reach, w.current, w.set)
                        /\ w.actor = w.on => w.set = w.current
  /\ w.op = "template" => w.on \in Template
AllChecked ==
  \A r \in Request : work[r] \in Carried =>
    /\ Checked(work[r])
    /\ work[r].at # "read" => work[r].op \in {"update", "template"}
    /\ row[work[r].on] # Unborn

PermInv == TypeOK /\ LocksAreAlone /\ ClearedIsAll /\ AllChecked /\ SetsAreWhole

\* A record that is carried is not one that has only entered, nor idle.
LEMMA PlacesDiffer ==
  ASSUME NEW w \in {Idle} \cup Entered \cup Carried
  PROVE  /\ w.at \in {"read", "wrote", "missed", "cleared"} <=> w \in Carried
         /\ w.at = "entered" <=> w \in Entered
  BY DEF Idle, Entered, Carried

\* At the start.
LEMMA InitHolds == Init => PermInv
<1> SUFFICES ASSUME Init PROVE PermInv
  OBVIOUS
<1> USE PermissionsAssumption
<1>1. PICK accounts \in [(Born \cap User) \ {Root} ->
                           {x \in Asked(Profile, BOOLEAN) : HasFloor(x.label, x.set)}],
           templates \in [Born \cap Template -> Asked(Name, {FALSE})] :
        /\ row = [s \in Subject |->
             IF s \in Born THEN [label |-> First(s, accounts, templates).label,
                                 deleted |-> First(s, accounts, templates).deleted]
             ELSE Unborn]
        /\ grants = [s \in Subject |-> IF s \in Born THEN First(s, accounts, templates).set ELSE {}]
  BY DEF Init
<1>2. ASSUME NEW s \in Born
      PROVE  First(s, accounts, templates) \in [label : Label, deleted : BOOLEAN, set : SUBSET Key]
  BY <1>1, <1>2 DEF First, Asked, Label, Subject
<1>3. row \in [Subject -> Row \cup Null] /\ grants \in [Subject -> SUBSET Key]
  <2>1. \A s \in Subject : row[s] \in Row \cup Null /\ grants[s] \in SUBSET Key
    BY <1>1, <1>2 DEF Row, Null
  <2> QED BY <1>1, <2>1
<1>4. TypeOK
  <2>1. work \in [Request -> {Idle} \cup Entered \cup Carried]
    BY DEF Init
  <2>2. last \in [Subject -> [label : Label \cup {Unborn}, set : SUBSET Key]]
    BY <1>3 DEF Init, Exists, Row, Null
  <2> QED BY <1>3, <2>1, <2>2 DEF Init, TypeOK
<1>5. LocksAreAlone /\ ClearedIsAll /\ AllChecked
  BY DEF Init, LocksAreAlone, ClearedIsAll, AllChecked, Holds, At, Idle, Carried
<1>6. SetsAreWhole
  BY DEF Init, SetsAreWhole
<1> QED BY <1>4, <1>5, <1>6 DEF PermInv

-----------------------------------------------------------------------------
(* The steps.                                                              *)

\* A request that takes no lock changes nothing for the others.
LEMMA NoLockTaken ==
  ASSUME PermInv, NEW r \in Request, NEW w,
         work' = [work EXCEPT ![r] = w], w.at \notin {"wrote", "cleared"},
         UNCHANGED <<row, grants, last, overwritten>>
  PROVE  LocksAreAlone' /\ ClearedIsAll' /\ SetsAreWhole'
<1>1. \A d \in Request : work'[d] = IF d = r THEN w ELSE work[d]
  BY DEF PermInv, TypeOK
<1>2. LocksAreAlone'
  BY <1>1 DEF PermInv, LocksAreAlone, Holds
<1>3. ClearedIsAll'
  BY <1>1 DEF PermInv, ClearedIsAll, At
<1>4. SetsAreWhole'
  BY DEF PermInv, SetsAreWhole, Exists
<1> QED BY <1>2, <1>3, <1>4

\* A commit that changes the permissions of one subject, which nobody else has
\* locked, leaves what the others have cleared as it is.
LEMMA CommitLeavesOthers ==
  ASSUME PermInv, NEW r \in Request, NEW s \in Subject, Ends(r), Free(r, s),
         \A o \in Subject \ {s} : grants'[o] = grants[o]
  PROVE  LocksAreAlone' /\ ClearedIsAll'
<1>1. \A d \in Request : work'[d] = IF d = r THEN Idle ELSE work[d]
  BY DEF PermInv, TypeOK, Ends
<1>2. LocksAreAlone'
  BY <1>1 DEF PermInv, LocksAreAlone, Holds, Idle
<1>3. ClearedIsAll'
  <2> SUFFICES ASSUME NEW d \in Request, At(d, "cleared")'
               PROVE  work'[d].doomed = grants'[work'[d].on]
    BY DEF ClearedIsAll
  <2>1. d # r /\ work'[d] = work[d] /\ At(d, "cleared")
    BY <1>1 DEF At, Idle
  <2>2. work[d] \in Carried
    BY <2>1, PlacesDiffer DEF PermInv, TypeOK, At
  <2>3. work[d].on \in Subject \ {s}
    BY <2>1, <2>2 DEF Free, Holds, At, Carried
  <2> QED BY <2>1, <2>3 DEF PermInv, ClearedIsAll
<1> QED BY <1>2, <1>3

\* What other requests carry stays as checked while no row becomes unborn.
LEMMA ChecksStay ==
  ASSUME PermInv, NEW r \in Request, NEW w, work' = [work EXCEPT ![r] = w],
         w \in Carried => /\ Checked(w)
                          /\ w.at # "read" => w.op \in {"update", "template"}
                          /\ row'[w.on] # Unborn,
         \A s \in Subject : row'[s] = Unborn => row[s] = Unborn
  PROVE  AllChecked'
<1>1. \A d \in Request : work'[d] = IF d = r THEN w ELSE work[d]
  BY DEF PermInv, TypeOK
<1>2. \A d \in Request : work[d] \in Carried => work[d].on \in Subject
  BY DEF Carried
<1> QED BY <1>1, <1>2 DEF PermInv, AllChecked, Checked

\* The types are kept, with what was checked.
LEMMA NextKeepsType == ASSUME TypeOK, AllChecked, [Next]_vars PROVE TypeOK'
<1> USE PermissionsAssumption
<1>0. CASE UNCHANGED vars
  BY <1>0 DEF vars, TypeOK
<1>1. ASSUME NEW r \in Request, Enters(r) PROVE TypeOK'
  BY <1>1 DEF Enters, TypeOK, At, Idle, Entered, Subject
<1>2. ASSUME NEW r \in Request, NEW s \in Subject, NEW label \in Label, NEW set \in SUBSET Key,
             At(r, "entered"), Exists(s), Carries(r, s, label, set),
             UNCHANGED <<row, grants, started, last, overwritten>>
      PROVE  TypeOK'
  <2>1. work[r] \in Entered
    BY <1>2, PlacesDiffer DEF TypeOK, At
  <2>2. row[s] \in Row /\ grants[s] \in SUBSET Key
    BY <1>2 DEF TypeOK, Exists
  <2>3. [at |-> "read", op |-> work[r].op, actor |-> work[r].actor, reach |-> work[r].reach, on |-> s,
         row |-> row[s], current |-> grants[s], label |-> label, set |-> set, doomed |-> {}] \in Carried
    BY <1>2, <2>1, <2>2 DEF Entered, Carried
  <2> QED BY <1>2, <2>3 DEF TypeOK, Carries
<1>3. ASSUME NEW r \in Request, CreateUser(r) PROVE TypeOK'
  BY <1>3 DEF CreateUser, TypeOK, Ends, Row, Label, Subject
<1>4. ASSUME NEW r \in Request, ReadUser(r) PROVE TypeOK'
  BY <1>2, <1>4 DEF ReadUser, Does, Subject, Label
<1>5. ASSUME NEW r \in Request, ReadTemplate(r) PROVE TypeOK'
  BY <1>2, <1>5 DEF ReadTemplate, Does, Subject, Label
<1>6. ASSUME NEW r \in Request, UpdatesRow(r) PROVE TypeOK'
  <2>1. work[r] \in Carried
    BY <1>6, PlacesDiffer DEF UpdatesRow, TypeOK, At
  <2>2. \A at \in {"wrote", "missed"} : [work[r] EXCEPT !.at = at] \in Carried
    BY <2>1 DEF Carried
  <2> QED BY <1>6, <2>2 DEF UpdatesRow, Goes, TypeOK
<1>7. ASSUME NEW r \in Request, Clears(r) PROVE TypeOK'
  <2>1. work[r] \in Carried
    BY <1>7, PlacesDiffer DEF Clears, TypeOK, At
  <2>2. grants[work[r].on] \in SUBSET Key
    BY <2>1 DEF Carried, TypeOK
  <2>3. [work[r] EXCEPT !.at = "cleared", !.doomed = grants[work[r].on]] \in Carried
    BY <2>1, <2>2 DEF Carried
  <2> QED BY <1>7, <2>3 DEF Clears, TypeOK
<1>8. ASSUME NEW r \in Request, Inserts(r) PROVE TypeOK'
  <2>1. work[r] \in Carried
    BY <1>8, PlacesDiffer DEF Inserts, TypeOK, At
  <2>2. [work[r].row EXCEPT !.label = work[r].label] \in Row
    BY <2>1 DEF Carried, Row
  <2>3. (grants[work[r].on] \ work[r].doomed) \cup work[r].set \in SUBSET Key
    BY <2>1 DEF Carried, TypeOK
  <2>4. [label |-> work[r].label, set |-> work[r].set] \in [label : Label \cup {Unborn}, set : SUBSET Key]
    BY <2>1 DEF Carried
  <2> QED BY <1>8, <2>2, <2>3, <2>4 DEF Inserts, Ends, TypeOK
<1>9. ASSUME NEW r \in Request, CreateTemplate(r) PROVE TypeOK'
  BY <1>9 DEF CreateTemplate, TypeOK, Ends, Row, Label, Subject
<1>10. ASSUME NEW r \in Request, NEW s \in Subject, Removes(r, s) PROVE TypeOK'
  BY <1>10 DEF Removes, TypeOK, Ends, Null
<1>11. ASSUME NEW r \in Request, ReadRow(r) PROVE TypeOK'
  <2>1. PICK u \in User : Exists(u) /\ Carries(r, u, row[u].label, grants[u])
    BY <1>11 DEF ReadRow
  <2>2. row[u].label \in Label /\ grants[u] \in SUBSET Key
    BY <2>1 DEF Exists, TypeOK, Row, Subject
  <2> QED BY <1>2, <1>11, <2>1, <2>2 DEF ReadRow, Subject
<1>12. ASSUME NEW r \in Request, WritesBack(r) PROVE TypeOK'
  <2>1. work[r] \in Carried
    BY <1>12, PlacesDiffer DEF WritesBack, TypeOK, At
  <2>2. \A b \in BOOLEAN : [work[r].row EXCEPT !.deleted = b] \in Row
    BY <2>1 DEF Carried, Row
  <2> QED BY <1>12, <2>1, <2>2 DEF WritesBack, Ends, TypeOK, Carried
<1>13. ASSUME NEW r \in Request, Refused(r) PROVE TypeOK'
  BY <1>13 DEF Refused, Ends, TypeOK
<1>14. ASSUME NEW r \in Request, PurgeUser(r) PROVE TypeOK'
  <2>1. work[r] \in Carried
    BY <1>14, PlacesDiffer DEF PurgeUser, TypeOK, At
  <2> QED BY <1>10, <1>14, <2>1 DEF PurgeUser, Carried
<1>15. ASSUME NEW r \in Request, DeleteTemplate(r) PROVE TypeOK'
  BY <1>10, <1>15 DEF DeleteTemplate, Subject
<1> QED
  BY <1>0, <1>1, <1>3, <1>4, <1>5, <1>6, <1>7, <1>8, <1>9, <1>11, <1>12, <1>13, <1>14, <1>15
  DEF Next, Updates, Others

\* Requests that read: the row, what they ask for, and that it was checked.
LEMMA ReadsKeep ==
  ASSUME PermInv, NEW r \in Request, ReadUser(r) \/ ReadTemplate(r) \/ ReadRow(r)
  PROVE  LocksAreAlone' /\ ClearedIsAll' /\ SetsAreWhole' /\ AllChecked'
<1>1. PICK s, label, set :
        /\ s \in Subject /\ Exists(s) /\ Carries(r, s, label, set)
        /\ work[r].op = "update" => /\ CanGrant(work[r].reach, grants[s], set)
                                    /\ s = work[r].actor => set = grants[s]
        /\ work[r].op = "template" => s \in Template
  <2>1. CASE ReadUser(r)     BY <2>1 DEF ReadUser, Does, Subject
  <2>2. CASE ReadTemplate(r) BY <2>2 DEF ReadTemplate, Does, Subject
  <2>3. CASE ReadRow(r)      BY <2>3 DEF ReadRow, Subject
  <2> QED BY <2>1, <2>2, <2>3
<1> DEFINE w == [at |-> "read", op |-> work[r].op, actor |-> work[r].actor, reach |-> work[r].reach,
                 on |-> s, row |-> row[s], current |-> grants[s], label |-> label, set |-> set,
                 doomed |-> {}]
<1>2. work' = [work EXCEPT ![r] = w] /\ UNCHANGED <<row, grants, last, overwritten>>
  BY <1>1 DEF Carries, ReadUser, ReadTemplate, ReadRow
<1>3. Checked(w) /\ row'[w.on] # Unborn
  BY <1>1, <1>2 DEF Checked, Exists, Null
<1> QED BY <1>2, <1>3, NoLockTaken, ChecksStay

\* Between the read and the commit: the lock, and the deletion under it.
LEMMA UpdateKeeps ==
  ASSUME PermInv, NEW r \in Request, UpdatesRow(r) \/ Clears(r)
  PROVE  LocksAreAlone' /\ ClearedIsAll' /\ SetsAreWhole' /\ AllChecked'
<1>1. work[r] \in Carried /\ row[work[r].on] # Unborn /\ Checked(work[r])
  BY PlacesDiffer DEF UpdatesRow, Clears, PermInv, TypeOK, At, AllChecked
<1>2. SetsAreWhole'
  BY DEF UpdatesRow, Clears, PermInv, SetsAreWhole, Exists
<1>3. CASE UpdatesRow(r)
  <2> DEFINE w == [work[r] EXCEPT !.at = IF Exists(work[r].on) THEN "wrote" ELSE "missed"]
  <2>1. work' = [work EXCEPT ![r] = w] /\ work'[r] = w
    BY <1>3 DEF UpdatesRow, Goes, PermInv, TypeOK
  <2>2. w.on = work[r].on /\ w.op = work[r].op /\ w.at # "cleared" /\ Checked(w)
    BY <1>1 DEF Carried, Checked
  <2>3. \A d \in Request \ {r} : work'[d] = work[d]
    BY <2>1 DEF PermInv, TypeOK
  <2>4. LocksAreAlone'
    BY <1>1, <1>3, <2>1, <2>2, <2>3 DEF UpdatesRow, Free, PermInv, LocksAreAlone, Holds
  <2>5. ClearedIsAll'
    BY <1>3, <2>1, <2>2, <2>3 DEF UpdatesRow, PermInv, ClearedIsAll, At
  <2>6. AllChecked'
    BY <1>1, <1>3, <2>1, <2>2, ChecksStay DEF UpdatesRow
  <2> QED BY <1>2, <2>4, <2>5, <2>6
<1>4. CASE Clears(r)
  <2> DEFINE w == [work[r] EXCEPT !.at = "cleared", !.doomed = grants[work[r].on]]
  <2>1. /\ work' = [work EXCEPT ![r] = w] /\ work'[r] = w
        /\ row' = row /\ grants' = grants /\ At(r, "wrote")
    BY <1>4 DEF Clears, PermInv, TypeOK
  <2>2. /\ w.on = work[r].on /\ w.op = work[r].op /\ w.at = "cleared"
        /\ w.doomed = grants[w.on] /\ Checked(w)
    BY <1>1 DEF Carried, Checked
  <2>3. \A d \in Request \ {r} : work'[d] = work[d]
    BY <2>1 DEF PermInv, TypeOK
  <2> HIDE DEF w
  <2>4. \A d \in Request, s \in Subject : Holds(d, s)' => Holds(d, s)
    BY <2>1, <2>2, <2>3 DEF Holds, At
  <2>5. LocksAreAlone'
    BY <2>4 DEF PermInv, LocksAreAlone
  <2>6. ClearedIsAll'
    BY <2>1, <2>2, <2>3 DEF PermInv, ClearedIsAll, At
  <2>7. work[r].op \in {"update", "template"}
    BY <1>1, <2>1 DEF At, PermInv, AllChecked
  <2>8. AllChecked'
    BY <1>1, <2>1, <2>2, <2>7, ChecksStay
  <2> QED BY <1>2, <2>5, <2>6, <2>8
<1> QED BY <1>3, <1>4

\* The commits.
LEMMA CommitKeeps ==
  ASSUME PermInv, NEW r \in Request, Inserts(r) \/ Others(r), ~ReadRow(r)
  PROVE  LocksAreAlone' /\ ClearedIsAll' /\ SetsAreWhole' /\ AllChecked'
<1> USE PermissionsAssumption
<1>1. Ends(r) /\ Idle \notin Carried
  BY DEF Inserts, Others, CreateUser, CreateTemplate, DeleteTemplate, WritesBack, PurgeUser,
         Removes, Idle, Carried
<1>2. ASSUME NEW s \in Subject, Free(r, s), \A o \in Subject \ {s} : grants'[o] = grants[o],
             \A o \in Subject : row'[o] = Unborn => row[o] = Unborn, SetsAreWhole'
      PROVE  LocksAreAlone' /\ ClearedIsAll' /\ SetsAreWhole' /\ AllChecked'
  BY <1>1, <1>2, CommitLeavesOthers, ChecksStay DEF Ends
<1>3. ASSUME NEW s \in Subject, row[s] = Unborn PROVE Free(r, s)
  <2> SUFFICES ASSUME NEW d \in Request, Holds(d, s) PROVE FALSE
    BY DEF Free
  <2>1. work[d] \in Carried
    BY PlacesDiffer DEF Holds, PermInv, TypeOK
  <2> QED BY <1>3, <2>1 DEF Holds, PermInv, AllChecked
<1>4. CASE Inserts(r)
  <2>1. work[r] \in Carried /\ Holds(r, work[r].on)
    BY <1>4, PlacesDiffer DEF Inserts, PermInv, TypeOK, At, Holds
  <2>2. Free(r, work[r].on)
    BY <2>1 DEF PermInv, LocksAreAlone, Free, Carried
  <2>3. grants[work[r].on] \ work[r].doomed = {}
    BY <1>4 DEF Inserts, PermInv, ClearedIsAll
  <2>4. /\ grants' = [grants EXCEPT ![work[r].on] = work[r].set]
        /\ row' = [row EXCEPT ![work[r].on] = [work[r].row EXCEPT !.label = work[r].label]]
        /\ last' = [last EXCEPT ![work[r].on] = [label |-> work[r].label, set |-> work[r].set]]
        /\ overwritten' = overwritten \ {work[r].on}
    BY <1>4, <2>3 DEF Inserts
  <2>5. [work[r].row EXCEPT !.label = work[r].label] \in Row
        /\ [work[r].row EXCEPT !.label = work[r].label].label = work[r].label
    BY <2>1 DEF Carried, Row
  <2>6. SetsAreWhole'
    BY <2>1, <2>4, <2>5 DEF PermInv, TypeOK, SetsAreWhole, Exists, Carried
  <2>7. /\ \A o \in Subject \ {work[r].on} : grants'[o] = grants[o]
        /\ \A o \in Subject : row'[o] = Unborn => row[o] = Unborn
    BY <2>4, <2>5 DEF PermInv, TypeOK, Null
  <2> QED BY <1>2, <2>1, <2>2, <2>6, <2>7 DEF Carried
<1>5. ASSUME NEW s \in Subject, NEW label \in Label, NEW set \in SUBSET Key, row[s] = Unborn,
             row' = [row EXCEPT ![s] = [label |-> label, deleted |-> FALSE]],
             grants' = [grants EXCEPT ![s] = set],
             last' = [last EXCEPT ![s] = [label |-> label, set |-> set]],
             overwritten' = overwritten
      PROVE  LocksAreAlone' /\ ClearedIsAll' /\ SetsAreWhole' /\ AllChecked'
  <2>1. SetsAreWhole'
    BY <1>5 DEF PermInv, TypeOK, SetsAreWhole, Exists
  <2>2. /\ \A o \in Subject \ {s} : grants'[o] = grants[o]
        /\ \A o \in Subject : row'[o] = Unborn => row[o] = Unborn
    BY <1>5 DEF PermInv, TypeOK
  <2> QED BY <1>2, <1>3, <1>5, <2>1, <2>2
<1>6. ASSUME NEW s \in Subject, Removes(r, s)
      PROVE  LocksAreAlone' /\ ClearedIsAll' /\ SetsAreWhole' /\ AllChecked'
  <2>1. SetsAreWhole'
    BY <1>6 DEF Removes, PermInv, TypeOK, SetsAreWhole, Exists, Null
  <2>2. /\ \A o \in Subject \ {s} : grants'[o] = grants[o]
        /\ \A o \in Subject : row'[o] = Unborn => row[o] = Unborn
    BY <1>6 DEF Removes, PermInv, TypeOK, Exists, Null
  <2> QED BY <1>2, <1>6, <2>1, <2>2 DEF Removes
<1>7. CASE CreateUser(r)
  BY <1>5, <1>7 DEF CreateUser, Subject, Label
<1>8. CASE CreateTemplate(r)
  BY <1>5, <1>8 DEF CreateTemplate, Subject, Label
<1>9. CASE DeleteTemplate(r)
  BY <1>6, <1>9 DEF DeleteTemplate, Subject
<1>10. CASE PurgeUser(r)
  <2>1. work[r] \in Carried
    BY <1>10, PlacesDiffer DEF PurgeUser, PermInv, TypeOK, At
  <2> QED BY <1>6, <1>10, <2>1 DEF PurgeUser, Carried
<1>11. CASE WritesBack(r)
  <2>1. work[r] \in Carried
    BY <1>11, PlacesDiffer DEF WritesBack, PermInv, TypeOK, At
  <2> DEFINE s == work[r].on
             new == [work[r].row EXCEPT !.deleted = work[r].op = "delete"
                                          \/ (work[r].op = "edit" /\ work[r].row.deleted)]
  <2>2. s \in Subject /\ new \in Row /\ new.label = work[r].row.label
    BY <2>1 DEF Carried, Row
  <2>3. /\ row' = [row EXCEPT ![s] = IF Exists(s) THEN new ELSE @]
        /\ grants' = grants /\ last' = last /\ Free(r, s) /\ overwritten \subseteq overwritten'
        /\ Exists(s) /\ row[s].label # work[r].row.label => s \in overwritten'
    BY <1>11 DEF WritesBack
  <2> HIDE DEF s, new
  <2>4. SetsAreWhole'
    BY <2>2, <2>3 DEF PermInv, TypeOK, SetsAreWhole, Exists
  <2>5. \A o \in Subject : row'[o] = Unborn => row[o] = Unborn
    BY <2>2, <2>3 DEF PermInv, TypeOK, Null, Exists
  <2> QED BY <1>2, <2>2, <2>3, <2>4, <2>5
<1> QED
  BY <1>4, <1>7, <1>8, <1>9, <1>10, <1>11 DEF Others

\* The invariant is inductive.
LEMMA NextKeepsInv == ASSUME PermInv, [Next]_vars PROVE PermInv'
<1>1. TypeOK'
  BY NextKeepsType DEF PermInv
<1>2. CASE UNCHANGED vars
  BY <1>1, <1>2 DEF vars, PermInv, TypeOK, LocksAreAlone, ClearedIsAll, AllChecked, SetsAreWhole,
                    Holds, At, Checked, Exists
<1>3. ASSUME NEW r \in Request, Enters(r) \/ Refused(r) PROVE PermInv'
  <2>1. PICK w : /\ work' = [work EXCEPT ![r] = w] /\ w \in {Idle} \cup Entered
                 /\ UNCHANGED <<row, grants, last, overwritten>>
    <3>1. CASE Refused(r) BY <3>1 DEF Refused, Ends
    <3>2. CASE Enters(r)
      BY <1>1, <3>2 DEF Enters, PermInv, TypeOK, Entered, Exists, Subject
    <3> QED BY <1>3, <3>1, <3>2
  <2>2. w \notin Carried /\ w.at \notin {"wrote", "cleared"}
    BY <2>1 DEF Idle, Entered, Carried
  <2> QED BY <1>1, <2>1, <2>2, NoLockTaken, ChecksStay DEF PermInv
<1>4. ASSUME NEW r \in Request, Updates(r) \/ Others(r) PROVE PermInv'
  <2>1. CASE ReadUser(r) \/ ReadTemplate(r) \/ ReadRow(r)
    BY <1>1, <2>1, ReadsKeep DEF PermInv
  <2>2. CASE UpdatesRow(r) \/ Clears(r)
    BY <1>1, <2>2, UpdateKeeps DEF PermInv
  <2>3. CASE (Inserts(r) \/ Others(r)) /\ ~ReadRow(r)
    BY <1>1, <2>3, CommitKeeps DEF PermInv
  <2> QED BY <1>4, <2>1, <2>2, <2>3 DEF Updates
<1> QED BY <1>2, <1>3, <1>4 DEF Next

-----------------------------------------------------------------------------
\* drizzle-user.repository.ts, drizzle-permission-template.repository.ts:
\* however edits overlap, the permissions an account or a template has are
\* those that one request asked for.
THEOREM SetsStayWhole == Spec => []SetsAreWhole
<1>1. PermInv => SetsAreWhole
  BY DEF PermInv
<1> QED BY InitHolds, NextKeepsInv, <1>1, PTL DEF Spec

\* access-policy.ts: what an edit gives and takes away is within what its actor
\* had, and never the actor's own, if the set it was judged by is still the one.
THEOREM EditsStayWithinReach == Spec => EditsAreWithinReach
<1> DEFINE Edit(r) == At(r, "cleared") /\ ~At(r, "cleared")' /\ work[r].on \in User
                        /\ work[r].current = grants[work[r].on] =>
              LET change == Delta(grants[work[r].on], grants'[work[r].on]) IN
                change \subseteq work[r].reach /\ (work[r].actor = work[r].on => change = {})
<1>1. ASSUME PermInv, [Next]_vars PROVE [\A r \in Request : Edit(r)]_vars
  <2> SUFFICES ASSUME NEW r \in Request, At(r, "cleared"), ~At(r, "cleared")', Next,
                      work[r].on \in User, work[r].current = grants[work[r].on]
               PROVE  LET change == Delta(grants[work[r].on], grants'[work[r].on]) IN
                        change \subseteq work[r].reach /\ (work[r].actor = work[r].on => change = {})
    BY <1>1
  <2>1. /\ work[r] \in Carried /\ Checked(work[r]) /\ work[r].op = "update"
        /\ work[r].doomed = grants[work[r].on]
    <3>1. work[r] \in Carried
      BY <1>1, PlacesDiffer DEF PermInv, TypeOK, At
    <3>2. Checked(work[r]) /\ work[r].op \in {"update", "template"}
      BY <1>1, <3>1 DEF PermInv, At, AllChecked
    <3> QED BY <1>1, <3>1, <3>2, PermissionsAssumption DEF PermInv, Checked, ClearedIsAll, Carried
  <2>2. Inserts(r) \/ Refused(r)
    <3>1. PICK d \in Request : Enters(d) \/ Updates(d) \/ Others(d) \/ Refused(d)
      BY DEF Next
    <3>2. work' = [work EXCEPT ![d] = work'[d]]
      BY <1>1, <3>1 DEF PermInv, TypeOK, Enters, Updates, Others, ReadUser, ReadTemplate, ReadRow,
         Carries, UpdatesRow, Goes, Clears, Inserts, CreateUser, CreateTemplate, DeleteTemplate,
         Removes, WritesBack, PurgeUser, Refused, Ends
    <3>3. d = r
      BY <1>1, <3>2 DEF PermInv, TypeOK, At
    <3> QED
      BY <3>1, <3>3 DEF At, Enters, Updates, Others, ReadUser, ReadTemplate, ReadRow, Does,
         UpdatesRow, Clears, CreateUser, CreateTemplate, DeleteTemplate, WritesBack, PurgeUser
  <2>3. CASE Refused(r)
    BY <2>3 DEF Refused, Delta
  <2>4. CASE Inserts(r)
    <3>1. grants'[work[r].on] = work[r].set
      <4>1. work[r].on \in Subject /\ grants[work[r].on] \ work[r].doomed = {}
        BY <2>1 DEF Carried
      <4> QED BY <1>1, <2>4, <4>1 DEF Inserts, PermInv, TypeOK
    <3> QED BY <2>1, <3>1 DEF Checked, CanGrant, Delta
  <2> QED BY <2>2, <2>3, <2>4
<1> QED BY InitHolds, NextKeepsInv, <1>1, PTL DEF Spec, EditsAreWithinReach

(***************************************************************************)
(* Tags.                                                                   *)
(***************************************************************************)

TagRow == [name : Name, deleted : BOOLEAN]

\* The two ways of not being a row are different ones.
LEMMA NullsAreNoRows == Unborn # Gone /\ Unborn \notin TagRow /\ Gone \notin TagRow
BY TagsAssumption DEF TagRow

\* What a request carries: rows it has read, and of those the ones it has saved.
EditOK(w) ==
  /\ w = [op |-> w.op, read |-> w.read, saved |-> w.saved]
  /\ DOMAIN w.read \subseteq Tag /\ w.saved \subseteq DOMAIN w.read
  /\ \A t \in DOMAIN w.read : w.read[t] \in TagRow
  /\ w.op = "update" => \A t \in DOMAIN w.read : ~w.read[t].deleted
  /\ w.op # "restore" => w.saved = {}

TagTypes ==
  /\ tag \in [Tag -> TagRow \cup Catalogue!NoRow] /\ asked \in [Tag -> BOOLEAN]
  /\ edit = [r \in Request |-> edit[r]] /\ \A r \in Request : EditOK(edit[r])

\* What was read has been a row, and nobody deletes one that is saved.
ReadsWereRows == \A r \in Request : \A t \in DOMAIN edit[r].read : tag[t] # Unborn
SavedAreRows == \A r \in Request : \A t \in edit[r].saved : Catalogue!HasRow(t)

TagsInv ==
  /\ TagTypes /\ ReadsWereRows /\ SavedAreRows
  /\ Catalogue!GoneIsAnnounced /\ Catalogue!TrashIsMeant

-----------------------------------------------------------------------------
\* At the start there are no tags.
LEMMA TagInitIsRight == Catalogue!Init => TagsInv
BY NullsAreNoRows DEF Catalogue!Init, TagsInv, TagTypes, EditOK, Catalogue!None, Catalogue!Edit,
   Catalogue!NoRow, ReadsWereRows, SavedAreRows, Catalogue!GoneIsAnnounced, Catalogue!TrashIsMeant,
   Catalogue!HasRow

\* Requests that read carry only rows, and change none.
LEMMA TagReadsKeep ==
  ASSUME TagsInv, NEW r \in Request, NEW op, NEW S \in SUBSET Tag,
         \A t \in S : Catalogue!HasRow(t), op = "update" => \A t \in S : Catalogue!Live(t),
         edit' = [edit EXCEPT ![r] = Catalogue!Edit(op, [t \in S |-> tag[t]])],
         UNCHANGED <<tag, asked, revived, announced>>
  PROVE  TagsInv'
<1>1. EditOK(edit'[r]) /\ edit'[r].saved = {} /\ DOMAIN edit'[r].read = S
  BY DEF EditOK, Catalogue!Edit, TagsInv, TagTypes, Catalogue!HasRow, Catalogue!Live,
     Catalogue!NoRow
<1>2. \A d \in Request \ {r} : edit'[d] = edit[d]
  BY DEF TagsInv, TagTypes
<1>3. TagTypes'
  BY <1>1, <1>2 DEF TagsInv, TagTypes, EditOK
<1>4. ReadsWereRows' /\ SavedAreRows'
  BY <1>1, <1>2 DEF TagsInv, ReadsWereRows, SavedAreRows, Catalogue!HasRow, Catalogue!NoRow
<1> QED BY <1>3, <1>4 DEF TagsInv, Catalogue!GoneIsAnnounced, Catalogue!TrashIsMeant,
           Catalogue!HasRow

\* The end of a request leaves nothing read and nothing saved.
LEMMA TagEndKeeps ==
  ASSUME TagsInv, NEW r \in Request, Catalogue!Ends(r)
  PROVE  /\ edit' = [d \in Request |-> edit'[d]] /\ \A d \in Request : EditOK(edit'[d])
         /\ \A d \in Request : /\ edit'[d].saved \subseteq edit[d].saved
                               /\ DOMAIN edit'[d].read \subseteq DOMAIN edit[d].read
         /\ edit'[r].saved = {}
BY DEF Catalogue!Ends, Catalogue!None, Catalogue!Edit, EditOK, TagsInv, TagTypes

\* A tag written under its lock, the deletion included: what others saved stays a row.
LEMMA TagWriteKeeps ==
  ASSUME TagsInv, NEW r \in Request, Catalogue!Ends(r), NEW S \in SUBSET Tag,
         \A t \in Tag \ S : tag'[t] = tag[t],
         tag' \in [Tag -> TagRow \cup Catalogue!NoRow], asked' \in [Tag -> BOOLEAN],
         \A t \in S : tag'[t] # Unborn,
         \A t \in S : Catalogue!HasRow(t)' \/ \A d \in Request \ {r} : t \notin edit[d].saved
  PROVE  TagTypes' /\ ReadsWereRows' /\ SavedAreRows'
<1>1. TagTypes'
  BY TagEndKeeps DEF TagTypes
<1>2. ReadsWereRows'
  BY TagEndKeeps DEF TagsInv, ReadsWereRows, TagTypes, EditOK
<1>3. SavedAreRows'
  BY TagEndKeeps DEF TagsInv, SavedAreRows, TagTypes, EditOK, Catalogue!HasRow
<1> QED BY <1>1, <1>2, <1>3

\* Nothing is read or saved by a creation, and no row of another is touched.
LEMMA TagCreateKeeps ==
  ASSUME TagsInv, NEW r \in Request, Catalogue!Create(r)
  PROVE  TagsInv'
<1>1. PICK t \in Tag, name \in Name :
        /\ tag[t] = Unborn /\ Catalogue!Asks({t}, FALSE)
        /\ tag' = [tag EXCEPT ![t] = [name |-> name, deleted |-> FALSE]]
  BY DEF Catalogue!Create
<1>2. UNCHANGED <<edit, revived, announced>>
  BY DEF Catalogue!Create
<1>3. TagTypes'
  BY <1>1, <1>2 DEF TagsInv, TagTypes, Catalogue!Asks, TagRow
<1>4. ReadsWereRows' /\ SavedAreRows'
  BY NullsAreNoRows, <1>1, <1>2 DEF TagsInv, TagTypes, ReadsWereRows, SavedAreRows,
     Catalogue!HasRow, Catalogue!NoRow, TagRow
<1>5. /\ tag'[t] = [name |-> name, deleted |-> FALSE] /\ tag'[t] \in TagRow /\ asked'[t] = FALSE
      /\ \A o \in Tag \ {t} : tag'[o] = tag[o] /\ asked'[o] = asked[o]
  BY <1>1 DEF TagsInv, TagTypes, TagRow, Catalogue!Asks
<1>6. Catalogue!GoneIsAnnounced'
  BY NullsAreNoRows, <1>1, <1>2, <1>5 DEF TagsInv, Catalogue!GoneIsAnnounced
<1>7. Catalogue!TrashIsMeant'
  <2>1. tag'[t].deleted = FALSE /\ revived' = revived
    BY <1>2, <1>5
  <2>2. \A o \in Tag \ {t} : o \notin revived => (Catalogue!HasRow(o)' => tag'[o].deleted = asked'[o])
    BY <1>5 DEF TagsInv, Catalogue!TrashIsMeant, Catalogue!HasRow
  <2> QED BY <1>5, <2>1, <2>2 DEF Catalogue!TrashIsMeant
<1> QED BY <1>3, <1>4, <1>6, <1>7 DEF TagsInv

\* An edit writes a row outside the trash, or finds none.
LEMMA TagUpdateKeeps ==
  ASSUME TagsInv, NEW r \in Request, Catalogue!Update(r)
  PROVE  TagsInv'
<1>1. PICK t \in DOMAIN edit[r].read, name \in Name :
        /\ tag' = Catalogue!Saved(t, [edit[r].read[t] EXCEPT !.name = name])
        /\ revived' = IF Catalogue!Stashed(t) THEN revived \cup {t} ELSE revived
  BY DEF Catalogue!Update
<1>2. Catalogue!Ends(r) /\ UNCHANGED <<asked, announced>>
  BY DEF Catalogue!Update
<1> DEFINE new == [edit[r].read[t] EXCEPT !.name = name]
<1>3. t \in Tag /\ new \in TagRow /\ ~new.deleted
  BY DEF Catalogue!Update, Catalogue!Working, TagsInv, TagTypes, EditOK, TagRow
<1>4. /\ tag[t] # Unborn /\ Catalogue!HasRow(t)' = Catalogue!HasRow(t)
      /\ tag' \in [Tag -> TagRow \cup Catalogue!NoRow]
  BY NullsAreNoRows, <1>1, <1>3 DEF TagsInv, TagTypes, ReadsWereRows, Catalogue!Saved,
     Catalogue!HasRow, Catalogue!NoRow
<1>5. TagTypes' /\ ReadsWereRows' /\ SavedAreRows'
  <2>1. \A o \in Tag \ {t} : tag'[o] = tag[o]
    BY <1>1 DEF Catalogue!Saved, TagsInv, TagTypes
  <2>2. tag'[t] # Unborn
    BY NullsAreNoRows, <1>1, <1>3, <1>4 DEF Catalogue!Saved, TagsInv, TagTypes
  <2>3. Catalogue!HasRow(t)' \/ \A d \in Request \ {r} : t \notin edit[d].saved
    BY <1>4 DEF TagsInv, SavedAreRows
  <2>4. asked' \in [Tag -> BOOLEAN]
    BY <1>2 DEF TagsInv, TagTypes
  <2>5. Catalogue!Ends(r) /\ {t} \in SUBSET Tag /\ tag' \in [Tag -> TagRow \cup Catalogue!NoRow]
    BY <1>2, <1>3, <1>4
  <2>6. \A x \in Tag \ {t} : tag'[x] = tag[x]
    BY <2>1
  <2>7. \A x \in {t} : tag'[x] # Unborn
    BY <2>2
  <2>8. \A x \in {t} : Catalogue!HasRow(x)' \/ \A d \in Request \ {r} : x \notin edit[d].saved
    BY <2>3
  <2> QED BY <2>4, <2>5, <2>6, <2>7, <2>8, TagWriteKeeps
<1>6. Catalogue!GoneIsAnnounced'
  BY NullsAreNoRows, <1>1, <1>2, <1>3 DEF TagsInv, TagTypes, Catalogue!GoneIsAnnounced,
     Catalogue!Saved, Catalogue!HasRow, Catalogue!NoRow
<1>7. Catalogue!TrashIsMeant'
  <2>1. \A o \in Tag \ {t} : tag'[o] = tag[o] /\ (o \in revived' <=> o \in revived)
    BY <1>1 DEF Catalogue!Saved, TagsInv, TagTypes
  <2>2. tag'[t] = IF Catalogue!HasRow(t) THEN new ELSE tag[t]
    BY <1>1, <1>3 DEF Catalogue!Saved, TagsInv, TagTypes
  <2>3. t \in revived' \/ (Catalogue!HasRow(t)' => tag'[t].deleted = asked'[t])
    <3>1. CASE t \in revived
      BY <1>1, <3>1
    <3>2. CASE Catalogue!Stashed(t)
      BY <1>1, <3>2
    <3>3. CASE t \notin revived /\ ~Catalogue!Stashed(t) /\ Catalogue!HasRow(t)
      <4>1. tag[t].deleted = asked[t] /\ ~tag[t].deleted
        BY <3>3, <1>3 DEF TagsInv, Catalogue!TrashIsMeant, Catalogue!Stashed
      <4>2. tag[t] \in TagRow
        BY <3>3, <1>3 DEF TagsInv, TagTypes, Catalogue!HasRow
      <4> HIDE DEF new
      <4> QED BY <3>3, <4>1, <4>2, <1>2, <1>3, <2>2 DEF TagRow
    <3>4. CASE ~Catalogue!HasRow(t)
      BY <1>4, <3>4
    <3> QED BY <3>1, <3>2, <3>3, <3>4
  <2> QED BY <1>2, <2>1, <2>3 DEF TagsInv, Catalogue!TrashIsMeant, Catalogue!HasRow
<1> QED BY <1>5, <1>6, <1>7 DEF TagsInv

\* A stash writes a row of the trash, or finds none.
LEMMA TagStashKeeps ==
  ASSUME TagsInv, NEW r \in Request, Catalogue!Stash(r)
  PROVE  TagsInv'
<1>1. PICK t \in DOMAIN edit[r].read :
        /\ tag' = Catalogue!Saved(t, [edit[r].read[t] EXCEPT !.deleted = TRUE])
        /\ Catalogue!Asks({t}, TRUE) /\ revived' = revived \ {t}
  BY DEF Catalogue!Stash
<1>2. Catalogue!Ends(r) /\ UNCHANGED announced
  BY DEF Catalogue!Stash
<1> DEFINE new == [edit[r].read[t] EXCEPT !.deleted = TRUE]
<1>3. t \in Tag /\ new \in TagRow /\ new.deleted
  <2>1. EditOK(edit[r])
    BY DEF TagsInv, TagTypes
  <2>2. t \in Tag /\ edit[r].read[t] \in TagRow
    BY <2>1 DEF EditOK
  <2> QED BY <2>2 DEF TagRow
<1>4. /\ tag[t] # Unborn /\ Catalogue!HasRow(t)' = Catalogue!HasRow(t)
      /\ tag' \in [Tag -> TagRow \cup Catalogue!NoRow]
  BY NullsAreNoRows, <1>1, <1>3 DEF TagsInv, TagTypes, ReadsWereRows, Catalogue!Saved,
     Catalogue!HasRow, Catalogue!NoRow
<1>5. TagTypes' /\ ReadsWereRows' /\ SavedAreRows'
  <2>1. \A o \in Tag \ {t} : tag'[o] = tag[o]
    BY <1>1 DEF Catalogue!Saved, TagsInv, TagTypes
  <2>2. tag'[t] # Unborn
    BY NullsAreNoRows, <1>1, <1>3, <1>4 DEF Catalogue!Saved, TagsInv, TagTypes
  <2>3. Catalogue!HasRow(t)' \/ \A d \in Request \ {r} : t \notin edit[d].saved
    BY <1>4 DEF TagsInv, SavedAreRows
  <2>4. asked' \in [Tag -> BOOLEAN]
    BY <1>1 DEF Catalogue!Asks, TagsInv, TagTypes
  <2>5. Catalogue!Ends(r) /\ {t} \in SUBSET Tag /\ tag' \in [Tag -> TagRow \cup Catalogue!NoRow]
    BY <1>2, <1>3, <1>4
  <2>6. \A x \in Tag \ {t} : tag'[x] = tag[x]
    BY <2>1
  <2>7. \A x \in {t} : tag'[x] # Unborn
    BY <2>2
  <2>8. \A x \in {t} : Catalogue!HasRow(x)' \/ \A d \in Request \ {r} : x \notin edit[d].saved
    BY <2>3
  <2> QED BY <2>4, <2>5, <2>6, <2>7, <2>8, TagWriteKeeps
<1>6. Catalogue!GoneIsAnnounced'
  BY NullsAreNoRows, <1>1, <1>2, <1>3 DEF TagsInv, TagTypes, Catalogue!GoneIsAnnounced,
     Catalogue!Saved, Catalogue!HasRow, Catalogue!NoRow
<1>7. Catalogue!TrashIsMeant'
  BY <1>1, <1>2, <1>3, <1>4 DEF TagsInv, TagTypes, Catalogue!TrashIsMeant, Catalogue!Saved,
     Catalogue!HasRow, Catalogue!Asks
<1> QED BY <1>5, <1>6, <1>7 DEF TagsInv

\* A save before the commit takes a lock, or leaves out a row that is gone.
LEMMA TagRestoreOneKeeps ==
  ASSUME TagsInv, NEW r \in Request, Catalogue!RestoreOne(r)
  PROVE  TagsInv'
<1>1. PICK t \in DOMAIN edit[r].read \ edit[r].saved :
        edit' = IF Catalogue!HasRow(t) THEN [edit EXCEPT ![r].saved = @ \cup {t}]
                ELSE [edit EXCEPT ![r].read = [x \in DOMAIN @ \ {t} |-> @[x]]]
  BY DEF Catalogue!RestoreOne
<1>2. UNCHANGED <<tag, asked, revived, announced>>
  BY DEF Catalogue!RestoreOne
<1>3. \A d \in Request \ {r} : edit'[d] = edit[d]
  BY <1>1 DEF TagsInv, TagTypes
<1> DEFINE w == edit[r]
<1>0. w.op = "restore" /\ EditOK(w)
  BY DEF Catalogue!RestoreOne, Catalogue!Working, TagsInv, TagTypes
<1>4. EditOK(edit'[r])
  <2>1. CASE Catalogue!HasRow(t)
    <3>1. edit'[r] = [w EXCEPT !.saved = @ \cup {t}]
      BY <1>1, <2>1 DEF TagsInv, TagTypes
    <3> HIDE DEF w
    <3>2. PICK read, saved : w = [op |-> "restore", read |-> read, saved |-> saved]
      BY <1>0 DEF EditOK
    <3>3. w.read = read /\ w.saved = saved
      BY <3>2
    <3>4. edit'[r] = [op |-> "restore", read |-> read, saved |-> saved \cup {t}]
      BY <3>1, <3>2, <3>3
    <3>5. t \in DOMAIN w.read
      BY <1>1 DEF w
    <3> QED BY <1>0, <3>3, <3>4, <3>5 DEF EditOK
  <2>2. CASE ~Catalogue!HasRow(t)
    <3> DEFINE rest == [x \in DOMAIN w.read \ {t} |-> w.read[x]]
    <3>1. edit'[r] = [w EXCEPT !.read = rest] /\ t \notin w.saved
      BY <1>1, <2>2 DEF TagsInv, TagTypes
    <3> HIDE DEF w
    <3>2. edit'[r] = [op |-> "restore", read |-> rest, saved |-> w.saved]
      BY <1>0, <3>1 DEF EditOK
    <3> QED BY <1>0, <3>1, <3>2 DEF EditOK
  <2> QED BY <2>1, <2>2
<1>5. DOMAIN edit'[r].read \subseteq DOMAIN edit[r].read /\ \A x \in edit'[r].saved : Catalogue!HasRow(x)
  BY <1>1 DEF TagsInv, TagTypes, EditOK, SavedAreRows
<1>6. TagTypes'
  BY <1>1, <1>2, <1>3, <1>4 DEF TagsInv, TagTypes
<1>7. ReadsWereRows' /\ SavedAreRows'
  BY <1>2, <1>3, <1>5 DEF TagsInv, ReadsWereRows, SavedAreRows, Catalogue!HasRow
<1> QED BY <1>2, <1>6, <1>7 DEF TagsInv, Catalogue!GoneIsAnnounced, Catalogue!TrashIsMeant,
           Catalogue!HasRow

\* The commit of a restore writes rows outside the trash where there are rows.
LEMMA TagRestoreKeeps ==
  ASSUME TagsInv, NEW r \in Request, Catalogue!Restore(r)
  PROVE  TagsInv'
<1> DEFINE S == edit[r].saved
<1>1. /\ tag' = [t \in Tag |-> IF t \in S THEN [edit[r].read[t] EXCEPT !.deleted = FALSE] ELSE tag[t]]
      /\ Catalogue!Asks(S, FALSE) /\ revived' = revived \ S /\ Catalogue!Ends(r) /\ UNCHANGED announced
  BY DEF Catalogue!Restore
<1>2. S \subseteq Tag /\ \A t \in S : tag'[t] \in TagRow /\ ~tag'[t].deleted /\ Catalogue!HasRow(t)
  BY <1>1 DEF TagsInv, TagTypes, EditOK, SavedAreRows, TagRow
<1>3. TagTypes' /\ ReadsWereRows' /\ SavedAreRows'
  <2>1. tag' \in [Tag -> TagRow \cup Catalogue!NoRow] /\ asked' \in [Tag -> BOOLEAN]
    BY <1>1, <1>2 DEF TagsInv, TagTypes, Catalogue!Asks
  <2>2. \A t \in Tag \ S : tag'[t] = tag[t]
    BY <1>1
  <2>3. \A t \in S : tag'[t] # Unborn /\ Catalogue!HasRow(t)'
    BY NullsAreNoRows, <1>2 DEF Catalogue!HasRow, Catalogue!NoRow
  <2> HIDE DEF S
  <2> QED BY <1>1, <1>2, <2>1, <2>2, <2>3, TagWriteKeeps
<1>4. Catalogue!GoneIsAnnounced'
  BY NullsAreNoRows, <1>1, <1>2 DEF TagsInv, Catalogue!GoneIsAnnounced, Catalogue!HasRow,
     Catalogue!NoRow
<1>5. Catalogue!TrashIsMeant'
  <2>1. \A t \in S : tag'[t].deleted = FALSE /\ asked'[t] = FALSE
    BY <1>1, <1>2 DEF Catalogue!Asks, TagRow
  <2>2. \A t \in Tag \ S : tag'[t] = tag[t] /\ asked'[t] = asked[t] /\ (t \in revived' <=> t \in revived)
    BY <1>1 DEF Catalogue!Asks
  <2> HIDE DEF S
  <2>3. \A t \in Tag \ S : t \notin revived' => (Catalogue!HasRow(t)' => tag'[t].deleted = asked'[t])
    BY <2>2 DEF TagsInv, Catalogue!TrashIsMeant, Catalogue!HasRow
  <2> QED BY <2>1, <2>3 DEF Catalogue!TrashIsMeant
<1> QED BY <1>3, <1>4, <1>5 DEF TagsInv

\* A purge waits for the locks, and announces what it read: what of it was not
\* there any more had been announced by who removed it.
LEMMA TagPurgeKeeps ==
  ASSUME TagsInv, NEW r \in Request, Catalogue!Purge(r)
  PROVE  TagsInv'
<1> DEFINE S == DOMAIN edit[r].read
<1>1. /\ tag' = [t \in Tag |-> IF Catalogue!Purges(r, t) THEN Gone ELSE tag[t]]
      /\ announced' = announced \cup S /\ Catalogue!Ends(r) /\ UNCHANGED <<asked, revived>>
  BY DEF Catalogue!Purge
<1>2. S \subseteq Tag /\ \A t \in S : tag'[t] = Gone
  BY <1>1 DEF Catalogue!Purges, TagsInv, TagTypes, EditOK, ReadsWereRows, Catalogue!HasRow,
     Catalogue!NoRow
<1>3. \A t \in Tag \ S : tag'[t] = tag[t]
  BY <1>1 DEF Catalogue!Purges
<1>4. TagTypes' /\ ReadsWereRows' /\ SavedAreRows'
  <2>1. tag' \in [Tag -> TagRow \cup Catalogue!NoRow] /\ asked' \in [Tag -> BOOLEAN]
    BY <1>1 DEF TagsInv, TagTypes, Catalogue!NoRow
  <2>2. \A t \in S : tag'[t] # Unborn
    BY NullsAreNoRows, <1>2
  <2>3. \A t \in S : \A d \in Request \ {r} : t \notin edit[d].saved
    BY DEF Catalogue!Purge, Catalogue!Free
  <2> HIDE DEF S
  <2> QED BY <1>1, <1>2, <1>3, <2>1, <2>2, <2>3, TagWriteKeeps
<1>5. Catalogue!GoneIsAnnounced'
  BY <1>1, <1>2, <1>3 DEF TagsInv, Catalogue!GoneIsAnnounced
<1>6. Catalogue!TrashIsMeant'
  BY <1>1, <1>2, <1>3 DEF TagsInv, Catalogue!TrashIsMeant, Catalogue!HasRow, Catalogue!NoRow
<1> QED BY <1>4, <1>5, <1>6 DEF TagsInv

\* A request that fails leaves the rows as they were.
LEMMA TagFailKeeps ==
  ASSUME TagsInv, NEW r \in Request, Catalogue!Fails(r)
  PROVE  TagsInv'
<1>1. Catalogue!Ends(r) /\ UNCHANGED <<tag, asked, revived, announced>>
  BY DEF Catalogue!Fails
<1>2. TagTypes' /\ ReadsWereRows' /\ SavedAreRows'
  BY <1>1, TagEndKeeps DEF TagsInv, TagTypes, ReadsWereRows, SavedAreRows, Catalogue!HasRow
<1> QED BY <1>1, <1>2 DEF TagsInv, Catalogue!GoneIsAnnounced, Catalogue!TrashIsMeant,
           Catalogue!HasRow

-----------------------------------------------------------------------------
\* The invariant is inductive.
LEMMA TagStepKeeps == TagsInv /\ [Catalogue!Next]_(Catalogue!vars) => TagsInv'
<1> SUFFICES ASSUME TagsInv, [Catalogue!Next]_(Catalogue!vars)
             PROVE  TagsInv'
  OBVIOUS
<1>1. CASE UNCHANGED Catalogue!vars
  BY <1>1 DEF Catalogue!vars, TagsInv, TagTypes, EditOK, ReadsWereRows, SavedAreRows,
     Catalogue!GoneIsAnnounced, Catalogue!TrashIsMeant, Catalogue!HasRow
<1>2. ASSUME NEW r \in Request, NEW op, Catalogue!ReadsOne(r, op)
      PROVE  TagsInv'
  <2>1. PICK t \in Tag :
          Catalogue!Editable(t) /\ edit' = [edit EXCEPT ![r] = Catalogue!Edit(op, [x \in {t} |-> tag[x]])]
    BY <1>2 DEF Catalogue!ReadsOne
  <2>2. \A x \in {t} : Catalogue!HasRow(x) /\ Catalogue!Live(x)
    BY <2>1 DEF Catalogue!Editable, Catalogue!Live
  <2> QED BY <1>2, <2>1, <2>2, TagReadsKeep DEF Catalogue!ReadsOne
<1>3. ASSUME NEW r \in Request, NEW op, Catalogue!ReadsTrash(r, op), op # "update"
      PROVE  TagsInv'
  <2>1. PICK S \in SUBSET {t \in Tag : Catalogue!Stashed(t)} :
          edit' = [edit EXCEPT ![r] = Catalogue!Edit(op, [t \in S |-> tag[t]])]
    BY <1>3 DEF Catalogue!ReadsTrash
  <2>2. S \in SUBSET Tag /\ \A x \in S : Catalogue!HasRow(x)
    BY <2>1 DEF Catalogue!Stashed
  <2> QED BY <1>3, <2>1, <2>2, TagReadsKeep DEF Catalogue!ReadsTrash
<1>4. CASE Catalogue!Next
  <2>1. PICK r \in Request :
          \/ Catalogue!Create(r) \/ Catalogue!ReadsOne(r, "update") \/ Catalogue!ReadsOne(r, "stash")
          \/ Catalogue!ReadsTrash(r, "restore") \/ Catalogue!ReadsTrash(r, "purge")
          \/ Catalogue!Update(r) \/ Catalogue!Stash(r) \/ Catalogue!RestoreOne(r) \/ Catalogue!Restore(r)
          \/ Catalogue!Purge(r) \/ Catalogue!Fails(r)
    BY <1>4 DEF Catalogue!Next
  <2>2. CASE Catalogue!ReadsOne(r, "update") \/ Catalogue!ReadsOne(r, "stash")
    BY <2>2, <1>2
  <2>3. CASE Catalogue!ReadsTrash(r, "restore") \/ Catalogue!ReadsTrash(r, "purge")
    BY <2>3, <1>3
  <2> QED BY <2>1, <2>2, <2>3, TagCreateKeeps, TagUpdateKeeps, TagStashKeeps, TagRestoreOneKeeps,
             TagRestoreKeeps, TagPurgeKeeps, TagFailKeeps
<1> QED BY <1>1, <1>4

\* However the requests of any number of administrators overlap, the trash holds
\* what the last to create, stash or restore meant it to, but for the tags that
\* an edit begun before the stash has brought back.
THEOREM TrashIsAsMeant == Catalogue!Spec => []TrashIsMeant
<1>1. Catalogue!Init => TagsInv
  BY TagInitIsRight
<1>2. TagsInv /\ [Catalogue!Next]_(Catalogue!vars) => TagsInv'
  BY TagStepKeeps
<1>3. TagsInv => TrashIsMeant
  BY DEF TagsInv, TrashIsMeant
<1> QED BY <1>1, <1>2, <1>3, PTL DEF Catalogue!Spec

\* A tag is gone if and only if its purge was announced, whoever restored, edited
\* or purged it at the same time.
THEOREM PurgesAreAnnounced == Catalogue!Spec => []GoneIsAnnounced
<1>1. Catalogue!Init => TagsInv
  BY TagInitIsRight
<1>2. TagsInv /\ [Catalogue!Next]_(Catalogue!vars) => TagsInv'
  BY TagStepKeeps
<1>3. TagsInv => GoneIsAnnounced
  BY DEF TagsInv, GoneIsAnnounced
<1> QED BY <1>1, <1>2, <1>3, PTL DEF Catalogue!Spec
=============================================================================
