-------------------------- MODULE MCAdministration --------------------------
(* What administrators do at the same time: Permissions and Tags share no  *)
(* state, and a behaviour of this module is one of either.                 *)
EXTENDS Permissions

CONSTANTS readUsers, updateUsers, charts, admin, clinician, Tag, MaxEdits

\* To edit users one must read them; the charts belong to another module.
RequiresOf == [key \in {readUsers, updateUsers, charts} |->
                 IF key = updateUsers THEN {readUsers} ELSE {}]
OwningModule == [key \in {readUsers, updateUsers, charts} |->
                   IF key = charts THEN clinician ELSE admin]

\* What a missing tag is written as is no row.
ASSUME TagsAssumption ==
  /\ Unborn # Gone
  /\ {Unborn, Gone} \cap [name : Name, deleted : BOOLEAN] = {}

VARIABLES part, tag, edit, asked, revived, announced, requests

tagVars == <<tag, edit, asked, revived, announced, requests>>

Catalogue == INSTANCE Tags WITH MaxRequest <- MaxEdits

NoUsers ==
  /\ row = [s \in Subject |-> Unborn] /\ grants = [s \in Subject |-> {}]
  /\ work = [r \in Request |-> Idle] /\ started = 0 /\ overwritten = {} /\ last = grants

EitherInit ==
  /\ Catalogue!Init
  /\ \/ part = "permissions" /\ Init
     \/ part = "tags" /\ NoUsers

EitherNext ==
  /\ UNCHANGED part
  /\ \/ part = "permissions" /\ Next /\ UNCHANGED tagVars
     \/ part = "tags" /\ Catalogue!Next /\ UNCHANGED vars

EitherSpec == EitherInit /\ [][EitherNext]_<<part, vars, tagVars>>

TrashIsMeant == Catalogue!TrashIsMeant
GoneIsAnnounced == Catalogue!GoneIsAnnounced
=============================================================================
