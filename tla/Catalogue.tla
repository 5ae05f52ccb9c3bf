------------------------------ MODULE Catalogue ------------------------------
(***************************************************************************)
(* `pnpm platform module add`, `--rollback' and `adopt', run by sessions   *)
(* in one working tree: the lock, the files of the modules, the registry   *)
(* and the migrations generated for them.  A step ends where a command     *)
(* waits for another program (git, drizzle-kit, pnpm), which may fail and  *)
(* where the command may die.  What it writes in between it writes file    *)
(* after file: AddDies and RollbackDies are its deaths in there.  Two      *)
(* commands that write at the very same moment are two steps here.         *)
(***************************************************************************)
EXTENDS Journal

CONSTANTS
  Home,        \* the clone
  Session,
  DependsOn,   \* [Module -> SUBSET Module]
  Custom,      \* modules that ship a migration of their own SQL
  Older        \* modules of the product from before the catalogue

ASSUME CatalogueAssumption ==
  /\ Home \in Clone
  /\ IsFiniteSet(Module) /\ Custom \subseteq Module /\ Older \subseteq Module
  /\ DependsOn \in [Module -> SUBSET Module]
  /\ \A ids \in SUBSET (1..MaxMade) : ids # None

VARIABLES
  lock,       \* [Module -> the migrations generated for it, or None]
  files,      \* modules of which a file is in the tree
  registry,   \* modules in platform-modules.ts or platform-schema.ts
  job,        \* [Session -> what its command keeps]
  halfway     \* history: modules whose rollback died, not yet gone or added again

catalogue == <<lock, files, registry, job, halfway>>
vars == <<journal, catalogue>>

\* The modules it is about, those still to be done, the lock as the command knows
\* it, the entries it has counted, and the migrations generated for the first.
Job(step, targets, todo, known, seen, generated) ==
  [step |-> step, targets |-> targets, todo |-> todo, known |-> known, seen |-> seen,
   generated |-> generated]

NothingLocked == [m \in Module |-> None]
Idle == Job("idle", {}, <<>>, NothingLocked, 0, {})

\* A product from before the catalogue may have files of modules it never added.
Init ==
  /\ JournalInit
  /\ lock = NothingLocked
  /\ files \in SUBSET Older /\ registry = {} /\ halfway = {}
  /\ job = [s \in Session |-> Idle]

-----------------------------------------------------------------------------
Installed(locked) == {m \in Module : locked[m] # None}

\* buildRegistryEntries: every module of the lock but those that go.
Registered(locked, without) == Installed(locked) \ without

\* writeLock of apply.mjs: one entry more, in the lock as the caller knows it.
WithEntry(locked, m, migrations) == [locked EXCEPT ![m] = migrations]

\* planCopy: the modules whose files are in the way.
Conflicts(modules) == modules \cap files

Current(s) == Head(job[s].todo)
Goes(s, next) == job' = [job EXCEPT ![s] = next]
Ends(s) == Goes(s, Idle)
Journaled(entries) == tree' = [tree EXCEPT ![Home] = entries]
Elsewhere == UNCHANGED <<head, merged, published, deployed, applied>>

\* resolveInstallOrder: what m needs of what is not satisfied yet, dependencies first.
Needed(m, satisfied) ==
  {n \in Module : \A S \in SUBSET Module :
     m \in S /\ (\A x \in S : DependsOn[x] \ satisfied \subseteq S) => n \in S}

Orders(modules) ==
  {order \in SetToSeqs(modules) :
     \A i, k \in DOMAIN order : order[i] \in DependsOn[order[k]] => i < k}

\* The orders the commands do not survive.  "raced": another command or a hand
\* changed the lock or the journal between what was read and what was written from
\* it; "unlisted": a command ended with migrations it had not put in the lock;
\* "adopted": a module was adopted over its own entry, which forgets them.

-----------------------------------------------------------------------------
(* module add                                                              *)

\* The lock is read and the plan is made; then the tags of origin are asked for.
AddReads(s) ==
  /\ job[s] = Idle
  /\ \E m \in Module \ Installed(lock) : \E order \in Orders(Needed(m, Installed(lock))) :
       Goes(s, Job("tags", ToSet(order), order, lock, 0, {}))
  /\ UNCHANGED <<journal, lock, files, registry, halfway>>

\* Without --force nothing that is there is overwritten.  Files, lock and
\* registry are written from the lock that was read.
AddRecords(s) ==
  LET plan == ToSet(job[s].todo)
      locked == [m \in Module |-> IF m \in plan THEN {} ELSE job[s].known[m]]
  IN
    /\ job[s].step = "tags" /\ Conflicts(plan) = {}
    /\ files' = files \cup plan
    /\ lock' = locked
    /\ registry' = Registered(locked, {})
    /\ halfway' = halfway \cap Installed(job[s].known)
    /\ Goes(s, [job[s] EXCEPT !.step = "check", !.known = locked])
    /\ Strays("raced", lock # job[s].known)
    /\ UNCHANGED <<made, clones, published, deployed, applied>>

\* It dies in there: some modules are copied, the last of them maybe in part, all of
\* them but maybe the last are in the lock, and the registry is what it was.
AddDies(s) ==
  LET todo == job[s].todo IN
    /\ job[s].step = "tags" /\ Conflicts(ToSet(todo)) = {}
    /\ \E copied \in 1..Len(todo) : \E listed \in {copied - 1, copied} :
         LET there == {todo[i] : i \in 1..copied}
             entered == {todo[i] : i \in 1..listed}
         IN
           /\ files' = files \cup there
           /\ lock' = IF entered = {} THEN lock
                      ELSE [m \in Module |-> IF m \in entered THEN {} ELSE job[s].known[m]]
           /\ Strays("raced", entered # {} /\ lock # job[s].known)
    /\ Ends(s)
    /\ UNCHANGED <<registry, halfway, made, clones, published, deployed, applied>>

\* drizzle-kit check is over, and has not refused: the entries are counted.  One that
\* was killed has no status, which counts as none that refuses.
AddChecks(s) ==
  /\ job[s].step = "check"
  /\ Goes(s, [job[s] EXCEPT !.step = "baseline", !.seen = Len(tree[Home])])
  /\ UNCHANGED <<journal, lock, files, registry, halfway>>

\* drizzle-kit generate adds an entry at the end, or none when the schema has
\* not changed; what is after the entries counted is taken for it.
AddBaseline(s) ==
  LET created == SubSeq(tree'[Home], job[s].seen + 1, Len(tree'[Home]))
      own == {x \in ToSet(tree'[Home]) : x.id = made'}
  IN
    /\ job[s].step = "baseline"
    /\ \/ UNCHANGED <<made, tree>>
       \/ \E when \in 1..MaxWhen : Receives(Home, Current(s), "whole", when, Len(tree[Home]) + 1)
    /\ Strays("raced", ToSet(created) # IF made' = made THEN {} ELSE own)
    /\ Goes(s, [job[s] EXCEPT !.step = IF Current(s) \in Custom THEN "custom" ELSE "journal",
                              !.seen = Len(tree'[Home]), !.generated = Ids(ToSet(created))])
    /\ UNCHANGED <<lock, files, registry, halfway>> /\ Elsewhere

\* drizzle-kit generate --custom adds a stub.  The shipped SQL is written into the
\* one entry after those counted; if that is not one, or it dies, the stub stays.
AddCustom(s) ==
  /\ job[s].step = "custom"
  /\ made < MaxMade /\ made' = made + 1
  /\ \E when \in 1..MaxWhen :
       LET stub == Entry(made + 1, when, Current(s), "stub")
           entries == Append(tree[Home], stub)
           created == SubSeq(entries, job[s].seen + 1, Len(entries))
       IN  \/ /\ Len(created) = 1
              /\ Journaled([entries EXCEPT ![Len(entries)].sql = "whole"])
              /\ Goes(s, [job[s] EXCEPT !.step = "journal", !.seen = @ + 1,
                                        !.generated = @ \cup Ids(ToSet(created))])
              /\ UNCHANGED strayed
           \/ Journaled(entries) /\ Ends(s) /\ Strays("unlisted", TRUE)
  /\ UNCHANGED <<lock, files, registry, halfway>> /\ Elsewhere

\* The check of the journal has not refused, or was killed, which counts as that; the
\* module's entry in the lock gets its migrations, and the next module follows.
AddLists(s) ==
  LET locked == WithEntry(job[s].known, Current(s), job[s].generated)
      rest == Tail(job[s].todo)
  IN
    /\ job[s].step = "journal" /\ Current(s) \in files
    /\ lock' = locked
    /\ IF rest = <<>> THEN Ends(s) ELSE Goes(s, Job("check", job[s].targets, rest, locked, 0, {}))
    /\ Strays("raced", lock # job[s].known)
    /\ UNCHANGED <<files, registry, halfway, made, clones, published, deployed, applied>>

\* A program fails, a check refuses or the command dies: what it has generated
\* for its module is in the journal and not in the lock.
GivesUp(s) ==
  /\ job[s] # Idle
  /\ Ends(s)
  /\ Strays("unlisted", job[s].generated # {})
  /\ UNCHANGED <<lock, files, registry, halfway, made, clones, published, deployed, applied>>

-----------------------------------------------------------------------------
(* module add --rollback, module adopt                                     *)

\* The lock is read, the catalogue is fetched.  With --with-deps, what m needs
\* goes too, whoever else needs it.
RollbackReads(s) ==
  /\ job[s] = Idle
  /\ \E m \in Installed(lock) :
       \E targets \in {{m}, Needed(m, {}) \cap Installed(lock)} : \E order \in Orders(targets) :
         Goes(s, Job("rollback", targets, order, lock, 0, {}))
  /\ UNCHANGED <<journal, lock, files, registry, halfway>>

WithoutFiles(entries, ids) ==
  [i \in DOMAIN entries |-> [entries[i] EXCEPT !.sql = IF entries[i].id \in ids THEN "gone" ELSE @]]

\* Mutant of Without: the files go, the journal keeps the entries.
WithoutAny(entries, ids) == {WithoutFiles(entries, ids)}

\* removeMigrations: the files, then the entries, and the rest keep their order.
Without(entries, ids) ==
  LET left == {x \in ToSet(entries) : x.id \notin ids}
  IN  {s \in SetToSeqs(left) : KeepsOrder(s, left, entries)}

\* One target after the other: its migrations go, then its files and its entry in
\* the lock; the registry is what the lock was without any of the targets.
RollbackActs(s) ==
  LET m == Current(s)
      rest == Tail(job[s].todo)
      done == job[s].targets \ ToSet(job[s].todo)
  IN
    /\ job[s].step = "rollback"
    /\ \E left \in Without(tree[Home], job[s].known[m]) : Journaled(left)
    /\ files' = IF lock[m] = None THEN files ELSE files \ {m}
    /\ lock' = [lock EXCEPT ![m] = None]
    /\ registry' = IF lock[m] = None THEN registry ELSE Registered(job[s].known, job[s].targets)
    /\ halfway' = IF lock[m] = None THEN halfway ELSE halfway \cap Installed(lock')
    /\ IF rest = <<>> THEN Ends(s) ELSE Goes(s, [job[s] EXCEPT !.todo = rest])
    /\ Strays("raced", \E n \in Module \ done : lock[n] # job[s].known[n])
    /\ UNCHANGED made /\ Elsewhere

\* It dies among the files of the migrations.
RollbackDiesEarly(s) ==
  /\ job[s].step = "rollback"
  /\ \E gone \in SUBSET job[s].known[Current(s)] : Journaled(WithoutFiles(tree[Home], gone))
  /\ Ends(s)
  /\ UNCHANGED <<made, lock, files, registry, halfway, strayed>> /\ Elsewhere

\* It dies when the entries are gone: among the module's files, before the lock is
\* written, or before the registry is.
RollbackDies(s) ==
  LET m == Current(s)
      done == job[s].targets \ ToSet(job[s].todo)
  IN
    /\ job[s].step = "rollback" /\ lock[m] # None
    /\ \E left \in Without(tree[Home], job[s].known[m]) : Journaled(left)
    /\ \/ files' \in {files, files \ {m}} /\ UNCHANGED lock
       \/ files' = files \ {m} /\ lock' = [lock EXCEPT ![m] = None]
    /\ halfway' = halfway \cup {m}
    /\ Ends(s)
    /\ Strays("raced", \E n \in Module \ done : lock[n] # job[s].known[n])
    /\ UNCHANGED <<made, registry>> /\ Elsewhere

\* What is there is put in the lock, with no migration, whether it was in it or not.
Adopt(s) ==
  /\ job[s] = Idle
  /\ \E m \in files :
       /\ lock' = WithEntry(lock, m, {})
       /\ Strays("adopted", lock[m] \notin {None, {}})
  /\ UNCHANGED <<files, registry, job, halfway, made, clones, published, deployed, applied>>

Next ==
  \/ JournalNext /\ UNCHANGED catalogue
  \/ \E s \in Session :
       \/ AddReads(s) \/ AddRecords(s) \/ AddChecks(s) \/ AddBaseline(s) \/ AddCustom(s) \/ AddLists(s)
       \/ AddDies(s) \/ GivesUp(s)
       \/ RollbackReads(s) \/ RollbackActs(s) \/ RollbackDiesEarly(s) \/ RollbackDies(s)
       \/ Adopt(s)

Spec == Init /\ [][Next]_vars

-----------------------------------------------------------------------------
\* Between commands the lock says what is in the tree: who is registered is in
\* it, who is in it has files, a migration generated for a module is listed under
\* that module and nothing of anybody else's is, so that a rollback removes what
\* was added and no more, through failures and deaths at any step.  A rollback that
\* died when the migrations were gone leaves its module registered and not in the
\* lock, or there without files, until it is rolled back or added again.
LockIsTrue ==
  (\A s \in Session : job[s] = Idle) /\ InOrder =>
    /\ registry \ halfway \subseteq Installed(lock) /\ Installed(lock) \ halfway \subseteq files
    /\ \A x \in ToSet(tree[Home]) :
         {m \in Installed(lock) : x.id \in lock[m]} = IF x.of = None THEN {} ELSE {x.of}
=============================================================================
