------------------------------- MODULE Journal -------------------------------
(***************************************************************************)
(* The journal of migrations: what a working tree, a branch, main of       *)
(* origin and an environment hold of it, the check that runs before every  *)
(* push, and the migrator, which applies what is newer than the newest it  *)
(* has applied.  A `when' is any number: it is the clock of the machine    *)
(* that generated the entry, or came with an update of the template.       *)
(***************************************************************************)
EXTENDS Integers, FiniteSetsExt, SequencesExt

CONSTANTS
  Clone,
  Module,      \* modules of the catalogue
  MaxMade,     \* bound: entries made
  MaxWhen,     \* bound: the last `when' a machine gives
  MaxPushes,   \* bound: journals published
  None

ASSUME JournalAssumption ==
  {MaxMade, MaxWhen} \subseteq Nat \ {0} /\ MaxPushes \in Nat /\ None \notin Module

VARIABLES
  made,       \* entries made
  tree,       \* [Clone -> the journal in its working tree]
  head,       \* [Clone -> the journal of its last commit]
  published,  \* the journals main of origin has had, the last one its present one
  merged,     \* [Clone -> the one its branch descends from and its origin/main shows]
  deployed,   \* the one the environment was migrated to, 0 before
  applied,    \* the entries the environment has applied, as they were
  strayed     \* history: what the order of things did not survive, see InOrder

clones == <<tree, head, merged>>
journal == <<made, clones, published, deployed, applied, strayed>>

\* `sql' is what the file of the entry holds: the SQL, the stub of drizzle-kit
\* or, when there is no file, nothing.
Entry(n, when, of, sql) == [id |-> n, when |-> when, of |-> of, sql |-> sql]
Ids(entries) == {x.id : x \in entries}
Newest(entries) == Max({x.when : x \in entries} \cup {0})
MainJournal == Last(published)

\* The baseline of the kernel, which the product is born with; the entry that comes
\* with it is one like any other.
Born == << Entry(1, 1, None, "whole") >>

JournalInit ==
  /\ made = 1
  /\ tree = [c \in Clone |-> Born] /\ head = [c \in Clone |-> Born]
  /\ published = << Born >>
  /\ merged = [c \in Clone |-> 1]
  /\ deployed = 0 /\ applied = {}
  /\ strayed = {}

-----------------------------------------------------------------------------
(* check-journal.ts                                                        *)

FilesPaired(entries) == \A i \in DOMAIN entries : entries[i].sql # "gone"

WhenOrdered(entries) == \A i, k \in DOMAIN entries : i < k => entries[i].when < entries[k].when

\* The chain starts again: another baseline, and of the one of the base neither
\* the baseline nor all of the rest is left.
BaselineReset(entries, base) ==
  /\ entries # <<>> /\ base # <<>>
  /\ entries[1].id \notin Ids(ToSet(base)) /\ base[1].id \notin Ids(ToSet(entries))
  /\ \E i \in 2..Len(base) : base[i].id \notin Ids(ToSet(entries))

Added(entries, base) == {x \in ToSet(entries) : x.id \notin Ids(ToSet(base))}

\* Of a reset nothing is, otherwise what is new and not newer than the base.
BornInThePast(entries, base) ==
  {x \in Added(entries, base) : ~BaselineReset(entries, base) /\ x.when <= Newest(ToSet(base))}

\* Mutant of AgainstBase: what is new need only be in order.
AgainstBaseUnread(entries, base) == TRUE

AgainstBase(entries, base) == BornInThePast(entries, base) = {}

Passes(entries, base) ==
  FilesPaired(entries) /\ WhenOrdered(entries) /\ AgainstBase(entries, base)

\* The `when' the check suggests to each entry born in the past.
Restamped(entries, base) ==
  [i \in DOMAIN entries |->
     IF entries[i] \in BornInThePast(entries, base)
     THEN [entries[i] EXCEPT !.when =
             Newest(ToSet(base)) + Cardinality({k \in 1..i : entries[k] \in BornInThePast(entries, base)})]
     ELSE entries[i]]

-----------------------------------------------------------------------------
(* A clone                                                                 *)

\* What the clone knows of main.  It could have fetched more without merging it,
\* but then origin refuses its push.
Base(c) == published[merged[c]]

\* The orders the code does not survive, at which the properties stop.  "lowered":
\* a push took from main its newest entry; "reset": it used the waiver for a new
\* baseline; "unsaved": what was pushed is not what was checked.
InOrder == strayed = {}
Strays(kind, when) == strayed' = IF when THEN strayed \cup {kind} ELSE strayed

\* drizzle-kit adds at the end, an update of the template among its own.
Receives(c, of, sql, when, at) ==
  /\ made < MaxMade /\ made' = made + 1
  /\ tree' = [tree EXCEPT ![c] = InsertAt(@, at, Entry(made + 1, when, of, sql))]

Make(c) ==
  /\ \E when \in 1..MaxWhen, at \in 2..Len(tree[c]) + 1 : Receives(c, None, "whole", when, at)
  /\ UNCHANGED <<head, merged, published, deployed, applied, strayed>>

Edits(c, entries) ==
  /\ tree[c] # entries
  /\ tree' = [tree EXCEPT ![c] = entries]
  /\ UNCHANGED <<made, head, merged, published, deployed, applied, strayed>>

Restamp(c) == Edits(c, Restamped(tree[c], Base(c)))

\* A migration of the product's own is given up.
Withdraw(c) ==
  \E i \in 2..Len(tree[c]) : tree[c][i].of = None /\ Edits(c, RemoveAt(tree[c], i))

\* The baseline, which is no module's, is given another name.
Rename(c) ==
  /\ tree[c] # <<>> /\ tree[c][1].of = None
  /\ made < MaxMade /\ made' = made + 1
  /\ tree' = [tree EXCEPT ![c][1].id = made + 1]
  /\ UNCHANGED <<head, merged, published, deployed, applied, strayed>>

Commit(c) ==
  /\ tree[c] # head[c]
  /\ head' = [head EXCEPT ![c] = tree[c]]
  /\ UNCHANGED <<made, tree, merged, published, deployed, applied, strayed>>

Before(entries, x, y) == \E i, k \in DOMAIN entries : i < k /\ entries[i] = x /\ entries[k] = y

\* What s has of `kept' it has in the order of the journal that is from.
KeepsOrder(s, kept, entries) ==
  \A i, k \in DOMAIN s : i < k /\ {s[i], s[k]} \subseteq kept => Before(entries, s[i], s[k])

\* The entries of both, in an order that is right for either.
Merges(theirs, main, own, branch) ==
  {s \in SetToSeqs(theirs \cup own) : KeepsOrder(s, theirs, main) /\ KeepsOrder(s, own, branch)}

\* git pull into a clean tree: what the branch has dropped stays dropped, what
\* it has added is merged by hand.
Pull(c) ==
  LET old == Ids(ToSet(published[merged[c]]))
      dropped == old \ Ids(ToSet(head[c]))
      theirs == {x \in ToSet(MainJournal) : x.id \notin dropped}
      own == {x \in ToSet(head[c]) : x.id \notin old}
  IN
    /\ merged[c] # Len(published) /\ tree[c] = head[c]
    /\ \E entries \in Merges(theirs, MainJournal, own, head[c]) :
         head' = [head EXCEPT ![c] = entries] /\ tree' = [tree EXCEPT ![c] = entries]
    /\ merged' = [merged EXCEPT ![c] = Len(published)]
    /\ UNCHANGED <<made, published, deployed, applied, strayed>>

\* The hook checks the tree against the base it knows; origin takes the commit
\* when it continues main.
Push(c) ==
  /\ Len(published) <= MaxPushes
  /\ head[c] # MainJournal /\ merged[c] = Len(published)
  /\ Passes(tree[c], Base(c))
  /\ published' = Append(published, head[c])
  /\ merged' = [merged EXCEPT ![c] = Len(published) + 1]
  /\ strayed' = strayed \cup (IF Passes(head[c], Base(c)) THEN {} ELSE {"unsaved"})
                        \cup (IF BaselineReset(head[c], Base(c)) THEN {"reset"} ELSE {})
                        \cup (IF Newest(ToSet(head[c])) < Newest(ToSet(MainJournal)) THEN {"lowered"} ELSE {})
  /\ UNCHANGED <<made, tree, head, deployed, applied>>

-----------------------------------------------------------------------------
(* An environment: migrate.ts.                                             *)

\* The migrator compares with the newest it has applied, and with nothing else.
IsNew(x) == x.when > Newest(applied)

\* One migrator at a time, as migrate.ts takes it that the lock of drizzle's sees to:
\* `applied' is a set, in which an entry that two replicas ran at once is one.
Deploy ==
  \E version \in deployed + 1..Len(published) :
    /\ FilesPaired(published[version])
    /\ applied' = applied \cup {x \in ToSet(published[version]) : IsNew(x)}
    /\ deployed' = version
    /\ UNCHANGED <<made, clones, published, strayed>>

JournalNext ==
  \/ \E c \in Clone :
       \/ Make(c) \/ Restamp(c) \/ Withdraw(c) \/ Rename(c)
       \/ Commit(c) \/ Pull(c) \/ Push(c)
  \/ Deploy

-----------------------------------------------------------------------------
\* An environment has run every entry of the journal it was migrated to, and each
\* once, whichever clones generated, received, restamped, merged and published
\* them in whatever order, and whatever `when' each of them carries.
EachEntryRuns ==
  deployed # 0 /\ InOrder =>
    \A x \in ToSet(published[deployed]) : Cardinality({y \in applied : y.id = x.id}) = 1
=============================================================================
