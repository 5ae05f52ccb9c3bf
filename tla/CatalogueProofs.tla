--------------------------- MODULE CatalogueProofs ---------------------------
(***************************************************************************)
(* Theorems about Catalogue and the Journal it works in, for any finite    *)
(* set of modules, any number of clones, commands, entries and             *)
(* publications, and any `when': that every published migration runs once  *)
(* in an environment, and that the lock of the catalogue says what is in   *)
(* the tree, as long as the order of things is one the code survives.      *)
(*                                                                         *)
(* The first rests on LaterIsNewer, facts between a version of main and a  *)
(* later one; the second on ListsAreTrue, which says it of every step of   *)
(* a command and not only between two.                                     *)
(***************************************************************************)
EXTENDS Catalogue, SequenceTheorems, FiniteSetTheorems, WellFoundedInduction, TLAPS

(***************************************************************************)
(* What is known.                                                          *)
(***************************************************************************)
EntryRec == [id : 1..MaxMade, when : Nat \ {0}, of : Module \cup {None}, sql : {"whole", "stub", "gone"}]

JournalTypes ==
  /\ made \in 1..MaxMade
  /\ tree \in [Clone -> Seq(EntryRec)] /\ head \in [Clone -> Seq(EntryRec)]
  /\ published \in Seq(Seq(EntryRec)) \ {<<>>} /\ merged \in [Clone -> 1..Len(published)]
  /\ deployed \in 0..Len(published) /\ applied \subseteq EntryRec

\* The journals main has had, and what a clone holds in its tree or its branch.
Main(v) == ToSet(published[v])
Versions == 1..Len(published)
Published == UNION {Main(v) : v \in Versions}
Held(c) == ToSet(tree[c]) \cup ToSet(head[c])
Existing == Published \cup UNION {Held(c) : c \in Clone}

Distinct(entries) == \A i, k \in DOMAIN entries : entries[i].id = entries[k].id => i = k

\* An id names one entry wherever it is, and is in a journal once.
IdsOnce ==
  /\ \A x \in Existing : x.id <= made
  /\ \A c \in Clone : Distinct(tree[c]) /\ Distinct(head[c])
  /\ \A x, y \in Existing : x.id = y.id => x.of = y.of

Private(c, x) ==
  /\ \A y \in Published : y.id # x.id
  /\ \A d \in Clone \ {c} : \A y \in Held(d) : y.id # x.id

\* What has not left the clone is nowhere else.
NewIsPrivate ==
  \A c \in Clone : \A x \in Held(c) :
    x.id \notin Ids(Main(merged[c])) \/ x.id \notin Ids(ToSet(head[c])) => Private(c, x)

\* What was published keeps its `when', in main and in every branch.
SameWhen ==
  \A y \in Published : \A x \in Published \cup UNION {ToSet(head[c]) : c \in Clone} :
     x.id = y.id => x.when = y.when

\* A working tree differs from its branch in what is new and was born in the past.
TreeFollows(c) ==
  \A x \in ToSet(tree[c]), y \in ToSet(head[c]) :
    x.id = y.id =>
      \/ x.when = y.when
      \/ y.id \notin Ids(Main(merged[c])) /\ y.when <= Newest(Main(merged[c]))

\* The newest of main never gets older, and what is new in a journal of main is newer
\* than all of those before.
Rising == \A v, w \in Versions : v < w => Newest(Main(v)) <= Newest(Main(w))
LaterIsNewer ==
  \A v, w \in Versions : v < w =>
     \A x \in Main(w) : x.id \notin Ids(Main(v)) => x.when > Newest(Main(v))

\* What an environment has applied was published, and is all of what it was migrated to.
Runs ==
  /\ applied \subseteq UNION {Main(v) : v \in 1..deployed}
  /\ \A x, y \in applied : x.id = y.id => x = y
  /\ deployed # 0 => \A x \in Main(deployed) : \E y \in applied : y.id = x.id

JournalInv ==
  /\ IdsOnce /\ NewIsPrivate /\ SameWhen /\ \A c \in Clone : TreeFollows(c)
  /\ \A v \in Versions : WhenOrdered(published[v])
  /\ Rising /\ LaterIsNewer /\ Runs

MigrationIds == SUBSET (1..MaxMade)
LockType == [Module -> MigrationIds \cup {None}]
AddSteps == {"tags", "check", "baseline", "custom", "journal"}
JobType ==
  [step : AddSteps \cup {"idle", "rollback"}, targets : SUBSET Module, todo : Seq(Module),
   known : LockType, seen : Nat, generated : MigrationIds]
CatalogueTypes ==
  /\ lock \in LockType /\ files \subseteq Module /\ registry \subseteq Module
  /\ halfway \subseteq Module
  /\ job \in [Session -> JobType]

\* What a command generates for the first of its modules, until it lists it.
Generating(s) == job[s].step \in {"custom", "journal"}

EachOnce(todo) == \A i, k \in DOMAIN todo : todo[i] = todo[k] => i = k

\* A command has something to do, and does it once; a module it is going to add has
\* no migrations yet, and what it rolls back is among its targets.
JobOk(j) ==
  /\ j.step \notin {"custom", "journal"} => j.generated = {}
  /\ j.step # "idle" => j.todo # <<>>
  /\ EachOnce(j.todo)
  /\ j.step = "tags" => \A m \in ToSet(j.todo) : j.known[m] = None
  /\ j.step \in AddSteps \ {"tags"} => \A m \in ToSet(j.todo) : j.known[m] = {}
  /\ j.step = "rollback" => ToSet(j.todo) \subseteq j.targets

\* The lock lists i under m; a command has it at hand.
Listed(m, i) == lock[m] # None /\ i \in lock[m]
AtHand(s, i) == Generating(s) /\ i \in job[s].generated

IdsKnown ==
  /\ \A m \in Module : lock[m] # None => \A i \in lock[m] : i <= made
  /\ \A s \in Session : \A i \in job[s].generated : i <= made

\* What is listed or at hand is of the module it is under, and what the tree has of a
\* module is listed or at hand.
ListsAreTrue ==
  /\ \A x \in Existing : \A m \in Module : Listed(m, x.id) => x.of = m
  /\ \A x \in Existing : \A s \in Session : AtHand(s, x.id) => x.of = Current(s)
  /\ \A x \in ToSet(tree[Home]) :
       x.of # None => Listed(x.of, x.id) \/ \E s \in Session : AtHand(s, x.id)

\* A module's migrations are made in the clone the commands run in: what others have of
\* them, and what main has that the clone has not merged, has been in main before.
MadeAtHome ==
  /\ \A v \in merged[Home]..Len(published) : \A x \in Main(v) :
       x.of # None => x.id \in Ids(Main(merged[Home]))
  /\ \A c \in Clone \ {Home} : \A x \in Held(c) : x.of # None => x.id \in Ids(Main(merged[c]))

\* But for modules whose rollback died, who is registered is locked, who is locked is there.
RecordsAgree ==
  registry \ halfway \subseteq Installed(lock) /\ Installed(lock) \ halfway \subseteq files

CatalogueInv ==
  /\ RecordsAgree
  /\ \A s \in Session : JobOk(job[s])
  /\ IdsKnown /\ ListsAreTrue /\ MadeAtHome

-----------------------------------------------------------------------------
(* Numbers, sequences and sets.                                            *)

\* A set of numbers has a least one.
LEMMA LeastNumber ==
  ASSUME NEW S \in SUBSET Nat, S # {}
  PROVE  \E n \in S : \A m \in S : n <= m
<1>1. PICK n \in S : \A m \in S : ~(<<m, n>> \in OpToRel(<, Nat))
  BY NatLessThanWellFounded, WFMin
<1>2. \A m \in S : ~(m < n)
  BY <1>1 DEF OpToRel
<1> QED
  BY <1>2

\* The numbers of a finite sequence have a bound.
LEMMA NumbersAreBounded ==
  ASSUME NEW n \in Nat, NEW f \in [1..n -> Nat]
  PROVE  \E b \in Nat : \A i \in 1..n : f[i] <= b
<1> DEFINE Bad == {k \in Nat : \E g \in [1..k -> Nat] : \A b \in Nat : \E i \in 1..k : g[i] > b}
<1>1. Bad = {}
  <2> SUFFICES ASSUME Bad # {} PROVE FALSE
    OBVIOUS
  <2>1. PICK k \in Bad : \A m \in Bad : k <= m
    BY LeastNumber
  <2>2. PICK g \in [1..k -> Nat] : \A b \in Nat : \E i \in 1..k : g[i] > b
    OBVIOUS
  <2>3. k \in Nat \ {0}
    <3>1. \E i \in 1..k : g[i] > 0
      BY <2>2
    <3> QED BY <3>1
  <2>4. k - 1 \in Nat /\ k - 1 \notin Bad
    <3>1. k - 1 \in Nat /\ ~(k <= k - 1)
      BY <2>3
    <3> HIDE DEF Bad
    <3> QED BY <2>1, <3>1
  <2> DEFINE h == [i \in 1..(k - 1) |-> g[i]]
  <2>5. h \in [1..(k - 1) -> Nat]
    <3>1. \A i \in 1..(k - 1) : i \in 1..k
      BY <2>3
    <3>2. \A i \in 1..(k - 1) : g[i] \in Nat
      BY <3>1
    <3> QED BY <3>2
  <2>6. ~(\A b \in Nat : \E i \in 1..(k - 1) : h[i] > b)
    BY <2>4, <2>5
  <2>7. PICK b \in Nat : \A i \in 1..(k - 1) : ~(h[i] > b)
    BY <2>6
  <2>8. g[k] \in Nat
    BY <2>3
  <2> HIDE DEF Bad
  <2>9. \A i \in 1..(k - 1) : g[i] \in Nat /\ g[i] <= b
    BY <2>3, <2>7
  <2>10. CASE g[k] <= b
    <3>1. \A i \in 1..k : ~(g[i] > b)
      BY <2>3, <2>8, <2>9, <2>10
    <3> QED
      BY <2>2, <3>1
  <2>11. CASE g[k] > b
    <3>1. \A i \in 1..k : ~(g[i] > g[k])
      BY <2>3, <2>8, <2>9, <2>11
    <3> QED
      BY <2>2, <2>8, <3>1
  <2> QED
    BY <2>8, <2>10, <2>11
<1>2. ~(\A b \in Nat : \E i \in 1..n : f[i] > b)
  BY <1>1
<1> HIDE DEF Bad
<1>3. PICK b \in Nat : \A i \in 1..n : ~(f[i] > b)
  BY <1>2
<1>4. \A i \in 1..n : f[i] \in Nat
  OBVIOUS
<1>5. \A i \in 1..n : f[i] <= b
  BY <1>3, <1>4
<1> QED
  BY <1>5

\* A bounded set of numbers with one in it has a largest.
LEMMA LargestNumber ==
  ASSUME NEW S \in SUBSET Nat, S # {}, NEW b \in Nat, \A n \in S : n <= b
  PROVE  Max(S) \in S /\ \A n \in S : n <= Max(S)
<1> DEFINE Bounds == {m \in Nat : \A n \in S : n <= m}
<1>1. PICK m \in Bounds : \A k \in Bounds : m <= k
  BY LeastNumber
<1>2. m \in S
  <2> SUFFICES ASSUME m \notin S PROVE FALSE
    OBVIOUS
  <2>1. PICK n \in S : TRUE
    OBVIOUS
  <2>2. m - 1 \in Nat /\ \A k \in S : k <= m - 1
    BY <1>1, <2>1
  <2> QED
    BY <1>1, <2>2
<1>3. \E x \in S : \A y \in S : x >= y
  BY <1>1, <1>2
<1> QED
  BY <1>3 DEF Max

\* Bounded by a number, the entries have a newest.
BoundedBy(entries, b) == \A x \in entries : x.when <= b

\* Newest is the greatest `when' there is, 0 when there is none.
LEMMA NewestOf ==
  ASSUME NEW entries \in SUBSET EntryRec, NEW b \in Nat, BoundedBy(entries, b)
  PROVE  /\ Newest(entries) \in Nat
         /\ \A x \in entries : x.when <= Newest(entries)
         /\ Newest(entries) = 0 \/ \E x \in entries : x.when = Newest(entries)
<1> DEFINE S == {x.when : x \in entries} \cup {0}
<1>1. S \in SUBSET Nat /\ S # {} /\ \A n \in S : n <= b
  BY DEF EntryRec, BoundedBy
<1>2. Max(S) \in S /\ \A n \in S : n <= Max(S)
  <2> HIDE DEF S
  <2> QED BY <1>1, LargestNumber
<1>3. Newest(entries) = Max(S)
  BY DEF Newest
<1>4. Max(S) \in Nat
  BY <1>1, <1>2
<1> DEFINE max == Max(S)
<1>5. \A x \in entries : x.when <= max
  BY <1>2
<1>6. max = 0 \/ \E x \in entries : x.when = max
  BY <1>2
<1> HIDE DEF S, max
<1> QED
  BY <1>3, <1>4, <1>5, <1>6 DEF max

\* The elements of a sequence of S are in S.
LEMMA SetOf ==
  ASSUME NEW S, NEW s \in Seq(S)
  PROVE  ToSet(s) = {s[i] : i \in 1..Len(s)} /\ ToSet(s) \subseteq S
  BY DEF ToSet

\* Newest of a journal, which is finite.
LEMMA NewestOfJournal ==
  ASSUME NEW s \in Seq(EntryRec)
  PROVE  /\ Newest(ToSet(s)) \in Nat
         /\ \A x \in ToSet(s) : x.when <= Newest(ToSet(s))
         /\ Newest(ToSet(s)) = 0 \/ \E x \in ToSet(s) : x.when = Newest(ToSet(s))
<1> DEFINE f == [i \in 1..Len(s) |-> s[i].when]
<1>0. Len(s) \in Nat /\ \A i \in 1..Len(s) : s[i] \in EntryRec
  BY LenProperties, ElementOfSeq
<1>1. Len(s) \in Nat /\ f \in [1..Len(s) -> Nat]
  BY <1>0 DEF EntryRec
<1>2. PICK b \in Nat : \A i \in 1..Len(s) : f[i] <= b
  BY <1>1, NumbersAreBounded
<1>3. ToSet(s) = {s[i] : i \in 1..Len(s)} /\ ToSet(s) \in SUBSET EntryRec
  BY SetOf
<1>4. BoundedBy(ToSet(s), b)
  BY <1>2, <1>3 DEF BoundedBy
<1> QED
  BY <1>3, <1>4, NewestOf

\* The set of a sequence is finite.
LEMMA SetIsFinite ==
  ASSUME NEW S, NEW s \in Seq(S)
  PROVE  IsFiniteSet(ToSet(s))
<1>1. ToSet(s) = {s[i] : i \in 1..Len(s)} /\ Len(s) \in Nat
  BY SetOf
<1>2. s \in Surjection(1..Len(s), ToSet(s))
  BY <1>1 DEF Surjection
<1>3. IsFiniteSet(1..Len(s))
  BY <1>1, FS_Interval
<1> QED
  BY <1>2, <1>3, FS_Surjection

\* A sequence of a finite set has its elements, each at one place.
LEMMA Sequenced ==
  ASSUME NEW S, IsFiniteSet(S), NEW s \in SetToSeqs(S)
  PROVE  /\ s \in Seq(S) /\ ToSet(s) \subseteq S
         /\ \A i, k \in DOMAIN s : s[i] = s[k] => i = k
<1>1. Cardinality(S) \in Nat
  BY FS_CardinalityType
<1>2. s \in [1..Cardinality(S) -> S] /\ \A i, k \in 1..Cardinality(S) : i # k => s[i] # s[k]
  BY DEF SetToSeqs
<1>3. s \in Seq(S)
  BY <1>1, <1>2
<1> QED
  BY <1>1, <1>2, <1>3, SetOf

\* What InsertAt makes of a sequence.
LEMMA Inserted ==
  ASSUME NEW S, NEW s \in Seq(S), NEW e \in S, NEW at \in 1..Len(s) + 1
  PROVE  /\ InsertAt(s, at, e) \in Seq(S)
         /\ Len(InsertAt(s, at, e)) = Len(s) + 1
         /\ \A j \in 1..Len(s) + 1 :
              InsertAt(s, at, e)[j] = IF j < at THEN s[j] ELSE IF j = at THEN e ELSE s[j - 1]
<1>0. Len(s) \in Nat /\ at \in Int /\ \A i \in 1..Len(s) : s[i] \in S
  BY LenProperties, ElementOfSeq
<1> DEFINE a == SubSeq(s, 1, at - 1)
           z == SubSeq(s, at, Len(s))
<1>1. a \in Seq(S) /\ Len(a) = at - 1 /\ \A i \in 1..at - 1 : a[i] = s[i]
  BY <1>0, SubSeqProperties
<1>2. z \in Seq(S) /\ Len(z) = Len(s) - at + 1 /\ \A i \in 1..Len(s) - at + 1 : z[i] = s[at + i - 1]
  BY <1>0, SubSeqProperties
<1> HIDE DEF a, z
<1>3. <<e>> \in Seq(S) /\ Len(<<e>>) = 1 /\ <<e>>[1] = e
  OBVIOUS
<1> DEFINE b == a \o <<e>>
<1>4. b \in Seq(S) /\ Len(b) = at /\ \A i \in 1..at : b[i] = IF i < at THEN s[i] ELSE e
  BY <1>0, <1>1, <1>3, ConcatProperties
<1> HIDE DEF b
<1> DEFINE n == Len(b) p == Len(z)
<1>7. b \o z \in Seq(S) /\ Len(b \o z) = n + p
      /\ \A j \in 1..n + p : (b \o z)[j] = IF j <= n THEN b[j] ELSE z[j - n]
  BY <1>2, <1>4, ConcatProperties
<1>8. n = at /\ p = Len(s) - at + 1 /\ n + p = Len(s) + 1
  BY <1>0, <1>2, <1>4
<1> HIDE DEF n, p
<1>5. b \o z \in Seq(S) /\ Len(b \o z) = Len(s) + 1
      /\ \A j \in 1..Len(s) + 1 : (b \o z)[j] = IF j <= at THEN b[j] ELSE z[j - at]
  BY <1>7, <1>8
<1>6. InsertAt(s, at, e) = b \o z
  BY DEF InsertAt, a, b, z
<1> QED
  BY <1>0, <1>2, <1>4, <1>5, <1>6

\* What RemoveAt makes of a sequence.
LEMMA Removed ==
  ASSUME NEW S, NEW s \in Seq(S), NEW at \in 1..Len(s)
  PROVE  /\ RemoveAt(s, at) \in Seq(S)
         /\ Len(RemoveAt(s, at)) = Len(s) - 1
         /\ \A j \in 1..Len(s) - 1 : RemoveAt(s, at)[j] = IF j < at THEN s[j] ELSE s[j + 1]
<1>0. Len(s) \in Nat /\ at \in Int /\ \A i \in 1..Len(s) : s[i] \in S
  BY LenProperties, ElementOfSeq
<1> DEFINE a == SubSeq(s, 1, at - 1)
           z == SubSeq(s, at + 1, Len(s))
<1>1. a \in Seq(S) /\ Len(a) = at - 1 /\ \A i \in 1..at - 1 : a[i] = s[i]
  BY <1>0, SubSeqProperties
<1>2. z \in Seq(S) /\ Len(z) = Len(s) - at /\ \A i \in 1..Len(s) - at : z[i] = s[at + i]
  BY <1>0, SubSeqProperties
<1> HIDE DEF a, z
<1> DEFINE n == Len(a) p == Len(z)
<1>7. a \o z \in Seq(S) /\ Len(a \o z) = n + p
      /\ \A j \in 1..n + p : (a \o z)[j] = IF j <= n THEN a[j] ELSE z[j - n]
  BY <1>1, <1>2, ConcatProperties
<1>8. n = at - 1 /\ p = Len(s) - at /\ n + p = Len(s) - 1
  BY <1>0, <1>1, <1>2
<1> HIDE DEF n, p
<1>5. a \o z \in Seq(S) /\ Len(a \o z) = Len(s) - 1
      /\ \A j \in 1..Len(s) - 1 : (a \o z)[j] = IF j <= at - 1 THEN a[j] ELSE z[j - (at - 1)]
  BY <1>7, <1>8
<1>6. RemoveAt(s, at) = a \o z
  BY DEF RemoveAt, a, z
<1>9. \A j \in 1..Len(s) - 1 : (a \o z)[j] = IF j < at THEN s[j] ELSE s[j + 1]
  <2> SUFFICES ASSUME NEW j \in 1..Len(s) - 1 PROVE (a \o z)[j] = IF j < at THEN s[j] ELSE s[j + 1]
    OBVIOUS
  <2>1. CASE j < at
    BY <1>0, <1>1, <1>5, <2>1
  <2>2. CASE j >= at
    <3>1. j - (at - 1) \in 1..Len(s) - at /\ at + (j - (at - 1)) = j + 1 /\ ~(j <= at - 1)
      BY <1>0, <2>2
    <3>2. z[j - (at - 1)] = s[at + (j - (at - 1))]
      BY <1>2, <3>1
    <3>3. (a \o z)[j] = z[j - (at - 1)]
      BY <1>5, <3>1
    <3>4. ~(j < at)
      BY <1>0, <2>2
    <3> QED BY <3>1, <3>2, <3>3, <3>4
  <2>3. j \in Int
    BY <1>0
  <2>4. j < at \/ j >= at
    BY <1>0, <2>3
  <2> QED BY <2>1, <2>2, <2>4
<1> QED
  BY <1>5, <1>6, <1>9

-----------------------------------------------------------------------------
(* The journal: what its steps make of what is known of it.                *)

\* Every journal there is is a sequence of entries, and main has one.
LEMMA JournalsAre ==
  ASSUME JournalTypes
  PROVE  /\ \A c \in Clone : tree[c] \in Seq(EntryRec) /\ head[c] \in Seq(EntryRec)
         /\ \A v \in Versions : published[v] \in Seq(EntryRec)
         /\ \A c \in Clone : merged[c] \in Versions
         /\ Len(published) \in Versions
<1>1. Len(published) \in Nat \ {0}
  BY EmptySeq DEF JournalTypes
<1>2. \A v \in Versions : published[v] \in Seq(EntryRec)
  BY ElementOfSeq DEF JournalTypes, Versions
<1> QED
  BY <1>1, <1>2 DEF JournalTypes, Versions

\* Every entry there is is one.
LEMMA EntriesAre ==
  ASSUME JournalTypes
  PROVE  /\ \A c \in Clone : ToSet(tree[c]) \subseteq EntryRec /\ ToSet(head[c]) \subseteq EntryRec
         /\ \A v \in Versions : Main(v) \subseteq EntryRec
         /\ Existing \subseteq EntryRec
<1>1. \A c \in Clone : ToSet(tree[c]) \subseteq EntryRec /\ ToSet(head[c]) \subseteq EntryRec
  BY JournalsAre, SetOf
<1>2. \A v \in Versions : Main(v) \subseteq EntryRec
  BY JournalsAre, SetOf DEF Main
<1> QED
  BY <1>1, <1>2 DEF Existing, Published, Held

\* The newest of a journal main has had.
LEMMA NewestOfMain ==
  ASSUME JournalTypes, NEW v \in Versions
  PROVE  /\ Newest(Main(v)) \in Nat
         /\ \A x \in Main(v) : x.when <= Newest(Main(v))
         /\ Newest(Main(v)) = 0 \/ \E x \in Main(v) : x.when = Newest(Main(v))
  BY JournalsAre, NewestOfJournal DEF Main

\* What a step leaves in a working tree was there, restamped at most when it was
\* born in the past, or has just been made.
Edited(c, entries) ==
  \A x \in ToSet(entries) :
    \/ x.id = made + 1 /\ made' = made + 1
    \/ \E y \in ToSet(tree[c]) :
         /\ y.id = x.id /\ y.of = x.of
         /\ \/ y.when = x.when
            \/ y.id \notin Ids(Main(merged[c])) /\ y.when <= Newest(Main(merged[c]))

Changes(c, entries) ==
  /\ entries \in Seq(EntryRec) /\ Distinct(entries) /\ Edited(c, entries)
  /\ tree' = [tree EXCEPT ![c] = entries]
  /\ made' \in 1..MaxMade /\ made' \in {made, made + 1}
  /\ UNCHANGED <<head, merged, published, deployed, applied>>

\* A change in a working tree keeps what is known of the journals.
LEMMA TreeEdit ==
  ASSUME JournalTypes, JournalInv, NEW c \in Clone, NEW entries, Changes(c, entries)
  PROVE  JournalTypes' /\ JournalInv'
<1> USE DEF Changes
<1>1. JournalTypes'
  BY DEF JournalTypes
<1>2. /\ \A d \in Clone : tree'[d] = IF d = c THEN entries ELSE tree[d]
      /\ Published' = Published /\ Versions' = Versions /\ \A v : Main(v)' = Main(v)
  BY DEF JournalTypes, Published, Main, Versions
<1>3. made \in Nat /\ \A x \in Existing : x.id \in Nat /\ x.id <= made
  <2>1. made \in Nat
    BY DEF JournalTypes
  <2>2. \A x \in Existing : x \in EntryRec /\ x.id <= made
    BY EntriesAre DEF JournalInv, IdsOnce
  <2> QED BY <2>1, <2>2 DEF EntryRec
<1>4. /\ \A d \in Clone : Held(d) \subseteq Existing
      /\ Published \subseteq Existing
      /\ \A d \in Clone : \A x \in Held(d)' : x \in Held(d) \/ (d = c /\ x \in ToSet(entries))
  BY <1>2 DEF Held, Existing
<1>5. \A x \in ToSet(entries) :
         \/ x.id = made + 1 /\ made' = made + 1
         \/ \E y \in Held(c) : y \in Existing /\ y.id = x.id /\ y.of = x.of
  BY <1>4 DEF Edited, Held
<1>6. \A x \in Existing' : x \in Existing \/ x \in ToSet(entries)
  BY <1>2, <1>4 DEF Existing
<1>7. \A x, y \in ToSet(entries) : x.id = y.id => x = y
  BY DEF Distinct, ToSet
<1>8. IdsOnce'
  <2>1. \A x \in Existing' : x.id <= made'
    BY <1>3, <1>5, <1>6
  <2>2. \A d \in Clone : Distinct(tree[d])' /\ Distinct(head[d])'
    BY <1>2 DEF Distinct, JournalInv, IdsOnce
  <2>3. ASSUME NEW x \in Existing', NEW y \in Existing', x.id = y.id PROVE x.of = y.of
    <3>1. \A u, w \in Existing : u.id = w.id => u.of = w.of
      BY DEF JournalInv, IdsOnce
    <3>2. \A u \in Existing : u.id # made + 1
      BY <1>3
    <3> QED
      BY <2>3, <3>1, <3>2, <1>5, <1>6, <1>7
  <2> QED
    BY <2>1, <2>2, <2>3 DEF IdsOnce
<1>9. NewIsPrivate'
  <2> SUFFICES ASSUME NEW d \in Clone, NEW x \in Held(d)',
                      x.id \notin Ids(Main(merged[d])) \/ x.id \notin Ids(ToSet(head[d]))
               PROVE  Private(d, x)'
    BY <1>2 DEF NewIsPrivate
  <2>1. \A u \in Held(d) : u.id = x.id => Private(d, u)
    BY DEF JournalInv, NewIsPrivate
  <2>2. Private(d, x)
    <3>1. CASE \E u \in Held(d) : u.id = x.id
      BY <2>1, <3>1 DEF Private
    <3>2. CASE \A u \in Held(d) : u.id # x.id
      <4>1. d = c /\ x \in ToSet(entries) /\ x.id = made + 1
        BY <1>4, <1>5, <3>2
      <4> QED
        BY <4>1, <1>3, <1>4 DEF Private
    <3> QED BY <3>1, <3>2
  <2>3. ASSUME NEW e \in Clone \ {d}, NEW y \in Held(e)' PROVE y.id # x.id
    <3>1. CASE y \in Held(e)
      BY <2>2, <3>1 DEF Private
    <3>2. CASE e = c /\ y \in ToSet(entries)
      <4>1. x.id <= made
        BY <1>3, <1>4, <2>3, <3>2
      <4>2. CASE y.id = made + 1
        BY <1>3, <4>1, <4>2
      <4>3. CASE \E z \in Held(c) : z.id = y.id
        BY <2>2, <3>2, <4>3, <2>3 DEF Private
      <4> QED BY <1>5, <3>2, <4>2, <4>3
    <3> QED BY <1>4, <3>1, <3>2
  <2> QED
    BY <1>2, <2>2, <2>3 DEF Private
<1>10. SameWhen'
  BY <1>2 DEF JournalInv, SameWhen
<1>11. ASSUME NEW d \in Clone PROVE TreeFollows(d)'
  <2>1. CASE d # c
    <3>1. TreeFollows(d)
      BY DEF JournalInv
    <3> QED BY <1>2, <2>1, <3>1 DEF TreeFollows
  <2>2. CASE d = c
    <3> SUFFICES ASSUME NEW x \in ToSet(entries), NEW y \in ToSet(head[c]), x.id = y.id
                 PROVE  \/ x.when = y.when
                        \/ y.id \notin Ids(Main(merged[c])) /\ y.when <= Newest(Main(merged[c]))
      BY <1>2, <2>2 DEF TreeFollows
    <3>1. y.id # made + 1
      BY <1>3, <1>4 DEF Held
    <3>2. PICK z \in ToSet(tree[c]) :
            /\ z.id = x.id
            /\ \/ z.when = x.when
               \/ z.id \notin Ids(Main(merged[c])) /\ z.when <= Newest(Main(merged[c]))
      BY <3>1 DEF Edited
    <3>3. \/ z.when = y.when
          \/ y.id \notin Ids(Main(merged[c])) /\ y.when <= Newest(Main(merged[c]))
      BY <3>2 DEF JournalInv, TreeFollows
    <3> QED BY <3>2, <3>3
  <2> QED BY <2>1, <2>2
<1>12. \A v \in Versions' : WhenOrdered(published[v])'
  BY <1>2 DEF JournalInv, WhenOrdered
<1>13. Rising' /\ LaterIsNewer'
  BY <1>2 DEF JournalInv, Rising, LaterIsNewer
<1>14. Runs'
  BY <1>2 DEF JournalInv, Runs
<1> QED
  BY <1>1, <1>8, <1>9, <1>10, <1>11, <1>12, <1>13, <1>14 DEF JournalInv

\* What a clone holds and what was published exists.
LEMMA HeldExist ==
  /\ \A c \in Clone : Held(c) \subseteq Existing
  /\ \A c \in Clone : ToSet(tree[c]) \subseteq Existing /\ ToSet(head[c]) \subseteq Existing
  /\ Published \subseteq Existing
  /\ \A v \in Versions : Main(v) \subseteq Published
  BY DEF Held, Existing, Published

\* git commit.
LEMMA CommitKeeps ==
  ASSUME JournalTypes, JournalInv, NEW c \in Clone, Commit(c)
  PROVE  JournalTypes' /\ JournalInv'
<1> USE DEF Commit
<1>1. JournalTypes'
  BY DEF JournalTypes
<1>2. /\ \A d \in Clone : head'[d] = IF d = c THEN tree[c] ELSE head[d]
      /\ tree' = tree /\ merged' = merged /\ made' = made
      /\ Published' = Published /\ Versions' = Versions /\ \A v : Main(v)' = Main(v)
  BY DEF JournalTypes, Published, Main, Versions
<1>3. \A d \in Clone : Held(d)' \subseteq Held(d)
  BY <1>2 DEF Held
<1>4. Existing' \subseteq Existing
  BY <1>2, <1>3 DEF Existing
<1>5. IdsOnce'
  BY <1>2, <1>4 DEF JournalInv, IdsOnce, Distinct
<1>6. NewIsPrivate'
  <2> SUFFICES ASSUME NEW d \in Clone, NEW x \in Held(d)',
                      x.id \notin Ids(Main(merged[d])) \/ x.id \notin Ids(ToSet(head'[d]))
               PROVE  Private(d, x)'
    BY <1>2 DEF NewIsPrivate
  <2>1. x.id \notin Ids(Main(merged[d])) \/ x.id \notin Ids(ToSet(head[d]))
    <3>1. CASE d = c
      BY <1>2, <3>1 DEF Held, Ids
    <3>2. CASE d # c
      BY <1>2, <3>2
    <3> QED BY <3>1, <3>2
  <2>2. Private(d, x)
    BY <1>3, <2>1 DEF JournalInv, NewIsPrivate
  <2> QED
    BY <1>2, <1>3, <2>2 DEF Private
<1>7. SameWhen'
  <2> SUFFICES ASSUME NEW y \in Published, NEW x \in ToSet(tree[c]), x.id = y.id PROVE x.when = y.when
    BY <1>2 DEF JournalInv, SameWhen
  <2>1. ~Private(c, x)
    BY DEF Private
  <2>2. x.id \in Ids(Main(merged[c])) /\ x.id \in Ids(ToSet(head[c]))
    BY <2>1 DEF JournalInv, NewIsPrivate, Held
  <2>3. PICK z \in ToSet(head[c]) : z.id = x.id
    BY <2>2 DEF Ids
  <2>4. x.when = z.when
    BY <2>2, <2>3 DEF JournalInv, TreeFollows
  <2>5. z.when = y.when
    BY <2>3 DEF JournalInv, SameWhen
  <2> QED BY <2>4, <2>5
<1>8. ASSUME NEW d \in Clone PROVE TreeFollows(d)'
  <2>1. CASE d # c
    <3>1. TreeFollows(d)
      BY DEF JournalInv
    <3> QED BY <1>2, <2>1, <3>1 DEF TreeFollows
  <2>2. CASE d = c
    <3>1. \A x, y \in ToSet(tree[c]) : x.id = y.id => x.when = y.when
      BY DEF JournalInv, IdsOnce, Distinct, ToSet
    <3> QED BY <1>2, <2>2, <3>1 DEF TreeFollows
  <2> QED BY <2>1, <2>2
<1>9. \A v \in Versions' : WhenOrdered(published[v])'
  BY <1>2 DEF JournalInv, WhenOrdered
<1>10. Rising' /\ LaterIsNewer'
  BY <1>2 DEF JournalInv, Rising, LaterIsNewer
<1>11. Runs'
  BY <1>2 DEF JournalInv, Runs
<1> QED
  BY <1>1, <1>5, <1>6, <1>7, <1>8, <1>9, <1>10, <1>11 DEF JournalInv

\* A published journal has every id once.
LEMMA MainIsDistinct ==
  ASSUME JournalTypes, JournalInv, NEW v \in Versions,
         NEW x \in Main(v), NEW y \in Main(v), x.id = y.id
  PROVE  x = y
<1>1. x.when = y.when /\ x.when \in Nat
  BY HeldExist, EntriesAre DEF JournalInv, SameWhen, EntryRec
<1>2. PICK i \in DOMAIN published[v] : x = published[v][i]
  BY DEF Main, ToSet
<1>3. PICK k \in DOMAIN published[v] : y = published[v][k]
  BY DEF Main, ToSet
<1>4. i \in Int /\ k \in Int
  BY JournalsAre, LenProperties
<1>5. i < k \/ k < i \/ i = k
  BY <1>4
<1>6. WhenOrdered(published[v])
  BY DEF JournalInv
<1> QED
  BY <1>1, <1>2, <1>3, <1>5, <1>6 DEF WhenOrdered

Pulled(c) ==
  LET old == Ids(Main(merged[c]))
  IN  {x \in Main(Len(published)) : x.id \notin old \ Ids(ToSet(head[c]))}
        \cup {x \in ToSet(head[c]) : x.id \notin old}

\* What the branch has added is private, so that what is merged has every id once.
LEMMA PullMerges ==
  ASSUME JournalTypes, JournalInv, NEW c \in Clone, Pull(c)
  PROVE  /\ tree'[c] = head'[c] /\ tree'[c] \in Seq(EntryRec) /\ Distinct(tree'[c])
         /\ ToSet(tree'[c]) \subseteq Pulled(c)
         /\ tree' = [tree EXCEPT ![c] = tree'[c]] /\ head' = [head EXCEPT ![c] = tree'[c]]
<1> DEFINE old == Ids(ToSet(published[merged[c]]))
           dropped == old \ Ids(ToSet(head[c]))
           theirs == {x \in ToSet(MainJournal) : x.id \notin dropped}
           own == {x \in ToSet(head[c]) : x.id \notin old}
<1>1. PICK entries \in Merges(theirs, MainJournal, own, head[c]) :
        head' = [head EXCEPT ![c] = entries] /\ tree' = [tree EXCEPT ![c] = entries]
  BY DEF Pull
<1>2. MainJournal = published[Len(published)]
  BY DEF MainJournal, Last
<1>3. theirs \cup own = Pulled(c)
  BY <1>2 DEF Pulled, Main
<1>4. IsFiniteSet(theirs \cup own)
  <2>1. IsFiniteSet(ToSet(MainJournal)) /\ IsFiniteSet(ToSet(head[c]))
    BY <1>2, JournalsAre, SetIsFinite
  <2>2. IsFiniteSet(theirs) /\ IsFiniteSet(own)
    <3>1. theirs \in SUBSET ToSet(MainJournal) /\ own \in SUBSET ToSet(head[c])
      OBVIOUS
    <3> QED BY <2>1, <3>1, FS_Subset
  <2> QED BY <2>2, FS_Union
<1>5. /\ entries \in Seq(theirs \cup own) /\ ToSet(entries) \subseteq theirs \cup own
      /\ \A i, k \in DOMAIN entries : entries[i] = entries[k] => i = k
  <2>1. entries \in SetToSeqs(theirs \cup own)
    BY DEF Merges
  <2> QED BY <1>4, <2>1, Sequenced
<1>6. theirs \cup own \subseteq EntryRec
  BY <1>2, EntriesAre, JournalsAre DEF Main
<1>7. entries \in Seq(EntryRec)
  BY <1>5, <1>6, SeqMonotonic
<1>8. ASSUME NEW x \in theirs \cup own, NEW y \in theirs \cup own, x.id = y.id PROVE x = y
  <2>1. \A z \in own : Private(c, z)
    BY DEF JournalInv, NewIsPrivate, Held, Main
  <2>2. \A z \in theirs : z \in Main(Len(published)) /\ z \in Published
    BY <1>2, JournalsAre, HeldExist DEF Main
  <2>3. CASE x \in theirs /\ y \in theirs
    BY <1>8, <2>2, <2>3, MainIsDistinct, JournalsAre
  <2>4. CASE x \in own /\ y \in own
    BY <1>8, <2>4 DEF JournalInv, IdsOnce, Distinct, ToSet
  <2>5. CASE (x \in own /\ y \in theirs) \/ (x \in theirs /\ y \in own)
    BY <1>8, <2>1, <2>2, <2>5 DEF Private
  <2> QED BY <2>3, <2>4, <2>5
<1>9. Distinct(entries)
  <2>1. \A i \in DOMAIN entries : entries[i] \in theirs \cup own
    BY <1>5 DEF ToSet
  <2> HIDE DEF theirs, own
  <2> QED BY <1>5, <1>8, <2>1 DEF Distinct
<1>10. tree'[c] = entries /\ head'[c] = entries
  BY <1>1 DEF JournalTypes
<1> QED
  BY <1>1, <1>3, <1>5, <1>7, <1>9, <1>10

\* git pull: what it merges was in main or in the branch.
LEMMA PullKeeps ==
  ASSUME JournalTypes, JournalInv, NEW c \in Clone, Pull(c)
  PROVE  JournalTypes' /\ JournalInv'
<1> DEFINE n == Len(published)
<1>0. n \in Versions /\ n \in Nat /\ Versions = 1..n
  BY JournalsAre DEF Versions, JournalTypes
<1>1. /\ merged' = [merged EXCEPT ![c] = n]
      /\ UNCHANGED <<made, published, deployed, applied, strayed>> /\ tree[c] = head[c]
  BY DEF Pull
<1> DEFINE entries == tree'[c]
<1>2. /\ entries = head'[c] /\ entries \in Seq(EntryRec) /\ Distinct(entries)
      /\ ToSet(entries) \subseteq Pulled(c)
      /\ tree' = [tree EXCEPT ![c] = entries] /\ head' = [head EXCEPT ![c] = entries]
  BY PullMerges
<1> HIDE DEF entries
<1>3. JournalTypes'
  <2>1. tree' \in [Clone -> Seq(EntryRec)] /\ head' \in [Clone -> Seq(EntryRec)]
    BY <1>2 DEF JournalTypes
  <2>2. merged' \in [Clone -> 1..Len(published)]
    BY <1>0, <1>1 DEF JournalTypes
  <2> QED BY <2>1, <2>2, <1>1 DEF JournalTypes
<1>4. /\ \A d \in Clone : head'[d] = IF d = c THEN entries ELSE head[d]
      /\ \A d \in Clone : tree'[d] = IF d = c THEN entries ELSE tree[d]
      /\ \A d \in Clone : merged'[d] = IF d = c THEN n ELSE merged[d]
      /\ Published' = Published /\ Versions' = Versions /\ \A v : Main(v)' = Main(v)
  BY <1>1, <1>2 DEF JournalTypes, Published, Main, Versions
<1>5. \A x \in ToSet(entries) :
         \/ x \in Main(n) /\ x \in Published
         \/ x \in ToSet(head[c]) /\ x \in Held(c) /\ x.id \notin Ids(Main(merged[c])) /\ Private(c, x)
  BY <1>0, <1>2, HeldExist DEF Pulled, JournalInv, NewIsPrivate, Held
<1>6. /\ \A d \in Clone : d # c => Held(d)' = Held(d)
      /\ \A x \in Held(c)' : x \in ToSet(entries) /\ x.id \in Ids(ToSet(head'[c]))
  BY <1>4 DEF Held, Ids
<1>7. Existing' \subseteq Existing
  <2>1. ToSet(entries) \subseteq Existing
    BY <1>5, HeldExist
  <2> QED BY <1>4, <1>6, <2>1 DEF Existing
<1>8. IdsOnce'
  <2>1. \A d \in Clone : Distinct(tree[d])' /\ Distinct(head[d])'
    BY <1>2, <1>4 DEF JournalInv, IdsOnce, Distinct
  <2>2. \A x \in Existing' : x.id <= made'
    BY <1>1, <1>7 DEF JournalInv, IdsOnce
  <2>3. \A x, y \in Existing' : x.id = y.id => x.of = y.of
    BY <1>7 DEF JournalInv, IdsOnce
  <2> QED BY <2>1, <2>2, <2>3 DEF IdsOnce
<1>9. NewIsPrivate'
  <2> SUFFICES ASSUME NEW d \in Clone, NEW x \in Held(d)',
                      x.id \notin Ids(Main(merged'[d])) \/ x.id \notin Ids(ToSet(head'[d]))
               PROVE  Private(d, x)'
    BY <1>4 DEF NewIsPrivate
  <2>1. Private(d, x)
    <3>1. CASE d # c
      BY <1>4, <1>6, <3>1 DEF JournalInv, NewIsPrivate
    <3>2. CASE d = c
      <4>1. x \in ToSet(entries) /\ x.id \notin Ids(Main(n))
        BY <1>4, <1>6, <3>2
      <4> QED BY <1>5, <3>2, <4>1 DEF Ids
    <3> QED BY <3>1, <3>2
  <2>2. ASSUME NEW e \in Clone \ {d}, NEW y \in Held(e)' PROVE y.id # x.id
    <3>1. CASE e # c
      BY <1>6, <2>1, <3>1 DEF Private
    <3>2. CASE e = c
      BY <1>5, <1>6, <2>1, <3>2, <2>2 DEF Private
    <3> QED BY <3>1, <3>2
  <2> QED BY <1>4, <2>1, <2>2 DEF Private
<1>10. SameWhen'
  <2> SUFFICES ASSUME NEW y \in Published, NEW x \in ToSet(entries), x.id = y.id PROVE x.when = y.when
    BY <1>4 DEF JournalInv, SameWhen
  <2> QED BY <1>5 DEF JournalInv, SameWhen
<1>11. ASSUME NEW d \in Clone PROVE TreeFollows(d)'
  <2>1. CASE d # c
    <3>1. TreeFollows(d)
      BY DEF JournalInv
    <3> QED BY <1>4, <2>1, <3>1 DEF TreeFollows
  <2>2. CASE d = c
    <3>1. \A x, y \in ToSet(entries) : x.id = y.id => x.when = y.when
      BY <1>2 DEF Distinct, ToSet
    <3> QED BY <1>4, <2>2, <3>1 DEF TreeFollows
  <2> QED BY <2>1, <2>2
<1>12. \A v \in Versions' : WhenOrdered(published[v])'
  BY <1>1, <1>4 DEF JournalInv, WhenOrdered
<1>13. Rising' /\ LaterIsNewer'
  BY <1>4 DEF JournalInv, Rising, LaterIsNewer
<1>14. Runs'
  BY <1>1, <1>4 DEF JournalInv, Runs
<1> QED
  BY <1>3, <1>8, <1>9, <1>10, <1>11, <1>12, <1>13, <1>14 DEF JournalInv

\* The journals main has had are those and what is pushed.
LEMMA Pushed ==
  ASSUME JournalTypes, NEW c \in Clone, Push(c),
         NEW n, n = Len(published), NEW pushed, pushed = head[c]
  PROVE  /\ n \in Versions /\ n \in Nat /\ Versions = 1..n /\ pushed \in Seq(EntryRec)
         /\ merged[c] = n /\ merged' = [merged EXCEPT ![c] = n + 1]
         /\ UNCHANGED <<made, tree, head, deployed, applied>>
         /\ Len(published') = n + 1 /\ Versions' = 1..n + 1
         /\ \A v \in Versions : published'[v] = published[v] /\ Main(v)' = Main(v)
         /\ published'[n + 1] = pushed /\ Main(n + 1)' = ToSet(pushed)
         /\ published' \in Seq(Seq(EntryRec)) \ {<<>>}
         /\ \A v \in Versions' : v \in Versions \/ v = n + 1
         /\ Published' = Published \cup ToSet(pushed)
         /\ \A d \in Clone : Held(d)' = Held(d) /\ head'[d] = head[d] /\ tree'[d] = tree[d]
         /\ \A d \in Clone : merged[d] \in Versions
         /\ \A d \in Clone : d # c => ToSet(published'[merged'[d]]) = Main(merged[d])
         /\ ToSet(published'[merged'[c]]) = ToSet(pushed)
         /\ Existing' = Existing
<1>0. n \in Versions /\ n \in Nat /\ Versions = 1..n /\ pushed \in Seq(EntryRec)
  BY JournalsAre DEF Versions, JournalTypes
<1>1. /\ merged[c] = n /\ published' = Append(published, pushed)
      /\ merged' = [merged EXCEPT ![c] = n + 1]
      /\ UNCHANGED <<made, tree, head, deployed, applied>>
  BY DEF Push
<1>6. /\ Len(published') = n + 1 /\ Versions' = 1..n + 1
      /\ \A v \in Versions : published'[v] = published[v] /\ Main(v)' = Main(v)
      /\ published'[n + 1] = pushed /\ Main(n + 1)' = ToSet(pushed)
      /\ published' \in Seq(Seq(EntryRec)) \ {<<>>}
  <2>1. published \in Seq(Seq(EntryRec))
    BY DEF JournalTypes
  <2>2. /\ published' \in Seq(Seq(EntryRec)) /\ published' # <<>>
        /\ Len(published') = n + 1
        /\ \A v \in 1..n : published'[v] = published[v]
        /\ published'[n + 1] = pushed
    BY <1>0, <1>1, <2>1, AppendProperties
  <2>3. Versions' = 1..n + 1
    BY <2>2 DEF Versions
  <2> QED BY <1>0, <2>2, <2>3 DEF Main
<1>8. \A v \in Versions' : v \in Versions \/ v = n + 1
  BY <1>0, <1>6
<1>9. Published' = Published \cup ToSet(pushed)
  <2>1. \A v \in Versions : v \in Versions' /\ v # n + 1
    BY <1>0, <1>6
  <2>2. n + 1 \in Versions'
    BY <1>0, <1>6
  <2> QED BY <1>6, <1>8, <2>1, <2>2 DEF Published
<1>10. /\ \A d \in Clone : Held(d)' = Held(d) /\ head'[d] = head[d] /\ tree'[d] = tree[d]
       /\ \A d \in Clone : merged[d] \in Versions
       /\ \A d \in Clone : d # c => ToSet(published'[merged'[d]]) = Main(merged[d])
       /\ ToSet(published'[merged'[c]]) = ToSet(pushed)
  BY <1>1, <1>6, JournalsAre DEF Held, JournalTypes, Main
<1>11. Existing' = Existing
  <2>1. ToSet(pushed) \subseteq Existing
    BY HeldExist
  <2> QED BY <1>9, <1>10, <2>1 DEF Existing
<1> QED
  BY <1>0, <1>1, <1>6, <1>8, <1>9, <1>10, <1>11

\* git push, behind the check: what is new in main is newer than all that was there.
LEMMA PushKeeps ==
  ASSUME JournalTypes, JournalInv, NEW c \in Clone, Push(c), InOrder'
  PROVE  JournalTypes' /\ JournalInv'
<1>41. PICK n : n = Len(published)
  OBVIOUS
<1>42. PICK pushed : pushed = head[c]
  OBVIOUS
<1>0. n \in Versions /\ n \in Nat /\ Versions = 1..n /\ pushed \in Seq(EntryRec)
  BY <1>41, <1>42, Pushed
<1>1. /\ merged[c] = n /\ merged' = [merged EXCEPT ![c] = n + 1]
      /\ UNCHANGED <<made, tree, head, deployed, applied>>
  BY <1>41, <1>42, Pushed
<1>2. /\ Passes(pushed, published[n])
      /\ ~BaselineReset(pushed, published[n])
      /\ ~(Newest(ToSet(pushed)) < Newest(ToSet(published[n])))
  <2>1. MainJournal = published[n] /\ Base(c) = published[n]
    BY <1>41, <1>1 DEF MainJournal, Last, Base
  <2>2. strayed' = {}
    BY DEF InOrder
  <2>3. strayed' = strayed \cup (IF Passes(pushed, published[n]) THEN {} ELSE {"unsaved"})
                        \cup (IF BaselineReset(pushed, published[n]) THEN {"reset"} ELSE {})
                        \cup (IF Newest(ToSet(pushed)) < Newest(ToSet(published[n])) THEN {"lowered"} ELSE {})
    BY <1>42, <2>1 DEF Push
  <2>4. Passes(pushed, published[n])
    BY <2>2, <2>3
  <2>5. ~BaselineReset(pushed, published[n])
    BY <2>2, <2>3
  <2>6. ~(Newest(ToSet(pushed)) < Newest(ToSet(published[n])))
    BY <2>2, <2>3
  <2> QED BY <2>4, <2>5, <2>6
<1>3. /\ Newest(ToSet(pushed)) \in Nat
      /\ \A v \in Versions : Newest(Main(v)) \in Nat
      /\ \A x \in ToSet(pushed) : x.when \in Nat /\ x \in Held(c) /\ x \in Existing
  BY <1>0, <1>42, NewestOfJournal, NewestOfMain, EntriesAre, HeldExist DEF EntryRec, Held
<1>4. \A x \in ToSet(pushed) : x.id \notin Ids(Main(n)) => x.when > Newest(Main(n))
  <2>1. BornInThePast(pushed, published[n]) = {}
    BY <1>2 DEF Passes, AgainstBase
  <2>2. \A x \in ToSet(pushed) : x.id \notin Ids(Main(n)) => ~(x.when <= Newest(Main(n)))
    BY <1>2, <2>1 DEF BornInThePast, Added, Main
  <2> QED BY <1>0, <1>3, <2>2
<1>5. Newest(Main(n)) <= Newest(ToSet(pushed))
  BY <1>0, <1>2, <1>3 DEF Main
<1>6. /\ Len(published') = n + 1 /\ Versions' = 1..n + 1
      /\ \A v \in Versions : published'[v] = published[v] /\ Main(v)' = Main(v)
      /\ published'[n + 1] = pushed /\ Main(n + 1)' = ToSet(pushed)
      /\ published' \in Seq(Seq(EntryRec)) \ {<<>>}
  BY <1>41, <1>42, Pushed
<1>7. JournalTypes'
  <2>1. merged' \in [Clone -> 1..n + 1] /\ deployed' \in 0..n + 1
    BY <1>41, <1>0, <1>1 DEF JournalTypes
  <2> QED BY <1>1, <1>6, <2>1 DEF JournalTypes
<1>8. \A v \in Versions' : v \in Versions \/ v = n + 1
  BY <1>41, <1>42, Pushed
<1>9. Published' = Published \cup ToSet(pushed) /\ Existing' = Existing
  BY <1>41, <1>42, Pushed
<1>10. /\ \A d \in Clone : Held(d)' = Held(d) /\ head'[d] = head[d] /\ tree'[d] = tree[d]
       /\ \A d \in Clone : merged[d] \in Versions
       /\ \A d \in Clone : d # c => ToSet(published'[merged'[d]]) = Main(merged[d])
       /\ ToSet(published'[merged'[c]]) = ToSet(pushed)
  BY <1>41, <1>42, Pushed
<1>12. IdsOnce'
  BY <1>1, <1>9 DEF JournalInv, IdsOnce, Distinct
<1>13. NewIsPrivate'
  <2> SUFFICES ASSUME NEW d \in Clone, NEW x \in Held(d),
                      x.id \notin Ids(ToSet(published'[merged'[d]])) \/ x.id \notin Ids(ToSet(head[d]))
               PROVE  Private(d, x)'
    BY <1>10 DEF NewIsPrivate, Ids, Main
  <2>1. Private(d, x)
    <3>1. CASE d # c
      BY <1>10, <3>1 DEF JournalInv, NewIsPrivate
    <3>2. CASE d = c
      BY <1>42, <1>10, <3>2 DEF JournalInv, NewIsPrivate
    <3> QED BY <3>1, <3>2
  <2>2. ASSUME NEW y \in ToSet(pushed) PROVE y.id # x.id
    <3>1. CASE d # c
      BY <1>3, <2>1, <3>1 DEF Private
    <3>2. CASE d = c
      BY <1>42, <1>10, <3>2 DEF Ids
    <3> QED BY <3>1, <3>2
  <2> QED BY <1>9, <1>10, <2>1, <2>2 DEF Private
<1>14. SameWhen'
  <2>0. SameWhen
    BY DEF JournalInv
  <2>1. ASSUME NEW x \in ToSet(pushed), NEW d \in Clone, NEW y \in ToSet(head[d]), x.id = y.id
        PROVE  x.when = y.when
    <3>1. CASE d = c
      BY <1>42, <2>1, <3>1 DEF JournalInv, IdsOnce, Distinct, ToSet
    <3>2. CASE d # c
      <4>1. ~Private(d, y) /\ y \in Held(d)
        BY <1>3, <2>1, <3>2 DEF Private, Held
      <4>2. y.id \in Ids(Main(merged[d]))
        BY <4>1 DEF JournalInv, NewIsPrivate
      <4>3. PICK z \in Main(merged[d]) : z.id = y.id
        BY <4>2 DEF Ids
      <4>4. z \in Published
        BY <1>10, HeldExist
      <4> QED
        BY <1>42, <2>0, <2>1, <4>3, <4>4 DEF SameWhen
    <3> QED BY <3>1, <3>2
  <2>2. ASSUME NEW x \in ToSet(pushed), NEW y \in Published, x.id = y.id PROVE x.when = y.when
    BY <1>42, <2>0, <2>2 DEF SameWhen
  <2> QED
    BY <1>42, <1>9, <1>10, <2>0, <2>1, <2>2 DEF SameWhen
<1>15. ASSUME NEW d \in Clone PROVE TreeFollows(d)'
  <2>0. TreeFollows(d)
    BY DEF JournalInv
  <2>1. CASE d # c
    BY <1>10, <2>0, <2>1 DEF TreeFollows, Ids, Newest, Main
  <2>2. CASE d = c
    <3>1. ASSUME NEW x \in ToSet(tree[c]), NEW y \in ToSet(pushed), x.id = y.id PROVE x.when = y.when
      <4>1. \/ x.when = y.when
            \/ y.id \notin Ids(Main(n)) /\ y.when <= Newest(Main(n))
        BY <1>42, <1>1, <2>0, <2>2, <3>1 DEF TreeFollows
      <4> QED BY <1>0, <1>3, <1>4, <4>1
    <3> QED BY <1>42, <1>10, <2>2, <3>1 DEF TreeFollows
  <2> QED BY <2>1, <2>2
<1>16. \A v \in Versions' : WhenOrdered(published'[v])
  BY <1>2, <1>6, <1>8 DEF JournalInv, Passes
<1>17. ASSUME NEW v \in Versions PROVE Newest(Main(v)) <= Newest(Main(n))
  <2>1. v = n \/ v < n
    BY <1>0
  <2> QED BY <1>0, <1>3, <2>1 DEF JournalInv, Rising
<1>18. ASSUME NEW v \in Versions, NEW x \in ToSet(pushed), x.id \notin Ids(Main(v))
       PROVE  x.when > Newest(Main(v))
  <2>1. CASE x.id \notin Ids(Main(n))
    <3>1. x.when > Newest(Main(n))
      BY <1>4, <2>1
    <3> QED BY <1>0, <1>3, <1>17, <3>1
  <2>2. CASE x.id \in Ids(Main(n))
    <3>1. PICK z \in Main(n) : z.id = x.id
      BY <2>2 DEF Ids
    <3>2. x.when = z.when
      BY <1>42, <1>0, <3>1, HeldExist DEF JournalInv, SameWhen
    <3>3. v < n
      BY <1>0, <1>18, <2>2
    <3> QED BY <1>0, <1>18, <3>1, <3>2, <3>3 DEF JournalInv, LaterIsNewer
  <2> QED BY <2>1, <2>2
<1>19. \A v \in Versions', w \in Versions' : v < w => v \in Versions
  BY <1>0, <1>6
<1>20. Rising'
  <2> SUFFICES ASSUME NEW v \in Versions, NEW w \in Versions', v < w
               PROVE  Newest(Main(v)) <= Newest(Main(w)')
    BY <1>6, <1>19 DEF Rising, Newest
  <2>1. CASE w \in Versions
    BY <1>6, <2>1 DEF JournalInv, Rising
  <2>2. CASE w = n + 1
    BY <1>0, <1>3, <1>5, <1>6, <1>17, <2>2
  <2> QED BY <1>8, <2>1, <2>2
<1>21. LaterIsNewer'
  <2> SUFFICES ASSUME NEW v \in Versions, NEW w \in Versions', v < w,
                      NEW x \in Main(w)', x.id \notin Ids(Main(v))
               PROVE  x.when > Newest(Main(v))
    BY <1>6, <1>19 DEF LaterIsNewer, Newest, Ids
  <2>1. CASE w \in Versions
    BY <1>6, <2>1 DEF JournalInv, LaterIsNewer
  <2>2. CASE w = n + 1
    BY <1>6, <1>18, <2>2
  <2> QED BY <1>8, <2>1, <2>2
<1>22. Runs'
  <2>1. \A v \in 1..deployed : v \in Versions
    BY <1>41, <1>0 DEF JournalTypes
  <2>2. deployed # 0 => deployed \in Versions
    BY <1>41, <1>0 DEF JournalTypes
  <2> QED BY <1>1, <1>6, <2>1, <2>2 DEF JournalInv, Runs
<1> QED
  BY <1>7, <1>12, <1>13, <1>14, <1>15, <1>16, <1>20, <1>21, <1>22 DEF JournalInv

\* What an environment has applied is no newer than what it was migrated to.
LEMMA AppliedIsKnown ==
  ASSUME JournalTypes, JournalInv
  PROVE  /\ Newest(applied) \in Nat
         /\ \A x \in applied : x.when <= Newest(applied) /\ x \in Published
         /\ deployed = 0 => applied = {} /\ Newest(applied) = 0
         /\ deployed # 0 => deployed \in Versions /\ Newest(applied) <= Newest(Main(deployed))
<1>1. deployed \in Nat /\ \A v \in 1..deployed : v \in Versions
  BY JournalsAre DEF JournalTypes, Versions
<1>2. applied \subseteq UNION {Main(v) : v \in 1..deployed}
  BY DEF JournalInv, Runs
<1>3. \A x \in applied : x \in Published
  BY <1>1, <1>2 DEF Published
<1>4. CASE deployed = 0
  <2>1. 1..deployed = {}
    BY <1>4
  <2>2. applied = {}
    BY <1>2, <2>1
  <2>3. BoundedBy(applied, 0) /\ applied \in SUBSET EntryRec /\ ~(\E x \in applied : TRUE)
    BY <2>2 DEF BoundedBy
  <2>4. Newest(applied) = 0
    BY <2>3, NewestOf
  <2> QED BY <1>4, <2>2, <2>4
<1>5. CASE deployed # 0
  <2>1. deployed \in Versions
    BY <1>1, <1>5
  <2> DEFINE b == Newest(Main(deployed))
  <2>2. b \in Nat
    BY <2>1, NewestOfMain
  <2>3. ASSUME NEW x \in applied PROVE x.when <= b
    <3>1. PICK v \in 1..deployed : x \in Main(v)
      BY <1>2
    <3>2. v \in Versions /\ (v < deployed \/ v = deployed)
      BY <1>1, <3>1
    <3>3. Newest(Main(v)) <= b
      BY <2>1, <2>2, <3>2 DEF JournalInv, Rising
    <3>4. x.when <= Newest(Main(v)) /\ Newest(Main(v)) \in Nat /\ x.when \in Nat
      BY <3>1, <3>2, NewestOfMain, EntriesAre DEF EntryRec
    <3> QED BY <2>2, <3>3, <3>4
  <2> HIDE DEF b
  <2>4. BoundedBy(applied, b) /\ applied \in SUBSET EntryRec
    BY <2>3 DEF BoundedBy, JournalTypes
  <2>5. /\ Newest(applied) \in Nat
        /\ \A x \in applied : x.when <= Newest(applied)
        /\ Newest(applied) = 0 \/ \E x \in applied : x.when = Newest(applied)
    BY <2>2, <2>4, NewestOf
  <2>6. Newest(applied) <= b
    BY <2>2, <2>3, <2>5
  <2> QED BY <1>3, <1>5, <2>1, <2>5, <2>6 DEF b
<1> QED
  BY <1>4, <1>5

\* migrate.ts: what it skips it has applied, what it applies it had not.
LEMMA DeployKeeps ==
  ASSUME JournalTypes, JournalInv, Deploy
  PROVE  JournalTypes' /\ JournalInv'
<1>0. Len(published) \in Nat /\ deployed \in Nat
  BY JournalsAre DEF JournalTypes, Versions
<1>1. PICK version \in deployed + 1..Len(published) :
        /\ applied' = applied \cup {x \in ToSet(published[version]) : IsNew(x)}
        /\ deployed' = version
  BY DEF Deploy
<1>2. UNCHANGED <<made, tree, head, merged, published, strayed>>
  BY DEF Deploy, clones
<1>3. version \in Versions /\ version \in 0..Len(published) /\ version \in Nat /\ deployed < version
  BY <1>0 DEF Versions
<1> DEFINE new == {x \in Main(version) : x.when > Newest(applied)}
<1>4. applied' = applied \cup new
  BY <1>1 DEF IsNew, Main
<1>5. JournalTypes'
  <2>1. new \subseteq EntryRec
    BY <1>3, EntriesAre
  <2> HIDE DEF new
  <2> QED BY <1>1, <1>2, <1>3, <1>4, <2>1 DEF JournalTypes
<1>6. /\ Published' = Published /\ Versions' = Versions /\ \A v : Main(v)' = Main(v)
      /\ \A d \in Clone : Held(d)' = Held(d)
  BY <1>2 DEF Published, Main, Versions, Held
<1>7. Existing' = Existing
  BY <1>6 DEF Existing
<1>8. IdsOnce' /\ NewIsPrivate' /\ SameWhen' /\ \A c \in Clone : TreeFollows(c)'
  <2>1. IdsOnce'
    BY <1>2, <1>7 DEF JournalInv, IdsOnce, Distinct
  <2>2. NewIsPrivate'
    BY <1>2, <1>6 DEF JournalInv, NewIsPrivate, Private
  <2>3. SameWhen'
    BY <1>2, <1>6 DEF JournalInv, SameWhen
  <2>4. \A c \in Clone : TreeFollows(c)'
    BY <1>2, <1>6 DEF JournalInv, TreeFollows
  <2> QED BY <2>1, <2>2, <2>3, <2>4
<1>9. /\ \A v \in Versions' : WhenOrdered(published'[v])
      /\ Rising' /\ LaterIsNewer'
  BY <1>2, <1>6 DEF JournalInv, Rising, LaterIsNewer
<1>10. /\ Newest(applied) \in Nat
       /\ \A x \in applied : x.when <= Newest(applied) /\ x \in Published
       /\ deployed = 0 => applied = {} /\ Newest(applied) = 0
       /\ deployed # 0 => deployed \in Versions /\ Newest(applied) <= Newest(Main(deployed))
  BY AppliedIsKnown
<1>11. \A x \in Main(version) : x \in Published /\ x.when \in Nat \ {0}
  BY <1>3, HeldExist, EntriesAre DEF EntryRec
<1>12. SameWhen
  BY DEF JournalInv
<1>13. applied' \subseteq UNION {Main(v) : v \in 1..version}
  <2>1. \A v \in 1..deployed : v \in 1..version
    BY <1>0, <1>3
  <2>2. applied \subseteq UNION {Main(v) : v \in 1..deployed}
    BY DEF JournalInv, Runs
  <2>3. version \in 1..version
    BY <1>0, <1>3
  <2>4. applied \subseteq UNION {Main(v) : v \in 1..version}
    BY <2>1, <2>2
  <2>5. new \subseteq UNION {Main(v) : v \in 1..version}
    BY <2>3
  <2> QED BY <1>4, <2>4, <2>5
<1>14. ASSUME NEW x \in applied', NEW y \in applied', x.id = y.id PROVE x = y
  <2>1. CASE x \in applied /\ y \in applied
    BY <1>14, <2>1 DEF JournalInv, Runs
  <2>2. CASE x \in new /\ y \in new
    BY <1>3, <1>14, <2>2, MainIsDistinct
  <2>3. ASSUME NEW u \in applied, NEW w \in new PROVE u.id # w.id
    <3>1. u.when <= Newest(applied) /\ w.when > Newest(applied)
      BY <1>10
    <3>2. u.when # w.when
      <4>1. w.when \in Nat
        BY <1>11
      <4> QED BY <1>10, <3>1, <4>1
    <3> QED BY <1>10, <1>11, <1>12, <3>2 DEF SameWhen
  <2> QED BY <1>4, <1>14, <2>1, <2>2, <2>3
<1>15. ASSUME NEW x \in Main(version) PROVE \E y \in applied' : y.id = x.id
  <2>1. CASE x.when > Newest(applied)
    BY <1>4, <2>1
  <2>2. CASE x.when <= Newest(applied)
    <3>1. deployed # 0
      BY <1>10, <1>11, <2>2
    <3>2. deployed \in Versions /\ Newest(Main(deployed)) \in Nat
      BY <1>10, <3>1, NewestOfMain
    <3>3. ~(x.when > Newest(Main(deployed)))
      BY <1>10, <1>11, <2>2, <3>1, <3>2
    <3>4. x.id \in Ids(Main(deployed))
      BY <1>3, <3>2, <3>3 DEF JournalInv, LaterIsNewer
    <3>5. PICK z \in Main(deployed) : z.id = x.id
      BY <3>4 DEF Ids
    <3>6. \E y \in applied : y.id = z.id
      BY <3>1 DEF JournalInv, Runs
    <3> QED BY <1>4, <3>5, <3>6
  <2> QED BY <1>10, <1>11, <2>1, <2>2
<1>16. Runs'
  BY <1>1, <1>6, <1>13, <1>14, <1>15 DEF Runs
<1> QED
  BY <1>5, <1>8, <1>9, <1>16 DEF JournalInv

\* Every entry of the deployed journal has run, once.
LEMMA EntriesRun ==
  ASSUME JournalTypes, JournalInv
  PROVE  EachEntryRuns
<1> SUFFICES ASSUME deployed # 0, NEW x \in ToSet(published[deployed])
             PROVE  Cardinality({y \in applied : y.id = x.id}) = 1
  BY DEF EachEntryRuns
<1>1. PICK y \in applied : y.id = x.id
  BY DEF JournalInv, Runs, Main
<1>2. {z \in applied : z.id = x.id} = {y}
  BY <1>1 DEF JournalInv, Runs
<1> QED
  BY <1>2, FS_Singleton

\* What a clone made or was given is nobody's but the one it was made for.
FreshAre(entries, of) == \A x \in ToSet(entries) : x.id = made + 1 => x.of = of

\* The entries of a working tree, and the one to come is not among them.
LEMMA TreeIs ==
  ASSUME JournalTypes, JournalInv, NEW c \in Clone
  PROVE  /\ tree[c] \in Seq(EntryRec) /\ Len(tree[c]) \in Nat
         /\ DOMAIN tree[c] = 1..Len(tree[c]) /\ Distinct(tree[c])
         /\ \A i \in 1..Len(tree[c]) : /\ tree[c][i] \in EntryRec /\ tree[c][i] \in ToSet(tree[c])
                                       /\ tree[c][i].id <= made /\ tree[c][i].id # made + 1
         /\ \A x \in ToSet(tree[c]) : x.id # made + 1
         /\ made \in Nat
<1>1. tree[c] \in Seq(EntryRec) /\ Len(tree[c]) \in Nat /\ DOMAIN tree[c] = 1..Len(tree[c])
  BY JournalsAre, LenProperties
<1>2. Distinct(tree[c]) /\ made \in Nat
  BY DEF JournalInv, IdsOnce, JournalTypes
<1>3. ASSUME NEW i \in 1..Len(tree[c])
      PROVE  /\ tree[c][i] \in EntryRec /\ tree[c][i] \in ToSet(tree[c])
             /\ tree[c][i].id <= made /\ tree[c][i].id # made + 1
  <2>1. tree[c][i] \in EntryRec /\ tree[c][i] \in ToSet(tree[c])
    BY <1>1, ElementOfSeq DEF ToSet
  <2>2. tree[c][i].id <= made /\ tree[c][i].id \in Nat
    BY <2>1, HeldExist DEF JournalInv, IdsOnce, EntryRec
  <2> QED BY <1>2, <2>1, <2>2
<1>4. \A x \in ToSet(tree[c]) : x.id # made + 1
  BY <1>1, <1>3 DEF ToSet
<1> QED
  BY <1>1, <1>2, <1>3, <1>4

\* Entries that were all in the tree, at other places and fewer of them.
LEMMA Fewer ==
  ASSUME JournalTypes, JournalInv, NEW c \in Clone, NEW entries \in Seq(EntryRec), Distinct(entries),
         ToSet(entries) \subseteq ToSet(tree[c]), tree' = [tree EXCEPT ![c] = entries],
         UNCHANGED <<made, head, merged, published, deployed, applied>>
  PROVE  Changes(c, entries) /\ \A of : FreshAre(entries, of)
<1>1. made \in 1..MaxMade
  BY DEF JournalTypes
<1>2. \A x \in ToSet(entries) : x.id # made + 1
  BY TreeIs
<1> QED
  BY <1>1, <1>2 DEF Changes, Edited, FreshAre

\* drizzle-kit or a template update adds an entry somewhere.
LEMMA ReceivesChanges ==
  ASSUME JournalTypes, JournalInv, NEW c \in Clone, NEW of \in Module \cup {None},
         NEW when \in 1..MaxWhen, NEW at \in 1..Len(tree[c]) + 1,
         Receives(c, of, "whole", when, at), UNCHANGED <<head, merged, published, deployed, applied>>
  PROVE  \E entries : /\ Changes(c, entries) /\ FreshAre(entries, of) /\ made' = made + 1
                      /\ entries = InsertAt(tree[c], at, Entry(made + 1, when, of, "whole"))
<1> DEFINE e == Entry(made + 1, when, of, "whole")
           t == InsertAt(tree[c], at, e)
           n == Len(tree[c])
<1>1. /\ made' = made + 1 /\ made + 1 \in 1..MaxMade
      /\ tree' = [tree EXCEPT ![c] = t]
  BY JournalAssumption DEF Receives, JournalTypes
<1>2. e \in EntryRec
  BY <1>1, JournalAssumption DEF Entry, EntryRec
<1>3. /\ t \in Seq(EntryRec) /\ Len(t) = n + 1
      /\ \A j \in 1..n + 1 : t[j] = IF j < at THEN tree[c][j] ELSE IF j = at THEN e ELSE tree[c][j - 1]
  <2>1. tree[c] \in Seq(EntryRec)
    BY TreeIs
  <2> HIDE DEF e
  <2> QED BY <1>2, <2>1, Inserted
<1>4. e.id = made + 1 /\ e.of = of
  BY DEF Entry
<1> HIDE DEF e, t
<1>5. n \in Nat /\ at \in Int /\ at \in 1..n + 1 /\ DOMAIN t = 1..n + 1
  BY <1>3, TreeIs
<1>6. \A i \in 1..n : tree[c][i].id # made + 1 /\ tree[c][i] \in ToSet(tree[c])
  BY TreeIs
<1>7. \A i, k \in 1..n : tree[c][i].id = tree[c][k].id => i = k
  BY TreeIs DEF Distinct
<1> HIDE DEF n
<1>8. Distinct(t)
  <2> SUFFICES ASSUME NEW i \in 1..n + 1, NEW k \in 1..n + 1, t[i].id = t[k].id PROVE i = k
    BY <1>5 DEF Distinct
  <2>1. \A j \in 1..n + 1 : j < at => j \in 1..n /\ t[j] = tree[c][j]
    BY <1>3, <1>5
  <2>2. \A j \in 1..n + 1 : j > at => j - 1 \in 1..n /\ t[j] = tree[c][j - 1]
    BY <1>3, <1>5
  <2>3. t[at] = e /\ at \in 1..n + 1
    BY <1>3, <1>5
  <2>4. CASE i = at \/ k = at
    BY <1>4, <1>5, <1>6, <2>1, <2>2, <2>3, <2>4
  <2>5. CASE i < at /\ k < at
    BY <1>7, <2>1, <2>5
  <2>6. CASE i > at /\ k > at
    <3>1. i - 1 = k - 1
      BY <1>7, <2>2, <2>6
    <3> QED BY <1>5, <3>1
  <2>7. CASE i < at /\ k > at
    <3>1. i = k - 1
      BY <1>7, <2>1, <2>2, <2>7
    <3> QED BY <1>5, <2>7, <3>1
  <2>8. CASE k < at /\ i > at
    <3>1. k = i - 1
      BY <1>7, <2>1, <2>2, <2>8
    <3> QED BY <1>5, <2>8, <3>1
  <2> QED BY <1>5, <2>4, <2>5, <2>6, <2>7, <2>8
<1>9. \A x \in ToSet(t) : x = e \/ x \in ToSet(tree[c])
  <2>1. \A j \in 1..n + 1 : t[j] = e \/ t[j] \in ToSet(tree[c])
    BY <1>3, <1>5, <1>6
  <2> QED BY <1>5, <2>1 DEF ToSet
<1>10. Edited(c, t) /\ FreshAre(t, of)
  <2>1. \A x \in ToSet(tree[c]) : x.id # made + 1
    BY TreeIs
  <2> QED BY <1>1, <1>4, <1>9, <2>1 DEF Edited, FreshAre
<1>11. Changes(c, t)
  BY <1>1, <1>3, <1>8, <1>10 DEF Changes
<1> QED
  BY <1>1, <1>10, <1>11 DEF t, e

\* A migration of the product's own.
LEMMA MakeChanges ==
  ASSUME JournalTypes, JournalInv, NEW c \in Clone, Make(c)
  PROVE  \E entries : Changes(c, entries) /\ FreshAre(entries, None)
<1>1. PICK when \in 1..MaxWhen, at \in 2..Len(tree[c]) + 1 : Receives(c, None, "whole", when, at)
  BY DEF Make
<1>2. at \in 1..Len(tree[c]) + 1
  BY TreeIs
<1>3. UNCHANGED <<head, merged, published, deployed, applied>>
  BY DEF Make
<1> QED
  BY <1>1, <1>2, <1>3, ReceivesChanges

\* The entries born in the past get the `when' the check suggests, later than main's.
LEMMA RestampChanges ==
  ASSUME JournalTypes, JournalInv, NEW c \in Clone, Restamp(c)
  PROVE  \E entries : Changes(c, entries) /\ FreshAre(entries, None)
<1> DEFINE s == tree[c]
           base == published[merged[c]]
           late == BornInThePast(s, base)
           newest == Newest(ToSet(base))
           rank(i) == Cardinality({k \in 1..i : s[k] \in late})
           t == Restamped(s, base)
<1>1. /\ tree' = [tree EXCEPT ![c] = t]
      /\ UNCHANGED <<made, head, merged, published, deployed, applied>>
  BY DEF Restamp, Edits, Base
<1>2. t = [i \in DOMAIN s |-> IF s[i] \in late THEN [s[i] EXCEPT !.when = newest + rank(i)] ELSE s[i]]
  BY DEF Restamped
<1>3. newest \in Nat /\ base \in Seq(EntryRec) /\ newest = Newest(Main(merged[c]))
  BY JournalsAre, NewestOfJournal DEF Main
<1>4. \A x \in late : x.when <= newest /\ x.id \notin Ids(Main(merged[c]))
  BY DEF BornInThePast, Added, Main
<1>5. \A i \in DOMAIN s : rank(i) \in Nat
  <2> SUFFICES ASSUME NEW i \in DOMAIN s PROVE rank(i) \in Nat
    OBVIOUS
  <2>1. i \in Int
    BY TreeIs
  <2>2. IsFiniteSet(1..i)
    BY <2>1, FS_Interval
  <2>3. {k \in 1..i : s[k] \in late} \in SUBSET (1..i)
    OBVIOUS
  <2>4. IsFiniteSet({k \in 1..i : s[k] \in late})
    BY <2>2, <2>3, FS_Subset
  <2> QED BY <2>4, FS_CardinalityType
<1> HIDE DEF late, newest, rank, t, base
<1>6. DOMAIN s = 1..Len(s) /\ Len(s) \in Nat /\ Distinct(s)
      /\ \A i \in DOMAIN s : s[i] \in EntryRec /\ s[i] \in ToSet(s) /\ s[i].id # made + 1
  BY TreeIs
<1> HIDE DEF s
<1>7. \A i \in DOMAIN s : /\ t[i] \in EntryRec /\ t[i].id = s[i].id /\ t[i].of = s[i].of
                          /\ t[i].when = s[i].when \/ s[i] \in late
  <2> SUFFICES ASSUME NEW i \in DOMAIN s
               PROVE  /\ t[i] \in EntryRec /\ t[i].id = s[i].id /\ t[i].of = s[i].of
                      /\ t[i].when = s[i].when \/ s[i] \in late
    OBVIOUS
  <2>1. CASE s[i] \notin late
    BY <1>2, <1>6, <2>1
  <2>2. CASE s[i] \in late
    <3>1. newest # 0
      <4>1. s[i].when \in Nat \ {0} /\ s[i].when <= newest
        BY <1>4, <1>6, <2>2 DEF EntryRec
      <4> QED BY <1>3, <4>1
    <3>2. newest + rank(i) \in Nat \ {0}
      BY <1>3, <1>5, <3>1
    <3>3. t[i] = [s[i] EXCEPT !.when = newest + rank(i)]
      BY <1>2, <2>2
    <3> QED BY <1>6, <2>2, <3>2, <3>3 DEF EntryRec
  <2> QED BY <2>1, <2>2
<1>8. DOMAIN t = DOMAIN s /\ t \in Seq(EntryRec)
  <2>1. t \in [1..Len(s) -> EntryRec]
    BY <1>2, <1>6, <1>7
  <2> QED BY <1>6, <2>1
<1>9. Distinct(t)
  BY <1>6, <1>7, <1>8 DEF Distinct
<1>10. Edited(c, t) /\ FreshAre(t, None)
  <2>1. ASSUME NEW x \in ToSet(t)
        PROVE  /\ x.id # made + 1
               /\ \E y \in ToSet(s) :
                    /\ y.id = x.id /\ y.of = x.of
                    /\ \/ y.when = x.when
                       \/ y.id \notin Ids(Main(merged[c])) /\ y.when <= Newest(Main(merged[c]))
    <3>1. PICK i \in DOMAIN s : x = t[i]
      BY <1>8 DEF ToSet
    <3> QED BY <1>3, <1>4, <1>6, <1>7, <3>1
  <2> QED BY <2>1 DEF Edited, FreshAre, s
<1>11. made \in 1..MaxMade
  BY DEF JournalTypes
<1> QED
  BY <1>1, <1>8, <1>9, <1>10, <1>11 DEF Changes

\* An entry that is no module's goes.
LEMMA WithdrawChanges ==
  ASSUME JournalTypes, JournalInv, NEW c \in Clone, Withdraw(c)
  PROVE  \E entries : Changes(c, entries) /\ FreshAre(entries, None)
<1>1. PICK i \in 2..Len(tree[c]) : Edits(c, RemoveAt(tree[c], i))
  BY DEF Withdraw
<1> DEFINE s == tree[c]
           n == Len(s)
           t == RemoveAt(s, i)
<1>2. n \in Nat /\ i \in 1..n /\ s \in Seq(EntryRec) /\ DOMAIN s = 1..n /\ Distinct(s)
      /\ \A j \in 1..n : s[j] \in ToSet(s)
  BY TreeIs
<1>3. /\ t \in Seq(EntryRec) /\ Len(t) = n - 1
      /\ \A j \in 1..n - 1 : t[j] = IF j < i THEN s[j] ELSE s[j + 1]
  <2> HIDE DEF s
  <2> QED BY <1>2, Removed
<1>4. /\ tree' = [tree EXCEPT ![c] = t]
      /\ UNCHANGED <<made, head, merged, published, deployed, applied>>
  BY <1>1 DEF Edits
<1> HIDE DEF s, n, t
<1>5. DOMAIN t = 1..n - 1
  BY <1>2, <1>3
<1> DEFINE at(j) == IF j < i THEN j ELSE j + 1
<1>6. \A j \in DOMAIN t : t[j] = s[at(j)] /\ at(j) \in DOMAIN s
  BY <1>2, <1>3, <1>5
<1>7. \A j, k \in DOMAIN t : at(j) = at(k) => j = k
  BY <1>2, <1>5
<1> HIDE DEF at
<1>8. Distinct(t)
  BY <1>2, <1>6, <1>7 DEF Distinct
<1>9. ToSet(t) \subseteq ToSet(s)
  BY <1>6 DEF ToSet
<1> QED
  BY <1>3, <1>4, <1>8, <1>9, Fewer DEF s

\* The baseline gets another name.
LEMMA RenameChanges ==
  ASSUME JournalTypes, JournalInv, NEW c \in Clone, Rename(c)
  PROVE  \E entries : Changes(c, entries) /\ FreshAre(entries, None)
<1> DEFINE s == tree[c]
           e == [s[1] EXCEPT !.id = made + 1]
           t == [s EXCEPT ![1] = e]
<1>1. /\ made' = made + 1 /\ made + 1 \in 1..MaxMade /\ s # <<>> /\ s[1].of = None
      /\ tree' = [tree EXCEPT ![c] = t]
      /\ UNCHANGED <<head, merged, published, deployed, applied>>
  BY JournalAssumption DEF Rename, JournalTypes
<1>2. /\ s \in Seq(EntryRec) /\ Len(s) \in Nat /\ DOMAIN s = 1..Len(s) /\ Distinct(s)
      /\ \A j \in 1..Len(s) : s[j] \in EntryRec /\ s[j] \in ToSet(s) /\ s[j].id # made + 1
  BY TreeIs
<1>3. 1 \in DOMAIN s
  <2>1. Len(s) # 0
    BY <1>1, <1>2, EmptySeq
  <2> QED BY <1>2, <2>1
<1> HIDE DEF s
<1>4. e \in EntryRec /\ e.id = made + 1 /\ e.of = None
  BY <1>1, <1>2, <1>3 DEF EntryRec
<1> HIDE DEF e
<1>5. t \in Seq(EntryRec) /\ DOMAIN t = DOMAIN s
      /\ \A j \in DOMAIN s : t[j] = IF j = 1 THEN e ELSE s[j]
  BY <1>2, <1>3, <1>4, ExceptSeq
<1> HIDE DEF t
<1>6. Distinct(t)
  BY <1>2, <1>4, <1>5 DEF Distinct
<1>7. Edited(c, t) /\ FreshAre(t, None)
  <2>1. ASSUME NEW x \in ToSet(t) PROVE x = e \/ (x \in ToSet(s) /\ x.id # made + 1)
    BY <1>2, <1>5 DEF ToSet
  <2> QED BY <1>1, <1>4, <2>1 DEF Edited, FreshAre, s
<1> QED
  BY <1>1, <1>5, <1>6, <1>7 DEF Changes

-----------------------------------------------------------------------------
(* Whose a migration is: the lists of the lock and of the commands.        *)

\* What is listed are numbers.
LEMMA IdsAre ==
  ASSUME CatalogueTypes
  PROVE  /\ \A m \in Module : lock[m] # None => \A i \in lock[m] : i \in Nat
         /\ \A s \in Session : \A i \in job[s].generated : i \in Nat
<1>1. \A m \in Module : lock[m] \in MigrationIds \cup {None}
  BY DEF CatalogueTypes, LockType
<1>2. \A s \in Session : job[s].generated \in MigrationIds
  BY DEF CatalogueTypes, JobType
<1>3. \A ids \in MigrationIds : \A i \in ids : i \in Nat
  BY DEF MigrationIds
<1> QED BY <1>1, <1>2, <1>3

\* Where the entries come from that are there after a tree has changed.
LEMMA Origin ==
  ASSUME JournalTypes, JournalInv, NEW c \in Clone, NEW entries, Changes(c, entries)
  PROVE  /\ made \in Nat /\ made' \in {made, made + 1} /\ made' \in Nat /\ made <= made'
         /\ \A x \in Existing : x.id <= made /\ x.id # made + 1
         /\ \A x \in Existing' : \/ \E y \in Existing : y.id = x.id /\ y.of = x.of
                                 \/ x.id = made + 1 /\ made' = made + 1 /\ x \in ToSet(entries)
         /\ tree'[c] = entries
         /\ \A d \in Clone : d # c => tree'[d] = tree[d] /\ Held(d)' = Held(d)
         /\ \A x \in ToSet(entries) : \/ \E y \in ToSet(tree[c]) : y.id = x.id /\ y.of = x.of
                                      \/ x.id = made + 1 /\ made' = made + 1
         /\ \A x \in Held(c)' : \/ \E y \in Held(c) : y.id = x.id /\ y.of = x.of
                                \/ x.id = made + 1 /\ made' = made + 1 /\ x \in ToSet(entries)
         /\ Versions' = Versions /\ published' = published /\ merged' = merged
         /\ \A v : Main(v)' = Main(v)
<1> USE DEF Changes
<1>1. made \in Nat /\ made' \in {made, made + 1} /\ made' \in Nat /\ made <= made'
  BY DEF JournalTypes
<1>2. ASSUME NEW x \in Existing PROVE x.id <= made /\ x.id # made + 1
  <2>1. x.id \in Nat /\ x.id <= made
    BY EntriesAre DEF EntryRec, JournalInv, IdsOnce
  <2> QED BY <1>1, <2>1
<1>3. /\ tree'[c] = entries
      /\ \A d \in Clone : d # c => tree'[d] = tree[d] /\ Held(d)' = Held(d)
      /\ Held(c)' = ToSet(entries) \cup ToSet(head[c])
  BY DEF JournalTypes, Held
<1>4. /\ Versions' = Versions /\ published' = published /\ merged' = merged
      /\ \A v : Main(v)' = Main(v)
      /\ Published' = Published
  BY DEF Versions, Main, Published
<1>5. \A x \in ToSet(entries) : \/ \E y \in ToSet(tree[c]) : y.id = x.id /\ y.of = x.of
                                \/ x.id = made + 1 /\ made' = made + 1
  BY DEF Edited
<1>6. \A x \in Held(c)' : \/ \E y \in Held(c) : y.id = x.id /\ y.of = x.of
                          \/ x.id = made + 1 /\ made' = made + 1 /\ x \in ToSet(entries)
  BY <1>3, <1>5 DEF Held
<1>7. \A x \in Existing' : x \in Existing \/ x \in Held(c)'
  BY <1>3, <1>4, HeldExist DEF Existing
<1>8. \A x \in Existing' : \/ \E y \in Existing : y.id = x.id /\ y.of = x.of
                           \/ x.id = made + 1 /\ made' = made + 1 /\ x \in ToSet(entries)
  BY <1>6, <1>7, HeldExist
<1> QED
  BY <1>1, <1>2, <1>3, <1>4, <1>5, <1>6, <1>8

\* A module's migrations appear in the clone where the commands run.
LEMMA MadeAtHomeChanges ==
  ASSUME JournalTypes, JournalInv, MadeAtHome,
         NEW c \in Clone, NEW entries, Changes(c, entries), c = Home \/ FreshAre(entries, None)
  PROVE  MadeAtHome'
<1>1. /\ \A d \in Clone : d # c => Held(d)' = Held(d)
      /\ \A x \in Held(c)' : \/ \E y \in Held(c) : y.id = x.id /\ y.of = x.of
                             \/ x.id = made + 1 /\ made' = made + 1 /\ x \in ToSet(entries)
      /\ published' = published /\ merged' = merged
      /\ \A v : Main(v)' = Main(v)
  BY Origin
<1>2. \A v \in merged'[Home]..Len(published') : \A x \in Main(v)' :
        x.of # None => x.id \in Ids(Main(merged[Home]))
  BY <1>1 DEF MadeAtHome
<1>3. ASSUME NEW d \in Clone \ {Home}, NEW x \in Held(d)', x.of # None
      PROVE  x.id \in Ids(Main(merged[d]))
  <2>1. CASE d # c
    BY <1>1, <1>3, <2>1 DEF MadeAtHome
  <2>2. CASE d = c
    <3>1. PICK y \in Held(c) : y.id = x.id /\ y.of = x.of
      BY <1>1, <1>3, <2>2 DEF FreshAre
    <3> QED BY <1>3, <2>2, <3>1 DEF MadeAtHome
  <2> QED BY <2>1, <2>2
<1> QED
  BY <1>1, <1>2, <1>3 DEF MadeAtHome

\* The new migrations of a change are of one module or of none, and a module's are
\* put in the lock or are in the hands of a command.
LEMMA ListsChange ==
  ASSUME JournalTypes, CatalogueTypes, JournalInv, IdsKnown, ListsAreTrue,
         NEW c \in Clone, NEW entries, Changes(c, entries),
         NEW of \in Module \cup {None}, FreshAre(entries, of), NEW n, n = made + 1,
         \A m \in Module : \A i : Listed(m, i)' => Listed(m, i),
         \A t \in Session : \A i : AtHand(t, i)' => \/ AtHand(t, i) /\ Current(t)' = Current(t)
                                                    \/ i = made + 1 /\ made' = made + 1 /\ Current(t)' = of,
         \A t \in Session : ~Generating(t)' => job'[t].generated = {},
         \A x \in ToSet(tree'[Home]) :
           x.of # None /\ (Listed(x.of, x.id) \/ \E t \in Session : AtHand(t, x.id)) =>
             Listed(x.of, x.id)' \/ \E t \in Session : AtHand(t, x.id)',
         of = None \/ \E t \in Session : AtHand(t, n)'
  PROVE  ListsAreTrue' /\ IdsKnown'
<1>1. /\ made \in Nat /\ made' \in Nat /\ made <= made'
      /\ \A x \in Existing : x.id # made + 1
      /\ \A x \in Existing' : \/ \E y \in Existing : y.id = x.id /\ y.of = x.of
                              \/ x.id = made + 1 /\ x \in ToSet(entries)
      /\ tree'[c] = entries
      /\ \A d \in Clone : d # c => tree'[d] = tree[d]
      /\ \A x \in ToSet(entries) : \/ \E y \in ToSet(tree[c]) : y.id = x.id /\ y.of = x.of
                                   \/ x.id = made + 1
  BY Origin
<1>2. /\ \A m \in Module : ~Listed(m, made + 1)
      /\ \A s \in Session : ~AtHand(s, made + 1)
  BY <1>1 DEF IdsKnown, Listed, AtHand
<1>3. ASSUME NEW x \in Existing', NEW m \in Module, Listed(m, x.id)' PROVE x.of = m
  <2>1. Listed(m, x.id)
    BY <1>3
  <2>2. \E y \in Existing : y.id = x.id /\ y.of = x.of
    BY <1>1, <1>2, <2>1
  <2> QED BY <2>1, <2>2 DEF ListsAreTrue
<1>4. ASSUME NEW x \in Existing', NEW s \in Session, AtHand(s, x.id)' PROVE x.of = Current(s)'
  <2>1. CASE AtHand(s, x.id) /\ Current(s)' = Current(s)
    <3>1. \E y \in Existing : y.id = x.id /\ y.of = x.of
      BY <1>1, <1>2, <2>1
    <3> QED BY <2>1, <3>1 DEF ListsAreTrue
  <2>2. CASE x.id = made + 1 /\ Current(s)' = of
    <3>1. x \in ToSet(entries)
      BY <1>1, <2>2
    <3> QED BY <2>2, <3>1 DEF FreshAre
  <2> QED BY <1>4, <2>1, <2>2
<1>5. ASSUME NEW x \in ToSet(tree'[Home]), x.of # None
      PROVE  Listed(x.of, x.id)' \/ \E s \in Session : AtHand(s, x.id)'
  <2>1. CASE \E y \in ToSet(tree[Home]) : y.id = x.id /\ y.of = x.of
    BY <1>5, <2>1 DEF ListsAreTrue
  <2>2. CASE x.id = n /\ x \in ToSet(entries)
    <3>1. x.of = of
      BY <2>2 DEF FreshAre
    <3> QED BY <1>5, <2>2, <3>1
  <2> QED BY <1>1, <2>1, <2>2, CatalogueAssumption
<1>6. ListsAreTrue'
  BY <1>3, <1>4, <1>5 DEF ListsAreTrue
<1>7. ASSUME NEW m \in Module, lock'[m] # None, NEW i \in lock'[m] PROVE i <= made'
  <2>1. Listed(m, i)
    BY <1>7 DEF Listed
  <2>2. i \in Nat /\ i <= made
    BY <2>1, IdsAre DEF IdsKnown, Listed
  <2> QED BY <1>1, <2>2
<1>8. ASSUME NEW s \in Session, NEW i \in job'[s].generated PROVE i <= made'
  <2>1. AtHand(s, i)'
    BY <1>8 DEF AtHand
  <2>2. CASE AtHand(s, i)
    <3>1. i \in Nat /\ i <= made
      BY <2>2, IdsAre DEF IdsKnown, AtHand
    <3> QED BY <1>1, <3>1
  <2>3. CASE i = made + 1 /\ made' = made + 1
    BY <1>1, <2>3
  <2> QED BY <2>1, <2>2, <2>3
<1> QED BY <1>6, <1>7, <1>8 DEF IdsKnown

\* A hand changes a tree, and makes no module's migration.
LEMMA HandChange ==
  ASSUME JournalTypes, CatalogueTypes, JournalInv, CatalogueInv, NEW c \in Clone, NEW entries,
         Changes(c, entries), FreshAre(entries, None), UNCHANGED <<lock, job>>
  PROVE  ListsAreTrue' /\ IdsKnown'
<1>1. /\ \A m, i : Listed(m, i)' <=> Listed(m, i)
      /\ \A s \in Session : \A i : AtHand(s, i)' <=> AtHand(s, i)
      /\ \A s \in Session : Current(s)' = Current(s)
  BY DEF Listed, AtHand, Generating, Current
<1>2. \A t \in Session : ~Generating(t)' => job'[t].generated = {}
  BY DEF CatalogueInv, JobOk, Generating
<1>3. IdsKnown /\ ListsAreTrue
  BY DEF CatalogueInv
<1>4. \A x \in ToSet(tree'[Home]) :
           x.of # None /\ (Listed(x.of, x.id) \/ \E t \in Session : AtHand(t, x.id)) =>
             Listed(x.of, x.id)' \/ \E t \in Session : AtHand(t, x.id)'
  BY <1>1
<1>5. /\ \A m \in Module : \A i : Listed(m, i)' => Listed(m, i)
      /\ \A t \in Session : \A i : AtHand(t, i)' => \/ AtHand(t, i) /\ Current(t)' = Current(t)
                                                    \/ i = made + 1 /\ made' = made + 1 /\ Current(t)' = None
  BY <1>1
<1>6. PICK n : n = made + 1
  OBVIOUS
<1> QED
  BY <1>2, <1>3, <1>4, <1>5, <1>6, ListsChange

\* Nothing that is listed changes, and what there is was there.
LEMMA ListsKeep ==
  ASSUME ListsAreTrue, Existing' \subseteq Existing,
         \A x \in ToSet(tree'[Home]) : x.of # None => \E y \in ToSet(tree[Home]) : y.id = x.id /\ y.of = x.of,
         UNCHANGED <<lock, job>>
  PROVE  ListsAreTrue'
<1>1. /\ \A m, i : Listed(m, i)' <=> Listed(m, i)
      /\ \A s \in Session : \A i : AtHand(s, i)' <=> AtHand(s, i)
      /\ \A s \in Session : Current(s)' = Current(s)
  BY DEF Listed, AtHand, Generating, Current
<1>2. \A x \in ToSet(tree'[Home]) :
        x.of # None => Listed(x.of, x.id) \/ \E s \in Session : AtHand(s, x.id)
  BY DEF ListsAreTrue
<1>3. /\ \A x \in Existing' : \A m \in Module : Listed(m, x.id) => x.of = m
      /\ \A x \in Existing' : \A s \in Session : AtHand(s, x.id) => x.of = Current(s)
  BY DEF ListsAreTrue
<1> QED BY <1>1, <1>2, <1>3 DEF ListsAreTrue

\* git commit and the lists.
LEMMA CommitLists ==
  ASSUME JournalTypes, ListsAreTrue, MadeAtHome, NEW c \in Clone, Commit(c), UNCHANGED <<lock, job>>
  PROVE  ListsAreTrue' /\ MadeAtHome'
<1>1. /\ \A d \in Clone : head'[d] = IF d = c THEN tree[c] ELSE head[d]
      /\ tree' = tree /\ merged' = merged /\ published' = published
      /\ Published' = Published /\ \A v : Main(v)' = Main(v)
  BY DEF Commit, JournalTypes, Published, Main, Versions
<1>2. \A d \in Clone : Held(d)' \subseteq Held(d)
  BY <1>1 DEF Held
<1>3. Existing' \subseteq Existing
  BY <1>1, <1>2 DEF Existing
<1>4. ListsAreTrue'
  BY <1>1, <1>3, ListsKeep
<1>5. MadeAtHome'
  BY <1>1, <1>2 DEF MadeAtHome
<1> QED BY <1>4, <1>5

\* git pull and the lists: what it brings of a module was made here.
LEMMA PullLists ==
  ASSUME JournalTypes, JournalInv, ListsAreTrue, MadeAtHome, NEW c \in Clone, Pull(c),
         UNCHANGED <<lock, job>>
  PROVE  ListsAreTrue' /\ MadeAtHome'
<1>41. PICK n : n = Len(published)
  OBVIOUS
<1>0. n \in Versions /\ n \in Nat /\ Versions = 1..n /\ \A d \in Clone : merged[d] \in Versions
  BY <1>41, JournalsAre DEF Versions, JournalTypes
<1>1. /\ merged' = [merged EXCEPT ![c] = n] /\ published' = published /\ tree[c] = head[c]
  BY <1>41 DEF Pull
<1>42. PICK entries : entries = tree'[c]
  OBVIOUS
<1>2. /\ ToSet(entries) \subseteq Pulled(c)
      /\ tree' = [tree EXCEPT ![c] = entries] /\ head' = [head EXCEPT ![c] = entries]
  BY <1>42, PullMerges
<1>3. /\ \A d \in Clone : d # c => Held(d)' = Held(d) /\ tree'[d] = tree[d]
      /\ Held(c)' = ToSet(entries) /\ tree'[c] = entries
      /\ \A d \in Clone : merged'[d] = IF d = c THEN n ELSE merged[d]
      /\ Published' = Published /\ \A v : Main(v)' = Main(v)
  BY <1>1, <1>2 DEF JournalTypes, Published, Main, Versions, Held
<1>4. \A x \in ToSet(entries) :
         \/ /\ x \in Main(n) /\ x \in Published
            /\ x.id \notin Ids(Main(merged[c])) \/ x.id \in Ids(ToSet(head[c]))
         \/ x \in ToSet(head[c]) /\ x \in Held(c) /\ x.id \notin Ids(Main(merged[c]))
  BY <1>0, <1>2, <1>41, HeldExist DEF Pulled, Held
<1>5. Existing' \subseteq Existing
  <2>1. ToSet(entries) \subseteq Existing
    BY <1>4, HeldExist
  <2> QED BY <1>3, <2>1 DEF Existing
<1>6. \A v \in Versions : v <= n
  BY <1>0
<1>7. ASSUME NEW x \in ToSet(tree'[Home]), x.of # None
      PROVE  \E y \in ToSet(tree[Home]) : y.id = x.id /\ y.of = x.of
  <2>1. CASE c # Home
    BY <1>3, <2>1, CatalogueAssumption
  <2>2. CASE c = Home
    <3>1. CASE x \in ToSet(head[c])
      BY <1>1, <2>2, <3>1
    <3>2. CASE x \in Main(n) /\ (x.id \notin Ids(Main(merged[c])) \/ x.id \in Ids(ToSet(head[c])))
      <4>1. n \in merged[Home]..Len(published)
        BY <1>0, <1>41, CatalogueAssumption
      <4>2. x.id \in Ids(Main(merged[Home]))
        BY <1>7, <3>2, <4>1 DEF MadeAtHome
      <4>3. PICK y \in ToSet(head[c]) : y.id = x.id
        BY <2>2, <3>2, <4>2 DEF Ids
      <4>4. y \in Existing /\ x \in Existing
        BY <1>0, <3>2, HeldExist
      <4>5. y.of = x.of
        BY <4>3, <4>4 DEF JournalInv, IdsOnce
      <4> QED BY <1>1, <2>2, <4>3, <4>5
    <3> QED BY <1>3, <1>4, <2>2, <3>1, <3>2
  <2> QED BY <2>1, <2>2
<1>8. ListsAreTrue'
  BY <1>5, <1>7, ListsKeep
<1>9. ASSUME NEW v \in merged'[Home]..Len(published), NEW x \in Main(v), x.of # None
      PROVE  x.id \in Ids(Main(merged'[Home]))
  <2>1. CASE c # Home
    BY <1>3, <1>9, <2>1, CatalogueAssumption DEF MadeAtHome
  <2>2. CASE c = Home
    <3>1. merged'[Home] = n
      BY <1>3, <2>2
    <3>2. v = n
      BY <1>0, <1>41, <3>1
    <3> QED BY <3>1, <3>2 DEF Ids
  <2> QED BY <2>1, <2>2
<1>10. ASSUME NEW d \in Clone \ {Home}, NEW x \in Held(d)', x.of # None
       PROVE  x.id \in Ids(Main(merged'[d]))
  <2>1. CASE d # c
    BY <1>3, <1>10, <2>1 DEF MadeAtHome
  <2>2. CASE d = c
    <3>1. merged'[d] = n /\ x \in ToSet(entries)
      BY <1>3, <2>2
    <3>2. CASE x \in Main(n)
      BY <3>1, <3>2 DEF Ids
    <3>3. CASE x \in Held(c) /\ x.id \notin Ids(Main(merged[c]))
      BY <1>10, <2>2, <3>3 DEF MadeAtHome
    <3> QED BY <1>4, <3>1, <3>2, <3>3
  <2> QED BY <2>1, <2>2
<1>11. MadeAtHome'
  BY <1>1, <1>9, <1>10 DEF MadeAtHome, Ids, Main
<1> QED BY <1>8, <1>11

\* git push and the lists.
LEMMA PushLists ==
  ASSUME JournalTypes, JournalInv, ListsAreTrue, MadeAtHome, NEW c \in Clone, Push(c),
         UNCHANGED <<lock, job>>
  PROVE  ListsAreTrue' /\ MadeAtHome'
<1>41. PICK n : n = Len(published)
  OBVIOUS
<1>42. PICK pushed : pushed = head[c]
  OBVIOUS
<1>0. n \in Versions /\ n \in Nat /\ Versions = 1..n /\ \A d \in Clone : merged[d] \in Versions
  BY <1>41, <1>42, Pushed
<1>1. /\ merged[c] = n /\ merged' = [merged EXCEPT ![c] = n + 1]
      /\ UNCHANGED <<made, tree, head, deployed, applied>>
  BY <1>41, <1>42, Pushed
<1>2. /\ Len(published') = n + 1
      /\ \A v \in Versions : published'[v] = published[v] /\ Main(v)' = Main(v)
      /\ published'[n + 1] = pushed /\ Main(n + 1)' = ToSet(pushed)
      /\ Existing' = Existing
  BY <1>41, <1>42, Pushed
<1>3. /\ \A d \in Clone : Held(d)' = Held(d)
      /\ \A d \in Clone : merged'[d] = IF d = c THEN n + 1 ELSE merged[d]
      /\ \A d \in Clone : d # c => ToSet(published'[merged'[d]]) = Main(merged[d])
      /\ ToSet(published'[merged'[c]]) = ToSet(pushed)
  <2>1. \A d \in Clone : merged'[d] = IF d = c THEN n + 1 ELSE merged[d]
    BY <1>1 DEF JournalTypes
  <2>2. /\ \A d \in Clone : Held(d)' = Held(d)
        /\ \A d \in Clone : d # c => ToSet(published'[merged'[d]]) = Main(merged[d])
        /\ ToSet(published'[merged'[c]]) = ToSet(pushed)
    BY <1>41, <1>42, Pushed
  <2> QED BY <2>1, <2>2
<1>4. ListsAreTrue'
  BY <1>1, <1>2, ListsKeep
<1>5. ASSUME NEW v \in merged'[Home]..n + 1, NEW x \in ToSet(published'[v]), x.of # None
      PROVE  x.id \in Ids(ToSet(published'[merged'[Home]]))
  <2>1. CASE c = Home
    <3>1. v = n + 1
      BY <1>0, <1>3, <2>1
    <3> QED BY <1>3, <2>1, <3>1 DEF Ids
  <2>2. CASE c # Home
    <3>0. Home \in Clone /\ merged'[Home] = merged[Home] /\ merged[Home] \in 1..n
      BY <1>0, <1>3, <2>2, CatalogueAssumption
    <3>1. \A w \in merged[Home]..n : \A y \in Main(w) : y.of # None => y.id \in Ids(Main(merged[Home]))
      BY <1>41 DEF MadeAtHome
    <3>2. CASE v \in merged[Home]..n
      <4>1. v \in Versions
        BY <1>0, <3>0, <3>2
      <4>2. x \in Main(v)
        BY <1>2, <4>1 DEF Main
      <4>3. x.id \in Ids(Main(merged[Home]))
        BY <1>5, <3>1, <3>2, <4>2
      <4> QED BY <1>3, <2>2, <3>0, <4>3
    <3>3. CASE v = n + 1
      <4>1. x \in ToSet(head[c]) /\ x \in Held(c)
        BY <1>2, <1>42, <3>3 DEF Held
      <4>2. x.id \in Ids(Main(n))
        BY <1>1, <1>5, <2>2, <4>1 DEF MadeAtHome
      <4>3. PICK y \in Main(n) : y.id = x.id
        BY <4>2 DEF Ids
      <4>4. y.of = x.of
        BY <1>0, <4>1, <4>3, HeldExist DEF JournalInv, IdsOnce
      <4>5. n \in merged[Home]..n
        BY <1>0, <3>0
      <4>6. x.id \in Ids(Main(merged[Home]))
        BY <1>5, <3>1, <4>3, <4>4, <4>5
      <4> QED BY <1>3, <2>2, <3>0, <4>6
    <3>4. v \in merged[Home]..n \/ v = n + 1
      BY <1>0, <3>0
    <3> QED BY <3>2, <3>3, <3>4
  <2> QED BY <2>1, <2>2
<1>6. ASSUME NEW d \in Clone \ {Home}, NEW x \in Held(d), x.of # None
      PROVE  x.id \in Ids(ToSet(published'[merged'[d]]))
  <2>0. x.id \in Ids(Main(merged[d]))
    BY <1>6 DEF MadeAtHome
  <2>1. CASE d # c
    BY <1>3, <2>0, <2>1
  <2>2. CASE d = c
    <3>1. ~Private(c, x)
      <4>1. PICK y \in Main(merged[d]) : y.id = x.id
        BY <2>0 DEF Ids
      <4> QED BY <1>0, <4>1, HeldExist DEF Private
    <3>2. x.id \in Ids(ToSet(head[c]))
      BY <2>2, <3>1 DEF JournalInv, NewIsPrivate
    <3> QED BY <1>3, <1>42, <2>2, <3>2
  <2> QED BY <2>1, <2>2
<1>7. MadeAtHome'
  BY <1>2, <1>3, <1>5, <1>6 DEF MadeAtHome, Ids, Main
<1> QED BY <1>4, <1>7

\* migrate.ts and the lists.
LEMMA DeployLists ==
  ASSUME ListsAreTrue, MadeAtHome, Deploy, UNCHANGED <<lock, job>>
  PROVE  ListsAreTrue' /\ MadeAtHome'
<1>1. UNCHANGED <<made, tree, head, merged, published>>
  BY DEF Deploy, clones
<1> QED
  BY <1>1 DEF ListsAreTrue, MadeAtHome, Existing, Published, Versions, Main, Held, Listed, AtHand,
     Generating, Current, Ids

JournalSteps(c) ==
  Make(c) \/ Restamp(c) \/ Withdraw(c) \/ Rename(c) \/ Commit(c) \/ Pull(c) \/ Push(c)

\* The journal moves, by hand, git or migrate.ts.
LEMMA JournalMoves ==
  ASSUME JournalTypes, CatalogueTypes, JournalInv, CatalogueInv, JournalNext, InOrder', UNCHANGED catalogue
  PROVE  JournalTypes' /\ CatalogueTypes' /\ JournalInv' /\ CatalogueInv'
<1>1. UNCHANGED <<lock, job>> /\ CatalogueTypes'
      /\ \A s \in Session : JobOk(job[s])'
  BY DEF catalogue, CatalogueTypes, CatalogueInv
<1>2. IdsKnown /\ ListsAreTrue /\ MadeAtHome
  BY DEF CatalogueInv
<1>3. ASSUME made' = made PROVE IdsKnown'
  BY <1>1, <1>2, <1>3 DEF IdsKnown
<1>4. JournalTypes' /\ JournalInv' /\ IdsKnown' /\ ListsAreTrue' /\ MadeAtHome'
  <2>1. ASSUME NEW c \in Clone, JournalSteps(c)
        PROVE  JournalTypes' /\ JournalInv' /\ IdsKnown' /\ ListsAreTrue' /\ MadeAtHome'
    <3>1. CASE Commit(c)
      <4>1. made' = made
        BY <3>1 DEF Commit
      <4> QED BY <1>1, <1>2, <1>3, <3>1, <4>1, CommitKeeps, CommitLists
    <3>2. CASE Pull(c)
      <4>1. made' = made
        BY <3>2 DEF Pull
      <4> QED BY <1>1, <1>2, <1>3, <3>2, <4>1, PullKeeps, PullLists
    <3>3. CASE Push(c)
      <4>1. made' = made
        BY <3>3 DEF Push
      <4> QED BY <1>1, <1>2, <1>3, <3>3, <4>1, PushKeeps, PushLists
    <3>4. CASE Make(c) \/ Restamp(c) \/ Withdraw(c) \/ Rename(c)
      <4>1. PICK entries : Changes(c, entries) /\ FreshAre(entries, None)
        BY <3>4, MakeChanges, RestampChanges, WithdrawChanges, RenameChanges
      <4>2. JournalTypes' /\ JournalInv'
        BY <4>1, TreeEdit
      <4>3. MadeAtHome'
        BY <1>2, <4>1, MadeAtHomeChanges
      <4>4. ListsAreTrue' /\ IdsKnown'
        BY <1>1, <1>2, <4>1, HandChange
      <4> QED BY <4>2, <4>3, <4>4
    <3> QED BY <2>1, <3>1, <3>2, <3>3, <3>4 DEF JournalSteps
  <2>2. CASE Deploy
    <3>1. made' = made
      BY <2>2 DEF Deploy
    <3> QED BY <1>1, <1>2, <1>3, <2>2, <3>1, DeployKeeps, DeployLists
  <2> QED BY <2>1, <2>2 DEF JournalNext, JournalSteps
<1>5. RecordsAgree'
  <2>1. registry' = registry /\ lock' = lock /\ files' = files /\ halfway' = halfway
    BY DEF catalogue
  <2> QED BY <2>1 DEF CatalogueInv, RecordsAgree, Installed
<1>6. (\A s \in Session : JobOk(job[s]))'
  BY <1>1
<1>7. CatalogueInv'
  BY <1>4, <1>5, <1>6 DEF CatalogueInv
<1> QED
  BY <1>1, <1>4, <1>7

-----------------------------------------------------------------------------
(* The commands.                                                           *)

\* What the order of things has survived after a step it had survived before it.
LEMMA StaysInOrder ==
  ASSUME NEW kind, NEW P \in BOOLEAN, Strays(kind, P), InOrder'
  PROVE  ~P /\ InOrder
  BY DEF Strays, InOrder

\* No command is a command at rest.
LEMMA Idles == Idle \in JobType /\ JobOk(Idle)
<1>1. NothingLocked \in LockType
  BY DEF NothingLocked, LockType
<1>2. <<>> \in Seq(Module) /\ DOMAIN <<>> = {}
  OBVIOUS
<1>3. Idle \in JobType
  BY <1>1, <1>2 DEF Idle, Job, JobType, MigrationIds
<1>4. EachOnce(Idle.todo)
  BY <1>2 DEF EachOnce, Idle, Job
<1>5. Idle.step = "idle" /\ Idle.generated = {}
  BY DEF Idle, Job
<1> QED BY <1>3, <1>4, <1>5 DEF JobOk, AddSteps

\* What a command in progress keeps.
LEMMA JobsAre ==
  ASSUME CatalogueTypes, CatalogueInv, NEW s \in Session, job[s].step # "idle"
  PROVE  /\ job[s] \in JobType /\ JobOk(job[s])
         /\ job[s].todo \in Seq(Module) /\ job[s].todo # <<>>
         /\ Current(s) \in Module /\ Current(s) \in ToSet(job[s].todo)
         /\ ToSet(job[s].todo) \subseteq Module
<1>1. job[s] \in JobType /\ JobOk(job[s])
  BY DEF CatalogueTypes, CatalogueInv
<1>2. job[s].todo \in Seq(Module) /\ job[s].todo # <<>>
  BY <1>1 DEF JobType, JobOk
<1>3. Len(job[s].todo) \in Nat \ {0} /\ Current(s) = job[s].todo[1]
  BY <1>2, EmptySeq, LenProperties DEF Current
<1>4. Current(s) \in ToSet(job[s].todo) /\ ToSet(job[s].todo) \subseteq Module
  BY <1>2, <1>3, SetOf
<1> QED BY <1>1, <1>2, <1>4

\* What is left of a list of different modules.
LEMMA RestIs ==
  ASSUME NEW todo \in Seq(Module), todo # <<>>, EachOnce(todo)
  PROVE  /\ Tail(todo) \in Seq(Module) /\ EachOnce(Tail(todo))
         /\ ToSet(Tail(todo)) \subseteq ToSet(todo) \ {Head(todo)}
<1>1. /\ Tail(todo) \in Seq(Module) /\ Len(Tail(todo)) = Len(todo) - 1
      /\ \A i \in 1..Len(Tail(todo)) : Tail(todo)[i] = todo[i + 1]
      /\ Head(todo) = todo[1] /\ Len(todo) \in Nat \ {0} /\ DOMAIN todo = 1..Len(todo)
      /\ DOMAIN Tail(todo) = 1..Len(todo) - 1
  BY HeadTailProperties, EmptySeq, LenProperties
<1>2. \A i \in 1..Len(todo) - 1 : i + 1 \in 1..Len(todo) /\ 1 \in 1..Len(todo) /\ i + 1 # 1
  BY <1>1
<1>3. EachOnce(Tail(todo))
  <2> SUFFICES ASSUME NEW i \in 1..Len(todo) - 1, NEW k \in 1..Len(todo) - 1, Tail(todo)[i] = Tail(todo)[k]
               PROVE  i = k
    BY <1>1 DEF EachOnce
  <2>1. i + 1 = k + 1
    BY <1>1, <1>2 DEF EachOnce
  <2> QED BY <2>1, <1>1
<1>4. ASSUME NEW x \in ToSet(Tail(todo)) PROVE x \in ToSet(todo) /\ x # Head(todo)
  <2>1. PICK i \in 1..Len(todo) - 1 : x = Tail(todo)[i]
    BY <1>1 DEF ToSet
  <2>2. x = todo[i + 1] /\ i + 1 \in DOMAIN todo /\ 1 \in DOMAIN todo /\ i + 1 # 1
    BY <1>1, <1>2, <2>1
  <2> QED BY <1>1, <2>2 DEF ToSet, EachOnce
<1> QED BY <1>1, <1>3, <1>4

\* One command moves on.
LEMMA JobGoes ==
  ASSUME CatalogueTypes, CatalogueInv, NEW s \in Session, NEW next \in JobType, JobOk(next), Goes(s, next)
  PROVE  /\ job' \in [Session -> JobType]
         /\ \A t \in Session : job'[t] = IF t = s THEN next ELSE job[t]
         /\ \A t \in Session : JobOk(job'[t])
         /\ \A t \in Session : ~Generating(t)' => job'[t].generated = {}
<1>1. job \in [Session -> JobType] /\ \A t \in Session : JobOk(job[t])
  BY DEF CatalogueTypes, CatalogueInv
<1>2. /\ job' \in [Session -> JobType]
      /\ \A t \in Session : job'[t] = IF t = s THEN next ELSE job[t]
  BY <1>1 DEF Goes
<1>3. \A t \in Session : JobOk(job'[t])
  BY <1>1, <1>2
<1>4. \A t \in Session : ~Generating(t)' => job'[t].generated = {}
  BY <1>3 DEF JobOk, Generating
<1> QED BY <1>2, <1>3, <1>4

\* The journal stays as it is.
LEMMA JournalStays ==
  ASSUME JournalTypes, JournalInv, MadeAtHome,
         UNCHANGED <<made, tree, head, merged, published, deployed, applied>>
  PROVE  JournalTypes' /\ JournalInv' /\ MadeAtHome' /\ Existing' = Existing
<1>1. Existing' = Existing /\ Published' = Published /\ Versions' = Versions
      /\ (\A v : Main(v)' = Main(v)) /\ \A c : Held(c)' = Held(c)
  BY DEF Existing, Published, Versions, Main, Held
<1>2. JournalTypes' /\ MadeAtHome'
  BY <1>1 DEF JournalTypes, MadeAtHome
<1>3. IdsOnce'
  BY <1>1 DEF JournalInv, IdsOnce
<1>4. NewIsPrivate'
  BY <1>1 DEF JournalInv, NewIsPrivate, Private
<1>5. SameWhen'
  BY <1>1 DEF JournalInv, SameWhen
<1>6. (\A c \in Clone : TreeFollows(c))'
  BY <1>1 DEF JournalInv, TreeFollows
<1>7. Rising' /\ LaterIsNewer' /\ Runs' /\ (\A v \in Versions : WhenOrdered(published[v]))'
  BY <1>1 DEF JournalInv, Rising, LaterIsNewer, Runs
<1> QED BY <1>1, <1>2, <1>3, <1>4, <1>5, <1>6, <1>7 DEF JournalInv

\* A command puts in the lock what it had at hand, or does not touch the lists.
LEMMA ListsFollow ==
  ASSUME CatalogueTypes, JournalTypes, IdsKnown, ListsAreTrue, Existing' = Existing, UNCHANGED <<made, tree>>,
         \A m \in Module : \A i :
           Listed(m, i)' => Listed(m, i) \/ \E t \in Session : AtHand(t, i) /\ Current(t) = m,
         \A t \in Session : \A i : AtHand(t, i)' => AtHand(t, i) /\ Current(t)' = Current(t),
         \A m \in Module : \A i : Listed(m, i) \/ (\E t \in Session : AtHand(t, i) /\ Current(t) = m) =>
                                    Listed(m, i)' \/ \E t \in Session : AtHand(t, i)',
         \A t \in Session : ~Generating(t)' => job'[t].generated = {}
  PROVE  ListsAreTrue' /\ IdsKnown'
<1>1. \A x \in Existing : \A m \in Module : Listed(m, x.id)' => x.of = m
  BY DEF ListsAreTrue
<1>2. \A x \in Existing : \A s \in Session : AtHand(s, x.id)' => x.of = Current(s)'
  BY DEF ListsAreTrue
<1>3. ASSUME NEW x \in ToSet(tree[Home]), x.of # None
      PROVE  Listed(x.of, x.id)' \/ \E s \in Session : AtHand(s, x.id)'
  <2>1. x \in Existing /\ x.of \in Module
    BY <1>3, HeldExist, EntriesAre, CatalogueAssumption DEF EntryRec
  <2>2. Listed(x.of, x.id) \/ \E s \in Session : AtHand(s, x.id) /\ Current(s) = x.of
    BY <1>3, <2>1 DEF ListsAreTrue
  <2> QED BY <2>1, <2>2
<1>4. ListsAreTrue'
  BY <1>1, <1>2, <1>3 DEF ListsAreTrue
<1>5. ASSUME NEW m \in Module, lock'[m] # None, NEW i \in lock'[m] PROVE i <= made
  <2>1. Listed(m, i)'
    BY <1>5 DEF Listed
  <2> QED BY <2>1 DEF IdsKnown, Listed, AtHand
<1>6. ASSUME NEW s \in Session, NEW i \in job'[s].generated PROVE i <= made
  <2>1. AtHand(s, i)'
    BY <1>6 DEF AtHand
  <2> QED BY <2>1 DEF IdsKnown, AtHand
<1> QED BY <1>4, <1>5, <1>6 DEF IdsKnown

Holds == JournalTypes /\ CatalogueTypes /\ JournalInv /\ CatalogueInv

\* What m needs, m among it, is something when m is not satisfied yet.
LEMMA Needs ==
  ASSUME NEW m \in Module, NEW satisfied, m \notin satisfied
  PROVE  /\ Needed(m, satisfied) \subseteq Module /\ m \in Needed(m, satisfied)
         /\ Needed(m, satisfied) \cap satisfied = {}
<1>1. Needed(m, satisfied) \subseteq Module /\ m \in Needed(m, satisfied)
  BY DEF Needed
<1>2. ASSUME NEW n \in Needed(m, satisfied), n \in satisfied PROVE FALSE
  <2>1. PICK S \in SUBSET Module : S = Module \ satisfied
    OBVIOUS
  <2>2. m \in S /\ \A x \in S : DependsOn[x] \ satisfied \subseteq S
    BY <2>1, CatalogueAssumption
  <2> QED BY <1>2, <2>1, <2>2 DEF Needed
<1> QED BY <1>1, <1>2

\* resolveInstallOrder: the modules, each once.
LEMMA OrdersAre ==
  ASSUME NEW modules \in SUBSET Module, modules # {}, NEW order \in Orders(modules)
  PROVE  /\ order \in Seq(Module) /\ order # <<>> /\ EachOnce(order) /\ ToSet(order) \subseteq modules
<1>1. order \in SetToSeqs(modules)
  BY DEF Orders
<1>2. IsFiniteSet(modules)
  BY CatalogueAssumption, FS_Subset
<1>3. order \in Seq(modules) /\ ToSet(order) \subseteq modules /\ EachOnce(order)
  BY <1>1, <1>2, Sequenced DEF EachOnce
<1>4. order \in Seq(Module)
  BY <1>3
<1>5. Cardinality(modules) \in Nat \ {0}
  BY <1>2, FS_CardinalityType, FS_EmptySet
<1>6. order \in [1..Cardinality(modules) -> modules]
  BY <1>1 DEF SetToSeqs
<1>7. order # <<>>
  BY <1>5, <1>6
<1> QED BY <1>3, <1>4, <1>7

\* module add reads the lock and plans.
LEMMA AddReadsKeeps ==
  ASSUME Holds, NEW s \in Session, AddReads(s)
  PROVE  Holds'
<1>0. PICK m \in Module \ Installed(lock) : \E order \in Orders(Needed(m, Installed(lock))) :
        Goes(s, Job("tags", ToSet(order), order, lock, 0, {}))
  BY DEF AddReads
<1>1. PICK order \in Orders(Needed(m, Installed(lock))) :
        Goes(s, Job("tags", ToSet(order), order, lock, 0, {}))
  BY <1>0
<1>2. /\ UNCHANGED <<made, tree, head, merged, published, deployed, applied, strayed, lock, files, registry, halfway>>
      /\ job[s] = Idle
  BY DEF AddReads, journal, clones
<1>3. PICK modules \in SUBSET Module :
        /\ modules # {} /\ modules \cap Installed(lock) = {}
        /\ modules = Needed(m, Installed(lock))
  BY Needs
<1>4. order \in Seq(Module) /\ order # <<>> /\ EachOnce(order) /\ ToSet(order) \subseteq modules
  BY <1>1, <1>3, OrdersAre
<1>5. PICK next : next = Job("tags", ToSet(order), order, lock, 0, {})
  OBVIOUS
<1>6. next \in JobType
  BY <1>3, <1>4, <1>5 DEF Holds, Job, JobType, CatalogueTypes, AddSteps, MigrationIds
<1>7. next.step = "tags" /\ next.todo = order /\ next.known = lock /\ next.generated = {}
  BY <1>5 DEF Job
<1>8. JobOk(next)
  BY <1>3, <1>4, <1>7 DEF JobOk, AddSteps, Installed
<1>9. /\ job' \in [Session -> JobType]
      /\ \A t \in Session : job'[t] = IF t = s THEN next ELSE job[t]
      /\ \A t \in Session : JobOk(job'[t])
      /\ \A t \in Session : ~Generating(t)' => job'[t].generated = {}
  BY <1>1, <1>5, <1>6, <1>8, JobGoes DEF Holds
<1>10. /\ \A n, i : Listed(n, i)' <=> Listed(n, i)
       /\ \A t \in Session : \A i : AtHand(t, i)' <=> AtHand(t, i)
       /\ \A t \in Session : \A i : AtHand(t, i) => Current(t)' = Current(t)
  BY <1>2, <1>7, <1>9 DEF Listed, AtHand, Generating, Current, Idle, Job
<1>11. JournalTypes' /\ JournalInv' /\ MadeAtHome' /\ Existing' = Existing
  BY <1>2, JournalStays DEF Holds, CatalogueInv
<1>12. ListsAreTrue' /\ IdsKnown'
  BY <1>2, <1>9, <1>10, <1>11, ListsFollow DEF Holds, CatalogueInv
<1>13. CatalogueTypes'
  BY <1>2, <1>9 DEF Holds, CatalogueTypes
<1>14. RecordsAgree'
  BY <1>2 DEF Holds, CatalogueInv, RecordsAgree, Installed
<1> QED BY <1>9, <1>11, <1>12, <1>13, <1>14 DEF Holds, CatalogueInv

\* It copies the files and writes the lock and the registry.
LEMMA AddRecordsKeeps ==
  ASSUME Holds, NEW s \in Session, AddRecords(s), InOrder'
  PROVE  Holds'
<1>1. PICK plan : plan = ToSet(job[s].todo)
  OBVIOUS
<1>2. PICK locked : locked = [m \in Module |-> IF m \in plan THEN {} ELSE job[s].known[m]]
  OBVIOUS
<1>3. /\ job[s].step = "tags" /\ files' = files \cup plan /\ lock' = locked
      /\ registry' = Registered(locked, {}) /\ halfway' = halfway \cap Installed(job[s].known)
      /\ Goes(s, [job[s] EXCEPT !.step = "check", !.known = locked])
      /\ Strays("raced", lock # job[s].known)
      /\ UNCHANGED <<made, tree, head, merged, published, deployed, applied>>
  BY <1>1, <1>2 DEF AddRecords, clones
<1>4. lock = job[s].known
  BY <1>3, StaysInOrder
<1>5. /\ job[s] \in JobType /\ JobOk(job[s]) /\ job[s].todo \in Seq(Module) /\ job[s].todo # <<>>
      /\ plan \subseteq Module
  BY <1>1, <1>3, JobsAre DEF Holds
<1>6. \A m \in plan : lock[m] = None
  BY <1>1, <1>3, <1>4, <1>5 DEF JobOk
<1>7. locked \in LockType /\ lock \in LockType
  BY <1>2, <1>4, <1>5 DEF LockType, MigrationIds, JobType
<1>8. PICK next : next = [job[s] EXCEPT !.step = "check", !.known = locked]
  OBVIOUS
<1>9. next \in JobType
  BY <1>5, <1>7, <1>8 DEF JobType, AddSteps
<1>10. /\ next.step = "check" /\ next.todo = job[s].todo /\ next.known = locked
       /\ next.generated = job[s].generated /\ job[s].generated = {} /\ EachOnce(job[s].todo)
  BY <1>3, <1>5, <1>8 DEF JobType, JobOk
<1>11. JobOk(next)
  BY <1>1, <1>2, <1>5, <1>10 DEF JobOk, AddSteps
<1>12. /\ job' \in [Session -> JobType]
       /\ \A t \in Session : job'[t] = IF t = s THEN next ELSE job[t]
       /\ \A t \in Session : JobOk(job'[t])
       /\ \A t \in Session : ~Generating(t)' => job'[t].generated = {}
  BY <1>3, <1>8, <1>9, <1>11, JobGoes DEF Holds
<1>13. \A m \in Module : lock'[m] = IF m \in plan THEN {} ELSE lock[m]
  BY <1>2, <1>3, <1>4
<1>14. \A n \in Module : \A i : Listed(n, i)' <=> Listed(n, i)
  BY <1>6, <1>13 DEF Listed
<1>15. \A t \in Session : \A i : AtHand(t, i)' => AtHand(t, i) /\ Current(t)' = Current(t)
  BY <1>10, <1>12 DEF AtHand, Generating, Current
<1>16. \A t \in Session : \A i : AtHand(t, i) => AtHand(t, i)'
  BY <1>3, <1>12 DEF AtHand, Generating
<1>17. JournalTypes' /\ JournalInv' /\ MadeAtHome' /\ Existing' = Existing
  BY <1>3, JournalStays DEF Holds, CatalogueInv
<1>18. ListsAreTrue' /\ IdsKnown'
  BY <1>3, <1>12, <1>14, <1>15, <1>16, <1>17, ListsFollow DEF Holds, CatalogueInv
<1>19. CatalogueTypes'
  BY <1>3, <1>5, <1>7, <1>12 DEF Holds, CatalogueTypes, Registered, Installed
<1>20. registry' = Installed(locked) /\ Installed(locked) \subseteq Installed(lock) \cup plan
  BY <1>2, <1>3, <1>4 DEF Registered, Installed
<1>21. RecordsAgree'
  <2>1. Installed(lock) \ halfway \subseteq files
    BY DEF Holds, CatalogueInv, RecordsAgree
  <2>2. Installed(lock)' = Installed(locked)
    BY <1>3 DEF Installed
  <2>3. halfway' = halfway \cap Installed(lock)
    BY <1>3, <1>4
  <2> QED BY <1>3, <1>20, <2>1, <2>2, <2>3 DEF RecordsAgree
<1> QED BY <1>12, <1>17, <1>18, <1>19, <1>21 DEF Holds, CatalogueInv

\* It dies with some of the modules copied, and in the lock with no migration.
LEMMA AddDiesKeeps ==
  ASSUME Holds, NEW s \in Session, AddDies(s), InOrder'
  PROVE  Holds'
<1>1. PICK todo : todo = job[s].todo
  OBVIOUS
<1>2. PICK copied \in 1..Len(job[s].todo) : \E listed \in {copied - 1, copied} :
        LET there == {job[s].todo[i] : i \in 1..copied}
            entered == {job[s].todo[i] : i \in 1..listed}
        IN
          /\ files' = files \cup there
          /\ lock' = IF entered = {} THEN lock
                     ELSE [m \in Module |-> IF m \in entered THEN {} ELSE job[s].known[m]]
          /\ Strays("raced", entered # {} /\ lock # job[s].known)
  BY DEF AddDies
<1>3. PICK listed \in {copied - 1, copied} :
        LET there == {job[s].todo[i] : i \in 1..copied}
            entered == {job[s].todo[i] : i \in 1..listed}
        IN
          /\ files' = files \cup there
          /\ lock' = IF entered = {} THEN lock
                     ELSE [m \in Module |-> IF m \in entered THEN {} ELSE job[s].known[m]]
          /\ Strays("raced", entered # {} /\ lock # job[s].known)
  BY <1>2
<1>4. PICK there : there = {todo[i] : i \in 1..copied}
  OBVIOUS
<1>5. PICK entered : entered = {todo[i] : i \in 1..listed}
  OBVIOUS
<1>6. /\ files' = files \cup there
      /\ lock' = IF entered = {} THEN lock
                 ELSE [m \in Module |-> IF m \in entered THEN {} ELSE job[s].known[m]]
      /\ Strays("raced", entered # {} /\ lock # job[s].known)
  BY <1>1, <1>3, <1>4, <1>5
<1>7. /\ job[s].step = "tags" /\ Goes(s, Idle)
      /\ UNCHANGED <<made, tree, head, merged, published, deployed, applied, registry, halfway>>
  BY DEF AddDies, Ends, clones
<1>8. entered = {} \/ lock = job[s].known
  BY <1>6, StaysInOrder
<1>9. /\ job[s] \in JobType /\ JobOk(job[s]) /\ todo \in Seq(Module) /\ todo # <<>>
      /\ ToSet(todo) \subseteq Module /\ job[s].generated = {}
  BY <1>1, <1>7, JobsAre DEF Holds, JobOk
<1>10. there \subseteq ToSet(todo) /\ entered \subseteq there
  <2>1. /\ Len(todo) \in Nat /\ ToSet(todo) = {todo[i] : i \in 1..Len(todo)}
        /\ copied \in 1..Len(todo)
    BY <1>1, <1>9, SetOf, LenProperties
  <2>2. 1..listed \subseteq 1..copied /\ 1..copied \subseteq 1..Len(todo)
    BY <2>1
  <2> QED BY <1>4, <1>5, <2>1, <2>2
<1>11. \A m \in entered : lock[m] = None
  BY <1>1, <1>7, <1>8, <1>9, <1>10 DEF JobOk
<1>12. lock \in LockType /\ lock' \in LockType
  BY <1>6, <1>9 DEF Holds, CatalogueTypes, LockType, MigrationIds, JobType
<1>13. \A m \in Module : lock'[m] = IF m \in entered THEN {} ELSE lock[m]
  BY <1>6, <1>8, <1>12 DEF LockType
<1>14. /\ job' \in [Session -> JobType]
       /\ \A t \in Session : job'[t] = IF t = s THEN Idle ELSE job[t]
       /\ \A t \in Session : JobOk(job'[t])
       /\ \A t \in Session : ~Generating(t)' => job'[t].generated = {}
  BY <1>7, Idles, JobGoes DEF Holds
<1>15. \A n \in Module : \A i : Listed(n, i)' <=> Listed(n, i)
  BY <1>11, <1>13 DEF Listed
<1>16. \A t \in Session : \A i : AtHand(t, i)' => AtHand(t, i) /\ Current(t)' = Current(t)
  BY <1>14 DEF AtHand, Generating, Current, Idle, Job
<1>17. \A t \in Session : \A i : AtHand(t, i) => AtHand(t, i)'
  BY <1>7, <1>14 DEF AtHand, Generating
<1>18. JournalTypes' /\ JournalInv' /\ MadeAtHome' /\ Existing' = Existing
  BY <1>7, JournalStays DEF Holds, CatalogueInv
<1>19. ListsAreTrue' /\ IdsKnown'
  BY <1>7, <1>14, <1>15, <1>16, <1>17, <1>18, ListsFollow DEF Holds, CatalogueInv
<1>20. CatalogueTypes'
  BY <1>6, <1>7, <1>9, <1>10, <1>12, <1>14 DEF Holds, CatalogueTypes
<1>21. RecordsAgree'
  <2>1. RecordsAgree
    BY DEF Holds, CatalogueInv
  <2>2. Installed(lock') \subseteq Installed(lock) \cup entered /\ Installed(lock) \subseteq Installed(lock')
    BY <1>11, <1>13 DEF Installed
  <2>3. Installed(lock)' = Installed(lock')
    BY DEF Installed
  <2> QED BY <1>6, <1>7, <1>10, <2>1, <2>2, <2>3 DEF RecordsAgree
<1> QED BY <1>14, <1>18, <1>19, <1>20, <1>21 DEF Holds, CatalogueInv

\* It counts the entries.
LEMMA AddChecksKeeps ==
  ASSUME Holds, NEW s \in Session, AddChecks(s)
  PROVE  Holds'
<1>1. /\ job[s].step = "check"
      /\ Goes(s, [job[s] EXCEPT !.step = "baseline", !.seen = Len(tree[Home])])
      /\ UNCHANGED <<made, tree, head, merged, published, deployed, applied, strayed, lock, files, registry, halfway>>
  BY DEF AddChecks, journal, clones
<1>2. job[s] \in JobType /\ JobOk(job[s]) /\ job[s].todo # <<>>
  BY <1>1, JobsAre DEF Holds
<1>3. PICK next : next = [job[s] EXCEPT !.step = "baseline", !.seen = Len(tree[Home])]
  OBVIOUS
<1>4. next \in JobType
  <2>1. Len(tree[Home]) \in Nat
    BY TreeIs, CatalogueAssumption DEF Holds
  <2> QED BY <1>2, <1>3, <2>1 DEF JobType, AddSteps
<1>5. /\ next.step = "baseline" /\ next.todo = job[s].todo /\ next.known = job[s].known
      /\ next.generated = job[s].generated /\ job[s].generated = {}
  BY <1>1, <1>2, <1>3 DEF JobType, JobOk
<1>6. JobOk(next)
  BY <1>1, <1>2, <1>5 DEF JobOk, AddSteps
<1>7. /\ job' \in [Session -> JobType]
      /\ \A t \in Session : job'[t] = IF t = s THEN next ELSE job[t]
      /\ \A t \in Session : JobOk(job'[t])
      /\ \A t \in Session : ~Generating(t)' => job'[t].generated = {}
  BY <1>1, <1>3, <1>4, <1>6, JobGoes DEF Holds
<1>8. /\ \A n, i : Listed(n, i)' <=> Listed(n, i)
      /\ \A t \in Session : \A i : AtHand(t, i)' <=> AtHand(t, i)
      /\ \A t \in Session : \A i : AtHand(t, i) => Current(t)' = Current(t)
  BY <1>1, <1>5, <1>7 DEF Listed, AtHand, Generating, Current
<1>9. JournalTypes' /\ JournalInv' /\ MadeAtHome' /\ Existing' = Existing
  BY <1>1, JournalStays DEF Holds, CatalogueInv
<1>10. ListsAreTrue' /\ IdsKnown'
  BY <1>1, <1>7, <1>8, <1>9, ListsFollow DEF Holds, CatalogueInv
<1>11. CatalogueTypes'
  BY <1>1, <1>7 DEF Holds, CatalogueTypes
<1>12. RecordsAgree'
  BY <1>1 DEF Holds, CatalogueInv, RecordsAgree, Installed
<1> QED BY <1>7, <1>9, <1>10, <1>11, <1>12 DEF Holds, CatalogueInv

\* It lists what it generated in the lock.
LEMMA AddListsKeeps ==
  ASSUME Holds, NEW s \in Session, AddLists(s), InOrder'
  PROVE  Holds'
<1>1. PICK m : m = Current(s)
  OBVIOUS
<1>2. PICK generated : generated = job[s].generated
  OBVIOUS
<1>3. PICK locked : locked = [lock EXCEPT ![m] = generated]
  OBVIOUS
<1>4. /\ job[s].step = "journal" /\ m \in files /\ Strays("raced", lock # job[s].known)
      /\ UNCHANGED <<made, tree, head, merged, published, deployed, applied, files, registry, halfway>>
  BY <1>1 DEF AddLists, clones
<1>5. lock = job[s].known
  BY <1>4, StaysInOrder
<1>6. lock' = locked
  BY <1>1, <1>2, <1>3, <1>5 DEF AddLists, WithEntry
<1>7. PICK rest : rest = Tail(job[s].todo)
  OBVIOUS
<1>8. PICK next : next = IF rest = <<>> THEN Idle ELSE Job("check", job[s].targets, rest, locked, 0, {})
  OBVIOUS
<1>9. Goes(s, next)
  BY <1>1, <1>2, <1>3, <1>5, <1>7, <1>8 DEF AddLists, WithEntry, Ends
<1>10. /\ job[s] \in JobType /\ JobOk(job[s]) /\ job[s].todo \in Seq(Module) /\ job[s].todo # <<>>
       /\ m \in Module /\ m \in ToSet(job[s].todo) /\ EachOnce(job[s].todo) /\ m = Head(job[s].todo)
  BY <1>1, <1>4, JobsAre DEF Holds, JobOk, Current
<1>11. /\ generated \in MigrationIds /\ generated # None /\ lock \in LockType /\ locked \in LockType
       /\ \A n \in Module : locked[n] = IF n = m THEN generated ELSE lock[n]
  BY <1>2, <1>3, <1>5, <1>10, CatalogueAssumption DEF JobType, LockType, MigrationIds
<1>12. rest \in Seq(Module) /\ EachOnce(rest) /\ ToSet(rest) \subseteq ToSet(job[s].todo) \ {m}
       /\ ToSet(job[s].todo) \subseteq Module
  BY <1>7, <1>10, RestIs, SetOf
<1>13. /\ \A n \in ToSet(job[s].todo) : lock[n] = {}
       /\ \A n \in ToSet(rest) : locked[n] = {}
  <2>1. \A n \in ToSet(job[s].todo) : lock[n] = {}
    BY <1>4, <1>5, <1>10 DEF JobOk, AddSteps
  <2> QED BY <1>11, <1>12, <2>1
<1>14. next \in JobType
  <2>1. CASE rest = <<>>
    BY <1>8, <2>1, Idles
  <2>2. CASE rest # <<>>
    BY <1>8, <1>10, <1>11, <1>12, <2>2 DEF Job, JobType, AddSteps, MigrationIds
  <2> QED BY <2>1, <2>2
<1>15. JobOk(next) /\ next.step \in {"idle", "check"}
  <2>1. CASE rest = <<>>
    BY <1>8, <2>1, Idles DEF Idle, Job
  <2>2. CASE rest # <<>>
    <3>1. /\ next.step = "check" /\ next.todo = rest /\ next.known = locked /\ next.generated = {}
      BY <1>8, <2>2 DEF Job
    <3> QED BY <1>12, <1>13, <2>2, <3>1 DEF JobOk, AddSteps
  <2> QED BY <2>1, <2>2
<1>16. /\ job' \in [Session -> JobType]
       /\ \A t \in Session : job'[t] = IF t = s THEN next ELSE job[t]
       /\ \A t \in Session : JobOk(job'[t])
       /\ \A t \in Session : ~Generating(t)' => job'[t].generated = {}
  BY <1>9, <1>14, <1>15, JobGoes DEF Holds
<1>17. \A n \in Module : \A i : Listed(n, i)' <=> IF n = m THEN i \in generated ELSE Listed(n, i)
  BY <1>6, <1>11 DEF Listed
<1>18. \A i : AtHand(s, i) <=> i \in generated
  BY <1>2, <1>4 DEF AtHand, Generating
<1>19. /\ \A i : ~AtHand(s, i)'
       /\ \A t \in Session : \A i : t # s => (AtHand(t, i)' <=> AtHand(t, i)) /\ Current(t)' = Current(t)
  BY <1>15, <1>16 DEF AtHand, Generating, Current
<1>20. \A i : ~Listed(m, i)
  BY <1>10, <1>13 DEF Listed
<1>21. \A n \in Module : \A i :
         Listed(n, i)' => Listed(n, i) \/ \E t \in Session : AtHand(t, i) /\ Current(t) = n
  BY <1>1, <1>17, <1>18
<1>22. \A t \in Session : \A i : AtHand(t, i)' => AtHand(t, i) /\ Current(t)' = Current(t)
  BY <1>19
<1>23. \A n \in Module : \A i : Listed(n, i) \/ (\E t \in Session : AtHand(t, i) /\ Current(t) = n) =>
                                  Listed(n, i)' \/ \E t \in Session : AtHand(t, i)'
  BY <1>1, <1>17, <1>18, <1>19, <1>20
<1>24. JournalTypes' /\ JournalInv' /\ MadeAtHome' /\ Existing' = Existing
  BY <1>4, JournalStays DEF Holds, CatalogueInv
<1>25. ListsAreTrue' /\ IdsKnown'
  BY <1>4, <1>16, <1>21, <1>22, <1>23, <1>24, ListsFollow DEF Holds, CatalogueInv
<1>26. CatalogueTypes'
  BY <1>4, <1>6, <1>11, <1>16 DEF Holds, CatalogueTypes
<1>27. RecordsAgree'
  <2>1. RecordsAgree
    BY DEF Holds, CatalogueInv
  <2> QED BY <1>4, <1>6, <1>11, <2>1 DEF RecordsAgree, Installed
<1> QED BY <1>16, <1>24, <1>25, <1>26, <1>27 DEF Holds, CatalogueInv

\* It fails or dies with nothing generated that is not listed.
LEMMA GivesUpKeeps ==
  ASSUME Holds, NEW s \in Session, GivesUp(s), InOrder'
  PROVE  Holds'
<1>1. /\ Goes(s, Idle) /\ Strays("unlisted", job[s].generated # {})
      /\ UNCHANGED <<made, tree, head, merged, published, deployed, applied, lock, files, registry, halfway>>
  BY DEF GivesUp, Ends, clones
<1>2. job[s].generated = {}
  BY <1>1, StaysInOrder
<1>3. /\ job' \in [Session -> JobType]
      /\ \A t \in Session : job'[t] = IF t = s THEN Idle ELSE job[t]
      /\ \A t \in Session : JobOk(job'[t])
      /\ \A t \in Session : ~Generating(t)' => job'[t].generated = {}
  BY <1>1, Idles, JobGoes DEF Holds
<1>4. /\ \A n, i : Listed(n, i)' <=> Listed(n, i)
      /\ \A t \in Session : \A i : AtHand(t, i)' <=> AtHand(t, i)
      /\ \A t \in Session : \A i : AtHand(t, i) => Current(t)' = Current(t)
  BY <1>1, <1>2, <1>3 DEF Listed, AtHand, Generating, Current, Idle, Job
<1>5. JournalTypes' /\ JournalInv' /\ MadeAtHome' /\ Existing' = Existing
  BY <1>1, JournalStays DEF Holds, CatalogueInv
<1>6. ListsAreTrue' /\ IdsKnown'
  BY <1>1, <1>3, <1>4, <1>5, ListsFollow DEF Holds, CatalogueInv
<1>7. CatalogueTypes'
  BY <1>1, <1>3 DEF Holds, CatalogueTypes
<1>8. RecordsAgree'
  BY <1>1 DEF Holds, CatalogueInv, RecordsAgree, Installed
<1> QED BY <1>3, <1>5, <1>6, <1>7, <1>8 DEF Holds, CatalogueInv

\* module add --rollback reads the lock and plans.
LEMMA RollbackReadsKeeps ==
  ASSUME Holds, NEW s \in Session, RollbackReads(s)
  PROVE  Holds'
<1>1. PICK m \in Installed(lock) : \E targets \in {{m}, Needed(m, {}) \cap Installed(lock)} :
        \E order \in Orders(targets) : Goes(s, Job("rollback", targets, order, lock, 0, {}))
  BY DEF RollbackReads
<1>2. PICK targets \in {{m}, Needed(m, {}) \cap Installed(lock)} :
        \E order \in Orders(targets) : Goes(s, Job("rollback", targets, order, lock, 0, {}))
  BY <1>1
<1>3. PICK order \in Orders(targets) : Goes(s, Job("rollback", targets, order, lock, 0, {}))
  BY <1>2
<1>4. /\ UNCHANGED <<made, tree, head, merged, published, deployed, applied, strayed, lock, files, registry, halfway>>
      /\ job[s] = Idle
  BY DEF RollbackReads, journal, clones
<1>5. targets \in SUBSET Module /\ targets # {}
  <2>1. m \in Module /\ m \in Installed(lock)
    BY DEF Installed
  <2>2. m \in Needed(m, {}) /\ Needed(m, {}) \subseteq Module
    BY <2>1, Needs
  <2> QED BY <2>1, <2>2
<1>6. order \in Seq(Module) /\ order # <<>> /\ EachOnce(order) /\ ToSet(order) \subseteq targets
  BY <1>5, OrdersAre
<1>7. PICK next : next = Job("rollback", targets, order, lock, 0, {})
  OBVIOUS
<1>8. next \in JobType
  BY <1>5, <1>6, <1>7 DEF Holds, Job, JobType, CatalogueTypes, AddSteps, MigrationIds
<1>9. /\ next.step = "rollback" /\ next.todo = order /\ next.known = lock /\ next.generated = {}
      /\ next.targets = targets
  BY <1>7 DEF Job
<1>10. JobOk(next)
  BY <1>6, <1>9 DEF JobOk, AddSteps
<1>11. /\ job' \in [Session -> JobType]
       /\ \A t \in Session : job'[t] = IF t = s THEN next ELSE job[t]
       /\ \A t \in Session : JobOk(job'[t])
       /\ \A t \in Session : ~Generating(t)' => job'[t].generated = {}
  BY <1>3, <1>7, <1>8, <1>10, JobGoes DEF Holds
<1>12. /\ \A n, i : Listed(n, i)' <=> Listed(n, i)
       /\ \A t \in Session : \A i : AtHand(t, i)' <=> AtHand(t, i)
       /\ \A t \in Session : \A i : AtHand(t, i) => Current(t)' = Current(t)
  BY <1>4, <1>9, <1>11 DEF Listed, AtHand, Generating, Current, Idle, Job
<1>13. JournalTypes' /\ JournalInv' /\ MadeAtHome' /\ Existing' = Existing
  BY <1>4, JournalStays DEF Holds, CatalogueInv
<1>14. ListsAreTrue' /\ IdsKnown'
  BY <1>4, <1>11, <1>12, <1>13, ListsFollow DEF Holds, CatalogueInv
<1>15. CatalogueTypes'
  BY <1>4, <1>11 DEF Holds, CatalogueTypes
<1>16. RecordsAgree'
  BY <1>4 DEF Holds, CatalogueInv, RecordsAgree, Installed
<1> QED BY <1>11, <1>13, <1>14, <1>15, <1>16 DEF Holds, CatalogueInv

\* module adopt puts in the lock what is there, with no migration.
LEMMA AdoptKeeps ==
  ASSUME Holds, NEW s \in Session, Adopt(s), InOrder'
  PROVE  Holds'
<1>1. PICK m \in files : lock' = WithEntry(lock, m, {}) /\ Strays("adopted", lock[m] \notin {None, {}})
  BY DEF Adopt
<1>2. UNCHANGED <<made, tree, head, merged, published, deployed, applied, files, registry, halfway, job>>
  BY DEF Adopt, clones
<1>3. lock[m] \in {None, {}}
  BY <1>1, StaysInOrder
<1>4. m \in Module /\ \A n \in Module : lock'[n] = IF n = m THEN {} ELSE lock[n]
  BY <1>1 DEF Holds, CatalogueTypes, LockType, WithEntry
<1>5. /\ \A n \in Module : \A i : Listed(n, i)' <=> Listed(n, i)
      /\ \A t \in Session : \A i : AtHand(t, i)' <=> AtHand(t, i)
      /\ \A t \in Session : \A i : AtHand(t, i) => Current(t)' = Current(t)
  BY <1>2, <1>3, <1>4 DEF Listed, AtHand, Generating, Current
<1>6. \A t \in Session : JobOk(job'[t]) /\ (~Generating(t)' => job'[t].generated = {})
  BY <1>2 DEF Holds, CatalogueInv, JobOk, Generating
<1>7. JournalTypes' /\ JournalInv' /\ MadeAtHome' /\ Existing' = Existing
  BY <1>2, JournalStays DEF Holds, CatalogueInv
<1>8. ListsAreTrue' /\ IdsKnown'
  BY <1>2, <1>5, <1>6, <1>7, ListsFollow DEF Holds, CatalogueInv
<1>9. lock' \in LockType
  BY <1>1, <1>4 DEF Holds, CatalogueTypes, LockType, WithEntry, MigrationIds
<1>10. CatalogueTypes'
  BY <1>2, <1>9 DEF Holds, CatalogueTypes
<1>11. RecordsAgree'
  <2>1. RecordsAgree
    BY DEF Holds, CatalogueInv
  <2>2. {} # None
    BY CatalogueAssumption
  <2> QED BY <1>2, <1>4, <2>1, <2>2 DEF RecordsAgree, Installed
<1> QED BY <1>6, <1>7, <1>8, <1>10, <1>11 DEF Holds, CatalogueInv

\* drizzle-kit has generated nothing, or one entry, which is at hand.
LEMMA BaselineKeeps ==
  ASSUME Holds, NEW s \in Session, AddBaseline(s), InOrder', made' = made, tree' = tree
  PROVE  Holds'
<1>1. PICK created : created = SubSeq(tree'[Home], job[s].seen + 1, Len(tree'[Home]))
  OBVIOUS
<1>2. PICK next : next = [job[s] EXCEPT !.step = IF Current(s) \in Custom THEN "custom" ELSE "journal",
                                       !.seen = Len(tree[Home]), !.generated = Ids(ToSet(created))]
  OBVIOUS
<1>3. /\ job[s].step = "baseline" /\ Strays("raced", ToSet(created) # {})
      /\ Goes(s, next)
      /\ UNCHANGED <<lock, files, registry, halfway, head, merged, published, deployed, applied>>
  BY <1>1, <1>2 DEF AddBaseline, Elsewhere
<1>4. ToSet(created) = {}
  BY <1>3, StaysInOrder
<1>5. Ids(ToSet(created)) = {}
  BY <1>4 DEF Ids
<1>6. job[s] \in JobType /\ JobOk(job[s])
  BY <1>3, JobsAre DEF Holds
<1>7. next \in JobType
  <2>1. Len(tree[Home]) \in Nat
    BY TreeIs, CatalogueAssumption DEF Holds
  <2> QED BY <1>2, <1>5, <1>6, <2>1 DEF JobType, AddSteps, MigrationIds
<1>8. /\ next.step \in {"custom", "journal"} /\ next.todo = job[s].todo /\ next.known = job[s].known
      /\ next.generated = {} /\ job[s].generated = {}
  BY <1>2, <1>3, <1>5, <1>6 DEF JobType, JobOk
<1>9. JobOk(next)
  BY <1>3, <1>6, <1>8 DEF JobOk, AddSteps
<1>10. /\ job' \in [Session -> JobType]
       /\ \A t \in Session : job'[t] = IF t = s THEN next ELSE job[t]
       /\ \A t \in Session : JobOk(job'[t])
       /\ \A t \in Session : ~Generating(t)' => job'[t].generated = {}
  BY <1>3, <1>7, <1>9, JobGoes DEF Holds
<1>11. /\ \A n, i : Listed(n, i)' <=> Listed(n, i)
       /\ \A t \in Session : \A i : AtHand(t, i)' <=> AtHand(t, i)
       /\ \A t \in Session : \A i : AtHand(t, i) => Current(t)' = Current(t)
  BY <1>3, <1>8, <1>10 DEF Listed, AtHand, Generating, Current
<1>12. JournalTypes' /\ JournalInv' /\ MadeAtHome' /\ Existing' = Existing
  BY <1>3, JournalStays DEF Holds, CatalogueInv
<1>13. ListsAreTrue' /\ IdsKnown'
  BY <1>3, <1>10, <1>11, <1>12, ListsFollow DEF Holds, CatalogueInv
<1>14. CatalogueTypes'
  BY <1>3, <1>10 DEF Holds, CatalogueTypes
<1>15. RecordsAgree'
  BY <1>3 DEF Holds, CatalogueInv, RecordsAgree, Installed
<1> QED BY <1>10, <1>12, <1>13, <1>14, <1>15 DEF Holds, CatalogueInv

\* A command has put one entry more in the tree of the clone: it is of the module
\* the command is at, and it is at hand.
LEMMA OneMore ==
  ASSUME Holds, NEW s \in Session, NEW entries, NEW n, n = made + 1, made' = made + 1,
         job[s].step \in {"baseline", "custom"},
         Changes(Home, entries), FreshAre(entries, Current(s)),
         NEW next \in JobType, Goes(s, next), next.step \in {"custom", "journal"},
         next.todo = job[s].todo, next.known = job[s].known, next.generated = job[s].generated \cup {n},
         UNCHANGED <<lock, files, registry, halfway>>
  PROVE  Holds'
<1>1. /\ job[s] \in JobType /\ JobOk(job[s]) /\ Current(s) \in Module /\ Home \in Clone
  BY JobsAre, CatalogueAssumption DEF Holds
<1>2. JobOk(next)
  BY <1>1 DEF JobOk, AddSteps
<1>3. /\ job' \in [Session -> JobType]
      /\ \A t \in Session : job'[t] = IF t = s THEN next ELSE job[t]
      /\ \A t \in Session : JobOk(job'[t])
      /\ \A t \in Session : ~Generating(t)' => job'[t].generated = {}
  BY <1>2, JobGoes DEF Holds
<1>4. /\ \A t \in Session : Current(t)' = Current(t)
      /\ \A t \in Session : t # s =>
           (Generating(t)' <=> Generating(t)) /\ job'[t].generated = job[t].generated
      /\ Generating(s)' /\ job'[s].generated = job[s].generated \cup {n}
  BY <1>3 DEF Current, Generating
<1>5. job[s].generated # {} => Generating(s)
  BY <1>1 DEF JobOk, Generating
<1>6. /\ \A t \in Session : \A i : AtHand(t, i)' => \/ AtHand(t, i) /\ Current(t)' = Current(t)
                                                    \/ i = n /\ Current(t)' = Current(s)
      /\ \A t \in Session : \A i : AtHand(t, i) => AtHand(t, i)'
      /\ AtHand(s, n)'
  BY <1>4, <1>5 DEF AtHand
<1>7. \A m, i : Listed(m, i)' <=> Listed(m, i)
  BY DEF Listed
<1>8. \A t \in Session : \A i : AtHand(t, i)' => \/ AtHand(t, i) /\ Current(t)' = Current(t)
                                                 \/ i = made + 1 /\ made' = made + 1 /\ Current(t)' = Current(s)
  BY <1>6
<1>9. PICK of : of = Current(s)
  OBVIOUS
<1>10. of \in Module \cup {None} /\ FreshAre(entries, of)
  BY <1>1, <1>9
<1>11. \A t \in Session : \A i : AtHand(t, i)' => \/ AtHand(t, i) /\ Current(t)' = Current(t)
                                                  \/ i = made + 1 /\ made' = made + 1 /\ Current(t)' = of
  BY <1>8, <1>9
<1>12. \A x \in ToSet(tree'[Home]) :
           x.of # None /\ (Listed(x.of, x.id) \/ \E t \in Session : AtHand(t, x.id)) =>
             Listed(x.of, x.id)' \/ \E t \in Session : AtHand(t, x.id)'
  BY <1>6, <1>7
<1>13. \A m \in Module : \A i : Listed(m, i)' => Listed(m, i)
  BY <1>7
<1>14. JournalTypes /\ CatalogueTypes /\ JournalInv /\ IdsKnown /\ ListsAreTrue /\ MadeAtHome
  BY DEF Holds, CatalogueInv
<1>15. \E t \in Session : AtHand(t, n)'
  BY <1>6
<1>16. ListsAreTrue' /\ IdsKnown'
  BY <1>1, <1>3, <1>10, <1>11, <1>12, <1>13, <1>14, <1>15, ListsChange
<1>17. JournalTypes' /\ JournalInv' /\ MadeAtHome'
  BY <1>1, <1>14, TreeEdit, MadeAtHomeChanges
<1>18. CatalogueTypes'
  BY <1>3 DEF Holds, CatalogueTypes
<1>19. RecordsAgree'
  BY DEF Holds, CatalogueInv, RecordsAgree, Installed
<1> QED BY <1>3, <1>16, <1>17, <1>18, <1>19 DEF Holds, CatalogueInv

\* drizzle-kit generate, and the command takes what it finds for its own.
LEMMA AddBaselineKeeps ==
  ASSUME Holds, NEW s \in Session, AddBaseline(s), InOrder'
  PROVE  Holds'
<1>1. CASE made' = made /\ tree' = tree
  BY <1>1, BaselineKeeps
<1>2. CASE \E when \in 1..MaxWhen : Receives(Home, Current(s), "whole", when, Len(tree[Home]) + 1)
  <2>1. PICK when \in 1..MaxWhen : Receives(Home, Current(s), "whole", when, Len(tree[Home]) + 1)
    BY <1>2
  <2>2. PICK at : at = Len(tree[Home]) + 1
    OBVIOUS
  <2>3. PICK n : n = made + 1
    OBVIOUS
  <2>4. PICK of : of = Current(s)
    OBVIOUS
  <2>5. /\ job[s].step = "baseline"
        /\ UNCHANGED <<lock, files, registry, halfway, head, merged, published, deployed, applied>>
    BY DEF AddBaseline, Elsewhere
  <2>6. /\ job[s] \in JobType /\ JobOk(job[s]) /\ of \in Module /\ Home \in Clone
    BY <2>4, <2>5, JobsAre, CatalogueAssumption DEF Holds
  <2>7. JournalTypes /\ JournalInv /\ Receives(Home, of, "whole", when, at)
    BY <2>1, <2>2, <2>4 DEF Holds
  <2>8. Len(tree[Home]) \in Nat /\ at \in 1..Len(tree[Home]) + 1 /\ tree[Home] \in Seq(EntryRec)
    BY <2>2, <2>6, <2>7, TreeIs
  <2>9. PICK entries : /\ Changes(Home, entries) /\ FreshAre(entries, of) /\ made' = made + 1
                       /\ entries = InsertAt(tree[Home], at, Entry(made + 1, when, of, "whole"))
    BY <2>5, <2>6, <2>7, <2>8, ReceivesChanges
  <2>10. tree'[Home] = entries /\ entries \in Seq(EntryRec) /\ n \in 1..MaxMade
    BY <2>3, <2>6, <2>7, <2>9 DEF Changes, JournalTypes
  <2>11. PICK created : created = SubSeq(entries, job[s].seen + 1, Len(entries))
    OBVIOUS
  <2>12. Strays("raced", ToSet(created) # {x \in ToSet(entries) : x.id = n})
    <3>1. made' # made /\ made' = n
      BY <2>3, <2>7, <2>9 DEF JournalTypes
    <3> QED BY <2>10, <2>11, <3>1 DEF AddBaseline
  <2>13. ToSet(created) = {x \in ToSet(entries) : x.id = n}
    BY <2>12, StaysInOrder
  <2>14. Ids(ToSet(created)) = {n}
    <3>1. PICK e : e = Entry(n, when, of, "whole")
      OBVIOUS
    <3>2. e.id = n
      BY <3>1 DEF Entry
    <3>3. e \in EntryRec
      BY <2>6, <2>10, <3>1, JournalAssumption DEF Entry, EntryRec
    <3>4. entries = InsertAt(tree[Home], at, e)
      BY <2>3, <2>9, <3>1
    <3>5. Len(entries) = Len(tree[Home]) + 1 /\ entries[at] = e
      BY <2>2, <2>8, <3>3, <3>4, Inserted
    <3>6. e \in ToSet(entries)
      BY <2>2, <2>8, <2>10, <3>5, SetOf
    <3> QED BY <2>13, <3>2, <3>6 DEF Ids
  <2>15. PICK next : next = [job[s] EXCEPT !.step = IF Current(s) \in Custom THEN "custom" ELSE "journal",
                                         !.seen = Len(entries), !.generated = {n}]
    OBVIOUS
  <2>16. Goes(s, next)
    BY <2>10, <2>11, <2>14, <2>15 DEF AddBaseline
  <2>17. next \in JobType
    <3>1. Len(entries) \in Nat /\ {n} \in MigrationIds
      BY <2>10, LenProperties DEF MigrationIds
    <3> QED BY <2>6, <2>15, <3>1 DEF JobType, AddSteps
  <2>18. /\ next.step \in {"custom", "journal"} /\ next.todo = job[s].todo /\ next.known = job[s].known
         /\ next.generated = job[s].generated \cup {n}
    <3>1. job[s].generated = {}
      BY <2>5, <2>6 DEF JobOk
    <3> QED BY <2>6, <2>15, <3>1 DEF JobType
  <2> QED BY <2>3, <2>4, <2>5, <2>9, <2>16, <2>17, <2>18, OneMore
<1> QED BY <1>1, <1>2 DEF AddBaseline

\* One entry more at the end of a tree.
LEMMA AppendChanges ==
  ASSUME JournalTypes, JournalInv, NEW c \in Clone, NEW e \in EntryRec, e.id = made + 1, made < MaxMade,
         made' = made + 1, NEW entries, entries = Append(tree[c], e), tree' = [tree EXCEPT ![c] = entries],
         UNCHANGED <<head, merged, published, deployed, applied>>
  PROVE  Changes(c, entries) /\ FreshAre(entries, e.of)
<1>1. /\ tree[c] \in Seq(EntryRec) /\ Len(tree[c]) \in Nat /\ DOMAIN tree[c] = 1..Len(tree[c])
      /\ Distinct(tree[c])
      /\ \A i \in 1..Len(tree[c]) : tree[c][i].id # made + 1 /\ tree[c][i] \in ToSet(tree[c])
  BY TreeIs
<1>2. /\ entries \in Seq(EntryRec) /\ Len(entries) = Len(tree[c]) + 1
      /\ \A i \in 1..Len(tree[c]) : entries[i] = tree[c][i]
      /\ entries[Len(tree[c]) + 1] = e
  BY <1>1, AppendProperties
<1>3. DOMAIN entries = 1..Len(tree[c]) + 1
  BY <1>2, LenProperties
<1>4. \A i \in 1..Len(tree[c]) + 1 : i \in 1..Len(tree[c]) \/ i = Len(tree[c]) + 1
  BY <1>1
<1>5. Distinct(entries)
  BY <1>1, <1>2, <1>3, <1>4 DEF Distinct
<1>6. \A x \in ToSet(entries) : x = e \/ (x \in ToSet(tree[c]) /\ x.id # made + 1)
  BY <1>1, <1>2, <1>3, <1>4 DEF ToSet
<1>7. Edited(c, entries) /\ FreshAre(entries, e.of)
  BY <1>6 DEF Edited, FreshAre
<1>8. made' \in 1..MaxMade
  BY JournalAssumption DEF JournalTypes
<1> QED BY <1>2, <1>5, <1>7, <1>8 DEF Changes

\* drizzle-kit generate --custom, and the SQL the module ships.
LEMMA AddCustomKeeps ==
  ASSUME Holds, NEW s \in Session, AddCustom(s), InOrder'
  PROVE  Holds'
<1>1. /\ job[s].step = "custom" /\ made < MaxMade /\ made' = made + 1
      /\ UNCHANGED <<lock, files, registry, halfway, head, merged, published, deployed, applied>>
  BY DEF AddCustom, Elsewhere
<1>2. PICK n : n = made + 1
  OBVIOUS
<1>3. PICK of : of = Current(s)
  OBVIOUS
<1>4. PICK old : old = tree[Home]
  OBVIOUS
<1>5. /\ job[s] \in JobType /\ JobOk(job[s]) /\ of \in Module /\ Home \in Clone
      /\ JournalTypes /\ JournalInv /\ made \in Nat
  BY <1>1, <1>3, JobsAre, CatalogueAssumption DEF Holds, JournalTypes
<1>6. old \in Seq(EntryRec) /\ Len(old) \in Nat
  BY <1>4, <1>5, TreeIs
<1>7. n \in 1..MaxMade /\ n \in Nat
  BY <1>1, <1>2, <1>5, JournalAssumption
<1>8. PICK when \in 1..MaxWhen :
        LET stub == Entry(made + 1, when, Current(s), "stub")
            entries == Append(tree[Home], stub)
            created == SubSeq(entries, job[s].seen + 1, Len(entries))
        IN  \/ /\ Len(created) = 1
               /\ Journaled([entries EXCEPT ![Len(entries)].sql = "whole"])
               /\ Goes(s, [job[s] EXCEPT !.step = "journal", !.seen = @ + 1,
                                         !.generated = @ \cup Ids(ToSet(created))])
               /\ UNCHANGED strayed
            \/ Journaled(entries) /\ Ends(s) /\ Strays("unlisted", TRUE)
  BY DEF AddCustom
<1>9. PICK stub : stub = Entry(n, when, of, "stub")
  OBVIOUS
<1>10. PICK entries : entries = Append(old, stub)
  OBVIOUS
<1>11. PICK seen : seen = job[s].seen
  OBVIOUS
<1>12. PICK created : created = SubSeq(entries, seen + 1, Len(entries))
  OBVIOUS
<1>13. \/ /\ Len(created) = 1
          /\ Journaled([entries EXCEPT ![Len(entries)].sql = "whole"])
          /\ Goes(s, [job[s] EXCEPT !.step = "journal", !.seen = @ + 1,
                                    !.generated = @ \cup Ids(ToSet(created))])
          /\ UNCHANGED strayed
       \/ Journaled(entries) /\ Ends(s) /\ Strays("unlisted", TRUE)
  BY <1>2, <1>3, <1>4, <1>8, <1>9, <1>10, <1>11, <1>12
<1>0. ~Strays("unlisted", TRUE)
  BY DEF Strays, InOrder
<1>14. Len(created) = 1
  BY <1>0, <1>13
<1>15. /\ Journaled([entries EXCEPT ![Len(entries)].sql = "whole"])
       /\ Goes(s, [job[s] EXCEPT !.step = "journal", !.seen = @ + 1,
                                 !.generated = @ \cup Ids(ToSet(created))])
  BY <1>0, <1>13
<1>16. /\ stub \in EntryRec /\ stub.id = n /\ stub.of = of
       /\ [stub EXCEPT !.sql = "whole"] \in EntryRec
       /\ [stub EXCEPT !.sql = "whole"].id = n /\ [stub EXCEPT !.sql = "whole"].of = of
  BY <1>5, <1>7, <1>9, JournalAssumption DEF Entry, EntryRec
<1>17. /\ entries \in Seq(EntryRec) /\ Len(entries) = Len(old) + 1
       /\ \A i \in 1..Len(old) : entries[i] = old[i]
       /\ entries[Len(entries)] = stub
  BY <1>6, <1>10, <1>16, AppendProperties
<1>18. PICK whole \in EntryRec : whole = [stub EXCEPT !.sql = "whole"]
  BY <1>16
<1>19. PICK final : final = Append(old, whole)
  OBVIOUS
<1>20. [entries EXCEPT ![Len(entries)].sql = "whole"] = final
  <2>1. PICK changed : changed = [entries EXCEPT ![Len(entries)].sql = "whole"]
    OBVIOUS
  <2>2. DOMAIN entries = 1..Len(old) + 1 /\ Len(entries) \in 1..Len(old) + 1
    BY <1>6, <1>17, LenProperties
  <2>7. changed = [entries EXCEPT ![Len(entries)] = whole]
    BY <1>17, <1>18, <2>1
  <2>8. changed = [i \in 1..Len(old) + 1 |-> IF i = Len(entries) THEN whole ELSE entries[i]]
    BY <2>2, <2>7, <1>17
  <2>3. changed = [i \in 1..Len(old) + 1 |-> IF i = Len(old) + 1 THEN whole ELSE old[i]]
    BY <1>6, <1>17, <2>8
  <2>4. /\ final \in Seq(EntryRec) /\ Len(final) = Len(old) + 1
        /\ \A i \in 1..Len(old) : final[i] = old[i]
        /\ final[Len(old) + 1] = whole
    BY <1>6, <1>18, <1>19, AppendProperties
  <2>5. final = [i \in 1..Len(old) + 1 |-> final[i]]
    BY <2>4, LenProperties
  <2>6. \A i \in 1..Len(old) + 1 : final[i] = IF i = Len(old) + 1 THEN whole ELSE old[i]
    BY <1>6, <2>4
  <2> QED BY <2>1, <2>3, <2>5, <2>6
<1>21. Changes(Home, final) /\ FreshAre(final, of)
  <2>1. tree' = [tree EXCEPT ![Home] = final]
    BY <1>15, <1>20 DEF Journaled
  <2>2. whole.id = made + 1 /\ whole.of = of /\ final = Append(tree[Home], whole)
    BY <1>2, <1>4, <1>16, <1>18, <1>19
  <2>3. Changes(Home, final) /\ FreshAre(final, whole.of)
    BY <1>1, <1>5, <2>1, <2>2, AppendChanges
  <2> QED BY <2>2, <2>3
<1>22. Ids(ToSet(created)) = {n}
  <2>1. seen \in Nat
    BY <1>5, <1>11 DEF JobType
  <2>2. \A i \in seen + 1..Len(entries) : entries[i] \in EntryRec
    BY <1>6, <1>17, <2>1, ElementOfSeq
  <2>3. /\ created \in Seq(EntryRec)
        /\ Len(created) = IF seen + 1 <= Len(entries) THEN Len(entries) - (seen + 1) + 1 ELSE 0
        /\ \A i \in 1..Len(entries) - (seen + 1) + 1 : created[i] = entries[seen + 1 + i - 1]
    BY <1>6, <1>12, <1>17, <2>1, <2>2, SubSeqProperties
  <2>4. Len(entries) = seen + 1
    <3>1. PICK k : k = Len(entries)
      OBVIOUS
    <3>2. k \in Nat
      BY <1>6, <1>17, <3>1
    <3>5. Len(created) = IF seen + 1 <= k THEN k - (seen + 1) + 1 ELSE 0
      BY <2>3, <3>1
    <3>6. 1 = IF seen + 1 <= k THEN k - (seen + 1) + 1 ELSE 0
      BY <1>14, <3>5
    <3>3. seen + 1 <= k
      BY <3>6
    <3>4. 1 = k - (seen + 1) + 1
      BY <3>3, <3>6
    <3> QED BY <2>1, <3>1, <3>2, <3>4
  <2>5. created[1] = stub
    <3>1. 1 \in 1..Len(entries) - (seen + 1) + 1
      BY <2>1, <2>4
    <3>2. created[1] = entries[seen + 1 + 1 - 1]
      BY <2>3, <3>1
    <3>3. seen + 1 + 1 - 1 = seen + 1
      BY <2>1
    <3> QED BY <1>17, <2>4, <3>2, <3>3
  <2>6. ToSet(created) = {stub}
    <3>1. ToSet(created) = {created[i] : i \in 1..Len(created)}
      BY <2>3, LenProperties DEF ToSet
    <3>2. 1..Len(created) = {1}
      BY <1>14
    <3> QED BY <2>5, <3>1, <3>2
  <2> QED BY <1>16, <2>6 DEF Ids
<1>23. PICK next : next = [job[s] EXCEPT !.step = "journal", !.seen = @ + 1, !.generated = @ \cup {n}]
  OBVIOUS
<1>24. Goes(s, next)
  BY <1>15, <1>22, <1>23
<1>25. next \in JobType
  <2>1. job[s].generated \cup {n} \in MigrationIds
    BY <1>5, <1>7 DEF JobType, MigrationIds
  <2>2. job[s].seen + 1 \in Nat
    BY <1>5 DEF JobType
  <2> QED BY <1>5, <1>23, <2>1, <2>2 DEF JobType, AddSteps
<1>26. /\ next.step \in {"custom", "journal"} /\ next.todo = job[s].todo /\ next.known = job[s].known
       /\ next.generated = job[s].generated \cup {n}
  BY <1>5, <1>23 DEF JobType
<1> QED BY <1>1, <1>2, <1>3, <1>21, <1>24, <1>25, <1>26, OneMore

\* A rollback step leaves in the tree some of its entries, and takes from the
\* lists what is no longer there.
LEMMA LessChange ==
  ASSUME Holds, NEW s \in Session, job[s].step = "rollback", NEW next \in JobType, JobOk(next),
         next.step \in {"idle", "rollback"}, Goes(s, next),
         NEW entries, Changes(Home, entries), FreshAre(entries, None),
         \A m \in Module : \A i : Listed(m, i)' => Listed(m, i),
         \A x \in ToSet(entries) : x.of # None /\ Listed(x.of, x.id) => Listed(x.of, x.id)',
         lock' \in LockType, files' \subseteq Module, registry' \subseteq Module, halfway' \subseteq Module,
         RecordsAgree'
  PROVE  Holds'
<1>1. Home \in Clone /\ job[s] \in JobType /\ JobOk(job[s])
  BY JobsAre, CatalogueAssumption DEF Holds
<1>2. /\ job' \in [Session -> JobType]
      /\ \A t \in Session : job'[t] = IF t = s THEN next ELSE job[t]
      /\ \A t \in Session : JobOk(job'[t])
      /\ \A t \in Session : ~Generating(t)' => job'[t].generated = {}
  BY JobGoes DEF Holds
<1>3. /\ \A t \in Session : \A i : AtHand(t, i)' <=> AtHand(t, i)
      /\ \A t \in Session : \A i : AtHand(t, i) => Current(t)' = Current(t)
  BY <1>2 DEF AtHand, Generating, Current
<1>4. JournalTypes /\ CatalogueTypes /\ JournalInv /\ IdsKnown /\ ListsAreTrue /\ MadeAtHome
  BY DEF Holds, CatalogueInv
<1>5. tree'[Home] = entries
  BY <1>1, <1>4 DEF Changes, JournalTypes
<1>6. \A x \in ToSet(tree'[Home]) :
           x.of # None /\ (Listed(x.of, x.id) \/ \E t \in Session : AtHand(t, x.id)) =>
             Listed(x.of, x.id)' \/ \E t \in Session : AtHand(t, x.id)'
  BY <1>3, <1>5
<1>7. PICK n : n = made + 1
  OBVIOUS
<1>8. \A t \in Session : \A i : AtHand(t, i)' => \/ AtHand(t, i) /\ Current(t)' = Current(t)
                                                 \/ i = made + 1 /\ made' = made + 1 /\ Current(t)' = None
  BY <1>3
<1>9. ListsAreTrue' /\ IdsKnown'
  BY <1>1, <1>2, <1>4, <1>6, <1>7, <1>8, ListsChange
<1>10. JournalTypes' /\ JournalInv' /\ MadeAtHome'
  BY <1>1, <1>4, TreeEdit, MadeAtHomeChanges
<1>11. CatalogueTypes'
  BY <1>2 DEF CatalogueTypes
<1> QED BY <1>2, <1>9, <1>10, <1>11 DEF Holds, CatalogueInv

\* What is left of a journal without some entries.
LEMMA WithoutLeaves ==
  ASSUME JournalTypes, JournalInv, Home \in Clone, NEW ids, NEW entries, entries \in Without(tree[Home], ids),
         Journaled(entries), UNCHANGED <<made, head, merged, published, deployed, applied>>
  PROVE  /\ Changes(Home, entries) /\ FreshAre(entries, None)
         /\ \A x \in ToSet(entries) : x.id \notin ids /\ x.of \in Module \cup {None}
<1>1. PICK left : left = {x \in ToSet(tree[Home]) : x.id \notin ids}
  OBVIOUS
<1>2. entries \in SetToSeqs(left)
  BY <1>1 DEF Without
<1>3. IsFiniteSet(left)
  <2>1. IsFiniteSet(ToSet(tree[Home]))
    BY JournalsAre, SetIsFinite
  <2> QED BY <1>1, <2>1, FS_Subset
<1>4. /\ entries \in Seq(left) /\ ToSet(entries) \subseteq left
      /\ \A i, k \in DOMAIN entries : entries[i] = entries[k] => i = k
  BY <1>2, <1>3, Sequenced
<1>5. left \subseteq EntryRec /\ left \subseteq ToSet(tree[Home])
  BY <1>1, EntriesAre
<1>6. entries \in Seq(EntryRec)
  BY <1>4, <1>5
<1>7. Distinct(entries)
  <2>1. \A x, y \in ToSet(tree[Home]) : x.id = y.id => x = y
    BY DEF JournalInv, IdsOnce, Distinct, ToSet
  <2>2. \A i \in DOMAIN entries : entries[i] \in ToSet(tree[Home])
    BY <1>4, <1>5 DEF ToSet
  <2> QED BY <1>4, <2>1, <2>2 DEF Distinct
<1>8. Changes(Home, entries) /\ FreshAre(entries, None)
  <2>1. tree' = [tree EXCEPT ![Home] = entries]
    BY DEF Journaled
  <2>2. Changes(Home, entries) /\ \A of : FreshAre(entries, of)
    BY <1>4, <1>5, <1>6, <1>7, <2>1, Fewer
  <2> QED BY <2>2
<1>9. \A x \in ToSet(entries) : x.id \notin ids /\ x.of \in Module \cup {None}
  BY <1>1, <1>4, <1>5 DEF EntryRec
<1> QED BY <1>8, <1>9

\* A rollback takes from one module its migrations, its files and its entry in the lock.
LEMMA RollbackActsKeeps ==
  ASSUME Holds, NEW s \in Session, RollbackActs(s), InOrder'
  PROVE  Holds'
<1>1. PICK m : m = Current(s)
  OBVIOUS
<1>2. PICK known : known = job[s].known
  OBVIOUS
<1>3. PICK rest : rest = Tail(job[s].todo)
  OBVIOUS
<1>4. PICK targets : targets = job[s].targets
  OBVIOUS
<1>5. PICK done : done = targets \ ToSet(job[s].todo)
  OBVIOUS
<1>6. /\ job[s].step = "rollback"
      /\ \E left \in Without(tree[Home], known[m]) : Journaled(left)
      /\ files' = IF lock[m] = None THEN files ELSE files \ {m}
      /\ lock' = [lock EXCEPT ![m] = None]
      /\ registry' = IF lock[m] = None THEN registry ELSE Registered(known, targets)
      /\ halfway' = IF lock[m] = None THEN halfway ELSE halfway \cap Installed(lock')
      /\ Strays("raced", \E n \in Module \ done : lock[n] # known[n])
      /\ UNCHANGED <<made, head, merged, published, deployed, applied>>
  BY <1>1, <1>2, <1>4, <1>5 DEF RollbackActs, Elsewhere
<1>7. \A n \in Module \ done : lock[n] = known[n]
  BY <1>6, StaysInOrder
<1>8. PICK next : next = IF rest = <<>> THEN Idle ELSE [job[s] EXCEPT !.todo = rest]
  OBVIOUS
<1>9. Goes(s, next)
  BY <1>3, <1>8 DEF RollbackActs, Ends
<1>10. /\ job[s] \in JobType /\ JobOk(job[s]) /\ job[s].todo \in Seq(Module) /\ job[s].todo # <<>>
       /\ m \in Module /\ m \in ToSet(job[s].todo) /\ EachOnce(job[s].todo) /\ m = Head(job[s].todo)
       /\ ToSet(job[s].todo) \subseteq targets /\ targets \subseteq Module
  BY <1>1, <1>4, <1>6, JobsAre DEF Holds, JobOk, Current, JobType
<1>11. rest \in Seq(Module) /\ EachOnce(rest) /\ ToSet(rest) \subseteq targets
  BY <1>3, <1>10, RestIs
<1>12. next \in JobType /\ JobOk(next) /\ next.step \in {"idle", "rollback"}
  <2>1. CASE rest = <<>>
    BY <1>8, <2>1, Idles DEF Idle, Job
  <2>2. CASE rest # <<>>
    <3>1. next \in JobType
      BY <1>8, <1>10, <1>11, <2>2 DEF JobType
    <3>2. /\ next.step = "rollback" /\ next.todo = rest /\ next.targets = targets
          /\ next.generated = job[s].generated /\ job[s].generated = {}
      BY <1>4, <1>6, <1>8, <1>10, <2>2 DEF JobType, JobOk
    <3> QED BY <1>11, <2>2, <3>1, <3>2 DEF JobOk, AddSteps
  <2> QED BY <2>1, <2>2
<1>13. /\ JournalTypes /\ JournalInv /\ Home \in Clone /\ lock \in LockType
       /\ registry \ halfway \subseteq Installed(lock) /\ Installed(lock) \ halfway \subseteq files
       /\ files \subseteq Module /\ registry \subseteq Module /\ halfway \subseteq Module
  BY CatalogueAssumption DEF Holds, CatalogueTypes, CatalogueInv, RecordsAgree
<1>14. PICK entries \in Without(tree[Home], known[m]) : Journaled(entries)
  BY <1>6
<1>15. /\ Changes(Home, entries) /\ FreshAre(entries, None)
       /\ \A x \in ToSet(entries) : x.id \notin known[m] /\ x.of \in Module \cup {None}
  BY <1>6, <1>13, <1>14, WithoutLeaves
<1>23. \A n \in Module : lock'[n] = IF n = m THEN None ELSE lock[n]
  BY <1>6, <1>10, <1>13 DEF LockType
<1>24. lock' \in LockType
  BY <1>6, <1>10, <1>13 DEF LockType
<1>25. m \notin done /\ lock[m] = known[m]
  BY <1>5, <1>7, <1>10
<1>26. \A n \in Module : \A i : Listed(n, i)' <=> n # m /\ Listed(n, i)
  BY <1>23 DEF Listed
<1>27. ASSUME NEW x \in ToSet(entries), x.of # None, Listed(x.of, x.id) PROVE Listed(x.of, x.id)'
  <2>1. x.of # m
    BY <1>15, <1>25, <1>27 DEF Listed
  <2>2. x.of \in Module
    BY <1>15, <1>27
  <2> QED BY <1>26, <1>27, <2>1, <2>2
<1>28. \A n \in Module : \A i : Listed(n, i)' => Listed(n, i)
  BY <1>26
<1>29. Installed(lock') = Installed(lock) \ {m} /\ Installed(lock)' = Installed(lock')
  BY <1>23 DEF Installed
<1>30. CASE lock[m] = None
  <2>1. files' = files /\ registry' = registry /\ halfway' = halfway /\ Installed(lock') = Installed(lock)
    BY <1>6, <1>29, <1>30 DEF Installed
  <2>2. RecordsAgree' /\ files' \subseteq Module /\ registry' \subseteq Module /\ halfway' \subseteq Module
    BY <1>13, <1>29, <2>1 DEF RecordsAgree
  <2> QED BY <1>6, <1>9, <1>12, <1>15, <1>24, <1>27, <1>28, <2>2, LessChange
<1>31. CASE lock[m] # None
  <2>1. /\ files' = files \ {m} /\ registry' = Installed(known) \ targets
        /\ halfway' = halfway \cap Installed(lock')
    BY <1>6, <1>31 DEF Registered
  <2>2. ASSUME NEW n \in Module, known[n] # None, n \notin targets PROVE lock'[n] # None
    <3>1. n \in Module \ done /\ n # m
      BY <1>5, <1>10, <2>2
    <3> QED BY <1>7, <1>23, <2>2, <3>1
  <2>3. registry' \subseteq Installed(lock')
    BY <2>1, <2>2 DEF Installed
  <2>4. RecordsAgree'
    BY <1>13, <1>29, <2>1, <2>3 DEF RecordsAgree
  <2>5. files' \subseteq Module /\ registry' \subseteq Module /\ halfway' \subseteq Module
    BY <1>13, <2>1, <2>3 DEF Installed
  <2> QED BY <1>6, <1>9, <1>12, <1>15, <1>24, <1>27, <1>28, <2>4, <2>5, LessChange
<1> QED BY <1>30, <1>31

\* It dies with files of the migrations removed and the entries there.
LEMMA RollbackDiesEarlyKeeps ==
  ASSUME Holds, NEW s \in Session, RollbackDiesEarly(s)
  PROVE  Holds'
<1>1. PICK ids \in SUBSET job[s].known[Current(s)] : Journaled(WithoutFiles(tree[Home], ids))
  BY DEF RollbackDiesEarly
<1>2. PICK old : old = tree[Home]
  OBVIOUS
<1>3. PICK entries : entries = WithoutFiles(old, ids)
  OBVIOUS
<1>4. /\ job[s].step = "rollback" /\ tree' = [tree EXCEPT ![Home] = entries] /\ Goes(s, Idle)
      /\ UNCHANGED <<made, lock, files, registry, halfway, head, merged, published, deployed, applied>>
  BY <1>1, <1>2, <1>3 DEF RollbackDiesEarly, Journaled, Ends, Elsewhere
<1>5. JournalTypes /\ JournalInv /\ Home \in Clone
  BY CatalogueAssumption DEF Holds
<1>6. /\ old \in Seq(EntryRec) /\ Len(old) \in Nat /\ DOMAIN old = 1..Len(old) /\ Distinct(old)
      /\ \A i \in 1..Len(old) : old[i] \in EntryRec /\ old[i] \in ToSet(old) /\ old[i].id # made + 1
      /\ made \in 1..MaxMade
  BY <1>2, <1>5, TreeIs DEF JournalTypes
<1>7. entries = [i \in 1..Len(old) |-> [old[i] EXCEPT !.sql = IF old[i].id \in ids THEN "gone" ELSE @]]
  BY <1>3, <1>6 DEF WithoutFiles
<1>8. \A i \in 1..Len(old) : /\ entries[i] \in EntryRec /\ entries[i].id = old[i].id
                             /\ entries[i].of = old[i].of /\ entries[i].when = old[i].when
  BY <1>6, <1>7 DEF EntryRec
<1>9. entries \in Seq(EntryRec) /\ DOMAIN entries = 1..Len(old)
  <2>1. entries \in [1..Len(old) -> EntryRec]
    BY <1>7, <1>8
  <2> QED BY <1>6, <2>1
<1>10. Distinct(entries)
  BY <1>6, <1>8, <1>9 DEF Distinct
<1>11. \A x \in ToSet(entries) : \E y \in ToSet(old) : /\ y.id = x.id /\ y.of = x.of /\ y.when = x.when
                                                      /\ x.id # made + 1
  <2>1. SUFFICES ASSUME NEW x \in ToSet(entries)
                 PROVE  \E y \in ToSet(old) : /\ y.id = x.id /\ y.of = x.of /\ y.when = x.when
                                              /\ x.id # made + 1
    OBVIOUS
  <2>2. PICK i \in 1..Len(old) : x = entries[i]
    BY <1>9 DEF ToSet
  <2>3. old[i] \in ToSet(old) /\ old[i].id # made + 1
    BY <1>6, <2>2
  <2>4. x.id = old[i].id /\ x.of = old[i].of /\ x.when = old[i].when
    BY <1>8, <2>2
  <2> QED BY <2>3, <2>4
<1>12. Changes(Home, entries) /\ FreshAre(entries, None)
  BY <1>2, <1>4, <1>6, <1>9, <1>10, <1>11 DEF Changes, Edited, FreshAre
<1>13. Idle \in JobType /\ JobOk(Idle) /\ Idle.step = "idle"
  BY Idles DEF Idle, Job
<1>14. \A n, i : Listed(n, i)' <=> Listed(n, i)
  BY <1>4 DEF Listed
<1>15. /\ lock' \in LockType /\ files' \subseteq Module /\ registry' \subseteq Module
       /\ halfway' \subseteq Module /\ RecordsAgree'
  <2>1. RecordsAgree /\ CatalogueTypes
    BY DEF Holds, CatalogueInv
  <2>2. lock' = lock /\ files' = files /\ registry' = registry /\ halfway' = halfway
    BY <1>4
  <2>3. RecordsAgree'
    BY <2>1, <2>2 DEF RecordsAgree, Installed
  <2> QED BY <2>1, <2>2, <2>3 DEF CatalogueTypes
<1> QED BY <1>4, <1>12, <1>13, <1>14, <1>15, LessChange

\* It dies with the entries removed: its module is one whose rollback died.
LEMMA RollbackDiesKeeps ==
  ASSUME Holds, NEW s \in Session, RollbackDies(s), InOrder'
  PROVE  Holds'
<1>1. PICK m : m = Current(s)
  OBVIOUS
<1>2. PICK known : known = job[s].known
  OBVIOUS
<1>3. PICK done : done = job[s].targets \ ToSet(job[s].todo)
  OBVIOUS
<1>4. /\ job[s].step = "rollback" /\ lock[m] # None
      /\ \E left \in Without(tree[Home], known[m]) : Journaled(left)
      /\ \/ files' \in {files, files \ {m}} /\ lock' = lock
         \/ files' = files \ {m} /\ lock' = [lock EXCEPT ![m] = None]
      /\ halfway' = halfway \cup {m} /\ Goes(s, Idle)
      /\ Strays("raced", \E n \in Module \ done : lock[n] # known[n])
      /\ UNCHANGED <<made, registry, head, merged, published, deployed, applied>>
  BY <1>1, <1>2, <1>3 DEF RollbackDies, Ends, Elsewhere
<1>5. \A n \in Module \ done : lock[n] = known[n]
  BY <1>4, StaysInOrder
<1>6. m \in Module /\ m \in ToSet(job[s].todo)
  BY <1>1, <1>4, JobsAre DEF Holds
<1>7. m \notin done /\ lock[m] = known[m]
  BY <1>3, <1>5, <1>6
<1>8. Idle \in JobType /\ JobOk(Idle) /\ Idle.step = "idle"
  BY Idles DEF Idle, Job
<1>9. /\ JournalTypes /\ JournalInv /\ Home \in Clone /\ lock \in LockType
      /\ registry \ halfway \subseteq Installed(lock) /\ Installed(lock) \ halfway \subseteq files
      /\ files \subseteq Module /\ registry \subseteq Module /\ halfway \subseteq Module
  BY CatalogueAssumption DEF Holds, CatalogueTypes, CatalogueInv, RecordsAgree
<1>10. PICK entries \in Without(tree[Home], known[m]) : Journaled(entries)
  BY <1>4
<1>11. /\ Changes(Home, entries) /\ FreshAre(entries, None)
       /\ \A x \in ToSet(entries) : x.id \notin known[m] /\ x.of \in Module \cup {None}
  BY <1>4, <1>9, <1>10, WithoutLeaves
<1>12. lock' \in LockType /\ \A n \in Module \ {m} : lock'[n] = lock[n]
  BY <1>4, <1>6, <1>9 DEF LockType
<1>13. lock'[m] \in {lock[m], None}
  BY <1>4, <1>6, <1>9 DEF LockType
<1>14. \A n \in Module : \A i : Listed(n, i)' => Listed(n, i)
  BY <1>12, <1>13 DEF Listed
<1>15. ASSUME NEW x \in ToSet(entries), x.of # None, Listed(x.of, x.id) PROVE Listed(x.of, x.id)'
  <2>1. x.of \in Module \ {m}
    BY <1>7, <1>11, <1>15 DEF Listed
  <2> QED BY <1>12, <1>15, <2>1 DEF Listed
<1>16. files' \subseteq Module /\ registry' \subseteq Module /\ halfway' \subseteq Module
  BY <1>4, <1>6, <1>9
<1>17. RecordsAgree'
  <2>1. Installed(lock)' = Installed(lock')
    BY DEF Installed
  <2>2. Installed(lock') \ {m} = Installed(lock) \ {m}
    BY <1>12 DEF Installed
  <2>3. files \ {m} \subseteq files' /\ registry' = registry /\ halfway' = halfway \cup {m}
    BY <1>4
  <2> QED BY <1>9, <2>1, <2>2, <2>3 DEF RecordsAgree
<1> QED BY <1>4, <1>8, <1>11, <1>12, <1>14, <1>15, <1>16, <1>17, LessChange

-----------------------------------------------------------------------------
(* The theorems.                                                           *)

\* A new product, or one from before the catalogue.
LEMMA InitHolds ==
  ASSUME Init
  PROVE  Holds
<1>1. PICK e : e = Entry(1, 1, None, "whole")
  OBVIOUS
<1>2. /\ e \in EntryRec /\ e.id = 1 /\ e.when = 1 /\ e.of = None
  BY <1>1, JournalAssumption DEF Entry, EntryRec
<1>3. /\ Born = <<e>> /\ Born \in Seq(EntryRec) /\ Len(Born) = 1 /\ DOMAIN Born = 1..1 /\ Born[1] = e
  BY <1>1, <1>2 DEF Born
<1>4. ToSet(Born) = {e} /\ Distinct(Born) /\ WhenOrdered(Born)
  BY <1>3 DEF ToSet, Distinct, WhenOrdered
<1>5. /\ made = 1 /\ \A c \in Clone : tree[c] = Born /\ head[c] = Born /\ merged[c] = 1
      /\ published = <<Born>> /\ deployed = 0 /\ applied = {}
      /\ tree = [c \in Clone |-> Born] /\ head = [c \in Clone |-> Born] /\ merged = [c \in Clone |-> 1]
  BY DEF Init, JournalInit
<1>6. published \in Seq(Seq(EntryRec)) \ {<<>>} /\ Len(published) = 1 /\ published[1] = Born
  BY <1>3, <1>5
<1>7. JournalTypes
  <2>1. made \in 1..MaxMade
    BY <1>5, JournalAssumption
  <2> QED BY <1>3, <1>5, <1>6, <2>1 DEF JournalTypes
<1>8. Versions = {1} /\ Main(1) = {e} /\ Published = {e} /\ Existing = {e}
      /\ \A c \in Clone : Held(c) = {e} /\ ToSet(head[c]) = {e} /\ ToSet(tree[c]) = {e} /\ merged[c] = 1
  <2>1. Versions = {1} /\ Main(1) = {e}
    BY <1>4, <1>6 DEF Versions, Main
  <2>2. \A c \in Clone : Held(c) = {e} /\ ToSet(head[c]) = {e} /\ ToSet(tree[c]) = {e} /\ merged[c] = 1
    BY <1>4, <1>5 DEF Held
  <2>3. Published = {e}
    BY <2>1 DEF Published
  <2> QED BY <2>1, <2>2, <2>3 DEF Existing
<1>9. IdsOnce
  BY <1>2, <1>4, <1>5, <1>8 DEF IdsOnce
<1>10. NewIsPrivate
  BY <1>8 DEF NewIsPrivate, Ids
<1>11. SameWhen /\ \A c \in Clone : TreeFollows(c)
  BY <1>8 DEF SameWhen, TreeFollows
<1>12. \A v \in Versions : WhenOrdered(published[v])
  BY <1>4, <1>6, <1>8
<1>13. Rising /\ LaterIsNewer
  BY <1>8 DEF Rising, LaterIsNewer
<1>14. Runs
  BY <1>5 DEF Runs
<1>15. MadeAtHome
  <2>1. \A v \in merged[Home]..Len(published) : v \in Versions
    BY <1>6, <1>8, CatalogueAssumption DEF Versions
  <2> QED BY <1>2, <1>8, <2>1 DEF MadeAtHome
<1>16. /\ lock = NothingLocked /\ files \subseteq Module /\ registry = {} /\ halfway = {}
       /\ job = [s \in Session |-> Idle] /\ \A s \in Session : job[s] = Idle
  BY CatalogueAssumption DEF Init
<1>17. CatalogueTypes
  BY <1>16, Idles DEF CatalogueTypes, NothingLocked, LockType
<1>18. \A m \in Module : lock[m] = None
  BY <1>16 DEF NothingLocked
<1>19. \A s \in Session : JobOk(job[s]) /\ job[s].generated = {}
  BY <1>16, Idles DEF Idle, Job
<1>20. IdsKnown
  BY <1>18, <1>19 DEF IdsKnown
<1>21. ListsAreTrue
  BY <1>2, <1>8, <1>18, <1>19, CatalogueAssumption DEF ListsAreTrue, Listed, AtHand
<1>22. RecordsAgree
  BY <1>16, <1>18 DEF RecordsAgree, Installed
<1> QED
  BY <1>7, <1>9, <1>10, <1>11, <1>12, <1>13, <1>14, <1>15, <1>17, <1>19, <1>20, <1>21, <1>22
     DEF Holds, JournalInv, CatalogueInv

\* What the order of things did not survive is not forgotten.
LEMMA StrayedGrows ==
  ASSUME Next, InOrder'
  PROVE  InOrder
<1>1. ASSUME JournalNext, UNCHANGED catalogue PROVE InOrder
  <2>1. CASE \E c \in Clone : Push(c)
    BY <2>1 DEF Push, InOrder
  <2>2. CASE strayed' = strayed
    BY <2>2 DEF InOrder
  <2> QED
    BY <1>1, <2>1, <2>2 DEF JournalNext, Make, Restamp, Edits, Withdraw, Rename, Commit, Pull,
       Deploy
<1>2. ASSUME NEW s \in Session,
             \/ AddReads(s) \/ AddRecords(s) \/ AddChecks(s) \/ AddBaseline(s) \/ AddCustom(s) \/ AddLists(s)
             \/ AddDies(s) \/ GivesUp(s)
             \/ RollbackReads(s) \/ RollbackActs(s) \/ RollbackDiesEarly(s) \/ RollbackDies(s)
             \/ Adopt(s)
      PROVE  InOrder
  <2>1. CASE AddReads(s) \/ AddChecks(s) \/ RollbackReads(s) \/ RollbackDiesEarly(s)
    BY <2>1 DEF AddReads, AddChecks, RollbackReads, RollbackDiesEarly, journal, InOrder
  <2>2. CASE \/ AddRecords(s) \/ AddBaseline(s) \/ AddLists(s) \/ AddDies(s) \/ GivesUp(s)
             \/ RollbackActs(s) \/ RollbackDies(s) \/ Adopt(s)
    <3>1. \E kind : \E P \in BOOLEAN : Strays(kind, P)
      <4>1. CASE AddRecords(s)
        BY <4>1 DEF AddRecords, Strays
      <4>2. CASE AddBaseline(s)
        BY <4>2 DEF AddBaseline, Strays
      <4>3. CASE AddLists(s)
        BY <4>3 DEF AddLists, Strays
      <4>4. CASE GivesUp(s)
        BY <4>4 DEF GivesUp, Strays
      <4>5. CASE RollbackActs(s)
        BY <4>5 DEF RollbackActs, Strays
      <4>6. CASE Adopt(s)
        BY <4>6 DEF Adopt, Strays
      <4>7. CASE AddDies(s)
        BY <4>7 DEF AddDies, Strays
      <4>8. CASE RollbackDies(s)
        BY <4>8 DEF RollbackDies, Strays
      <4> QED BY <2>2, <4>1, <4>2, <4>3, <4>4, <4>5, <4>6, <4>7, <4>8
    <3> QED BY <3>1 DEF Strays, InOrder
  <2>3. CASE AddCustom(s)
    <3>1. strayed' = strayed \/ Strays("unlisted", TRUE)
      BY <2>3 DEF AddCustom
    <3> QED BY <3>1 DEF Strays, InOrder
  <2> QED BY <1>2, <2>1, <2>2, <2>3
<1> QED BY <1>1, <1>2 DEF Next

\* Every step keeps what holds, while the order of things survives it.
LEMMA NextHolds ==
  ASSUME Holds, Next, InOrder'
  PROVE  Holds'
<1>1. ASSUME JournalNext, UNCHANGED catalogue PROVE Holds'
  BY <1>1, JournalMoves DEF Holds
<1>2. ASSUME NEW s \in Session,
             \/ AddReads(s) \/ AddRecords(s) \/ AddChecks(s) \/ AddBaseline(s) \/ AddCustom(s) \/ AddLists(s)
             \/ AddDies(s) \/ GivesUp(s)
             \/ RollbackReads(s) \/ RollbackActs(s) \/ RollbackDiesEarly(s) \/ RollbackDies(s)
             \/ Adopt(s)
      PROVE  Holds'
  BY <1>2, AddReadsKeeps, AddRecordsKeeps, AddChecksKeeps, AddBaselineKeeps, AddCustomKeeps,
     AddListsKeeps, AddDiesKeeps, GivesUpKeeps, RollbackReadsKeeps, RollbackActsKeeps,
     RollbackDiesEarlyKeeps, RollbackDiesKeeps, AdoptKeeps
<1> QED BY <1>1, <1>2 DEF Next

\* And so does no step.
LEMMA UnchangedHolds ==
  ASSUME Holds, UNCHANGED vars
  PROVE  Holds'
<1>1. UNCHANGED <<made, tree, head, merged, published, deployed, applied, lock, files, registry, halfway, job>>
  BY DEF vars, journal, clones, catalogue
<1>2. JournalTypes' /\ JournalInv' /\ MadeAtHome' /\ Existing' = Existing
  BY <1>1, JournalStays DEF Holds, CatalogueInv
<1>3. ListsAreTrue'
  BY <1>1, <1>2, ListsKeep DEF Holds, CatalogueInv
<1>4. CatalogueTypes' /\ IdsKnown' /\ (\A s \in Session : JobOk(job[s]))'
      /\ RecordsAgree'
  BY <1>1 DEF Holds, CatalogueTypes, CatalogueInv, RecordsAgree, IdsKnown, Installed
<1> QED BY <1>2, <1>3, <1>4 DEF Holds, CatalogueInv

\* Between commands, the lock says what is in the tree.
LEMMA LockTrue ==
  ASSUME Holds
  PROVE  LockIsTrue
<1> SUFFICES ASSUME \A s \in Session : job[s] = Idle
             PROVE  /\ registry \ halfway \subseteq Installed(lock) /\ Installed(lock) \ halfway \subseteq files
                    /\ \A x \in ToSet(tree[Home]) :
                         {m \in Installed(lock) : x.id \in lock[m]} = IF x.of = None THEN {} ELSE {x.of}
  BY DEF LockIsTrue
<1>1. registry \ halfway \subseteq Installed(lock) /\ Installed(lock) \ halfway \subseteq files
  BY DEF Holds, CatalogueInv, RecordsAgree
<1>2. \A s \in Session : \A i : ~AtHand(s, i)
  BY DEF AtHand, Generating, Idle, Job
<1>3. ASSUME NEW x \in ToSet(tree[Home])
      PROVE  {m \in Installed(lock) : x.id \in lock[m]} = IF x.of = None THEN {} ELSE {x.of}
  <2>1. x \in Existing /\ x.of \in Module \cup {None} /\ None \notin Module
    BY HeldExist, EntriesAre, CatalogueAssumption, JournalAssumption DEF Holds, EntryRec
  <2>2. \A m \in Module : Listed(m, x.id) => x.of = m
    BY <2>1 DEF Holds, CatalogueInv, ListsAreTrue
  <2>3. x.of # None => Listed(x.of, x.id)
    BY <1>2 DEF Holds, CatalogueInv, ListsAreTrue
  <2>4. {m \in Installed(lock) : x.id \in lock[m]} = {m \in Module : Listed(m, x.id)}
    BY DEF Installed, Listed
  <2> QED BY <2>1, <2>2, <2>3, <2>4
<1> QED BY <1>1, <1>3

\* Whatever clones generate, receive, restamp, merge and publish, whatever commands do,
\* fail and die at, for any number of them and of modules: what is known of the journals,
\* the lock and the commands holds for as long as the order of things is one the code
\* survives.
THEOREM OrderStands == Spec => [](InOrder => Holds)
<1>1. Init => (InOrder => Holds)
  BY InitHolds
<1>2. (InOrder => Holds) /\ [Next]_vars => (InOrder => Holds)'
  <2>1. CASE Next
    BY <2>1, NextHolds, StrayedGrows
  <2>2. CASE UNCHANGED vars
    <3>1. InOrder' <=> InOrder
      BY <2>2 DEF vars, journal, InOrder
    <3> QED BY <2>2, <3>1, UnchangedHolds
  <2> QED BY <2>1, <2>2
<1> QED BY <1>1, <1>2, PTL DEF Spec

\* migrate.ts skips by `when' alone, and yet every entry of the deployed journal has run
\* once: the check lets nothing into main that is older than what was there, and no entry
\* that was published changes its `when'.
THEOREM EntriesRunStand == Spec => []EachEntryRuns
<1>1. (InOrder => Holds) => EachEntryRuns
  <2>1. CASE Holds
    BY <2>1, EntriesRun DEF Holds
  <2>2. CASE ~InOrder
    BY <2>2 DEF EachEntryRuns
  <2> QED BY <2>1, <2>2
<1> QED BY <1>1, OrderStands, PTL

\* Between commands, the registry is in the lock and the lock is in the tree, and every
\* migration generated for a module is listed under it and under no other, through
\* failures and deaths at any step of any number of commands: a rollback that died leaves
\* its own module out of the first two, and out of the third none.
THEOREM LockStands == Spec => []LockIsTrue
<1>1. (InOrder => Holds) => LockIsTrue
  <2>1. CASE Holds
    BY <2>1, LockTrue
  <2>2. CASE ~InOrder
    BY <2>2 DEF LockIsTrue
  <2> QED BY <2>1, <2>2
<1> QED BY <1>1, OrderStands, PTL
=============================================================================
