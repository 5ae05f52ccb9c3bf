----------------------------- MODULE ReleaseProofs -----------------------------
(***************************************************************************)
(* Machine-checked facts about Release, for any number of sessions, clones,*)
(* versions and commits.  What a step does to one variable is said first,  *)
(* once for all actions; then each part of the inductive invariant has one *)
(* lemma: the lease of a release that cuts, the releases that are over on  *)
(* every branch, the marker that is new to its clone, the one holder of a  *)
(* stamp, and the way of a marker to origin.                               *)
(***************************************************************************)
EXTENDS Release, SequenceTheorems, FiniteSetTheorems, TLAPS

Commits == [id: Nat \ {0}, version: Nat]
Run == [marker: Commits, state: {"live", "red", "done"}]

Step == {"idle", "finished", "probes", "guards", "commit", "stamp", "complete", "push", "blocked",
         "transfer", "confirm", "clear", "upgrade", "abort", "forceAbort"}

TypeInv ==
  /\ clone \in [Session -> Clone] /\ made \in Nat
  /\ main \in [Clone -> Seq(Commits)] /\ origin \in Seq(Commits)
  /\ tags \subseteq Nat /\ runs \subseteq Run
  /\ lease \in [Clone -> Lease \cup {None}]
  /\ pc \in [Session -> Step] /\ ver \in [Session -> Nat]
  /\ read \in [Session -> Lease \cup {None}]
  /\ seen \in [Session -> Nat] /\ sha \in [Session -> Nat]
  /\ out \in [Session -> Seq(Commits)]

\* A step that judges a lease has read one, and what it saw of the tags is so.
Judged ==
  \A s \in Session :
    /\ pc[s] \in {"finished", "blocked", "clear", "upgrade", "abort", "forceAbort"} => read[s] # None
    /\ pc[s] = "clear" => read[s].version \in tags
    /\ pc[s] = "upgrade" => read[s].stage = "marker-local"
    /\ pc[s] = "idle" => ver[s] = 0
    /\ pc[s] \in {"finished", "probes"} \/ Cutting(s) => ver[s] # 0

-----------------------------------------------------------------------------
(* Branches *)

LEMMA BranchFacts ==
  ASSUME NEW S, NEW b \in Seq(S)
  PROVE  /\ Len(b) \in Nat /\ DOMAIN b = 1..Len(b) /\ \A i \in DOMAIN b : b[i] \in S
         /\ b # <<>> => Len(b) >= 1 /\ Len(b) \in DOMAIN b
         /\ Len(b) = 0 => b = <<>>
<1>1. Len(b) \in Nat /\ DOMAIN b = 1..Len(b)
  BY LenProperties
<1>2. QED
  BY <1>1, ElementOfSeq, EmptySeq

\* A commit of a branch.
LEMMA CommitFacts ==
  ASSUME NEW b \in Seq(Commits), NEW i \in DOMAIN b
  PROVE  b[i] \in Commits /\ b[i].id \in Nat \ {0} /\ b[i].version \in Nat
<1>1. b[i] \in Commits
  BY BranchFacts
<1>2. QED
  BY <1>1 DEF Commits

\* The top of a branch.
LEMMA TopFacts ==
  ASSUME NEW b \in Seq(Commits)
  PROVE  /\ b # <<>> => Top(b) = b[Len(b)] /\ Len(b) \in DOMAIN b /\ Top(b) \in Commits
         /\ b = <<>> => Top(b).id = 0 /\ Top(b).version = 0
         /\ Top(b).id \in Nat /\ Top(b).version \in Nat
         /\ Top(b).id # 0 => b # <<>>
<1>1. CASE b = <<>>
  BY <1>1 DEF Top, Ordinary
<1>2. CASE b # <<>>
  <2>1. Len(b) \in DOMAIN b /\ b[Len(b)] \in Commits
    BY <1>2, BranchFacts
  <2>2. Top(b) = b[Len(b)]
    BY <1>2 DEF Top, Last
  <2>3. QED
    BY <1>2, <2>1, <2>2 DEF Commits
<1>3. QED
  BY <1>1, <1>2

\* A sequence with one element more.
LEMMA AppendFacts ==
  ASSUME NEW S, NEW s \in Seq(S), NEW e \in S
  PROVE  /\ Append(s, e) \in Seq(S) /\ Append(s, e) # <<>> /\ Len(Append(s, e)) = Len(s) + 1
         /\ DOMAIN Append(s, e) = 1..Len(s) + 1
         /\ \A i \in 1..Len(s) : Append(s, e)[i] = s[i]
         /\ Append(s, e)[Len(s) + 1] = e
<1>1. Append(s, e) \in Seq(S) /\ Len(s) \in Nat
  BY AppendProperties, LenProperties
<1>2. DOMAIN Append(s, e) = 1..Len(Append(s, e))
  BY <1>1, LenProperties
<1>3. QED
  BY <1>1, <1>2, AppendProperties

\* A sequence without its last element.
LEMMA FrontFacts ==
  ASSUME NEW S, NEW s \in Seq(S), s # <<>>
  PROVE  /\ Front(s) \in Seq(S) /\ Len(Front(s)) = Len(s) - 1 /\ Len(s) \in Nat \ {0}
         /\ DOMAIN Front(s) = 1..Len(s) - 1
         /\ \A i \in 1..Len(s) - 1 : Front(s)[i] = s[i]
<1>1. Len(s) \in Nat \ {0} /\ \A i \in 1..Len(s) : s[i] \in S
  BY EmptySeq, ElementOfSeq
<1> DEFINE n == Len(s)
           f == SubSeq(s, 1, n - 1)
<1>2. 1 \in Int /\ n - 1 \in Int /\ \A i \in 1..n - 1 : s[i] \in S
  BY <1>1
<1>3. /\ f \in Seq(S) /\ Len(f) = (IF 1 <= n - 1 THEN (n - 1) - 1 + 1 ELSE 0)
      /\ \A i \in 1..((n - 1) - 1 + 1) : f[i] = s[1 + i - 1]
  BY <1>2, SubSeqProperties
<1>4. Front(s) = f
  BY DEF Front
<1> HIDE DEF f
<1>5. Len(f) = n - 1 /\ \A i \in 1..n - 1 : f[i] = s[i]
  <2>1. n \in Int /\ n >= 1
    BY <1>1
  <2> HIDE DEF n
  <2>2. Len(f) = n - 1
    BY <1>3, <2>1
  <2>3. \A i \in 1..n - 1 : i \in 1..((n - 1) - 1 + 1) /\ 1 + i - 1 = i
    BY <2>1
  <2>4. QED
    BY <1>3, <2>2, <2>3
<1>6. DOMAIN f = 1..n - 1
  BY <1>3, <1>5, LenProperties
<1>7. QED
  BY <1>1, <1>3, <1>4, <1>5, <1>6

\* A part of a branch, from its m-th commit to its n-th.
LEMMA PartFacts ==
  ASSUME NEW S, NEW s \in Seq(S), NEW m \in Nat \ {0}, NEW n \in Nat, n <= Len(s), m <= n + 1
  PROVE  /\ SubSeq(s, m, n) \in Seq(S) /\ Len(SubSeq(s, m, n)) = n + 1 - m
         /\ DOMAIN SubSeq(s, m, n) = 1..(n + 1 - m)
         /\ \A i \in 1..(n + 1 - m) : SubSeq(s, m, n)[i] = s[m + i - 1]
<1>1. m \in Int /\ n \in Int /\ \A i \in m..n : s[i] \in S
  <2>1. Len(s) \in Nat /\ \A i \in 1..Len(s) : s[i] \in S
    BY ElementOfSeq, LenProperties
  <2>2. QED
    BY <2>1
<1> DEFINE f == SubSeq(s, m, n)
<1>2. /\ f \in Seq(S) /\ Len(f) = (IF m <= n THEN n - m + 1 ELSE 0)
      /\ \A i \in 1..(n - m + 1) : f[i] = s[m + i - 1]
  BY <1>1, SubSeqProperties
<1>3. DOMAIN f = 1..Len(f)
  BY <1>2, LenProperties
<1> HIDE DEF f
<1>4. n - m + 1 = n + 1 - m /\ Len(f) = n + 1 - m
  BY <1>1, <1>2
<1>5. f \in Seq(S) /\ Len(f) = n + 1 - m /\ DOMAIN f = 1..(n + 1 - m) /\ \A i \in 1..(n + 1 - m) : f[i] = s[m + i - 1]
  BY <1>2, <1>3, <1>4
<1>6. QED
  BY <1>5 DEF f

\* One branch continues another when it starts with all of its commits.
LEMMA PrefixFacts ==
  ASSUME NEW S, NEW s \in Seq(S), NEW t \in Seq(S), IsPrefix(s, t)
  PROVE  Len(s) <= Len(t) /\ DOMAIN s \subseteq DOMAIN t /\ \A i \in DOMAIN s : s[i] = t[i]
<1> DEFINE n == Len(s)
<1>1. n \in Nat /\ Len(t) \in Nat /\ n <= Len(t) /\ DOMAIN s = 1..n /\ DOMAIN t = 1..Len(t)
  BY LenProperties DEF IsPrefix
<1>2. SubSeq(s, 1, n) = SubSeq(t, 1, n)
  BY DEF IsPrefix
<1> HIDE DEF n
<1>3. 1 \in Nat \ {0} /\ 1 <= n + 1 /\ n + 1 - 1 = n
  BY <1>1
<1>4. n <= Len(s)
  BY DEF n
<1>5. \A i \in 1..n : SubSeq(s, 1, n)[i] = s[1 + i - 1]
  BY <1>1, <1>3, <1>4, PartFacts
<1>6. \A i \in 1..n : SubSeq(t, 1, n)[i] = t[1 + i - 1]
  BY <1>1, <1>3, PartFacts
<1>7. \A i \in 1..n : 1 + i - 1 = i
  BY <1>1
<1>8. \A i \in 1..n : s[i] = t[i]
  BY <1>2, <1>5, <1>6, <1>7
<1>9. 1..n \subseteq 1..Len(t)
  BY <1>1
<1>10. Len(s) <= Len(t)
  BY <1>1 DEF n
<1>11. QED
  BY <1>1, <1>8, <1>9, <1>10

\* What a branch shares with another it has at the same places.
LEMMA SharedFacts ==
  ASSUME NEW b \in Seq(Commits), NEW o \in Seq(Commits), NEW n \in Nat, n <= Len(o),
         IsPrefix(SubSeq(o, 1, n), b)
  PROVE  n <= Len(b) /\ \A i \in 1..n : b[i] = o[i]
<1> DEFINE k == SubSeq(o, 1, n)
<1>1. 1 \in Nat \ {0} /\ 1 <= n + 1 /\ n + 1 - 1 = n
  OBVIOUS
<1>2. k \in Seq(Commits) /\ Len(k) = n /\ DOMAIN k = 1..n /\ \A i \in 1..n : k[i] = o[1 + i - 1]
  BY <1>1, PartFacts
<1> HIDE DEF k
<1>3. n <= Len(b) /\ \A i \in 1..n : k[i] = b[i]
  <2>1. IsPrefix(k, b)
    BY DEF k
  <2>2. QED
    BY <1>2, <2>1, PrefixFacts
<1>4. \A i \in 1..n : 1 + i - 1 = i
  OBVIOUS
<1>5. QED
  BY <1>2, <1>3, <1>4

\* What main is after git pull: origin, and on top what main had of its own.
Pulled(o, b, n) == o \o SubSeq(b, n + 1, Len(b))

\* What git pull --rebase makes of a branch: origin, and the clone's own commits after it.
LEMMA PulledFacts ==
  ASSUME NEW b \in Seq(Commits), NEW o \in Seq(Commits), NEW n \in Nat, n <= Len(o), Part(n, b, o)
  PROVE  /\ n <= Len(b) /\ \A i \in 1..n : b[i] = o[i]
         /\ Pulled(o, b, n) \in Seq(Commits)
         /\ DOMAIN Pulled(o, b, n) = 1..Len(o) + (Len(b) - n)
         /\ \A i \in 1..Len(o) : Pulled(o, b, n)[i] = o[i]
         /\ \A i \in 1..Len(b) - n : /\ Pulled(o, b, n)[Len(o) + i] = b[n + i]
                                     /\ b[n + i] \in ToSet(SubSeq(b, n + 1, Len(b)))
<1>1. n <= Len(b) /\ \A i \in 1..n : b[i] = o[i]
  BY SharedFacts DEF Part
<1> DEFINE a == SubSeq(b, n + 1, Len(b))
<1>2. Len(b) \in Nat /\ Len(o) \in Nat /\ DOMAIN o = 1..Len(o)
  BY LenProperties
<1>3. n + 1 \in Nat \ {0} /\ n + 1 <= Len(b) + 1 /\ Len(b) + 1 - (n + 1) = Len(b) - n /\ Len(b) <= Len(b)
  BY <1>1, <1>2
<1>4. a \in Seq(Commits) /\ Len(a) = Len(b) - n /\ DOMAIN a = 1..Len(b) - n
  BY <1>2, <1>3, PartFacts
<1>5. \A i \in 1..Len(b) - n : a[i] = b[n + 1 + i - 1]
  BY <1>2, <1>3, PartFacts
<1> HIDE DEF a
<1>6. \A i \in 1..Len(b) - n : n + 1 + i - 1 = n + i
  BY <1>2
<1>7. \A i \in 1..Len(b) - n : a[i] = b[n + i] /\ b[n + i] \in ToSet(a)
  BY <1>4, <1>5, <1>6 DEF ToSet
<1> DEFINE p == o \o a
<1>8. /\ p \in Seq(Commits) /\ Len(p) = Len(o) + Len(a)
      /\ \A i \in 1..Len(o) + Len(a) : p[i] = IF i <= Len(o) THEN o[i] ELSE a[i - Len(o)]
  BY <1>4, ConcatProperties
<1>9. DOMAIN p = 1..Len(o) + (Len(b) - n)
  BY <1>4, <1>8, LenProperties
<1> HIDE DEF p
<1>10. \A i \in 1..Len(o) : p[i] = o[i]
  <2> SUFFICES ASSUME NEW i \in 1..Len(o) PROVE p[i] = o[i]
    OBVIOUS
  <2>1. Len(a) \in Nat
    BY <1>4, LenProperties
  <2>2. i \in 1..Len(o) + Len(a) /\ i <= Len(o)
    BY <1>2, <2>1
  <2>3. QED
    BY <1>8, <2>2
<1>11. \A i \in 1..Len(b) - n : p[Len(o) + i] = a[i]
  <2> SUFFICES ASSUME NEW i \in 1..Len(b) - n PROVE p[Len(o) + i] = a[i]
    OBVIOUS
  <2>1. Len(o) + i \in 1..Len(o) + Len(a) /\ ~(Len(o) + i <= Len(o)) /\ Len(o) + i - Len(o) = i
    BY <1>1, <1>2, <1>4
  <2>2. QED
    BY <1>8, <2>1
<1>12. p = Pulled(o, b, n) /\ a = SubSeq(b, n + 1, Len(b))
  BY DEF p, a, Pulled
<1>13. \A i \in 1..Len(b) - n : p[Len(o) + i] = b[n + i]
  BY <1>7, <1>11
<1>14. QED
  BY <1>1, <1>7, <1>8, <1>9, <1>10, <1>12, <1>13

-----------------------------------------------------------------------------
(* Types *)

LEMMA EndsType ==
  ASSUME TypeInv, NEW s \in Session, Forgotten(s)
  PROVE  /\ ver' \in [Session -> Nat] /\ read' \in [Session -> Lease \cup {None}]
         /\ seen' \in [Session -> Nat] /\ sha' \in [Session -> Nat]
         /\ out' \in [Session -> Seq(Commits)]
<1>1. <<>> \in Seq(Commits) /\ 0 \in Nat
  BY EmptySeq
<1>2. QED
  BY <1>1 DEF TypeInv, Forgotten

\* The types, when a session goes on.
LEMMA GoesType ==
  ASSUME TypeInv, NEW s \in Session, NEW step \in Step, Goes(s, step)
  PROVE  pc' \in [Session -> Step]
BY DEF TypeInv, Goes

\* What may be written as a lease.
LEMMA LeaseTypes ==
  ASSUME TypeInv, NEW s \in Session
  PROVE  /\ Corrupt \in Lease
         /\ \A v \in Version : Draft(s, v) \in Lease
         /\ Mine(s) \in Lease \cup {None}
         /\ \A l \in Lease \cup {None} : Sets(s, l) => lease' \in [Clone -> Lease \cup {None}]
         /\ \A l \in Lease \cup {None} : Own(s, l) => l \in Lease /\ l.holder = s
<1>1. clone[s] \in Clone
  BY DEF TypeInv
<1>2. Corrupt \in Lease /\ \A v \in Version : Draft(s, v) \in Lease
  BY ReleaseAssumption DEF Corrupt, Draft, Lease
<1>3. Mine(s) \in Lease \cup {None}
  BY <1>1 DEF TypeInv, Mine
<1>4. \A l \in Lease \cup {None} : Sets(s, l) => lease' \in [Clone -> Lease \cup {None}]
  BY <1>1 DEF TypeInv, Sets
<1>5. QED
  BY <1>2, <1>3, <1>4 DEF Own

\* What updateLease writes.
LEMMA LeaseParts ==
  ASSUME NEW l \in Lease, NEW stage, NEW n
  PROVE  /\ LET u == [l EXCEPT !.stage = stage, !.sha = n]
            IN  u.version = l.version /\ u.stage = stage /\ u.holder = l.holder /\ u.sha = n
         /\ LET u == [l EXCEPT !.stage = stage]
            IN  u.version = l.version /\ u.stage = stage /\ u.holder = l.holder /\ u.sha = l.sha
BY DEF Lease

\* The types, after updateLease.
LEMMA UpdatesType ==
  ASSUME TypeInv, NEW s \in Session, NEW n \in Nat,
         NEW stage, Own(s, Mine(s)) => stage \in {"corrupt", "draft", "marker-local", "marker-pushed"},
         Updates(s, stage, n)
  PROVE  lease' \in [Clone -> Lease \cup {None}]
<1>1. CASE Own(s, Mine(s))
  <2> DEFINE l == [Mine(s) EXCEPT !.stage = stage, !.sha = n]
  <2>1. Mine(s) \in Lease
    BY <1>1, LeaseTypes
  <2>2. l \in Lease
    BY <1>1, <2>1 DEF Lease
  <2>3. Sets(s, l)
    BY <1>1 DEF Updates
  <2>4. QED
    BY <2>2, <2>3, LeaseTypes
<1>2. CASE ~Own(s, Mine(s))
  BY <1>2, LeaseTypes DEF Updates
<1>3. QED
  BY <1>1, <1>2

\* The types, after releaseLease.
LEMMA ReleasesType ==
  ASSUME TypeInv, NEW s \in Session, NEW force \in BOOLEAN, GivesBack(s, force)
  PROVE  lease' \in [Clone -> Lease \cup {None}]
BY LeaseTypes DEF GivesBack, Releases

\* The types, after git reset.
LEMMA ResetsType ==
  ASSUME TypeInv, NEW s \in Session, Resets(s)
  PROVE  main' \in [Clone -> Seq(Commits)]
<1>1. clone[s] \in Clone /\ main[clone[s]] \in Seq(Commits)
  BY DEF TypeInv
<1>2. (IF main[clone[s]] = <<>> THEN main[clone[s]] ELSE Front(main[clone[s]])) \in Seq(Commits)
  BY <1>1, FrontFacts
<1>3. QED
  BY <1>1, <1>2 DEF TypeInv, Resets

\* The types, after git commit.
LEMMA MarkerType ==
  ASSUME TypeInv, NEW s \in Session, NEW v \in Nat, NEW m, m = [id |-> made + 1, version |-> v],
         main' = [main EXCEPT ![clone[s]] = Append(@, m)]
  PROVE  main' \in [Clone -> Seq(Commits)] /\ m \in Commits
<1>1. clone[s] \in Clone /\ main[clone[s]] \in Seq(Commits) /\ made + 1 \in Nat \ {0}
  BY DEF TypeInv
<1>2. m \in Commits
  BY <1>1 DEF Commits
<1>3. Append(main[clone[s]], m) \in Seq(Commits)
  BY <1>1, <1>2, AppendFacts
<1>4. QED
  BY <1>1, <1>2, <1>3 DEF TypeInv

\* The types, after git pull.
LEMMA PullType ==
  ASSUME TypeInv, NEW s \in Session, Pull(s)
  PROVE  /\ main' \in [Clone -> Seq(Commits)]
         /\ \E n \in Nat : /\ n <= Len(origin) /\ Part(n, Branch(s), origin)
                           /\ main' = [main EXCEPT ![clone[s]] = Pulled(origin, Branch(s), n)]
                           /\ \A x \in ToSet(SubSeq(Branch(s), n + 1, Len(Branch(s)))) : ~IsMarker(x)
                           /\ Strays("pulled", /\ \E t \in Session : clone[t] = clone[s] /\ pc[t] = "commit"
                                               /\ \E x \in ToSet(origin) \ ToSet(Branch(s)) : IsMarker(x))
<1>1. clone[s] \in Clone /\ Branch(s) \in Seq(Commits) /\ origin \in Seq(Commits) /\ Len(origin) \in Nat
  BY LenProperties DEF TypeInv, Branch
<1>2. PICK n \in 0..Len(origin) - 1 :
        /\ Part(n, Branch(s), origin)
        /\ \A x \in ToSet(SubSeq(Branch(s), n + 1, Len(Branch(s)))) : ~IsMarker(x)
        /\ main' = [main EXCEPT ![clone[s]] = origin \o SubSeq(Branch(s), n + 1, Len(Branch(s)))]
        /\ Strays("pulled", /\ \E t \in Session : clone[t] = clone[s] /\ pc[t] = "commit"
                            /\ \E x \in ToSet(origin) \ ToSet(Branch(s)) : IsMarker(x))
  BY DEF Pull
<1>3. n \in Nat /\ n <= Len(origin)
  BY <1>1
<1>4. Pulled(origin, Branch(s), n) \in Seq(Commits)
  BY <1>1, <1>2, <1>3, PulledFacts
<1>5. main' = [main EXCEPT ![clone[s]] = Pulled(origin, Branch(s), n)]
  BY <1>2 DEF Pulled
<1>6. main' \in [Clone -> Seq(Commits)]
  BY <1>1, <1>4, <1>5 DEF TypeInv
<1>7. QED
  BY <1>2, <1>3, <1>5, <1>6

\* What is pushed and origin does not have yet.
Pushing(s) == SubSeq(out[s], Len(origin) + 1, Len(out[s]))

\* The types, after writeLease.
LEMMA CreateType ==
  ASSUME TypeInv, NEW s \in Session, NEW v \in Nat, Create(s, v)
  PROVE  /\ lease' \in [Clone -> Lease \cup {None}] /\ read' \in [Session -> Lease \cup {None}]
         /\ pc' \in [Session -> Step] /\ ver' \in [Session -> Nat]
<1>1. read' = [read EXCEPT ![s] = None]
  BY DEF Create
<1>2. Draft(s, v) \in Lease /\ Corrupt \in Lease
  BY DEF Draft, Corrupt, Lease
<1>3. CASE Sets(s, Draft(s, v)) /\ Goes(s, "probes") /\ ver' = [ver EXCEPT ![s] = v]
  BY <1>1, <1>2, <1>3, LeaseTypes DEF TypeInv, Goes, Step
<1>4. CASE Sets(s, Corrupt) /\ Goes(s, "idle") /\ ver' = [ver EXCEPT ![s] = 0]
  BY <1>1, <1>2, <1>4, LeaseTypes DEF TypeInv, Goes, Step
<1>5. QED
  BY <1>3, <1>4 DEF Create

\* The types, whatever the step.
LEMMA TypeStep == TypeInv /\ Judged /\ [Next]_vars => TypeInv'
<1> SUFFICES ASSUME TypeInv, Judged, Next PROVE TypeInv'
  BY DEF vars, local, remote, TypeInv
<1>0. \A s \in Session : clone[s] \in Clone /\ Branch(s) \in Seq(Commits) /\ Top(Branch(s)).id \in Nat
  BY TopFacts DEF TypeInv, Branch
<1>1. ASSUME NEW s \in Session, Release(s) PROVE TypeInv'
  <2>1. PICK v \in Version :
          \/ Free(s) /\ Create(s, v)
          \/ /\ ~Free(s) /\ Mine(s) # Corrupt
             /\ ver' = [ver EXCEPT ![s] = v] /\ read' = [read EXCEPT ![s] = Mine(s)]
             /\ Goes(s, "finished")
             /\ Keeps
    BY <1>1 DEF Release
  <2>2. v \in Nat /\ Draft(s, v) \in Lease /\ Corrupt \in Lease /\ Mine(s) \in Lease \cup {None}
    BY ReleaseAssumption, LeaseTypes
  <2> UNCHANGED <<clone, made, main, remote, seen, sha, out>>
    BY <1>1 DEF Release
  <2>3. CASE Create(s, v)
    BY <1>0, <2>2, <2>3, CreateType DEF TypeInv, remote
  <2>4. CASE /\ ver' = [ver EXCEPT ![s] = v] /\ read' = [read EXCEPT ![s] = Mine(s)]
             /\ Goes(s, "finished") /\ Keeps
    BY <2>2, <2>4 DEF TypeInv, Keeps, Goes, Step, remote
  <2>5. QED
    BY <2>1, <2>3, <2>4
<1>2. ASSUME NEW s \in Session, Retry(s) PROVE TypeInv'
  <2>1. ver[s] \in Nat
    BY DEF TypeInv
  <2>2. CASE Create(s, ver[s])
    BY <1>2, <2>1, <2>2, CreateType DEF TypeInv, Retry, remote
  <2>3. CASE Sets(s, None) /\ Ends(s)
    BY <1>0, <1>2, <2>3, EndsType DEF TypeInv, Retry, Sets, Ends, Goes, Step, remote
  <2>4. QED
    BY <1>2, <2>2, <2>3 DEF Retry
<1>3. ASSUME NEW s \in Session, Held(s) PROVE TypeInv'
  <2>1. read[s] \in Lease /\ read[s].sha \in Nat
    BY <1>3 DEF TypeInv, Judged, Held, Lease
  <2>2. CASE Ends(s)
    BY <1>3, <2>2, EndsType DEF TypeInv, Held, Ends, Goes, Step, remote
  <2>3. CASE /\ Goes(s, "complete") /\ sha' = [sha EXCEPT ![s] = read[s].sha]
             /\ UNCHANGED <<ver, read, seen, out>>
    BY <1>3, <2>1, <2>3 DEF TypeInv, Held, Goes, Step, remote
  <2>4. QED
    BY <1>3, <2>2, <2>3 DEF Held
<1>4. ASSUME NEW s \in Session, Probes(s) PROVE TypeInv'
  <2>1. CASE seen' = [seen EXCEPT ![s] = Len(origin)] /\ Goes(s, "guards") /\ UNCHANGED <<lease, ver, read, sha, out>>
    <3>1. Len(origin) \in Nat
      BY LenProperties DEF TypeInv
    <3>2. QED
      BY <1>4, <2>1, <3>1 DEF TypeInv, Probes, Goes, Step, remote
  <2>2. CASE Refuse(s)
    BY <1>4, <2>2, LeaseTypes, EndsType DEF TypeInv, Probes, Refuse, Releases, Ends, Goes, Step,
       remote
  <2>3. QED
    BY <1>4, <2>1, <2>2 DEF Probes
<1>5. ASSUME NEW s \in Session, Guards(s) PROVE TypeInv'
  <2>1. CASE Goes(s, "commit") /\ UNCHANGED <<lease, local>>
    BY <1>5, <2>1 DEF TypeInv, Guards, Goes, Step, remote, local
  <2>2. CASE Refuse(s)
    BY <1>5, <2>2, LeaseTypes, EndsType DEF TypeInv, Guards, Refuse, Releases, Ends, Goes, Step,
       remote
  <2>3. QED
    BY <1>5, <2>1, <2>2 DEF Guards
<1>6. ASSUME NEW s \in Session, CommitMarker(s) PROVE TypeInv'
  <2>1. CASE /\ made < MaxCommits /\ made' = made + 1
             /\ main' = [main EXCEPT ![clone[s]] = Append(@, Marker(made + 1, ver[s]))]
    <3>1. ver[s] \in Nat
      BY DEF TypeInv
    <3>2. main' \in [Clone -> Seq(Commits)]
      BY <2>1, <3>1, MarkerType DEF Marker
    <3>3. QED
      BY <1>6, <2>1, <3>2 DEF TypeInv, CommitMarker, Goes, Step, remote, local
  <2>2. CASE UNCHANGED <<made, main>>
    BY <1>6, <2>2 DEF TypeInv, CommitMarker, Goes, Step, remote, local
  <2>3. QED
    BY <1>6, <2>1, <2>2 DEF CommitMarker
<1>7. ASSUME NEW s \in Session, StampLease(s) PROVE TypeInv'
  <2>1. lease' \in [Clone -> Lease \cup {None}]
    BY <1>0, <1>7, UpdatesType DEF StampLease
  <2>2. QED
    BY <1>0, <1>7, <2>1 DEF TypeInv, StampLease, Goes, Step, remote
<1>8. ASSUME NEW s \in Session, Complete(s) PROVE TypeInv'
  <2>1. CASE Ends(s) /\ UNCHANGED <<lease, main>>
    BY <1>8, <2>1, EndsType DEF TypeInv, Complete, Ends, Goes, Step, remote
  <2>2. CASE (IF OnTop(s) THEN Resets(s) ELSE UNCHANGED main) /\ Refuse(s)
    <3>1. main' \in [Clone -> Seq(Commits)]
      BY <2>2, ResetsType DEF TypeInv
    <3>2. QED
      BY <1>8, <2>2, <3>1, LeaseTypes, EndsType DEF TypeInv, Complete, Refuse, Releases, Ends, Goes,
         Step, remote
  <2>3. CASE Goes(s, "push") /\ UNCHANGED <<lease, main, local>>
    BY <1>8, <2>3 DEF TypeInv, Complete, Goes, Step, remote, local
  <2>4. QED
    BY <1>8, <2>1, <2>2, <2>3 DEF Complete
<1>9. ASSUME NEW s \in Session, PushMain(s) PROVE TypeInv'
  BY <1>9 DEF TypeInv, PushMain, Goes, Step, remote, local
<1>10. ASSUME NEW s \in Session, Passes(s), UNCHANGED <<clone, made, main, remote>>,
              lease' \in [Clone -> Lease \cup {None}]
       PROVE  TypeInv'
  BY <1>0, <1>10 DEF TypeInv, Passes, Goes, Step, remote
<1>11. ASSUME NEW s \in Session, Guard(s) PROVE TypeInv'
  <2>1. CASE Passes(s) /\ Keeps
    BY <1>10, <1>11, <2>1 DEF TypeInv, Guard, Keeps
  <2>2. CASE Own(s, Mine(s)) /\ Mine(s).stage = "marker-local" /\ Attempt(s) /\ Passes(s)
    <3>1. Mine(s) \in Lease /\ Mine(s).sha \in Nat /\ Mine(s).stage \in {"corrupt", "draft", "marker-local", "marker-pushed"}
      BY <2>2, LeaseTypes DEF Lease
    <3>2. lease' \in [Clone -> Lease \cup {None}]
      BY <2>2, <3>1, UpdatesType DEF Attempt
    <3>3. QED
      BY <1>10, <1>11, <2>2, <3>2 DEF Guard
  <2>3. CASE Ends(s) /\ Keeps
    BY <1>11, <2>3, EndsType DEF TypeInv, Guard, Keeps, Ends, Goes, Step, remote
  <2>4. CASE read' = [read EXCEPT ![s] = Mine(s)] /\ Goes(s, "blocked") /\ UNCHANGED <<lease, ver, seen, sha, out>>
    BY <1>11, <2>4, LeaseTypes DEF TypeInv, Guard, Goes, Step, remote
  <2>5. QED
    BY <1>11, <2>1, <2>2, <2>3, <2>4 DEF Guard
<1>12. ASSUME NEW s \in Session, Blocked(s) PROVE TypeInv'
  <2>1. CASE Replaces(s, None) /\ Passes(s)
    <3>1. lease' \in [Clone -> Lease \cup {None}]
      BY <2>1, LeaseTypes DEF Replaces
    <3>2. QED
      BY <1>10, <1>12, <2>1, <3>1 DEF Blocked
  <2>2. CASE Ends(s) /\ UNCHANGED <<lease, strayed>>
    BY <1>12, <2>2, EndsType DEF TypeInv, Blocked, Ends, Goes, Step, remote
  <2>3. QED
    BY <1>12, <2>1, <2>2 DEF Blocked
<1>13. ASSUME NEW s \in Session, Transfer(s) PROVE TypeInv'
  <2>1. (Goes(s, "confirm") /\ UNCHANGED local) \/ Ends(s)
    BY <1>13 DEF Transfer
  <2>2. /\ pc' \in [Session -> Step] /\ ver' \in [Session -> Nat] /\ read' \in [Session -> Lease \cup {None}]
        /\ seen' \in [Session -> Nat] /\ sha' \in [Session -> Nat] /\ out' \in [Session -> Seq(Commits)]
    <3>1. CASE Goes(s, "confirm") /\ UNCHANGED local
      BY <3>1 DEF TypeInv, Goes, Step, local
    <3>2. CASE Ends(s)
      BY <3>2, EndsType DEF TypeInv, Ends, Goes, Step
    <3>3. QED
      BY <2>1, <3>1, <3>2
  <2>3. CASE UNCHANGED <<origin, runs, strayed>>
    <3>1. UNCHANGED <<clone, made, main, tags, lease>>
      BY <1>13 DEF Transfer
    <3>2. QED
      BY <2>2, <2>3, <3>1 DEF TypeInv
  <2>4. CASE /\ IsPrefix(origin, out[s]) /\ Pushing(s) # <<>>
             /\ origin' = out[s]
             /\ runs' = runs \cup (IF Decides(Pushing(s)) THEN {[marker |-> Last(Pushing(s)), state |-> "live"]}
                                                          ELSE {})
    <3>1. out[s] \in Seq(Commits) /\ origin \in Seq(Commits) /\ Len(origin) <= Len(out[s])
      BY <2>4, PrefixFacts DEF TypeInv
    <3>2. Len(origin) \in Nat /\ Len(out[s]) \in Nat
      BY <3>1, LenProperties
    <3>3. Len(origin) + 1 \in Nat \ {0} /\ Len(origin) + 1 <= Len(out[s]) + 1 /\ Len(out[s]) <= Len(out[s])
      BY <3>1, <3>2
    <3>4. SubSeq(out[s], Len(origin) + 1, Len(out[s])) \in Seq(Commits)
      BY <3>1, <3>2, <3>3, PartFacts
    <3>5. Last(Pushing(s)) \in Commits
      BY <2>4, <3>4, BranchFacts DEF Pushing, Last
    <3>6. runs' \subseteq Run
      BY <2>4, <3>5 DEF TypeInv, Run
    <3>7. QED
      BY <1>13, <2>2, <2>4, <3>1, <3>6 DEF TypeInv, Transfer
  <2>5. QED
    BY <1>13, <2>3, <2>4 DEF Transfer, Pushing
<1>14. ASSUME NEW s \in Session, Confirm(s) PROVE TypeInv'
  <2>1. (IF Own(s, Mine(s)) THEN Mine(s).sha ELSE 0) \in Nat
    BY LeaseTypes DEF Lease
  <2>2. lease' \in [Clone -> Lease \cup {None}]
    BY <1>14, <2>1, UpdatesType DEF Confirm
  <2>3. QED
    BY <1>14, <2>2, EndsType DEF TypeInv, Confirm, Ends, Goes, Step, remote
<1>15. ASSUME NEW s \in Session, Status(s) PROVE TypeInv'
  <2>1. Goes(s, "clear") \/ Goes(s, "upgrade")
    BY <1>15 DEF Status
  <2>2. QED
    BY <1>15, <2>1, LeaseTypes DEF TypeInv, Status, Goes, Step, remote
<1>16. ASSUME NEW s \in Session, Clear(s) PROVE TypeInv'
  BY <1>16, EndsType, LeaseTypes DEF TypeInv, Clear, Replaces, Ends, Goes, Step, remote
<1>17. ASSUME NEW s \in Session, Upgrade(s) PROVE TypeInv'
  <2>1. read[s] \in Lease
    BY <1>17 DEF TypeInv, Judged, Upgrade
  <2>2. [read[s] EXCEPT !.stage = "marker-pushed"] \in Lease
    BY <2>1 DEF Lease
  <2>3. lease' \in [Clone -> Lease \cup {None}]
    BY <1>17, <2>2, LeaseTypes DEF TypeInv, Upgrade, Replaces
  <2>4. QED
    BY <1>17, <2>3, EndsType DEF TypeInv, Upgrade, Ends, Goes, Step, remote
<1>18. ASSUME NEW s \in Session, NEW force \in BOOLEAN, Abort(s, force) PROVE TypeInv'
  <2>1. CASE GivesBack(s, force) /\ UNCHANGED <<pc, read, sha>>
    <3>1. lease' \in [Clone -> Lease \cup {None}]
      BY <2>1, ReleasesType
    <3>2. QED
      BY <1>18, <2>1, <3>1 DEF TypeInv, Abort, remote
  <2>2. CASE /\ read' = [read EXCEPT ![s] = Mine(s)] /\ sha' = [sha EXCEPT ![s] = Mine(s).sha]
             /\ Goes(s, IF force THEN "forceAbort" ELSE "abort")
             /\ UNCHANGED <<lease, strayed>>
    <3>1. Mine(s) \in Lease /\ Mine(s).sha \in Nat
      BY <1>18, LeaseTypes DEF Abort, Lease
    <3>2. Goes(s, "abort") \/ Goes(s, "forceAbort")
      BY <2>2
    <3>3. QED
      BY <1>18, <2>2, <3>1, <3>2 DEF TypeInv, Abort, Goes, Step, remote
  <2>3. QED
    BY <1>18, <2>1, <2>2 DEF Abort
<1>19. ASSUME NEW s \in Session, AbortLocal(s) PROVE TypeInv'
  <2>1. lease' \in [Clone -> Lease \cup {None}]
    <3>1. Forcing(s) \in BOOLEAN
      BY DEF Forcing
    <3>2. GivesBack(s, Forcing(s)) \/ UNCHANGED lease
      BY <1>19 DEF AbortLocal
    <3>3. QED
      BY <3>1, <3>2, ReleasesType DEF TypeInv
  <2>2. main' \in [Clone -> Seq(Commits)]
    BY <1>19, ResetsType DEF TypeInv, AbortLocal
  <2>3. QED
    BY <1>19, <2>1, <2>2, EndsType DEF TypeInv, AbortLocal, Ends, Goes, Step, remote
<1>20. ASSUME NEW s \in Session, AbortPushed(s) PROVE TypeInv'
  <2>1. lease' \in [Clone -> Lease \cup {None}]
    <3>1. Forcing(s) \in BOOLEAN
      BY DEF Forcing
    <3>2. GivesBack(s, Forcing(s)) \/ UNCHANGED lease
      BY <1>20 DEF AbortPushed
    <3>3. QED
      BY <3>1, <3>2, ReleasesType DEF TypeInv
  <2>2. QED
    BY <1>20, <2>1, EndsType DEF TypeInv, AbortPushed, Ends, Goes, Step, remote
<1>21. ASSUME NEW s \in Session, Commit(s) PROVE TypeInv'
  <2>1. main' = [main EXCEPT ![clone[s]] = Append(@, Ordinary(made + 1))]
    BY <1>21 DEF Commit
  <2>2. main' \in [Clone -> Seq(Commits)]
    BY <2>1, MarkerType DEF Ordinary
  <2>3. QED
    BY <1>21, <2>2 DEF TypeInv, Commit, remote, local
<1>22. ASSUME NEW s \in Session, Pull(s) PROVE TypeInv'
  <2>1. UNCHANGED <<clone, made, remote, lease, pc, local>>
    BY <1>22 DEF Pull
  <2>2. QED
    BY <1>22, <2>1, PullType DEF TypeInv, remote, local
<1>23. ASSUME NEW s \in Session, Dies(s) PROVE TypeInv'
  BY <1>23, EndsType DEF TypeInv, Dies, Ends, Goes, Step, remote
<1>24. ASSUME NEW r \in runs, RunTags(r) \/ RunFails(r) \/ Rerun(r) PROVE TypeInv'
  <2>1. r \in Run /\ r.marker.version \in Nat
    BY DEF TypeInv, Run, Commits
  <2>2. PICK state \in {"live", "red", "done"} : Turns(r, state) /\ tags' \in {tags, tags \cup {r.marker.version}}
    BY <1>24 DEF RunTags, RunFails, Rerun
  <2>3. [r EXCEPT !.state = state] \in Run
    BY <2>1 DEF Run
  <2>4. QED
    BY <2>1, <2>2, <2>3 DEF TypeInv, Turns, local
<1>25. QED
  BY <1>1, <1>2, <1>3, <1>4, <1>5, <1>6, <1>7, <1>8, <1>9, <1>11, <1>12, <1>13, <1>14, <1>15, <1>16,
     <1>17, <1>18,
     <1>19, <1>20, <1>21, <1>22, <1>23, <1>24 DEF Next

-----------------------------------------------------------------------------
(* What a step does to one variable.  The facts below say it once for every  *)
(* action, as long as nothing strays.                                        *)

Acts(s) ==
  \/ Release(s) \/ Retry(s) \/ Held(s)
  \/ Probes(s) \/ Guards(s) \/ CommitMarker(s) \/ StampLease(s)
  \/ Complete(s) \/ PushMain(s) \/ Guard(s) \/ Blocked(s) \/ Transfer(s) \/ Confirm(s)
  \/ Status(s) \/ Clear(s) \/ Upgrade(s)
  \/ AbortLocal(s) \/ AbortPushed(s)
  \/ Commit(s) \/ Pull(s) \/ Dies(s)
  \/ \E force \in BOOLEAN : Abort(s, force)

\* A run of release.yml goes on.
Turning(r) == RunTags(r) \/ RunFails(r) \/ Rerun(r)

\* What the others have in hand stays as it is.
Alone(s) ==
  \A t \in Session : t # s =>
    /\ pc'[t] = pc[t] /\ ver'[t] = ver[t] /\ read'[t] = read[t]
    /\ seen'[t] = seen[t] /\ sha'[t] = sha[t] /\ out'[t] = out[t]

\* A step is of one session and leaves the others where they are.
LEMMA ActsAlone ==
  ASSUME TypeInv, NEW s \in Session, Acts(s)
  PROVE  Alone(s) /\ clone' = clone
<1> USE DEF TypeInv, Alone, Goes, Ends, Forgotten
<1>1. CASE Release(s)
  <2>1. UNCHANGED <<clone, seen, sha, out>>
    BY <1>1 DEF Release
  <2>2. \A t \in Session : t # s => pc'[t] = pc[t] /\ ver'[t] = ver[t] /\ read'[t] = read[t]
    BY <1>1 DEF Release, Create
  <2>3. QED
    BY <2>1, <2>2
<1>2. CASE Retry(s)
  <2>1. UNCHANGED <<clone, made, main, remote, seen, sha, out>> \/ (Ends(s) /\ UNCHANGED clone)
    BY <1>2 DEF Retry
  <2>2. Create(s, ver[s]) \/ Ends(s)
    BY <1>2 DEF Retry
  <2>3. CASE Create(s, ver[s]) /\ UNCHANGED <<clone, made, main, remote, seen, sha, out>>
    BY <2>3 DEF Create
  <2>4. CASE Ends(s) /\ UNCHANGED clone
    BY <2>4
  <2>5. QED
    BY <1>2, <2>2, <2>3, <2>4 DEF Retry
<1>3. CASE Held(s)
  BY <1>3 DEF Held
<1>4. CASE Probes(s) \/ Guards(s) \/ CommitMarker(s) \/ StampLease(s)
  BY <1>4 DEF Probes, Guards, CommitMarker, StampLease, Refuse, local
<1>5. CASE Complete(s) \/ PushMain(s)
  BY <1>5 DEF Complete, PushMain, Refuse, local
<1>6. CASE Guard(s) \/ Blocked(s)
  BY <1>6 DEF Guard, Blocked, Passes
<1>7. CASE Transfer(s)
  <2>1. (Goes(s, "confirm") /\ UNCHANGED local) \/ Ends(s)
    BY <1>7 DEF Transfer
  <2>2. UNCHANGED clone
    BY <1>7 DEF Transfer
  <2>3. QED
    BY <2>1, <2>2 DEF local
<1>8. CASE Confirm(s) \/ Status(s) \/ Clear(s) \/ Upgrade(s)
  BY <1>8 DEF Confirm, Status, Clear, Upgrade
<1>9. CASE AbortLocal(s) \/ AbortPushed(s) \/ Dies(s)
  BY <1>9 DEF AbortLocal, AbortPushed, Dies
<1>10. CASE Commit(s) \/ Pull(s)
  BY <1>10 DEF Commit, Pull, local
<1>11. CASE \E force \in BOOLEAN : Abort(s, force)
  BY <1>11 DEF Abort
<1>12. QED
  BY <1>1, <1>2, <1>3, <1>4, <1>5, <1>6, <1>7, <1>8, <1>9, <1>10, <1>11 DEF Acts

\* Every step is of a session or of a run.
LEMMA NextActs == Next => (\E s \in Session : Acts(s)) \/ (\E r \in runs : Turning(r))
BY DEF Next, Acts, Turning

\* The lease was read and judged finished, and is still the one that was read.
Finished(s) == read[s] # None /\ Mine(s) = read[s] /\ read[s].version \in tags

LeaseSteps(s) ==
  \/ UNCHANGED lease
  \/ Sets(s, None) /\ (Own(s, Mine(s)) \/ Finished(s))
  \/ /\ Mine(s) = None \/ Finished(s)
     /\ Sets(s, Corrupt) \/ (Sets(s, Draft(s, ver'[s])) /\ pc'[s] = "probes")
  \/ /\ StampLease(s) /\ Own(s, Mine(s))
     /\ Sets(s, [Mine(s) EXCEPT !.stage = "marker-local", !.sha = Top(Branch(s)).id])
  \/ Confirm(s) /\ Own(s, Mine(s)) /\ Sets(s, [Mine(s) EXCEPT !.stage = "marker-pushed"])
  \/ /\ Upgrade(s) /\ Mine(s) \in {None, read[s]} /\ Top(origin).id = read[s].sha
     /\ Sets(s, [read[s] EXCEPT !.stage = "marker-pushed"])

\* A lease written as it was read.
LEMMA SetsSame ==
  ASSUME TypeInv, NEW s \in Session, Sets(s, Mine(s))
  PROVE  UNCHANGED lease
BY DEF TypeInv, Sets, Mine

\* What releaseLease may do to the lease.
LEMMA ReleasesSteps ==
  ASSUME TypeInv, NEW s \in Session, Releases(s)
  PROVE  UNCHANGED lease \/ (Sets(s, None) /\ Own(s, Mine(s)))
BY SetsSame DEF Releases

\* What writeLease may do to the lease.
LEMMA CreateSteps ==
  ASSUME TypeInv, NEW s \in Session, NEW v, Create(s, v)
  PROVE  Sets(s, Corrupt) \/ (Sets(s, Draft(s, ver'[s])) /\ pc'[s] = "probes")
BY DEF TypeInv, Create, Goes

\* A step after which nothing has strayed did not stray.
LEMMA StraysSteps ==
  ASSUME NEW kind, NEW when \in BOOLEAN, Strays(kind, when), ~Strayed'
  PROVE  ~when /\ ~Strayed
BY DEF Strays, Strayed

\* What giving the lease back may do that takes nobody's.
LEMMA TakesSteps ==
  ASSUME TypeInv, NEW s \in Session, NEW force \in BOOLEAN, GivesBack(s, force), ~Takes(s, force)
  PROVE  UNCHANGED lease \/ (Sets(s, None) /\ Own(s, Mine(s)))
<1>1. CASE force
  <2>1. Mine(s) = None \/ Own(s, Mine(s))
    BY <1>1 DEF Takes
  <2>2. QED
    BY <1>1, <2>1, SetsSame DEF GivesBack
<1>2. CASE ~force
  BY <1>2, ReleasesSteps DEF GivesBack
<1>3. QED
  BY <1>1, <1>2

\* How a step changes the lease of its clone.
LEMMA LeaseFrom ==
  ASSUME TypeInv, Judged, NEW s \in Session, Acts(s), ~Strayed'
  PROVE  LeaseSteps(s)
<1>1. CASE Release(s)
  BY <1>1, CreateSteps DEF Release, LeaseSteps, Free, Keeps
<1>2. CASE Retry(s)
  <2>1. read[s] # None /\ read[s].version \in tags
    BY <1>2 DEF Retry, Judged, SeesTag
  <2>2. Mine(s) \in {None, read[s]}
    BY <1>2, StraysSteps DEF Retry
  <2>3. Mine(s) = None \/ Finished(s)
    BY <2>1, <2>2 DEF Finished
  <2>4. CASE Create(s, ver[s])
    BY <2>3, <2>4, CreateSteps DEF LeaseSteps
  <2>5. CASE Sets(s, None)
    BY <2>3, <2>5, SetsSame DEF LeaseSteps
  <2>6. QED
    BY <1>2, <2>4, <2>5 DEF Retry
<1>3. CASE Held(s) \/ CommitMarker(s) \/ PushMain(s) \/ Transfer(s) \/ Status(s) \/ Commit(s) \/ Pull(s) \/ Dies(s)
  BY <1>3 DEF LeaseSteps, Held, CommitMarker, PushMain, Transfer, Status, Commit, Pull, Dies
<1>4. CASE Probes(s) \/ Guards(s) \/ Complete(s)
  <2>1. UNCHANGED lease \/ Releases(s)
    BY <1>4 DEF Probes, Guards, Complete, Refuse
  <2>2. QED
    BY <2>1, ReleasesSteps DEF LeaseSteps
<1>5. CASE StampLease(s)
  <2>1. Updates(s, "marker-local", Top(Branch(s)).id)
    BY <1>5 DEF StampLease
  <2>2. QED
    BY <1>5, <2>1, SetsSame DEF Updates, LeaseSteps
<1>6. CASE Guard(s)
  <2>1. CASE UNCHANGED lease
    BY <2>1 DEF LeaseSteps
  <2>2. CASE Own(s, Mine(s)) /\ Attempt(s)
    <3>1. Mine(s) \in Lease
      BY <2>2, LeaseTypes
    <3>2. [Mine(s) EXCEPT !.stage = Mine(s).stage, !.sha = Mine(s).sha] = Mine(s)
      BY <3>1 DEF Lease
    <3>3. Sets(s, Mine(s))
      BY <2>2, <3>2 DEF Attempt, Updates
    <3>4. QED
      BY <3>3, SetsSame DEF LeaseSteps
  <2>3. QED
    BY <1>6, <2>1, <2>2 DEF Guard, Keeps
<1>7. CASE Blocked(s)
  <2>1. CASE UNCHANGED lease
    BY <2>1 DEF LeaseSteps
  <2>2. CASE SeesTag(read[s].version) /\ Replaces(s, None)
    <3>1. read[s] # None
      BY <1>7 DEF Judged, Blocked
    <3>2. Mine(s) \in {None, read[s]} /\ Sets(s, None)
      BY <2>2, StraysSteps DEF Replaces
    <3>3. QED
      BY <2>2, <3>1, <3>2, SetsSame DEF LeaseSteps, Finished, SeesTag
  <2>3. QED
    BY <1>7, <2>1, <2>2 DEF Blocked
<1>8. CASE Confirm(s)
  <2>1. CASE Own(s, Mine(s))
    <3>1. Mine(s) \in Lease /\ Updates(s, "marker-pushed", Mine(s).sha)
      BY <1>8, <2>1, LeaseTypes DEF Confirm
    <3>2. [Mine(s) EXCEPT !.stage = "marker-pushed", !.sha = Mine(s).sha] = [Mine(s) EXCEPT !.stage = "marker-pushed"]
      BY <3>1 DEF Lease
    <3>3. QED
      BY <1>8, <2>1, <3>1, <3>2 DEF Updates, LeaseSteps
  <2>2. CASE ~Own(s, Mine(s))
    BY <1>8, <2>2, SetsSame DEF Confirm, Updates, LeaseSteps
  <2>3. QED
    BY <2>1, <2>2
<1>9. CASE Clear(s)
  <2>1. Mine(s) \in {None, read[s]} /\ Sets(s, None)
    BY <1>9, StraysSteps DEF Clear, Replaces
  <2>2. read[s] # None /\ read[s].version \in tags
    BY <1>9 DEF Judged, Clear
  <2>3. QED
    BY <2>1, <2>2, SetsSame DEF LeaseSteps, Finished
<1>10. CASE Upgrade(s)
  <2>1. CASE Top(origin).id = read[s].sha
    <3>1. Replaces(s, [read[s] EXCEPT !.stage = "marker-pushed"])
      BY <1>10, <2>1 DEF Upgrade
    <3>2. QED
      BY <1>10, <2>1, <3>1, StraysSteps DEF LeaseSteps, Replaces
  <2>2. CASE Top(origin).id # read[s].sha
    BY <1>10, <2>2 DEF Upgrade, LeaseSteps
  <2>3. QED
    BY <2>1, <2>2
<1>11. CASE AbortLocal(s)
  <2>1. Forcing(s) \in BOOLEAN
    BY DEF Forcing
  <2>2. UNCHANGED lease \/ (GivesBack(s, Forcing(s)) /\ Strays("forced", Takes(s, Forcing(s))))
    BY <1>11, StraysSteps DEF AbortLocal
  <2>3. ~Takes(s, Forcing(s)) \/ UNCHANGED lease
    BY <2>2, StraysSteps DEF Takes
  <2>4. QED
    BY <2>1, <2>2, <2>3, TakesSteps DEF LeaseSteps
<1>12. CASE AbortPushed(s)
  <2>1. Forcing(s) \in BOOLEAN
    BY DEF Forcing
  <2>2. UNCHANGED lease \/ (GivesBack(s, Forcing(s)) /\ Strays("forced", Takes(s, Forcing(s))))
    BY <1>12 DEF AbortPushed
  <2>3. ~Takes(s, Forcing(s)) \/ UNCHANGED lease
    BY <2>2, StraysSteps DEF Takes
  <2>4. QED
    BY <2>1, <2>2, <2>3, TakesSteps DEF LeaseSteps
<1>13. CASE \E force \in BOOLEAN : Abort(s, force)
  <2>1. PICK force \in BOOLEAN : Abort(s, force)
    BY <1>13
  <2>2. UNCHANGED lease \/ (GivesBack(s, force) /\ Strays("forced", Takes(s, force)))
    BY <2>1 DEF Abort
  <2>3. ~Takes(s, force) \/ UNCHANGED lease
    BY <2>2, StraysSteps DEF Takes
  <2>4. QED
    BY <2>1, <2>2, <2>3, TakesSteps DEF LeaseSteps
<1>14. QED
  BY <1>1, <1>2, <1>3, <1>4, <1>5, <1>6, <1>7, <1>8, <1>9, <1>10, <1>11, <1>12, <1>13 DEF Acts

\* Commits are made one at a time, and main loses one only to whom it stands for
\* the marker it took.
BranchSteps(s) ==
  \/ UNCHANGED <<main, made>>
  \/ Commit(s)
  \/ CommitMarker(s)
  \/ /\ Complete(s) \/ (AbortLocal(s) /\ ~Takes(s, Forcing(s)))
     /\ OnTop(s) /\ Resets(s) /\ UNCHANGED made
  \/ Pull(s) /\ UNCHANGED made

\* How a step changes main of its clone.
LEMMA BranchFrom ==
  ASSUME TypeInv, NEW s \in Session, Acts(s), ~Strayed'
  PROVE  BranchSteps(s)
<1>1. CASE Release(s) \/ Retry(s) \/ Held(s) \/ Probes(s) \/ Guards(s)
  BY <1>1 DEF BranchSteps, Release, Retry, Held, Probes, Guards
<1>2. CASE CommitMarker(s) \/ Commit(s) \/ Pull(s)
  BY <1>2 DEF BranchSteps, Pull
<1>3. CASE StampLease(s) \/ PushMain(s) \/ Guard(s) \/ Blocked(s)
  BY <1>3 DEF BranchSteps, StampLease, PushMain, Guard, Blocked
<1>4. CASE Transfer(s)
  BY <1>4 DEF BranchSteps, Transfer
<1>5. CASE Confirm(s) \/ Status(s) \/ Clear(s) \/ Upgrade(s) \/ AbortPushed(s) \/ Dies(s)
  BY <1>5 DEF BranchSteps, Confirm, Status, Clear, Upgrade, AbortPushed, Dies
<1>6. CASE \E force \in BOOLEAN : Abort(s, force)
  BY <1>6 DEF BranchSteps, Abort
<1>7. CASE Complete(s)
  BY <1>7 DEF BranchSteps, Complete
<1>8. CASE AbortLocal(s)
  <2>1. UNCHANGED made
    BY <1>8 DEF AbortLocal
  <2>2. CASE UNCHANGED main
    BY <2>1, <2>2 DEF BranchSteps
  <2>3. CASE Resets(s) /\ OnTop(s) /\ Strays("forced", Takes(s, Forcing(s)))
    <3>1. ~Takes(s, Forcing(s))
      BY <2>3, StraysSteps DEF Takes
    <3>2. QED
      BY <1>8, <2>1, <2>3, <3>1 DEF BranchSteps
  <2>4. CASE ~OnTop(s) /\ Strays("wiped", TRUE)
    BY <2>4, StraysSteps
  <2>5. QED
    BY <1>8, <2>2, <2>3, <2>4 DEF AbortLocal
<1>9. QED
  BY <1>1, <1>2, <1>3, <1>4, <1>5, <1>6, <1>7, <1>8 DEF Acts

\* origin takes a push.
Pushes(s) ==
  /\ pc[s] = "transfer" /\ IsPrefix(origin, out[s]) /\ Pushing(s) # <<>>
  /\ origin' = out[s]
  /\ runs' = runs \cup (IF Decides(Pushing(s)) THEN {[marker |-> Last(Pushing(s)), state |-> "live"]} ELSE {})
  /\ Strays("carried", ~Own(s, Mine(s)) /\ \E i \in DOMAIN Pushing(s) : IsMarker(Pushing(s)[i]))
  /\ UNCHANGED <<main, made, lease, tags>>

\* How a step changes origin and the runs.
LEMMA OriginFrom ==
  ASSUME NEW s \in Session, Acts(s)
  PROVE  UNCHANGED <<origin, runs>> \/ Pushes(s)
<1>1. CASE Release(s) \/ Retry(s) \/ Held(s) \/ Probes(s) \/ Guards(s)
  BY <1>1 DEF Release, Retry, Held, Probes, Guards, remote
<1>2. CASE CommitMarker(s) \/ Commit(s) \/ Pull(s)
  BY <1>2 DEF CommitMarker, Commit, Pull, remote
<1>3. CASE StampLease(s) \/ PushMain(s) \/ Guard(s) \/ Blocked(s) \/ Complete(s)
  BY <1>3 DEF StampLease, PushMain, Guard, Blocked, Complete, remote
<1>4. CASE Transfer(s)
  BY <1>4 DEF Transfer, Pushes, Pushing
<1>5. CASE Confirm(s) \/ Status(s) \/ Clear(s) \/ Upgrade(s) \/ AbortLocal(s) \/ AbortPushed(s) \/ Dies(s)
  BY <1>5 DEF Confirm, Status, Clear, Upgrade, AbortLocal, AbortPushed, Dies, remote
<1>6. CASE \E force \in BOOLEAN : Abort(s, force)
  BY <1>6 DEF Abort, remote
<1>7. QED
  BY <1>1, <1>2, <1>3, <1>4, <1>5, <1>6 DEF Acts

\* Who has a marker of another in hand ends with nothing.
LEMMA ForceFrom ==
  ASSUME TypeInv, NEW s \in Session, Acts(s), Forcing(s), pc'[s] # "forceAbort"
  PROVE  sha'[s] = 0
<1> USE DEF TypeInv, Forcing, Ends, Forgotten
<1>1. CASE AbortLocal(s) \/ AbortPushed(s) \/ Dies(s)
  BY <1>1 DEF AbortLocal, AbortPushed, Dies
<1>2. CASE Commit(s) \/ Pull(s)
  BY <1>2 DEF Commit, Pull
<1>3. QED
  BY <1>1, <1>2 DEF Acts, Release, Retry, Held, Probes, Guards, CommitMarker, StampLease, Complete,
     PushMain, Guard, Blocked, Transfer, Confirm, Status, Clear, Upgrade, Abort

\* Only a run adds a tag.
LEMMA TagsFrom ==
  ASSUME NEW s \in Session, Acts(s)
  PROVE  tags' = tags
<1>1. CASE Release(s) \/ Retry(s) \/ Held(s) \/ Probes(s) \/ Guards(s)
  BY <1>1 DEF Release, Retry, Held, Probes, Guards, remote
<1>2. CASE CommitMarker(s) \/ Commit(s) \/ Pull(s)
  BY <1>2 DEF CommitMarker, Commit, Pull, remote
<1>3. CASE StampLease(s) \/ PushMain(s) \/ Guard(s) \/ Blocked(s) \/ Complete(s)
  BY <1>3 DEF StampLease, PushMain, Guard, Blocked, Complete, remote
<1>4. CASE Transfer(s)
  BY <1>4 DEF Transfer
<1>5. CASE Confirm(s) \/ Status(s) \/ Clear(s) \/ Upgrade(s) \/ AbortLocal(s) \/ AbortPushed(s) \/ Dies(s)
  BY <1>5 DEF Confirm, Status, Clear, Upgrade, AbortLocal, AbortPushed, Dies, remote
<1>6. CASE \E force \in BOOLEAN : Abort(s, force)
  BY <1>6 DEF Abort, remote
<1>7. QED
  BY <1>1, <1>2, <1>3, <1>4, <1>5, <1>6 DEF Acts

\* What a session has read, and takes for its marker.
HandSteps(s) ==
  /\ read'[s] \in {read[s], None, Mine(s)}
  /\ \/ sha'[s] \in {0, sha[s]}
     \/ StampLease(s) /\ sha'[s] = Top(Branch(s)).id /\ read'[s] = read[s]
     \/ Held(s) /\ sha'[s] = read[s].sha /\ Own(s, read[s]) /\ read'[s] = read[s]
     \/ Mine(s) # None /\ sha'[s] = Mine(s).sha /\ read'[s] = Mine(s) /\ (Own(s, Mine(s)) \/ pc'[s] = "forceAbort")
  /\ out'[s] \in {out[s], <<>>, Branch(s)}
  /\ seen'[s] \in {seen[s], 0, Len(origin)}

\* How a step changes what its session has in hand.
LEMMA HandFrom ==
  ASSUME TypeInv, NEW s \in Session, Acts(s)
  PROVE  HandSteps(s)
<1> USE DEF TypeInv, HandSteps, Ends, Forgotten, local
<1>1. CASE Release(s)
  <2>1. read'[s] \in {None, Mine(s)}
    BY <1>1 DEF Release, Create
  <2>2. UNCHANGED <<seen, sha, out>>
    BY <1>1 DEF Release
  <2>3. QED
    BY <2>1, <2>2
<1>2. CASE Retry(s)
  <2>1. (UNCHANGED <<seen, sha, out>> /\ Create(s, ver[s])) \/ Ends(s)
    BY <1>2 DEF Retry
  <2>2. QED
    BY <2>1 DEF Create
<1>3. CASE Held(s)
  BY <1>3 DEF Held
<1>4. CASE Probes(s) \/ Guards(s) \/ CommitMarker(s) \/ Complete(s) \/ PushMain(s)
  BY <1>4 DEF Probes, Guards, CommitMarker, Complete, PushMain, Refuse
<1>5. CASE StampLease(s)
  BY <1>5 DEF StampLease
<1>6. CASE Guard(s) \/ Blocked(s)
  BY <1>6 DEF Guard, Blocked, Passes
<1>7. CASE Transfer(s)
  BY <1>7 DEF Transfer
<1>8. CASE Confirm(s) \/ Clear(s) \/ Upgrade(s) \/ AbortLocal(s) \/ AbortPushed(s) \/ Dies(s) \/ Commit(s)
  BY <1>8 DEF Confirm, Clear, Upgrade, AbortLocal, AbortPushed, Dies, Commit
<1>9. CASE Status(s)
  BY <1>9 DEF Status
<1>10. CASE Pull(s)
  BY <1>10 DEF Pull
<1>11. CASE \E force \in BOOLEAN : Abort(s, force)
  BY <1>11 DEF Abort, Goes
<1>12. QED
  BY <1>1, <1>2, <1>3, <1>4, <1>5, <1>6, <1>7, <1>8, <1>9, <1>10, <1>11 DEF Acts

\* A run changes nobody's hands, and tags only add up.
LEMMA TurningFrom ==
  ASSUME TypeInv, NEW r \in runs, Turning(r)
  PROVE  /\ UNCHANGED <<clone, made, main, origin, lease, pc, local>>
         /\ tags \subseteq tags'
         /\ \E state \in {"live", "red", "done"} :
              /\ runs' = (runs \ {r}) \cup {[r EXCEPT !.state = state]}
              /\ state = "live" => r.state = "red" /\ (Top(origin) = r.marker \/ Strayed')
              /\ state = "red" => r.state = "live" /\ UNCHANGED tags
              /\ state = "done" => r.marker.version \in tags'
<1>1. CASE RunTags(r)
  BY <1>1 DEF RunTags, Turns
<1>2. CASE RunFails(r)
  BY <1>2 DEF RunFails, Turns
<1>3. CASE Rerun(r)
  BY <1>3 DEF Rerun, Turns, Strays, Strayed
<1>4. QED
  BY <1>1, <1>2, <1>3 DEF Turning

\* What a step that judges has read.
LEMMA JudgedStep == TypeInv /\ Judged /\ [Next]_vars => Judged'
<1> SUFFICES ASSUME TypeInv, Judged, Next PROVE Judged'
  BY DEF vars, local, remote, Judged, Cutting
<1> DEFINE Good(t) ==
      /\ pc[t] \in {"finished", "blocked", "clear", "upgrade", "abort", "forceAbort"} => read[t] # None
      /\ pc[t] = "clear" => read[t].version \in tags
      /\ pc[t] = "upgrade" => read[t].stage = "marker-local"
      /\ pc[t] = "idle" => ver[t] = 0
      /\ pc[t] \in {"finished", "probes"} \/ Cutting(t) => ver[t] # 0
<1>0. (Judged <=> \A t \in Session : Good(t)) /\ (Judged' <=> \A t \in Session : Good(t)')
  BY DEF Judged
<1>1. ASSUME NEW s \in Session, Acts(s) PROVE Judged'
  <2>1. \A t \in Session : t # s => Good(t)'
    BY <1>0, <1>1, ActsAlone, TagsFrom DEF Alone, Cutting
  <2>2. Good(s)
    BY <1>0
  <2> HIDE <1>0
  <2>3. Good(s)'
    <3> USE DEF TypeInv, Goes, Ends, Forgotten, local, Cutting
    <3>1. CASE Release(s)
      <4>1. \A v \in Version : v # 0
        BY ReleaseAssumption
      <4>2. PICK v \in Version :
              \/ Free(s) /\ Create(s, v)
              \/ /\ ~Free(s)
                 /\ ver' = [ver EXCEPT ![s] = v] /\ read' = [read EXCEPT ![s] = Mine(s)]
                 /\ Goes(s, "finished")
        BY <3>1 DEF Release
      <4>3. CASE Create(s, v)
        BY <4>1, <4>3 DEF Create
      <4>4. CASE ~Free(s) /\ ~Create(s, v)
        BY <4>1, <4>2, <4>4 DEF Free
      <4>5. QED
        BY <4>2, <4>3, <4>4
    <3>2. CASE Retry(s)
      BY <2>2, <3>2 DEF Retry, Create
    <3>3. CASE Held(s)
      BY <2>2, <3>3 DEF Held
    <3>4. CASE Probes(s) \/ Guards(s) \/ CommitMarker(s) \/ StampLease(s)
      BY <2>2, <3>4 DEF Probes, Guards, CommitMarker, StampLease, Refuse
    <3>5. CASE Complete(s) \/ PushMain(s)
      BY <2>2, <3>5 DEF Complete, PushMain, Refuse
    <3>6. CASE Guard(s) \/ Blocked(s)
      BY <2>2, <3>6 DEF Guard, Blocked, Passes
    <3>7. CASE Transfer(s)
      BY <2>2, <3>7 DEF Transfer
    <3>8. CASE Confirm(s) \/ Clear(s) \/ Upgrade(s) \/ AbortLocal(s) \/ AbortPushed(s) \/ Dies(s)
      BY <2>2, <3>8 DEF Confirm, Clear, Upgrade, AbortLocal, AbortPushed, Dies
    <3>9. CASE Status(s)
      <4>1. tags' = tags
        BY <1>1, TagsFrom
      <4>2. QED
        BY <2>2, <3>9, <4>1 DEF Status, SeesTag
    <3>10. CASE Commit(s) \/ Pull(s)
      <4>1. UNCHANGED <<pc, ver, read>> /\ tags' = tags
        BY <1>1, <3>10, TagsFrom DEF Commit, Pull
      <4>2. QED
        BY <2>2, <4>1
    <3>11. CASE \E force \in BOOLEAN : Abort(s, force)
      BY <2>2, <3>11 DEF Abort
    <3>12. QED
      BY <1>1, <3>1, <3>2, <3>3, <3>4, <3>5, <3>6, <3>7, <3>8, <3>9, <3>10, <3>11 DEF Acts
  <2>4. QED
    BY <1>0, <2>1, <2>3
<1>2. ASSUME NEW r \in runs, Turning(r) PROVE Judged'
  <2>1. UNCHANGED <<pc, local>> /\ tags \subseteq tags'
    BY <1>2, TurningFrom
  <2>2. QED
    BY <2>1 DEF Judged, local, Cutting
<1>3. QED
  BY <1>1, <1>2, NextActs

-----------------------------------------------------------------------------
(* The lease of a release that cuts *)

Holds(s) == Own(s, Mine(s)) /\ Mine(s).version = ver[s]

\* Who has seen that its version has no tag holds the lease, for this version,
\* and it is still so; who is about to look holds it, or will see the tag.
HasLease ==
  \A s \in Session :
    /\ Cutting(s) => Holds(s) /\ ver[s] \notin tags
    /\ pc[s] = "probes" => Holds(s) \/ ver[s] \in tags

\* What has strayed stays so.
LEMMA StaysCalm == ASSUME TypeInv, [Next]_vars, ~Strayed' PROVE ~Strayed
<1>1. CASE UNCHANGED vars
  BY <1>1 DEF vars, Strayed
<1>2. ASSUME NEW s \in Session, Acts(s) PROVE ~Strayed
  <2>1. CASE UNCHANGED strayed
    BY <2>1 DEF Strayed
  <2>2. CASE \E kind, when : Strays(kind, when)
    BY <2>2 DEF Strays, Strayed
  <2>3. QED
    <3>1. CASE Release(s) \/ Held(s) \/ Probes(s) \/ StampLease(s) \/ Complete(s) \/ PushMain(s)
      BY <2>1, <3>1 DEF Release, Held, Probes, StampLease, Complete, PushMain
    <3>0. CASE CommitMarker(s)
      BY <2>1, <2>2, <3>0 DEF CommitMarker
    <3>2. CASE Retry(s) \/ Clear(s)
      BY <2>2, <3>2 DEF Retry, Clear, Replaces
    <3>3. CASE Guards(s)
      BY <2>1, <2>2, <3>3 DEF Guards
    <3>4. CASE Guard(s) \/ Confirm(s) \/ Status(s) \/ Commit(s) \/ Dies(s)
      BY <2>1, <3>4 DEF Guard, Confirm, Status, Commit, Dies
    <3>5. CASE Blocked(s) \/ Upgrade(s)
      BY <2>1, <2>2, <3>5 DEF Blocked, Upgrade, Replaces
    <3>6. CASE Transfer(s)
      BY <2>1, <2>2, <3>6 DEF Transfer
    <3>7. CASE AbortLocal(s)
      BY <2>1, <2>2, <3>7 DEF AbortLocal
    <3>8. CASE AbortPushed(s)
      BY <2>1, <2>2, <3>8 DEF AbortPushed
    <3>9. CASE Pull(s)
      BY <2>2, <3>9 DEF Pull
    <3>10. CASE \E force \in BOOLEAN : Abort(s, force)
      BY <2>1, <2>2, <3>10 DEF Abort
    <3>11. QED
      BY <1>2, <3>0, <3>1, <3>2, <3>3, <3>4, <3>5, <3>6, <3>7, <3>8, <3>9, <3>10 DEF Acts
<1>3. ASSUME NEW r \in runs, Turning(r) PROVE ~Strayed
  BY <1>3 DEF Turning, RunTags, RunFails, Rerun, Strays, Strayed
<1>4. QED
  BY <1>1, <1>2, <1>3, NextActs

\* A lease is written in one clone.
LEMMA SetsFacts ==
  ASSUME TypeInv, NEW s \in Session, NEW l, Sets(s, l), clone' = clone
  PROVE  \A c \in Clone : lease'[c] = IF c = clone[s] THEN l ELSE lease[c]
BY DEF TypeInv, Sets

\* Nobody takes the lease of a session that cuts.
LEMMA OthersKeepTheirs ==
  ASSUME TypeInv, Judged, HasLease, NEW s \in Session, Acts(s), ~Strayed', NEW t \in Session, t # s
  PROVE  /\ Cutting(t) => Holds(t)'
         /\ pc[t] = "probes" => Holds(t)' \/ ver[t] \in tags
<1>1. /\ clone' = clone /\ ver'[t] = ver[t] /\ pc'[t] = pc[t]
      /\ clone[t] \in Clone /\ clone[s] \in Clone
  BY ActsAlone DEF Alone, TypeInv
<1>2. CASE lease'[clone[t]] = lease[clone[t]]
  BY <1>1, <1>2 DEF HasLease, Holds, Own, Mine
<1>3. CASE clone[t] # clone[s]
  <2>1. UNCHANGED lease \/ \E l : Sets(s, l)
    BY LeaseFrom DEF LeaseSteps
  <2>2. lease'[clone[t]] = lease[clone[t]]
    BY <1>1, <1>3, <2>1, SetsFacts
  <2>3. QED
    BY <1>2, <2>2
<1>4. CASE clone[t] = clone[s]
  <2>1. Mine(t) = Mine(s) /\ None \notin Session
    BY <1>4, ReleaseAssumption DEF Mine
  <2>2. CASE Mine(s) = None \/ Own(s, Mine(s)) \/ Finished(s)
    BY <2>1, <2>2 DEF HasLease, Holds, Own, Finished
  <2>3. CASE UNCHANGED lease
    BY <1>2, <2>3
  <2>4. CASE Mine(s) = read[s] /\ Mine(s) # None /\ Sets(s, [read[s] EXCEPT !.stage = "marker-pushed"])
    <3>1. read[s] \in Lease
      BY <2>4 DEF TypeInv
    <3>2. lease'[clone[t]] = [read[s] EXCEPT !.stage = "marker-pushed"]
      BY <1>1, <1>4, <2>4, SetsFacts
    <3>3. lease'[clone[t]].holder = Mine(t).holder /\ lease'[clone[t]].version = Mine(t).version
      BY <2>1, <2>4, <3>1, <3>2 DEF Lease
    <3>4. lease'[clone[t]] # None
      <4>1. lease'[clone[t]] \in Lease
        BY <3>1, <3>2 DEF Lease
      <4>2. QED
        BY <4>1, ReleaseAssumption
    <3>5. QED
      BY <1>1, <3>3, <3>4 DEF HasLease, Holds, Own, Mine
  <2>5. QED
    BY <2>2, <2>3, <2>4, LeaseFrom DEF LeaseSteps
<1>5. QED
  BY <1>3, <1>4

\* Who cuts holds the lease.
LEMMA HasLeaseStep ==
  ASSUME TypeInv, Judged, HasLease, [Next]_vars, ~Strayed'
  PROVE  HasLease'
<1>1. CASE UNCHANGED vars
  BY <1>1 DEF vars, local, remote, HasLease, Holds, Own, Mine, Cutting
<1>2. ASSUME NEW s \in Session, Acts(s) PROVE HasLease'
  <2>0. tags' = tags /\ clone' = clone /\ clone[s] \in Clone /\ Alone(s) /\ ~Strayed
    BY <1>2, TagsFrom, ActsAlone, StaysCalm DEF TypeInv, Next, Acts
  <2>1. \A t \in Session : t # s =>
          (Cutting(t)' => Holds(t)' /\ ver'[t] \notin tags') /\ (pc'[t] = "probes" => Holds(t)' \/ ver'[t] \in tags')
    BY <1>2, <2>0, OthersKeepTheirs DEF Alone, Cutting, HasLease
  <2>2. (Cutting(s)' => Holds(s)' /\ ver'[s] \notin tags') /\ (pc'[s] = "probes" => Holds(s)' \/ ver'[s] \in tags')
    <3> USE DEF TypeInv, Goes, Ends, Forgotten, local
    <3>1. ASSUME NEW v \in Nat, Create(s, v) PROVE pc'[s] \in {"probes", "idle"}
      BY <3>1 DEF Create
    <3>2. ASSUME NEW v \in Nat, Create(s, v) PROVE pc'[s] = "probes" => Holds(s)'
      <4>1. CASE pc'[s] # "probes"
        BY <4>1
      <4>2. CASE Sets(s, Draft(s, v)) /\ ver' = [ver EXCEPT ![s] = v]
        <5>1. Draft(s, v) \in Lease
          BY DEF Draft, Lease
        <5>2. lease'[clone[s]] = Draft(s, v) /\ Draft(s, v) # None
          BY <2>0, <4>2, <5>1, SetsFacts, ReleaseAssumption
        <5>3. QED
          BY <2>0, <4>2, <5>2 DEF Holds, Own, Mine, Draft
      <4>3. QED
        BY <3>2, <4>1, <4>2 DEF Create
    <3>3. CASE Release(s)
      <4>1. PICK v \in Version : Create(s, v) \/ Goes(s, "finished")
        BY <3>3 DEF Release
      <4>2. v \in Nat
        BY ReleaseAssumption
      <4>3. CASE Create(s, v)
        BY <3>1, <3>2, <4>2, <4>3 DEF Cutting
      <4>4. QED
        BY <4>1, <4>3 DEF Cutting
    <3>4. CASE Retry(s)
      <4>1. Create(s, ver[s]) \/ Ends(s)
        BY <3>4 DEF Retry
      <4>2. CASE Create(s, ver[s])
        BY <3>1, <3>2, <4>2 DEF Cutting
      <4>3. QED
        BY <4>1, <4>2 DEF Cutting
    <3>5. CASE Probes(s)
      <4>1. CASE ver[s] \notin tags /\ UNCHANGED <<lease, ver>> /\ Goes(s, "guards")
        BY <2>0, <3>5, <4>1 DEF Probes, HasLease, Holds, Own, Mine, Cutting
      <4>2. CASE Refuse(s)
        BY <4>2 DEF Refuse, Cutting
      <4>3. QED
        BY <3>5, <4>1, <4>2 DEF Probes
    <3>6. CASE Guards(s) \/ CommitMarker(s)
      <4>1. CASE Refuse(s)
        BY <4>1 DEF Refuse, Cutting
      <4>2. CASE UNCHANGED <<lease, local>> /\ (Goes(s, "commit") \/ Goes(s, "stamp"))
        BY <2>0, <3>6, <4>2 DEF Guards, CommitMarker, HasLease, Holds, Own, Mine, Cutting
      <4>3. QED
        BY <3>6, <4>1, <4>2 DEF Guards, CommitMarker
    <3>7. CASE StampLease(s) \/ Held(s) \/ Complete(s) \/ PushMain(s) \/ Guard(s) \/ Blocked(s)
      BY <3>7 DEF StampLease, Held, Complete, PushMain, Guard, Blocked, Passes, Refuse, Cutting
    <3>8. CASE Transfer(s)
      BY <3>8 DEF Transfer, Cutting
    <3>9. CASE Confirm(s) \/ Status(s) \/ Clear(s) \/ Upgrade(s) \/ AbortLocal(s) \/ AbortPushed(s) \/ Dies(s)
      BY <3>9 DEF Confirm, Status, Clear, Upgrade, AbortLocal, AbortPushed, Dies, Cutting
    <3>10. CASE Commit(s) \/ Pull(s)
      <4>1. UNCHANGED <<pc, lease, ver>>
        BY <3>10 DEF Commit, Pull
      <4>2. QED
        BY <2>0, <4>1 DEF HasLease, Holds, Own, Mine, Cutting
    <3>11. CASE \E force \in BOOLEAN : Abort(s, force)
      <4>1. pc[s] = "idle" /\ pc'[s] \in {"idle", "abort", "forceAbort"}
        BY <3>11 DEF Abort
      <4>2. QED
        BY <4>1 DEF Cutting
    <3>12. QED
      BY <1>2, <3>3, <3>4, <3>5, <3>6, <3>7, <3>8, <3>9, <3>10, <3>11 DEF Acts
  <2>3. QED
    BY <2>1, <2>2 DEF HasLease
<1>3. ASSUME NEW r \in runs, Turning(r) PROVE HasLease'
  <2>1. UNCHANGED <<clone, lease, pc, ver>> /\ tags \subseteq tags'
    BY <1>3, TurningFrom DEF local
  <2>2. ASSUME NEW s \in Session, Cutting(s) PROVE ver[s] \notin tags'
    <3>1. CASE UNCHANGED tags
      BY <2>2, <3>1 DEF HasLease
    <3>2. CASE /\ tags' = tags \cup {r.marker.version}
               /\ Strays("recut", \E t \in Session : Cutting(t) /\ ver[t] = r.marker.version)
      <4>1. ver[s] # r.marker.version
        BY <2>2, <3>2, StraysSteps
      <4>2. QED
        BY <2>2, <3>2, <4>1 DEF HasLease
    <3>3. QED
      BY <1>3, <3>1, <3>2 DEF Turning, RunTags, RunFails, Rerun
  <2>3. QED
    BY <2>1, <2>2 DEF HasLease, Holds, Own, Mine, Cutting
<1>4. QED
  BY <1>1, <1>2, <1>3, NextActs

\* Two sessions of one clone do not cut at once.
LEMMA OneCutter ==
  ASSUME HasLease, NEW s \in Session, NEW t \in Session, Cutting(s), Cutting(t), clone[s] = clone[t]
  PROVE  s = t
BY DEF HasLease, Holds, Own, Mine

\* The same, told of the lease that is there after the step.
LeaseNow(s, l) ==
  \/ l = Mine(s)
  \/ l = None /\ (Own(s, Mine(s)) \/ Finished(s))
  \/ /\ Mine(s) = None \/ Finished(s)
     /\ l # None /\ l.sha = 0 /\ l.stage \in {"corrupt", "draft"}
     /\ l.holder = None \/ (l.holder = s /\ pc'[s] = "probes")
  \/ /\ StampLease(s) /\ Own(s, Mine(s))
     /\ l # None /\ l.holder = s /\ l.stage = "marker-local" /\ l.sha = Top(Branch(s)).id
  \/ /\ Confirm(s) /\ Own(s, Mine(s))
     /\ l # None /\ l.holder = s /\ l.stage = "marker-pushed" /\ l.sha = Mine(s).sha
  \/ /\ Upgrade(s) /\ Mine(s) \in {None, read[s]} /\ Top(origin).id = read[s].sha /\ read[s] # None
     /\ l # None /\ l.holder = read[s].holder /\ l.stage = "marker-pushed" /\ l.sha = read[s].sha

\* LeaseFrom, clone by clone.
LEMMA LeaseAt ==
  ASSUME TypeInv, Judged, NEW s \in Session, Acts(s), ~Strayed'
  PROVE  /\ \A c \in Clone : c # clone[s] => lease'[c] = lease[c]
         /\ LeaseNow(s, lease'[clone[s]])
<1>1. clone' = clone /\ clone[s] \in Clone /\ Mine(s) = lease[clone[s]] /\ TypeInv'
  BY ActsAlone, TypeStep DEF TypeInv, Mine, Next, Acts
<1>2. \A l : Sets(s, l) => lease'[clone[s]] = l /\ \A c \in Clone : c # clone[s] => lease'[c] = lease[c]
  BY <1>1, SetsFacts
<1>3. \A c \in Clone : c # clone[s] => lease'[c] = lease[c]
  BY <1>2, LeaseFrom DEF LeaseSteps
<1> SUFFICES LeaseNow(s, lease'[clone[s]])
  BY <1>3
<1>4. lease'[clone[s]] \in Lease \cup {None}
  BY <1>1 DEF TypeInv
<1>5. Own(s, Mine(s)) => Mine(s) \in Lease /\ Mine(s).holder = s
  BY LeaseTypes
<1> DEFINE l == lease'[clone[s]]
<1>6. CASE UNCHANGED lease
  BY <1>1, <1>6 DEF LeaseNow
<1>7. CASE Sets(s, None) /\ (Own(s, Mine(s)) \/ Finished(s))
  BY <1>2, <1>7 DEF LeaseNow
<1>8. CASE /\ Mine(s) = None \/ Finished(s)
           /\ Sets(s, Corrupt) \/ (Sets(s, Draft(s, ver'[s])) /\ pc'[s] = "probes")
  <2>1. ver'[s] \in Nat
    BY <1>1 DEF TypeInv
  <2>2. Corrupt \in Lease /\ Draft(s, ver'[s]) \in Lease
    BY <2>1 DEF Corrupt, Draft, Lease
  <2>3. Corrupt # None /\ Draft(s, ver'[s]) # None
    BY <2>2, ReleaseAssumption
  <2>4. CASE Sets(s, Corrupt)
    <3>1. l = Corrupt
      BY <1>2, <2>4
    <3>2. l # None /\ l.sha = 0 /\ l.stage = "corrupt" /\ l.holder = None
      BY <2>3, <3>1 DEF Corrupt
    <3>3. QED
      BY <1>8, <3>2 DEF LeaseNow
  <2>5. CASE Sets(s, Draft(s, ver'[s])) /\ pc'[s] = "probes"
    <3>1. l = Draft(s, ver'[s])
      BY <1>2, <2>5
    <3>2. l # None /\ l.sha = 0 /\ l.stage = "draft" /\ l.holder = s
      BY <2>3, <3>1 DEF Draft
    <3>3. QED
      BY <1>8, <2>5, <3>2 DEF LeaseNow
  <2>6. QED
    BY <1>8, <2>4, <2>5
<1>9. CASE /\ StampLease(s) /\ Own(s, Mine(s))
           /\ Sets(s, [Mine(s) EXCEPT !.stage = "marker-local", !.sha = Top(Branch(s)).id])
  <2>1. l = [Mine(s) EXCEPT !.stage = "marker-local", !.sha = Top(Branch(s)).id]
    BY <1>2, <1>9
  <2>2. Top(Branch(s)).id \in Nat
    BY TopFacts DEF TypeInv, Branch
  <2>3. l \in Lease
    BY <1>5, <1>9, <2>1, <2>2 DEF Lease
  <2>4. l # None
    BY <2>3, ReleaseAssumption
  <2>5. l.holder = s /\ l.stage = "marker-local" /\ l.sha = Top(Branch(s)).id
    BY <1>5, <1>9, <2>1, LeaseParts
  <2>6. QED
    BY <1>9, <2>4, <2>5 DEF LeaseNow
<1>10. CASE Confirm(s) /\ Own(s, Mine(s)) /\ Sets(s, [Mine(s) EXCEPT !.stage = "marker-pushed"])
  <2>1. l = [Mine(s) EXCEPT !.stage = "marker-pushed"]
    BY <1>2, <1>10
  <2>2. l \in Lease
    BY <1>5, <1>10, <2>1 DEF Lease
  <2>3. l # None
    BY <2>2, ReleaseAssumption
  <2>4. l.holder = s /\ l.stage = "marker-pushed" /\ l.sha = Mine(s).sha
    BY <1>5, <1>10, <2>1, LeaseParts
  <2>5. QED
    BY <1>10, <2>3, <2>4 DEF LeaseNow
<1>11. CASE /\ Upgrade(s) /\ Mine(s) \in {None, read[s]} /\ Top(origin).id = read[s].sha
            /\ Sets(s, [read[s] EXCEPT !.stage = "marker-pushed"])
  <2>1. l = [read[s] EXCEPT !.stage = "marker-pushed"]
    BY <1>2, <1>11
  <2>2. read[s] \in Lease /\ read[s] # None
    BY <1>11 DEF Judged, Upgrade, TypeInv
  <2>3. l \in Lease
    BY <2>1, <2>2 DEF Lease
  <2>4. l # None
    BY <2>3, ReleaseAssumption
  <2>5. l.holder = read[s].holder /\ l.stage = "marker-pushed" /\ l.sha = read[s].sha
    BY <2>1, <2>2, LeaseParts
  <2>6. QED
    BY <1>11, <2>2, <2>4, <2>5 DEF LeaseNow
<1>12. QED
  BY <1>6, <1>7, <1>8, <1>9, <1>10, <1>11, LeaseFrom DEF LeaseSteps

\* What git pull does to main.
PullsAt(s, n, p) ==
  /\ n <= Len(origin) /\ n <= Len(Branch(s)) /\ \A i \in 1..n : Branch(s)[i] = origin[i]
  /\ DOMAIN p = 1..Len(origin) + (Len(Branch(s)) - n)
  /\ \A i \in 1..Len(origin) : p[i] = origin[i]
  /\ \A i \in 1..Len(Branch(s)) - n : p[Len(origin) + i] = Branch(s)[n + i] /\ ~IsMarker(Branch(s)[n + i])

\* Pull, clone by clone.
LEMMA PullAt ==
  ASSUME TypeInv, NEW s \in Session, Pull(s)
  PROVE  /\ \A c \in Clone : c # clone[s] => main'[c] = main[c]
         /\ \E n \in Nat : PullsAt(s, n, main'[clone[s]])
         /\ Strays("pulled", /\ \E t \in Session : clone[t] = clone[s] /\ pc[t] = "commit"
                             /\ \E x \in ToSet(origin) \ ToSet(Branch(s)) : IsMarker(x))
<1>1. PICK n \in Nat : /\ n <= Len(origin) /\ Part(n, Branch(s), origin)
                       /\ main' = [main EXCEPT ![clone[s]] = Pulled(origin, Branch(s), n)]
                       /\ \A x \in ToSet(SubSeq(Branch(s), n + 1, Len(Branch(s)))) : ~IsMarker(x)
                       /\ Strays("pulled", /\ \E t \in Session : clone[t] = clone[s] /\ pc[t] = "commit"
                                           /\ \E x \in ToSet(origin) \ ToSet(Branch(s)) : IsMarker(x))
  BY PullType
<1>2. clone[s] \in Clone /\ Branch(s) \in Seq(Commits) /\ origin \in Seq(Commits)
  BY DEF TypeInv, Branch
<1>3. main'[clone[s]] = Pulled(origin, Branch(s), n) /\ \A c \in Clone : c # clone[s] => main'[c] = main[c]
  BY <1>1, <1>2 DEF TypeInv
<1>4. PullsAt(s, n, Pulled(origin, Branch(s), n))
  BY <1>1, <1>2, PulledFacts DEF PullsAt
<1>5. QED
  BY <1>1, <1>3, <1>4

\* A commit on top of main.
LEMMA AppendAt ==
  ASSUME TypeInv, NEW s \in Session, Commit(s) \/ CommitMarker(s), ~Strayed'
  PROVE  /\ \A c \in Clone : c # clone[s] => main'[c] = main[c]
         /\ made' = made + 1
         /\ \E e \in Commits :
              /\ e.id = made + 1 /\ e.version = IF pc'[s] = pc[s] THEN 0 ELSE ver[s]
              /\ Append(Branch(s), e) = main'[clone[s]]
              /\ DOMAIN main'[clone[s]] = 1..Len(Branch(s)) + 1
              /\ \A i \in 1..Len(Branch(s)) : main'[clone[s]][i] = Branch(s)[i]
              /\ main'[clone[s]][Len(Branch(s)) + 1] = e
              /\ Top(main'[clone[s]]) = e
<1>0. /\ clone[s] \in Clone /\ Branch(s) \in Seq(Commits) /\ Branch(s) = main[clone[s]]
      /\ made + 1 \in Nat \ {0} /\ ver[s] \in Nat
  BY DEF TypeInv, Branch
<1> DEFINE e == [id |-> made + 1, version |-> IF pc'[s] = pc[s] THEN 0 ELSE ver[s]]
<1>1. e \in Commits /\ e.id = made + 1 /\ e.version = IF pc'[s] = pc[s] THEN 0 ELSE ver[s]
  BY <1>0 DEF Commits
<1>2. made' = made + 1 /\ main' = [main EXCEPT ![clone[s]] = Append(@, e)]
  <2>1. CASE Commit(s)
    BY <2>1 DEF Commit, Ordinary
  <2>2. CASE CommitMarker(s)
    <3>1. pc'[s] = "stamp" /\ pc[s] = "commit"
      BY <2>2 DEF CommitMarker, Goes, TypeInv
    <3>2. ~Strays("uncommitted", TRUE)
      BY DEF Strays, Strayed
    <3>3. QED
      BY <2>2, <3>1, <3>2 DEF CommitMarker, Marker
  <2>3. QED
    BY <2>1, <2>2
<1> HIDE DEF e
<1>3. main'[clone[s]] = Append(Branch(s), e) /\ \A c \in Clone : c # clone[s] => main'[c] = main[c]
  BY <1>0, <1>2 DEF TypeInv
<1> DEFINE b == Branch(s)
           a == Append(b, e)
<1>4. /\ a \in Seq(Commits) /\ a # <<>> /\ Len(a) = Len(b) + 1 /\ DOMAIN a = 1..Len(b) + 1
      /\ \A i \in 1..Len(b) : a[i] = b[i]
      /\ a[Len(b) + 1] = e
  BY <1>0, <1>1, AppendFacts
<1> HIDE DEF a
<1>5. Top(a) = e
  BY <1>4, TopFacts
<1>6. a = main'[clone[s]]
  BY <1>3 DEF a
<1>7. QED
  BY <1>1, <1>2, <1>3, <1>4, <1>5, <1>6

\* main without its last commit.
LEMMA ResetAt ==
  ASSUME TypeInv, NEW s \in Session, Resets(s)
  PROVE  /\ \A c \in Clone : c # clone[s] => main'[c] = main[c]
         /\ DOMAIN main'[clone[s]] \subseteq DOMAIN Branch(s)
         /\ \A i \in DOMAIN main'[clone[s]] : main'[clone[s]][i] = Branch(s)[i] /\ i \in DOMAIN Branch(s)
         /\ \A i \in DOMAIN Branch(s) : i \in DOMAIN main'[clone[s]] \/ Branch(s)[i] = Top(Branch(s))
<1>0. clone[s] \in Clone /\ Branch(s) \in Seq(Commits) /\ Branch(s) = main[clone[s]]
  BY DEF TypeInv, Branch
<1>1. /\ main'[clone[s]] = IF Branch(s) = <<>> THEN Branch(s) ELSE Front(Branch(s))
      /\ \A c \in Clone : c # clone[s] => main'[c] = main[c]
  BY <1>0 DEF Resets, TypeInv
<1>2. CASE Branch(s) = <<>>
  BY <1>1, <1>2
<1>3. CASE Branch(s) # <<>>
  <2>1. main'[clone[s]] = Front(Branch(s))
    BY <1>1, <1>3
  <2> DEFINE b == Branch(s)
             f == Front(b)
             n == Len(b)
  <2>2. n \in Nat \ {0} /\ DOMAIN f = 1..n - 1 /\ \A i \in 1..n - 1 : f[i] = b[i]
    BY <1>0, <1>3, FrontFacts
  <2>3. DOMAIN b = 1..n /\ b[n] = Top(b)
    BY <1>0, <1>3, BranchFacts, TopFacts
  <2> HIDE DEF f, n, b
  <2>4. 1..n - 1 \subseteq 1..n /\ \A i \in 1..n : i \in 1..n - 1 \/ i = n
    BY <2>2
  <2>5. /\ DOMAIN f \subseteq DOMAIN b
        /\ \A i \in DOMAIN f : f[i] = b[i] /\ i \in DOMAIN b
        /\ \A i \in DOMAIN b : i \in DOMAIN f \/ b[i] = Top(b)
    BY <2>2, <2>3, <2>4
  <2>6. f = main'[clone[s]] /\ b = Branch(s)
    BY <2>1 DEF f, b
  <2>7. QED
    BY <1>1, <2>5, <2>6
<1>4. QED
  BY <1>2, <1>3

\* A commit after a pull is one of origin or one of the clone's own, which is no marker.
LEMMA PullCases ==
  ASSUME TypeInv, NEW s \in Session, NEW n \in Nat, NEW p, PullsAt(s, n, p)
  PROVE  /\ \A i \in DOMAIN p :
              \/ i \in DOMAIN origin /\ p[i] = origin[i]
              \/ i > Len(origin) /\ ~IsMarker(p[i]) /\ \E j \in DOMAIN Branch(s) : p[i] = Branch(s)[j]
         /\ \A i \in DOMAIN origin : i \in DOMAIN p /\ p[i] = origin[i]
         /\ \A j \in DOMAIN Branch(s) : \E i \in DOMAIN p : p[i] = Branch(s)[j]
         /\ \A j \in DOMAIN Branch(s) : IsMarker(Branch(s)[j]) => Branch(s)[j] \in ToSet(origin)
<1> DEFINE b == Branch(s)
           k == Len(b)
           m == Len(origin)
<1>1. k \in Nat /\ DOMAIN b = 1..k /\ m \in Nat /\ DOMAIN origin = 1..m
  BY LenProperties DEF TypeInv, Branch
<1>2. /\ n <= m /\ n <= k /\ DOMAIN p = 1..m + (k - n)
      /\ \A i \in 1..n : b[i] = origin[i]
      /\ \A i \in 1..m : p[i] = origin[i]
      /\ \A i \in 1..k - n : p[m + i] = b[n + i] /\ ~IsMarker(b[n + i])
  BY DEF PullsAt
<1>3. m = Len(origin) /\ b = Branch(s)
  OBVIOUS
<1> HIDE DEF b, k, m
<1>4. ASSUME NEW i \in DOMAIN p
      PROVE  \/ i \in DOMAIN origin /\ p[i] = origin[i]
             \/ i > m /\ ~IsMarker(p[i]) /\ \E j \in DOMAIN b : p[i] = b[j]
  <2>1. i \in 1..m \/ (i - m \in 1..k - n /\ m + (i - m) = i /\ n + (i - m) \in 1..k /\ i > m)
    BY <1>1, <1>2
  <2>2. CASE i \in 1..m
    BY <1>1, <1>2, <2>2
  <2>3. CASE i - m \in 1..k - n /\ m + (i - m) = i /\ n + (i - m) \in 1..k /\ i > m
    <3>1. p[i] = b[n + (i - m)] /\ ~IsMarker(b[n + (i - m)])
      BY <1>2, <2>3
    <3>2. QED
      BY <1>1, <2>3, <3>1
  <2>4. QED
    BY <2>1, <2>2, <2>3
<1>5. ASSUME NEW i \in DOMAIN origin PROVE i \in DOMAIN p /\ p[i] = origin[i]
  BY <1>1, <1>2
<1>6. ASSUME NEW j \in DOMAIN b PROVE \E i \in DOMAIN p : p[i] = b[j]
  <2>1. j \in 1..n \/ (j - n \in 1..k - n /\ n + (j - n) = j /\ m + (j - n) \in 1..m + (k - n))
    BY <1>1, <1>2
  <2>2. CASE j \in 1..n
    <3>1. j \in 1..m /\ j \in DOMAIN p
      BY <1>1, <1>2, <2>2
    <3>2. QED
      BY <1>2, <2>2, <3>1
  <2>3. CASE j - n \in 1..k - n /\ n + (j - n) = j /\ m + (j - n) \in 1..m + (k - n)
    <3>1. p[m + (j - n)] = b[n + (j - n)]
      BY <1>2, <2>3
    <3>2. QED
      BY <1>2, <2>3, <3>1
  <2>4. QED
    BY <2>1, <2>2, <2>3
<1>7. ASSUME NEW j \in DOMAIN b, IsMarker(b[j]) PROVE b[j] \in ToSet(origin)
  <2>1. j \in 1..n \/ (j - n \in 1..k - n /\ n + (j - n) = j)
    BY <1>1, <1>2
  <2>2. CASE j \in 1..n
    <3>1. j \in DOMAIN origin /\ b[j] = origin[j]
      BY <1>1, <1>2, <2>2
    <3>2. QED
      BY <3>1 DEF ToSet
  <2>3. CASE j - n \in 1..k - n /\ n + (j - n) = j
    <3>1. ~IsMarker(b[n + (j - n)])
      BY <1>2, <2>3
    <3>2. QED
      BY <1>7, <2>3, <3>1
  <2>4. QED
    BY <2>1, <2>2, <2>3
<1>8. QED
  BY <1>3, <1>4, <1>5, <1>6, <1>7

-----------------------------------------------------------------------------
(* One release at a time on origin *)

\* A run that will not tag any more: its version has its tag, or it has failed and
\* main went on.
Spent(r) == r.marker.version \in tags \/ (r.state = "red" /\ r.marker # Top(origin))

\* A release that is over: its marker is on origin and its runs are spent.
Past(m) == m \in ToSet(origin) /\ \A r \in runs : r.marker = m => Spent(r)

\* In a branch a release is over when the marker of the next one follows.
InLine(branch) ==
  \A i, j \in DOMAIN branch :
    i < j /\ IsMarker(branch[i]) /\ IsMarker(branch[j]) => Past(branch[i]) /\ branch[i] # branch[j]

OneByOne ==
  /\ InLine(origin)
  /\ \A c \in Clone : InLine(main[c])
  /\ \A s \in Session : InLine(out[s])

RunsAreOfOrigin ==
  \A r \in runs : /\ r.marker \in ToSet(origin) /\ IsMarker(r.marker)
                  /\ r.state = "done" => r.marker.version \in tags

\* Who has passed the guards finds no release under way; who has seen the head
\* of origin can find it again.
NothingPends ==
  /\ \A s \in Session : pc[s] = "commit" => \A m \in ToSet(Branch(s)) : IsMarker(m) => Past(m)
  /\ \A s \in Session : seen[s] <= Len(origin)

\* Commits are numbered as they are made, and a stamp is the number of one.
Made ==
  /\ \A c \in Clone : \A i \in DOMAIN main[c] : main[c][i].id <= made
  /\ \A s \in Session : \A i \in DOMAIN out[s] : out[s][i].id <= made
  /\ \A i \in DOMAIN origin : origin[i].id <= made
  /\ \A c \in Clone : lease[c] # None => lease[c].sha <= made
  /\ \A s \in Session : (read[s] # None => read[s].sha <= made) /\ sha[s] <= made

\* What is pushed continues origin.
LEMMA PushFacts ==
  ASSUME TypeInv, NEW s \in Session, Pushes(s)
  PROVE  /\ out[s] \in Seq(Commits) /\ origin \in Seq(Commits)
         /\ Len(origin) \in Nat /\ Len(out[s]) \in Nat /\ Len(origin) < Len(out[s])
         /\ DOMAIN origin = 1..Len(origin) /\ DOMAIN out[s] = 1..Len(out[s])
         /\ \A i \in DOMAIN origin : out[s][i] = origin[i]
         /\ Last(Pushing(s)) = out[s][Len(out[s])]
         /\ \A i \in Len(origin) + 1..Len(out[s]) : \E j \in DOMAIN Pushing(s) : Pushing(s)[j] = out[s][i]
         /\ Decides(Pushing(s)) => IsMarker(out[s][Len(out[s])])
         /\ Top(origin') = out[s][Len(out[s])]
<1> DEFINE m == Len(origin)
           n == Len(out[s])
<1>1. out[s] \in Seq(Commits) /\ origin \in Seq(Commits)
  BY DEF TypeInv
<1>2. m \in Nat /\ n \in Nat /\ DOMAIN origin = 1..m /\ DOMAIN out[s] = 1..n
  BY <1>1, LenProperties
<1>3. m <= n /\ \A i \in DOMAIN origin : out[s][i] = origin[i]
  BY <1>1, PrefixFacts DEF Pushes
<1> DEFINE p == SubSeq(out[s], m + 1, n)
<1>0. m = Len(origin) /\ n = Len(out[s])
  OBVIOUS
<1> HIDE DEF m, n
<1>4. m + 1 \in Nat \ {0} /\ m + 1 <= n + 1 /\ n <= Len(out[s]) /\ n + 1 - (m + 1) = n - m
  <2>1. m + 1 \in Nat \ {0} /\ m + 1 <= n + 1 /\ n <= n /\ n + 1 - (m + 1) = n - m
    BY <1>2, <1>3
  <2>2. QED
    BY <1>0, <2>1
<1>5. p \in Seq(Commits) /\ Len(p) = n - m /\ DOMAIN p = 1..n - m /\ \A i \in 1..n - m : p[i] = out[s][m + 1 + i - 1]
  <2>1. /\ SubSeq(out[s], m + 1, n) \in Seq(Commits) /\ Len(SubSeq(out[s], m + 1, n)) = n + 1 - (m + 1)
        /\ DOMAIN SubSeq(out[s], m + 1, n) = 1..(n + 1 - (m + 1))
        /\ \A i \in 1..(n + 1 - (m + 1)) : SubSeq(out[s], m + 1, n)[i] = out[s][m + 1 + i - 1]
    BY <1>1, <1>2, <1>4, PartFacts
  <2>2. QED
    BY <1>4, <2>1
<1>6. p = Pushing(s)
  BY <1>0 DEF Pushing
<1> HIDE DEF p
<1>7. p # <<>>
  BY <1>6 DEF Pushes
<1>8. m < n
  <2>1. Len(p) # 0
    BY <1>5, <1>7, BranchFacts
  <2>2. QED
    BY <1>2, <1>3, <1>5, <2>1
<1>9. Last(p) = out[s][n]
  <2>1. n - m \in 1..n - m /\ m + 1 + (n - m) - 1 = n
    BY <1>2, <1>8
  <2>2. p[n - m] = out[s][n]
    BY <1>5, <2>1
  <2>3. QED
    BY <1>5, <2>2 DEF Last
<1>10. \A i \in m + 1..n : \E j \in DOMAIN p : p[j] = out[s][i]
  <2> SUFFICES ASSUME NEW i \in m + 1..n PROVE \E j \in DOMAIN p : p[j] = out[s][i]
    OBVIOUS
  <2>1. i - m \in 1..n - m /\ m + 1 + (i - m) - 1 = i
    BY <1>2, <1>8
  <2>2. p[i - m] = out[s][i]
    BY <1>5, <2>1
  <2>3. QED
    BY <1>5, <2>1, <2>2
<1>11. Decides(p) => IsMarker(out[s][n])
  BY <1>9 DEF Decides
<1>12. Top(origin') = out[s][n]
  <2>1. out[s] # <<>>
    BY <1>0, <1>2, <1>8, EmptySeq
  <2>2. QED
    BY <1>0, <1>1, <2>1, TopFacts DEF Pushes
<1>13. QED
  BY <1>0, <1>1, <1>2, <1>3, <1>6, <1>8, <1>9, <1>10, <1>11, <1>12

\* A release that is over stays over.
LEMMA PastStays ==
  ASSUME TypeInv, OneByOne, RunsAreOfOrigin, [Next]_vars, ~Strayed', NEW m, IsMarker(m), Past(m)
  PROVE  Past(m)'
<1>1. CASE UNCHANGED <<origin, runs, tags>>
  BY <1>1 DEF Past, Spent
<1>2. ASSUME NEW s \in Session, Acts(s) PROVE Past(m)'
  <2>1. CASE UNCHANGED <<origin, runs>>
    BY <1>1, <1>2, <2>1, TagsFrom
  <2>2. CASE Pushes(s)
    <3> DEFINE n == Len(out[s])
    <3>1. PICK i \in DOMAIN origin : origin[i] = m
      BY DEF Past, ToSet
    <3>2. /\ i \in DOMAIN out[s] /\ n \in DOMAIN out[s] /\ i < n /\ out[s][i] = m
          /\ origin' = out[s] /\ Top(origin') = out[s][n] /\ tags' = tags
      BY <2>2, <3>1, PushFacts DEF Pushes
    <3>3. out[s][n] # m
      <4>1. CASE IsMarker(out[s][n])
        BY <3>2, <4>1 DEF OneByOne, InLine
      <4>2. CASE ~IsMarker(out[s][n])
        BY <4>2
      <4>3. QED
        BY <4>1, <4>2
    <3>4. m \in ToSet(origin')
      BY <3>2 DEF ToSet
    <3>5. \A r \in runs' : r.marker = m => r \in runs
      BY <2>2, <3>3, PushFacts DEF Pushes
    <3>6. \A r \in runs' : r.marker = m => Spent(r)'
      BY <3>2, <3>3, <3>5 DEF Past, Spent
    <3>7. QED
      BY <3>4, <3>6 DEF Past
  <2>3. QED
    BY <1>2, <2>1, <2>2, OriginFrom
<1>3. ASSUME NEW r \in runs, Turning(r) PROVE Past(m)'
  <2>1. origin' = origin /\ tags \subseteq tags'
    BY <1>3, TurningFrom
  <2>2. PICK state \in {"live", "red", "done"} :
           /\ runs' = (runs \ {r}) \cup {[r EXCEPT !.state = state]}
           /\ state = "live" => r.state = "red" /\ Top(origin) = r.marker
           /\ state = "red" => r.state = "live" /\ UNCHANGED tags
           /\ state = "done" => r.marker.version \in tags'
    BY <1>3, TurningFrom
  <2> DEFINE q == [r EXCEPT !.state = state]
  <2>3. q.marker = r.marker /\ q.state = state
    BY DEF TypeInv, Run
  <2>4. ASSUME r.marker = m PROVE Spent(q)'
    <3>1. Spent(r)
      BY <2>4 DEF Past
    <3>2. QED
      BY <2>1, <2>2, <2>3, <3>1 DEF Spent
  <2>5. \A x \in runs : x.marker = m => Spent(x)'
    BY <2>1 DEF Past, Spent
  <2>6. QED
    BY <2>1, <2>2, <2>3, <2>4, <2>5 DEF Past
<1>4. QED
  BY <1>1, <1>2, <1>3, NextActs DEF vars, remote


\* Commits have the numbers they were made with.
LEMMA MadeStep ==
  ASSUME TypeInv, Judged, Made, [Next]_vars, ~Strayed'
  PROVE  Made'
<1>1. CASE UNCHANGED vars
  BY <1>1 DEF vars, local, remote, Made
<1>2. ASSUME NEW s \in Session, Acts(s) PROVE Made'
  <2>0. clone' = clone /\ clone[s] \in Clone /\ Alone(s) /\ Branch(s) \in Seq(Commits) /\ made \in Nat
    BY <1>2, ActsAlone DEF TypeInv, Branch
  <2>1. made' \in Nat /\ made <= made'
    <3>1. made' = made \/ made' = made + 1
      BY <1>2, BranchFrom DEF BranchSteps, Commit, CommitMarker
    <3>2. QED
      BY <2>0, <3>1
  <2>2. \A i \in DOMAIN origin' : origin'[i].id <= made'
    <3>1. CASE origin' = origin
      <4>1. \A i \in DOMAIN origin : origin[i].id \in Nat
        BY CommitFacts DEF TypeInv
      <4>2. QED
        BY <2>0, <2>1, <3>1, <4>1 DEF Made
    <3>2. CASE Pushes(s)
      BY <3>2 DEF Made, Pushes
    <3>3. QED
      BY <1>2, <3>1, <3>2, OriginFrom
  <2>3. ASSUME NEW c \in Clone, NEW i \in DOMAIN main'[c] PROVE main'[c][i].id <= made'
    <3>0. /\ main[c] \in Seq(Commits) /\ DOMAIN main[c] = 1..Len(main[c]) /\ Len(main[c]) \in Nat
          /\ \A j \in DOMAIN main[c] : main[c][j].id \in Nat /\ main[c][j].id <= made'
      <4>1. main[c] \in Seq(Commits)
        BY DEF TypeInv
      <4>2. \A j \in DOMAIN main[c] : main[c][j].id \in Nat
        BY <4>1, CommitFacts
      <4>3. \A j \in DOMAIN main[c] : main[c][j].id <= made
        BY DEF Made
      <4>4. QED
        BY <2>0, <2>1, <4>1, <4>2, <4>3, BranchFacts
    <3>1. CASE main'[c] = main[c]
      BY <3>0, <3>1
    <3>2. CASE c = clone[s]
      <4>0. Branch(s) = main[c]
        BY <3>2 DEF Branch
      <4>1. CASE Commit(s) \/ CommitMarker(s)
        <5>1. PICK e \in Commits :
                /\ e.id = made + 1 /\ DOMAIN main'[c] = 1..Len(main[c]) + 1
                /\ \A j \in 1..Len(main[c]) : main'[c][j] = main[c][j]
                /\ main'[c][Len(main[c]) + 1] = e
          BY <3>2, <4>0, <4>1, AppendAt
        <5>2. made' = made + 1
          BY <4>1, AppendAt
        <5>3. i \in 1..Len(main[c]) \/ i = Len(main[c]) + 1
          BY <3>0, <5>1
        <5>4. QED
          BY <2>0, <3>0, <5>1, <5>2, <5>3
      <4>2. CASE Resets(s)
        <5>1. main'[c][i] = Branch(s)[i] /\ i \in DOMAIN Branch(s)
          BY <3>2, <4>2, ResetAt
        <5>2. QED
          BY <3>0, <4>0, <5>1
      <4>3. CASE Pull(s)
        <5>1. PICK n \in Nat : PullsAt(s, n, main'[c])
          BY <3>2, <4>3, PullAt
        <5>2. (i \in DOMAIN origin /\ main'[c][i] = origin[i]) \/ \E j \in DOMAIN main[c] : main'[c][i] = main[c][j]
          BY <4>0, <5>1, PullCases
        <5>3. origin' = origin
          BY <4>3 DEF Pull, remote
        <5>4. QED
          BY <2>2, <3>0, <5>2, <5>3
      <4>4. QED
        BY <1>2, <3>1, <4>1, <4>2, <4>3, BranchFrom DEF BranchSteps
    <3>3. CASE c # clone[s]
      <4>1. main'[c] = main[c]
        BY <1>2, <3>3, BranchFrom, AppendAt, ResetAt, PullAt DEF BranchSteps
      <4>2. QED
        BY <3>1, <4>1
    <3>4. QED
      BY <3>2, <3>3
  <2>4. ASSUME NEW t \in Session, NEW i \in DOMAIN out'[t] PROVE out'[t][i].id <= made'
    <3>1. \A j \in DOMAIN out[t] : out[t][j].id <= made /\ out[t][j].id \in Nat
      BY CommitFacts DEF Made, TypeInv
    <3>2. \A j \in DOMAIN Branch(t) : Branch(t)[j].id <= made /\ Branch(t)[j].id \in Nat
      BY CommitFacts DEF Made, TypeInv, Branch
    <3>3. out'[t] \in {out[t], <<>>, Branch(t)}
      BY <1>2, <2>0, HandFrom DEF Alone, HandSteps
    <3>4. CASE out'[t] = <<>>
      BY <3>4
    <3>5. CASE out'[t] \in {out[t], Branch(t)}
      BY <2>0, <2>1, <3>1, <3>2, <3>5
    <3>6. QED
      BY <3>3, <3>4, <3>5
  <2>5. /\ \A c \in Clone : lease[c] # None => lease[c].sha \in Nat /\ lease[c].sha <= made'
        /\ \A t \in Session : /\ read[t] # None => read[t].sha \in Nat /\ read[t].sha <= made'
                              /\ sha[t] \in Nat /\ sha[t] <= made'
    <3>1. /\ \A c \in Clone : lease[c] # None => lease[c].sha \in Nat
          /\ \A t \in Session : (read[t] # None => read[t].sha \in Nat) /\ sha[t] \in Nat
      BY DEF TypeInv, Lease
    <3>2. QED
      BY <2>0, <2>1, <3>1 DEF Made
  <2>6. Top(Branch(s)).id \in Nat /\ Top(Branch(s)).id <= made'
    <3>1. Top(Branch(s)).id <= made
      BY <2>0, TopFacts DEF Made, Branch
    <3>2. QED
      BY <2>0, <2>1, <3>1, TopFacts
  <2>7. ASSUME NEW c \in Clone, lease'[c] # None PROVE lease'[c].sha <= made'
    <3>1. CASE lease'[c] = lease[c]
      BY <2>5, <2>7, <3>1
    <3>2. CASE c = clone[s] /\ LeaseNow(s, lease'[c])
      <4>1. Mine(s) # None => Mine(s).sha <= made'
        BY <2>0, <2>5 DEF Mine
      <4>2. 0 <= made'
        BY <2>1
      <4>3. QED
        BY <2>5, <2>6, <2>7, <3>2, <4>1, <4>2 DEF LeaseNow, Own
    <3>3. QED
      BY <1>2, <3>1, <3>2, LeaseAt
  <2>8. ASSUME NEW t \in Session PROVE (read'[t] # None => read'[t].sha <= made') /\ sha'[t] <= made'
    <3>1. CASE t # s
      BY <2>0, <2>5, <3>1 DEF Alone
    <3>2. CASE t = s
      <4>1. HandSteps(s) /\ 0 <= made'
        BY <1>2, <2>1, HandFrom
      <4>2. Mine(s) # None => Mine(s).sha <= made'
        BY <2>0, <2>5 DEF Mine
      <4>3. read'[s] # None => read'[s].sha <= made'
        BY <2>5, <4>1, <4>2 DEF HandSteps
      <4>4. Held(s) => read[s] # None
        BY DEF Held, Judged
      <4>5. sha'[s] <= made'
        BY <2>5, <2>6, <4>1, <4>2, <4>4 DEF HandSteps
      <4>6. QED
        BY <3>2, <4>3, <4>5
    <3>3. QED
      BY <3>1, <3>2
  <2>9. QED
    BY <2>2, <2>3, <2>4, <2>7, <2>8 DEF Made
<1>3. ASSUME NEW r \in runs, Turning(r) PROVE Made'
  <2>1. UNCHANGED <<made, main, origin, lease, local>>
    BY <1>3, TurningFrom
  <2>2. QED
    BY <2>1 DEF Made, local
<1>4. QED
  BY <1>1, <1>2, <1>3, NextActs

\* The markers of a branch stand where they stand in another.
Follows(b, a) ==
  \A i, j \in DOMAIN b :
    i < j /\ IsMarker(b[i]) /\ IsMarker(b[j]) =>
      i \in DOMAIN a /\ j \in DOMAIN a /\ b[i] = a[i] /\ b[j] = a[j]

\* A branch that follows one in line is in line.
LEMMA FollowsInLine ==
  ASSUME TypeInv, OneByOne, RunsAreOfOrigin, [Next]_vars, ~Strayed',
         NEW a, NEW b, InLine(a), Follows(b, a)
  PROVE  InLine(b)'
<1> SUFFICES ASSUME NEW i \in DOMAIN b, NEW j \in DOMAIN b, i < j, IsMarker(b[i]), IsMarker(b[j])
             PROVE  Past(b[i])' /\ b[i] # b[j]
  BY DEF InLine
<1>1. Past(b[i]) /\ b[i] # b[j]
  BY DEF InLine, Follows
<1>2. QED
  BY <1>1, PastStays

\* A branch in line is in line wherever it ends up.
LEMMA InLineAt ==
  ASSUME NEW b, InLine(b)'
  PROVE  /\ origin' = b => InLine(origin)'
         /\ \A c \in Clone : main'[c] = b => InLine(main[c])'
         /\ \A s \in Session : out'[s] = b => InLine(out[s])'
BY DEF InLine, Past, Spent

\* In every branch a marker is followed by another only when it is over.
LEMMA OneByOneStep ==
  ASSUME TypeInv, Judged, Made, OneByOne, RunsAreOfOrigin, NothingPends, [Next]_vars, ~Strayed'
  PROVE  OneByOne'
<1>0. ASSUME NEW a, InLine(a) PROVE InLine(a)'
  <2>1. Follows(a, a)
    BY DEF Follows
  <2>2. QED
    BY <1>0, <2>1, FollowsInLine
<1>1. ASSUME UNCHANGED <<origin, main, out>> PROVE OneByOne'
  <2>1. InLine(origin)'
    <3>1. PICK a : a = origin
      OBVIOUS
    <3>2. QED
      BY <1>0, <1>1, <3>1, InLineAt DEF OneByOne
  <2>2. ASSUME NEW c \in Clone PROVE InLine(main[c])'
    <3>1. PICK a : a = main[c]
      OBVIOUS
    <3>2. QED
      BY <1>0, <1>1, <3>1, InLineAt DEF OneByOne
  <2>3. ASSUME NEW s \in Session PROVE InLine(out[s])'
    <3>1. PICK a : a = out[s]
      OBVIOUS
    <3>2. QED
      BY <1>0, <1>1, <3>1, InLineAt DEF OneByOne
  <2>4. QED
    BY <2>1, <2>2, <2>3 DEF OneByOne
<1>2. ASSUME NEW s \in Session, Acts(s) PROVE OneByOne'
  <2>0. clone[s] \in Clone /\ clone' = clone /\ Alone(s) /\ InLine(Branch(s)) /\ Branch(s) = main[clone[s]]
    BY <1>2, ActsAlone DEF TypeInv, OneByOne, Branch
  <2>1. InLine(origin)'
    <3>1. PICK a : a = origin'
      OBVIOUS
    <3>2. origin' \in {origin, out[s]}
      BY <1>2, OriginFrom DEF Pushes
    <3>3. InLine(a)
      BY <3>1, <3>2 DEF OneByOne
    <3>4. QED
      BY <1>0, <3>1, <3>3, InLineAt
  <2>2. ASSUME NEW t \in Session PROVE InLine(out[t])'
    <3>1. PICK a : a = out'[t]
      OBVIOUS
    <3>2. out'[t] \in {out[t], <<>>} \/ (t = s /\ out'[t] = Branch(s))
      BY <1>2, <2>0, HandFrom DEF Alone, HandSteps
    <3>3. CASE out'[t] \in {out[t], Branch(t)}
      BY <1>0, <2>0, <3>1, <3>3, InLineAt DEF OneByOne, Branch, TypeInv
    <3>4. CASE out'[t] = <<>>
      <4>1. InLine(a)
        BY <3>1, <3>4 DEF InLine
      <4>2. QED
        BY <1>0, <3>1, <4>1, InLineAt
    <3>5. QED
      BY <3>2, <3>3, <3>4
  <2>3. ASSUME NEW c \in Clone PROVE InLine(main[c])'
    <3>1. PICK b : b = main'[c]
      OBVIOUS
    <3>2. CASE main'[c] = main[c]
      BY <1>0, <3>1, <3>2, InLineAt DEF OneByOne
    <3>3. CASE c = clone[s]
      <4>0. b = main'[clone[s]]
        BY <3>1, <3>3
      <4>1. CASE Commit(s) \/ CommitMarker(s)
        <5>0. Len(Branch(s)) \in Nat /\ DOMAIN Branch(s) = 1..Len(Branch(s)) /\ Branch(s) \in Seq(Commits)
          BY LenProperties DEF TypeInv, Branch
        <5>1. PICK e \in Commits :
                /\ e.id = made + 1 /\ e.version = IF pc'[s] = pc[s] THEN 0 ELSE ver[s]
                /\ DOMAIN b = 1..Len(Branch(s)) + 1
                /\ \A i \in 1..Len(Branch(s)) : b[i] = Branch(s)[i]
                /\ b[Len(Branch(s)) + 1] = e
          BY <4>0, <4>1, AppendAt
        <5>2. CASE Commit(s)
          <6>1. ~IsMarker(e)
            BY <5>1, <5>2 DEF Commit, IsMarker
          <6>2. Follows(b, Branch(s))
            BY <5>0, <5>1, <6>1 DEF Follows
          <6>3. InLine(b)'
            BY <2>0, <6>2, FollowsInLine
          <6>4. QED
            BY <3>1, <6>3, InLineAt
        <5>3. CASE CommitMarker(s)
          <6>1. \A m \in ToSet(Branch(s)) : IsMarker(m) => Past(m)
            BY <5>3 DEF CommitMarker, NothingPends
          <6>2. \A i \in DOMAIN Branch(s) : Branch(s)[i] # e
            <7>1. \A i \in DOMAIN Branch(s) : Branch(s)[i].id <= made /\ Branch(s)[i].id \in Nat
              BY <2>0, <5>0, CommitFacts DEF Made
            <7>2. made \in Nat
              BY DEF TypeInv
            <7>3. QED
              BY <5>1, <7>1, <7>2
          <6>3. ASSUME NEW i \in DOMAIN b, NEW j \in DOMAIN b, i < j, IsMarker(b[i]), IsMarker(b[j])
                PROVE  Past(b[i])' /\ b[i] # b[j]
            <7>1. i \in DOMAIN Branch(s) /\ b[i] = Branch(s)[i] /\ b[i] \in ToSet(Branch(s))
              BY <5>0, <5>1, <6>3 DEF ToSet
            <7>2. Past(b[i])
              BY <6>1, <6>3, <7>1
            <7>3. b[i] # b[j]
              <8>1. CASE j \in DOMAIN Branch(s)
                BY <2>0, <5>0, <5>1, <6>3, <7>1, <8>1 DEF InLine
              <8>2. CASE j \notin DOMAIN Branch(s)
                BY <5>0, <5>1, <6>2, <7>1, <8>2
              <8>3. QED
                BY <8>1, <8>2
            <7>4. QED
              BY <6>3, <7>2, <7>3, PastStays
          <6>4. InLine(b)'
            BY <6>3 DEF InLine
          <6>5. QED
            BY <3>1, <6>4, InLineAt
        <5>4. QED
          BY <4>1, <5>2, <5>3
      <4>2. CASE Resets(s)
        <5>1. Follows(b, Branch(s))
          BY <4>0, <4>2, ResetAt DEF Follows
        <5>2. InLine(b)'
          BY <2>0, <5>1, FollowsInLine
        <5>3. QED
          BY <3>1, <5>2, InLineAt
      <4>3. CASE Pull(s)
        <5>1. PICK n \in Nat : PullsAt(s, n, b)
          BY <4>0, <4>3, PullAt
        <5>2. Follows(b, origin)
          BY <5>1, PullCases DEF Follows
        <5>3. InLine(b)'
          BY <5>2, FollowsInLine DEF OneByOne
        <5>4. QED
          BY <3>1, <5>3, InLineAt
      <4>4. QED
        BY <1>2, <3>2, <4>1, <4>2, <4>3, BranchFrom DEF BranchSteps
    <3>4. CASE c # clone[s]
      <4>1. main'[c] = main[c]
        BY <1>2, <3>4, BranchFrom, AppendAt, ResetAt, PullAt DEF BranchSteps
      <4>2. QED
        BY <3>2, <4>1
    <3>5. QED
      BY <3>3, <3>4
  <2>4. QED
    BY <2>1, <2>2, <2>3 DEF OneByOne
<1>3. ASSUME NEW r \in runs, Turning(r) PROVE OneByOne'
  BY <1>1, <1>3, TurningFrom DEF local
<1>4. QED
  BY <1>1, <1>2, <1>3, NextActs DEF vars, local, remote

\* A run is of a marker of origin.
LEMMA RunsStep ==
  ASSUME TypeInv, RunsAreOfOrigin, [Next]_vars
  PROVE  RunsAreOfOrigin'
<1>1. CASE UNCHANGED <<origin, runs, tags>>
  BY <1>1 DEF RunsAreOfOrigin
<1>2. ASSUME NEW s \in Session, Acts(s) PROVE RunsAreOfOrigin'
  <2>1. CASE Pushes(s)
    <3> DEFINE e == out[s][Len(out[s])]
    <3>1. /\ origin' = out[s] /\ tags' = tags
          /\ \A q \in runs' : q \in runs \/ (q = [marker |-> e, state |-> "live"] /\ IsMarker(e))
      BY <2>1, PushFacts DEF Pushes
    <3>2. e \in ToSet(origin') /\ ToSet(origin) \subseteq ToSet(origin')
      BY <2>1, <3>1, PushFacts DEF ToSet
    <3>3. QED
      BY <3>1, <3>2 DEF RunsAreOfOrigin
  <2>2. QED
    BY <1>1, <1>2, <2>1, OriginFrom, TagsFrom
<1>3. ASSUME NEW r \in runs, Turning(r) PROVE RunsAreOfOrigin'
  <2>1. origin' = origin /\ tags \subseteq tags'
    BY <1>3, TurningFrom
  <2>2. PICK state \in {"live", "red", "done"} :
           /\ runs' = (runs \ {r}) \cup {[r EXCEPT !.state = state]}
           /\ state = "done" => r.marker.version \in tags'
    BY <1>3, TurningFrom
  <2>3. [r EXCEPT !.state = state].marker = r.marker /\ [r EXCEPT !.state = state].state = state
    BY DEF TypeInv, Run
  <2>4. QED
    BY <2>1, <2>2, <2>3 DEF RunsAreOfOrigin
<1>4. QED
  BY <1>1, <1>2, <1>3, NextActs DEF vars, remote

\* The guards of planRelease: no release on origin is under way when gh, which
\* answers, lists no live run, and main has no marker that origin has not.
LEMMA GuardsFacts ==
  ASSUME TypeInv, OneByOne, RunsAreOfOrigin, NothingPends, NEW s \in Session, MayCut(s), Live = {},
         NEW m \in ToSet(Branch(s)), IsMarker(m)
  PROVE  Past(m)
<1> DEFINE n == seen[s]
           k == SubSeq(origin, 1, n)
<1>0. n \in Nat /\ n <= Len(origin) /\ origin \in Seq(Commits) /\ Branch(s) \in Seq(Commits)
  BY DEF TypeInv, NothingPends, Branch
<1>1. /\ IsPrefix(k, Branch(s))
      /\ \A i \in n + 1..Len(Branch(s)) : ~IsMarker(Branch(s)[i])
      /\ IsMarker(Top(k)) => Top(k).version \in tags
  BY DEF MayCut
<1>2. n <= Len(Branch(s)) /\ \A i \in 1..n : Branch(s)[i] = origin[i]
  BY <1>0, <1>1, SharedFacts
<1>3. PICK i \in DOMAIN Branch(s) : Branch(s)[i] = m
  BY DEF ToSet
<1>4. DOMAIN Branch(s) = 1..Len(Branch(s)) /\ Len(Branch(s)) \in Nat /\ DOMAIN origin = 1..Len(origin) /\ Len(origin) \in Nat
  BY <1>0, LenProperties
<1>5. i \in 1..n /\ i \in DOMAIN origin /\ origin[i] = m
  <2>1. i \in 1..n \/ i \in n + 1..Len(Branch(s))
    BY <1>0, <1>4
  <2>2. QED
    BY <1>0, <1>1, <1>2, <1>3, <1>4, <2>1
<1>6. m \in ToSet(origin)
  BY <1>5 DEF ToSet
<1>7. CASE i < Len(origin) /\ IsMarker(Top(origin))
  <2>1. Len(origin) \in DOMAIN origin /\ Top(origin) = origin[Len(origin)]
    BY <1>0, <1>5, TopFacts
  <2>2. QED
    BY <1>5, <1>7, <2>1 DEF OneByOne, InLine
<1>8. CASE ~IsMarker(Top(origin))
  <2>1. ASSUME NEW r \in runs, r.marker = m PROVE Spent(r)
    <3>1. r.state \in {"red", "done"}
      BY DEF Live, TypeInv, Run
    <3>2. m # Top(origin)
      BY <1>8
    <3>3. QED
      BY <2>1, <3>1, <3>2 DEF Spent, RunsAreOfOrigin
  <2>2. QED
    BY <1>6, <2>1 DEF Past
<1>9. CASE i = Len(origin)
  <2>1. n = i
    BY <1>0, <1>4, <1>5, <1>9
  <2>2. Top(k) = m
    <3>1. /\ k \in Seq(Commits) /\ Len(k) = n /\ k[n] = origin[n]
      <4>1. 1 \in Nat \ {0} /\ 1 <= n + 1 /\ n + 1 - 1 = n /\ n \in 1..n /\ 1 + n - 1 = n
        BY <1>0, <1>5
      <4> HIDE DEF n
      <4>2. /\ SubSeq(origin, 1, n) \in Seq(Commits) /\ Len(SubSeq(origin, 1, n)) = n + 1 - 1
            /\ \A j \in 1..(n + 1 - 1) : SubSeq(origin, 1, n)[j] = origin[1 + j - 1]
        BY <1>0, <4>1, PartFacts
      <4>3. QED
        BY <4>1, <4>2
    <3> HIDE DEF k
    <3>2. k # <<>>
      BY <1>0, <1>5, <3>1, EmptySeq
    <3>3. QED
      BY <1>5, <2>1, <3>1, <3>2, TopFacts
  <2>3. m.version \in tags
    BY <1>1, <2>2
  <2>4. QED
    BY <1>6, <2>3 DEF Past, Spent
<1>10. QED
  BY <1>4, <1>5, <1>7, <1>8, <1>9

\* Who is about to commit has passed the guards, and no run was live.
LEMMA CommitFrom ==
  ASSUME TypeInv, NEW s \in Session, Acts(s), ~Strayed', pc'[s] = "commit"
  PROVE  \/ pc[s] = "commit" /\ ~CommitMarker(s)
         \/ Guards(s) /\ MayCut(s) /\ Live = {} /\ UNCHANGED main
<1> USE DEF TypeInv, Goes, Ends, Forgotten
<1>1. CASE Guards(s)
  <2>1. CASE MayCut(s) /\ Strays("blind", Live # {})
    <3>1. Live = {}
      BY <2>1, StraysSteps
    <3>2. QED
      BY <1>1, <2>1, <3>1 DEF Guards
  <2>2. CASE Refuse(s)
    BY <2>2 DEF Refuse
  <2>3. QED
    BY <1>1, <2>1, <2>2 DEF Guards
<1>2. CASE Release(s)
  BY <1>2 DEF Release, Create
<1>3. CASE Retry(s)
  BY <1>3 DEF Retry, Create
<1>4. CASE Probes(s) \/ CommitMarker(s) \/ StampLease(s) \/ Held(s) \/ Complete(s) \/ PushMain(s)
  BY <1>4 DEF Probes, CommitMarker, StampLease, Held, Complete, PushMain, Refuse
<1>5. CASE Guard(s) \/ Blocked(s)
  BY <1>5 DEF Guard, Blocked, Passes
<1>6. CASE Transfer(s)
  BY <1>6 DEF Transfer
<1>7. CASE Confirm(s) \/ Status(s) \/ Clear(s) \/ Upgrade(s) \/ AbortLocal(s) \/ AbortPushed(s) \/ Dies(s)
  BY <1>7 DEF Confirm, Status, Clear, Upgrade, AbortLocal, AbortPushed, Dies
<1>8. CASE Commit(s) \/ Pull(s)
  <2>1. UNCHANGED <<pc, ver>> /\ (Commit(s) => made' = made + 1 /\ pc'[s] = pc[s])
    BY <1>8 DEF Commit, Pull, local
  <2>2. ~CommitMarker(s)
    BY <2>1 DEF CommitMarker
  <2>3. QED
    BY <2>1, <2>2
<1>9. CASE \E force \in BOOLEAN : Abort(s, force)
  BY <1>9 DEF Abort
<1>10. QED
  BY <1>1, <1>2, <1>3, <1>4, <1>5, <1>6, <1>7, <1>8, <1>9 DEF Acts

\* For who is about to commit, all markers of main are over.
LEMMA PendsStep ==
  ASSUME TypeInv, Judged, HasLease, OneByOne, RunsAreOfOrigin, NothingPends, [Next]_vars, ~Strayed'
  PROVE  NothingPends'
<1>0. Len(origin) \in Nat /\ \A s \in Session : seen[s] \in Nat /\ seen[s] <= Len(origin)
  BY LenProperties DEF TypeInv, NothingPends
\* What is over is over, wherever main has come from.
<1>1. ASSUME NEW t \in Session, NEW b, b = main'[clone'[t]],
             \A m \in ToSet(b) : IsMarker(m) => Past(m)
      PROVE  \A m \in ToSet(main'[clone'[t]]) : IsMarker(m) => Past(m)'
  BY <1>1, PastStays
<1>2. ASSUME UNCHANGED <<main, clone, pc, origin, seen>> PROVE NothingPends'
  <2>1. ASSUME NEW t \in Session, pc'[t] = "commit"
        PROVE  \A m \in ToSet(main'[clone'[t]]) : IsMarker(m) => Past(m)'
    <3>1. PICK b : b = main'[clone'[t]]
      OBVIOUS
    <3>2. \A m \in ToSet(b) : IsMarker(m) => Past(m)
      BY <1>2, <2>1, <3>1 DEF NothingPends, Branch
    <3>3. QED
      BY <1>1, <3>1, <3>2
  <2>2. QED
    BY <1>2, <2>1 DEF NothingPends, Branch, Past, Spent
<1>3. ASSUME NEW s \in Session, Acts(s) PROVE NothingPends'
  <2>0. clone[s] \in Clone /\ clone' = clone /\ Alone(s) /\ Branch(s) = main[clone[s]]
    BY <1>3, ActsAlone DEF TypeInv, Branch
  <2>1. ASSUME NEW t \in Session PROVE seen'[t] <= Len(origin')
    <3>1. Len(origin') \in Nat /\ Len(origin) <= Len(origin')
      <4>1. CASE Pushes(s)
        BY <4>1, PushFacts DEF Pushes
      <4>2. QED
        BY <1>0, <1>3, <4>1, OriginFrom
    <3>2. seen'[t] \in {seen[t], 0, Len(origin)}
      BY <1>3, <2>0, HandFrom DEF Alone, HandSteps
    <3>3. QED
      BY <1>0, <3>1, <3>2
  <2>2. ASSUME NEW t \in Session, pc'[t] = "commit"
        PROVE  \A m \in ToSet(main'[clone'[t]]) : IsMarker(m) => Past(m)'
    <3>1. PICK b : b = main'[clone'[t]]
      OBVIOUS
    <3>2. CASE t = s /\ Guards(s) /\ MayCut(s) /\ Live = {} /\ UNCHANGED main
      <4>1. b = Branch(s)
        BY <2>0, <3>1, <3>2
      <4>2. \A m \in ToSet(b) : IsMarker(m) => Past(m)
        BY <3>2, <4>1, GuardsFacts
      <4>3. QED
        BY <1>1, <3>1, <4>2
    <3>3. CASE pc[t] = "commit" /\ ~CommitMarker(s)
      <4>0. \A m \in ToSet(Branch(t)) : IsMarker(m) => Past(m)
        BY <3>3 DEF NothingPends
      <4>1. CASE clone[t] # clone[s] \/ UNCHANGED main
        <5>1. b = Branch(t)
          <6>1. clone[t] \in Clone
            BY DEF TypeInv
          <6>2. main'[clone[t]] = main[clone[t]]
            BY <1>3, <4>1, <6>1, BranchFrom, AppendAt, ResetAt, PullAt DEF BranchSteps
          <6>3. QED
            BY <2>0, <3>1, <6>2 DEF Branch
        <5>2. QED
          BY <1>1, <3>1, <4>0, <5>1
      <4>2. CASE clone[t] = clone[s] /\ Commit(s)
        <5>0. Len(Branch(s)) \in Nat /\ DOMAIN Branch(s) = 1..Len(Branch(s)) /\ b = main'[clone[s]] /\ Branch(t) = Branch(s)
          BY <2>0, <3>1, <4>2, LenProperties DEF TypeInv, Branch
        <5>1. PICK e \in Commits :
                /\ e.version = IF pc'[s] = pc[s] THEN 0 ELSE ver[s]
                /\ DOMAIN b = 1..Len(Branch(s)) + 1
                /\ \A i \in 1..Len(Branch(s)) : b[i] = Branch(s)[i]
                /\ b[Len(Branch(s)) + 1] = e
          BY <4>2, <5>0, AppendAt
        <5>2. ~IsMarker(e)
          BY <4>2, <5>1 DEF Commit, IsMarker
        <5>3. \A m \in ToSet(b) : IsMarker(m) => m \in ToSet(Branch(s))
          BY <5>0, <5>1, <5>2 DEF ToSet
        <5>4. QED
          BY <1>1, <3>1, <4>0, <5>0, <5>3
      <4>3. CASE clone[t] = clone[s] /\ Resets(s)
        <5>0. b = main'[clone[s]] /\ Branch(t) = Branch(s)
          BY <2>0, <3>1, <4>3 DEF Branch
        <5>1. ToSet(b) \subseteq ToSet(Branch(s))
          BY <4>3, <5>0, ResetAt DEF ToSet
        <5>2. QED
          BY <1>1, <3>1, <4>0, <5>0, <5>1
      <4>4. CASE clone[t] = clone[s] /\ Pull(s)
        <5>0. b = main'[clone[s]] /\ Branch(t) = Branch(s)
          BY <2>0, <3>1, <4>4 DEF Branch
        <5>1. PICK n \in Nat : PullsAt(s, n, b)
          BY <4>4, <5>0, PullAt
        <5>2. \A m \in ToSet(b) : IsMarker(m) => m \in ToSet(origin)
          BY <5>1, PullCases DEF ToSet
        <5>3. \A x \in ToSet(origin) \ ToSet(Branch(s)) : ~IsMarker(x)
          <6>1. ~(/\ \E q \in Session : clone[q] = clone[s] /\ pc[q] = "commit"
                  /\ \E x \in ToSet(origin) \ ToSet(Branch(s)) : IsMarker(x))
            BY <4>4, PullAt, StraysSteps
          <6>2. QED
            BY <3>3, <4>4, <6>1
        <5>4. QED
          BY <1>1, <3>1, <4>0, <5>0, <5>2, <5>3
      <4>5. QED
        BY <1>3, <3>3, <4>1, <4>2, <4>3, <4>4, BranchFrom DEF BranchSteps
    <3>4. CASE pc[t] = "commit" /\ CommitMarker(s) /\ t # s
      <4>1. clone[t] # clone[s]
        BY <3>4, OneCutter DEF CommitMarker, Cutting
      <4>2. main'[clone[t]] = main[clone[t]]
        <5>1. \A c \in Clone : c # clone[s] => main'[c] = main[c]
          BY <3>4, AppendAt
        <5>2. clone[t] \in Clone
          BY DEF TypeInv
        <5>3. QED
          BY <4>1, <5>1, <5>2
      <4>3. \A m \in ToSet(b) : IsMarker(m) => Past(m)
        BY <2>0, <3>1, <3>4, <4>2 DEF NothingPends, Branch
      <4>4. QED
        BY <1>1, <3>1, <4>3
    <3>5. QED
      BY <1>3, <2>0, <2>2, <3>2, <3>3, <3>4, CommitFrom DEF Alone
  <2>3. QED
    BY <2>0, <2>1, <2>2 DEF NothingPends, Branch, Past, Spent
<1>4. ASSUME NEW r \in runs, Turning(r) PROVE NothingPends'
  BY <1>2, <1>4, TurningFrom DEF local
<1>5. QED
  BY <1>2, <1>3, <1>4, NextActs DEF vars, local, remote

\* Of two releases on origin the first is over.
LEMMA OneLive ==
  ASSUME TypeInv, OneByOne, RunsAreOfOrigin
  PROVE  Cardinality({r \in Live : r.marker.version \notin tags}) <= 1
<1> DEFINE L == {r \in Live : r.marker.version \notin tags}
<1>1. ASSUME NEW q \in L, NEW r \in L PROVE q = r
  <2>1. q \in runs /\ r \in runs /\ q.state = "live" /\ r.state = "live" /\ ~Spent(q) /\ ~Spent(r)
    BY DEF Live, Spent
  <2>2. PICK i \in DOMAIN origin : origin[i] = q.marker
    BY <2>1 DEF RunsAreOfOrigin, ToSet
  <2>3. PICK j \in DOMAIN origin : origin[j] = r.marker
    BY <2>1 DEF RunsAreOfOrigin, ToSet
  <2>4. i \in Int /\ j \in Int
    BY LenProperties DEF TypeInv
  <2>5. ~(i < j) /\ ~(j < i)
    BY <2>1, <2>2, <2>3 DEF OneByOne, InLine, Past, RunsAreOfOrigin
  <2>6. q.marker = r.marker
    BY <2>2, <2>3, <2>4, <2>5
  <2>7. q \in Run /\ r \in Run
    BY <2>1 DEF TypeInv
  <2>8. QED
    BY <2>1, <2>6, <2>7 DEF Run
<1>2. CASE L = {}
  BY <1>2, FS_EmptySet
<1>3. CASE L # {}
  <2>1. PICK q : L = {q}
    BY <1>1, <1>3
  <2>2. Cardinality(L) = 1
    BY <2>1, FS_Singleton
  <2>3. QED
    BY <2>2
<1>4. QED
  BY <1>2, <1>3

-----------------------------------------------------------------------------
(* The marker of a lease *)

Ids(branch) == {branch[i].id : i \in DOMAIN branch}

\* The commits a clone has, in main or in what one of its sessions pushes.
Has(c, m) == m \in ToSet(main[c]) \/ \E t \in Session : clone[t] = c /\ m \in ToSet(out[t])

\* Clones have in common what origin has.
OneClone ==
  \A c, d \in Clone : c # d => \A m : Has(c, m) /\ Has(d, m) => m \in ToSet(origin)

\* What is on origin stays there.
LEMMA OriginGrows ==
  ASSUME TypeInv, [Next]_vars
  PROVE  ToSet(origin) \subseteq ToSet(origin') /\ Ids(origin) \subseteq Ids(origin')
<1>1. CASE origin' = origin
  BY <1>1
<1>2. ASSUME NEW s \in Session, Pushes(s)
      PROVE  ToSet(origin) \subseteq ToSet(origin') /\ Ids(origin) \subseteq Ids(origin')
  <2>1. /\ origin' = out[s] /\ DOMAIN origin \subseteq DOMAIN out[s]
        /\ \A i \in DOMAIN origin : out[s][i] = origin[i]
    BY <1>2, PushFacts DEF Pushes
  <2>2. QED
    BY <2>1 DEF ToSet, Ids
<1>3. QED
  BY <1>1, <1>2, NextActs, OriginFrom, TurningFrom DEF vars, remote

\* A commit comes to a clone from origin, or is made there.
LEMMA HasFrom ==
  ASSUME TypeInv, NEW s \in Session, Acts(s), ~Strayed', NEW c \in Clone, NEW m, Has(c, m)'
  PROVE  Has(c, m) \/ (c = clone[s] /\ (m \in ToSet(origin) \/ m.id = made + 1))
<1>0. clone[s] \in Clone /\ clone' = clone /\ Alone(s) /\ Branch(s) = main[clone[s]]
  BY ActsAlone DEF TypeInv, Branch
<1>1. ASSUME m \in ToSet(main'[c])
      PROVE  m \in ToSet(main[c]) \/ (c = clone[s] /\ (m \in ToSet(origin) \/ m.id = made + 1))
  <2>1. CASE main'[c] = main[c]
    BY <1>1, <2>1
  <2>2. CASE c = clone[s]
    <3>0. main[c] = Branch(s) /\ Len(main[c]) \in Nat /\ DOMAIN main[c] = 1..Len(main[c])
      BY <1>0, <2>2, LenProperties DEF TypeInv
    <3>1. CASE Commit(s) \/ CommitMarker(s)
      <4>1. PICK e \in Commits :
              /\ e.id = made + 1 /\ DOMAIN main'[c] = 1..Len(main[c]) + 1
              /\ \A j \in 1..Len(main[c]) : main'[c][j] = main[c][j]
              /\ main'[c][Len(main[c]) + 1] = e
        BY <2>2, <3>0, <3>1, AppendAt
      <4>2. PICK i \in DOMAIN main'[c] : main'[c][i] = m
        BY <1>1 DEF ToSet
      <4>3. i \in DOMAIN main[c] \/ i = Len(main[c]) + 1
        BY <3>0, <4>1
      <4>4. QED
        BY <2>2, <3>0, <4>1, <4>2, <4>3 DEF ToSet
    <3>2. CASE Resets(s)
      BY <1>1, <2>2, <3>0, <3>2, ResetAt DEF ToSet
    <3>3. CASE Pull(s)
      <4>1. PICK n \in Nat : PullsAt(s, n, main'[c])
        BY <2>2, <3>3, PullAt
      <4>2. QED
        BY <1>1, <2>2, <3>0, <4>1, PullCases DEF ToSet
    <3>4. QED
      BY <2>1, <3>1, <3>2, <3>3, BranchFrom DEF BranchSteps
  <2>3. CASE c # clone[s]
    <3>1. main'[c] = main[c]
      BY <2>3, BranchFrom, AppendAt, ResetAt, PullAt DEF BranchSteps
    <3>2. QED
      BY <2>1, <3>1
  <2>4. QED
    BY <2>2, <2>3
<1>2. ASSUME NEW t \in Session, clone[t] = c, m \in ToSet(out'[t])
      PROVE  Has(c, m)
  <2>1. out'[t] \in {out[t], <<>>, Branch(t)}
    BY <1>0, HandFrom DEF Alone, HandSteps
  <2>2. out'[t] # <<>>
    BY <1>2 DEF ToSet
  <2>3. QED
    BY <1>2, <2>1, <2>2 DEF Has, Branch
<1>3. QED
  BY <1>0, <1>1, <1>2 DEF Has

\* Clones share only what origin has.
LEMMA OneCloneStep ==
  ASSUME TypeInv, Made, OneClone, [Next]_vars, ~Strayed'
  PROVE  OneClone'
<1>0. ASSUME NEW c \in Clone, NEW m, Has(c, m) PROVE m.id <= made /\ m.id \in Nat
  <2>1. CASE m \in ToSet(main[c])
    BY <2>1, CommitFacts DEF Made, TypeInv, ToSet
  <2>2. ASSUME NEW t \in Session, m \in ToSet(out[t]) PROVE m.id <= made /\ m.id \in Nat
    BY <2>2, CommitFacts DEF Made, TypeInv, ToSet
  <2>3. QED
    BY <1>0, <2>1, <2>2 DEF Has
<1>1. CASE UNCHANGED <<clone, main, out>>
  BY <1>1, OriginGrows DEF OneClone, Has
<1>2. ASSUME NEW s \in Session, Acts(s) PROVE OneClone'
  <2>1. made \in Nat
    BY DEF TypeInv
  <2>2. ASSUME NEW c \in Clone, NEW d \in Clone, c # d, NEW m, Has(c, m)', Has(d, m)'
        PROVE  m \in ToSet(origin')
    <3>1. Has(c, m) \/ (c = clone[s] /\ (m \in ToSet(origin) \/ m.id = made + 1))
      BY <1>2, <2>2, HasFrom
    <3>2. Has(d, m) \/ (d = clone[s] /\ (m \in ToSet(origin) \/ m.id = made + 1))
      BY <1>2, <2>2, HasFrom
    <3>3. m \in ToSet(origin)
      BY <1>0, <2>1, <2>2, <3>1, <3>2 DEF OneClone
    <3>4. QED
      BY <3>3, OriginGrows
  <2>3. QED
    BY <2>2 DEF OneClone
<1>3. ASSUME NEW r \in runs, Turning(r) PROVE OneClone'
  BY <1>1, <1>3, TurningFrom DEF local
<1>4. QED
  BY <1>1, <1>2, <1>3, NextActs DEF vars, local

\* Nothing in the clone carries the number of the marker that is about to be
\* stamped, and origin does not have that marker.
Fresh(s) ==
  LET top == Top(Branch(s)).id IN
    /\ Mine(s) # None => Mine(s).sha < top
    /\ \A t \in Session : clone[t] = clone[s] => sha[t] < top /\ (read[t] # None => read[t].sha < top)
Unpushed(s) == \E m \in ToSet(Branch(s)) : IsMarker(m) /\ m \notin ToSet(origin)

NewMarker == \A s \in Session : pc[s] = "stamp" => Fresh(s) /\ Unpushed(s)

\* Holder h has stamped commit n in clone c: the lease says so, or who read it, or
\* who did it.
Stamped(c, h, n) ==
  \/ lease[c] # None /\ lease[c].holder = h /\ lease[c].sha = n
  \/ \E t \in Session : clone[t] = c /\ read[t] # None /\ read[t].holder = h /\ read[t].sha = n
  \/ h \in Session /\ clone[h] = c /\ ~Forcing(h) /\ sha[h] = n

OneHolder ==
  \A c \in Clone : \A n \in Nat \ {0} : \A g, h :
    Stamped(c, g, n) /\ Stamped(c, h, n) => g = h

\* A lease with a marker names it.
Staged(l) == l # None /\ l.stage \in {"marker-local", "marker-pushed"} => l.sha # 0
StagesAreStamped ==
  /\ \A c \in Clone : Staged(lease[c])
  /\ \A s \in Session : Staged(read[s])

\* Until its push has been answered a release has its marker on main, on what it
\* pushes or on origin.
Claims ==
  \A s \in Session : Own(s, Mine(s)) =>
    /\ ver[s] # 0 /\ pc[s] \in {"complete", "push"} => Mine(s).sha \in Ids(Branch(s)) \cup Ids(origin)
    /\ ver[s] # 0 /\ pc[s] = "transfer" => Mine(s).sha \in Ids(out[s]) \cup Ids(origin)
    /\ pc[s] = "confirm" => Mine(s).sha \in Ids(origin)
    /\ pc[s] = "finished" => Mine(s).sha = read[s].sha \/ Mine(s).sha \in Ids(origin)

Pushed == \A c \in Clone : lease[c] # None /\ lease[c].stage = "marker-pushed" => lease[c].sha \in Ids(origin)

\* Who is about to stamp the lease has just committed.
LEMMA StampFrom ==
  ASSUME TypeInv, NEW s \in Session, Acts(s), pc'[s] = "stamp"
  PROVE  CommitMarker(s) \/ (pc[s] = "stamp" /\ ~StampLease(s))
<1> USE DEF TypeInv, Goes, Ends, Forgotten
<1>1. CASE CommitMarker(s)
  BY <1>1
<1>2. CASE Release(s)
  BY <1>2 DEF Release, Create
<1>3. CASE Retry(s)
  BY <1>3 DEF Retry, Create
<1>4. CASE Probes(s) \/ Guards(s) \/ StampLease(s) \/ Held(s) \/ Complete(s) \/ PushMain(s)
  BY <1>4 DEF Probes, Guards, StampLease, Held, Complete, PushMain, Refuse
<1>5. CASE Guard(s) \/ Blocked(s)
  BY <1>5 DEF Guard, Blocked, Passes
<1>6. CASE Transfer(s)
  BY <1>6 DEF Transfer
<1>7. CASE Confirm(s) \/ Status(s) \/ Clear(s) \/ Upgrade(s) \/ AbortLocal(s) \/ AbortPushed(s) \/ Dies(s)
  BY <1>7 DEF Confirm, Status, Clear, Upgrade, AbortLocal, AbortPushed, Dies
<1>8. CASE Commit(s) \/ Pull(s)
  <2>1. UNCHANGED pc
    BY <1>8 DEF Commit, Pull
  <2>2. StampLease(s) => pc'[s] = "complete"
    BY DEF StampLease
  <2>3. QED
    BY <2>1, <2>2
<1>9. CASE \E force \in BOOLEAN : Abort(s, force)
  BY <1>9 DEF Abort
<1>10. QED
  BY <1>1, <1>2, <1>3, <1>4, <1>5, <1>6, <1>7, <1>8, <1>9 DEF Acts

\* A marker that waits for its stamp is not carried to origin by another.
LEMMA NobodyCarries ==
  ASSUME TypeInv, HasLease, OneClone, NEW s \in Session, Acts(s), ~Strayed',
         NEW t \in Session, pc[t] = "stamp",
         NEW m \in ToSet(Branch(t)), IsMarker(m), m \notin ToSet(origin)
  PROVE  m \notin ToSet(origin')
<1>1. CASE Pushes(s) /\ m \in ToSet(out[s])
  <2>1. PICK i \in DOMAIN out[s] : out[s][i] = m
    BY <1>1 DEF ToSet
  <2>2. i \in Len(origin) + 1..Len(out[s])
    <3>1. /\ Len(origin) \in Nat /\ Len(out[s]) \in Nat
          /\ DOMAIN origin = 1..Len(origin) /\ DOMAIN out[s] = 1..Len(out[s])
          /\ \A j \in DOMAIN origin : out[s][j] = origin[j]
      BY <1>1, PushFacts
    <3>2. i \notin DOMAIN origin
      BY <2>1, <3>1 DEF ToSet
    <3>3. QED
      BY <3>1, <3>2
  <2>3. \E j \in DOMAIN Pushing(s) : Pushing(s)[j] = m
    BY <1>1, <2>1, <2>2, PushFacts
  <2>4. Own(s, Mine(s))
    <3>1. ~(~Own(s, Mine(s)) /\ \E j \in DOMAIN Pushing(s) : IsMarker(Pushing(s)[j]))
      BY <1>1, StraysSteps DEF Pushes
    <3>2. QED
      BY <2>3, <3>1
  <2>5. clone[s] # clone[t]
    <3>1. Own(t, Mine(t)) /\ pc[s] = "transfer"
      BY <1>1 DEF HasLease, Cutting, Holds, Pushes
    <3>2. QED
      BY <2>4, <3>1 DEF Own, Mine
  <2>6. Has(clone[s], m) /\ Has(clone[t], m)
    BY <1>1 DEF Has, Branch
  <2>7. QED
    BY <2>5, <2>6 DEF OneClone, TypeInv
<1>2. CASE Pushes(s) /\ m \notin ToSet(out[s])
  BY <1>2 DEF Pushes
<1>3. QED
  BY <1>1, <1>2, OriginFrom

\* The marker it stamps is new in its clone.
LEMMA NewMarkerStep ==
  ASSUME TypeInv, Judged, HasLease, Made, OneClone, NewMarker, [Next]_vars, ~Strayed'
  PROVE  NewMarker'
<1>0. /\ \A c \in Clone : lease[c] # None => lease[c].sha \in Nat /\ lease[c].sha <= made
      /\ \A q \in Session : /\ sha[q] \in Nat /\ sha[q] <= made
                            /\ read[q] # None => read[q].sha \in Nat /\ read[q].sha <= made
  BY DEF TypeInv, Lease, Made
<1>1. CASE UNCHANGED <<clone, main, lease, pc, read, sha, origin>>
  BY <1>1 DEF NewMarker, Fresh, Unpushed, Mine, Branch
<1>2. ASSUME NEW s \in Session, Acts(s), NEW t \in Session, pc'[t] = "stamp"
      PROVE  Fresh(t)' /\ Unpushed(t)'
  <2>0. /\ clone[t] \in Clone /\ clone[s] \in Clone /\ clone' = clone /\ Alone(s) /\ made \in Nat
        /\ Branch(t) \in Seq(Commits) /\ Branch(t) = main[clone[t]] /\ Mine(s) = lease[clone[s]]
    BY <1>2, ActsAlone DEF TypeInv, Branch, Mine
  <2>1. PICK b : b = main'[clone[t]]
    OBVIOUS
  <2>2. ASSUME NEW top \in Nat, top = Top(b).id,
               lease'[clone[t]] # None => lease'[clone[t]].sha < top,
               \A q \in Session : clone[q] = clone[t] => sha'[q] < top /\ (read'[q] # None => read'[q].sha < top)
        PROVE  Fresh(t)'
    BY <2>0, <2>1, <2>2 DEF Fresh, Mine, Branch
  <2>3. CASE t = s /\ CommitMarker(s)
    <3>1. PICK e \in Commits :
            /\ e.id = made + 1 /\ e.version = IF pc'[s] = pc[s] THEN 0 ELSE ver[s]
            /\ DOMAIN b = 1..Len(Branch(s)) + 1
            /\ b[Len(Branch(s)) + 1] = e
            /\ Top(b) = e
      BY <2>1, <2>3, AppendAt
    <3>2. pc[s] = "commit" /\ ver[s] # 0 /\ UNCHANGED <<lease, read, sha, origin>>
      BY <2>3 DEF CommitMarker, Judged, Cutting, local, remote
    <3>3. IsMarker(e) /\ e.id = made + 1
      BY <1>2, <2>3, <3>1, <3>2 DEF IsMarker
    <3>4. Fresh(t)'
      <4>1. made + 1 \in Nat /\ made + 1 = Top(b).id
        BY <2>0, <3>1
      <4>2. \A n \in Nat : n <= made => n < made + 1
        BY <2>0
      <4>3. QED
        BY <1>0, <2>0, <2>2, <3>2, <4>1, <4>2
    <3>5. e \in ToSet(b)
      <4>1. Len(Branch(s)) \in Nat
        BY LenProperties DEF TypeInv, Branch
      <4>2. Len(Branch(s)) + 1 \in DOMAIN b
        BY <3>1, <4>1
      <4>3. QED
        BY <3>1, <4>2 DEF ToSet
    <3>6. e \notin ToSet(origin)
      <4>1. \A i \in DOMAIN origin : origin[i].id <= made /\ origin[i].id \in Nat
        BY CommitFacts DEF Made, TypeInv
      <4>2. QED
        BY <2>0, <3>1, <4>1 DEF ToSet
    <3>7. Unpushed(t)'
      BY <2>0, <2>1, <3>2, <3>3, <3>5, <3>6 DEF Unpushed, Branch
    <3>8. QED
      BY <3>4, <3>7
  <2>4. CASE pc[t] = "stamp" /\ (t = s => ~StampLease(s))
    <3> DEFINE top == Top(Branch(t)).id
    <3>1. Fresh(t) /\ Unpushed(t)
      BY <2>4 DEF NewMarker
    <3>2. top \in Nat /\ 0 < top /\ top <= made
      <4>1. Branch(t) # <<>>
        BY <3>1 DEF Unpushed, ToSet
      <4>2. Len(Branch(t)) \in DOMAIN Branch(t) /\ Top(Branch(t)) = Branch(t)[Len(Branch(t))]
        BY <2>0, <4>1, TopFacts
      <4>3. top \in Nat \ {0} /\ top <= made
        BY <2>0, <4>2, CommitFacts DEF Made
      <4>4. QED
        BY <4>3
    <3>3. PICK m \in ToSet(Branch(t)) : IsMarker(m) /\ m \notin ToSet(origin)
      BY <3>1 DEF Unpushed
    <3>4. Cutting(t) /\ (clone[s] = clone[t] => ~StampLease(s) /\ ~CommitMarker(s))
      <4>1. Cutting(t)
        BY <2>4 DEF Cutting
      <4>2. StampLease(s) \/ CommitMarker(s) => Cutting(s) /\ (CommitMarker(s) => pc[s] = "commit")
        BY DEF StampLease, CommitMarker, Cutting
      <4>3. QED
        BY <2>4, <4>1, <4>2, OneCutter
    <3>5. \/ b = Branch(t)
          \/ clone[s] = clone[t] /\ Commit(s)
      <4>1. CASE clone[s] # clone[t]
        BY <1>2, <2>0, <2>1, <4>1, BranchFrom, AppendAt, ResetAt, PullAt DEF BranchSteps
      <4>2. CASE clone[s] = clone[t]
        <5>1. Branch(s) = Branch(t)
          BY <4>2 DEF Branch
        <5>2. ~OnTop(s)
          <6>1. sha[s] < top /\ sha[s] \in Nat
            BY <1>0, <3>1, <4>2 DEF Fresh
          <6>2. QED
            BY <3>2, <5>1, <6>1 DEF OnTop
        <5>3. ~Pull(s)
          <6>1. ASSUME Pull(s) PROVE m \in ToSet(origin)
            <7>1. PICK n \in Nat : PullsAt(s, n, main'[clone[s]])
              BY <6>1, PullAt
            <7>2. PICK j \in DOMAIN Branch(s) : Branch(s)[j] = m
              BY <3>3, <5>1 DEF ToSet
            <7>3. QED
              BY <3>3, <7>1, <7>2, PullCases
          <6>2. QED
            BY <3>3, <6>1
        <5>4. UNCHANGED main \/ Commit(s)
          BY <1>2, <3>4, <4>2, <5>2, <5>3, BranchFrom DEF BranchSteps
        <5>5. QED
          BY <2>0, <2>1, <4>2, <5>4
      <4>3. QED
        BY <4>1, <4>2
    <3>6. Top(b).id \in Nat /\ top <= Top(b).id /\ m \in ToSet(b)
      <4>1. CASE b = Branch(t)
        BY <3>2, <3>3, <4>1
      <4>2. CASE clone[s] = clone[t] /\ Commit(s)
        <5>0. Branch(s) = Branch(t) /\ Len(Branch(t)) \in Nat /\ DOMAIN Branch(t) = 1..Len(Branch(t))
          BY <2>0, <4>2, LenProperties DEF Branch
        <5>1. PICK e \in Commits :
                /\ e.id = made + 1
                /\ DOMAIN b = 1..Len(Branch(t)) + 1
                /\ \A i \in 1..Len(Branch(t)) : b[i] = Branch(t)[i]
                /\ Top(b) = e
          BY <2>1, <4>2, <5>0, AppendAt
        <5>2. made + 1 \in Nat /\ top <= made + 1
          BY <2>0, <3>2
        <5>3. m \in ToSet(b)
          BY <3>3, <5>0, <5>1 DEF ToSet
        <5>4. QED
          BY <5>1, <5>2, <5>3
      <4>3. QED
        BY <3>5, <4>1, <4>2
    <3>7. Unpushed(t)'
      <4>1. m \notin ToSet(origin')
        BY <1>2, <2>4, <3>3, NobodyCarries
      <4>2. QED
        BY <2>0, <2>1, <3>3, <3>6, <4>1 DEF Unpushed, Branch
    <3>8. /\ Mine(t) # None => Mine(t).sha < top
          /\ \A q \in Session : clone[q] = clone[t] => sha[q] < top /\ (read[q] # None => read[q].sha < top)
      BY <3>1 DEF Fresh
    <3> HIDE DEF top
    <3>9. \A n \in Nat : n < top => n < Top(b).id
      BY <3>2, <3>6
    <3>10. clone[s] = clone[t] => Mine(s) = Mine(t)
      BY DEF Mine
    <3>11. lease'[clone[t]] # None => lease'[clone[t]].sha < top
      <4>1. CASE clone[s] # clone[t]
        BY <1>2, <2>0, <3>8, <4>1, LeaseAt DEF Mine
      <4>2. CASE clone[s] = clone[t]
        <5>1. LeaseNow(s, lease'[clone[t]])
          BY <1>2, <4>2, LeaseAt
        <5>2. Own(s, Mine(s)) => Mine(s) # None
          BY DEF Own
        <5>3. QED
          BY <3>2, <3>4, <3>8, <3>10, <4>2, <5>1, <5>2 DEF LeaseNow
      <4>3. QED
        BY <4>1, <4>2
    <3>12. ASSUME NEW q \in Session, clone[q] = clone[t]
           PROVE  sha'[q] < top /\ (read'[q] # None => read'[q].sha < top)
      <4>1. CASE q # s
        BY <2>0, <3>8, <3>12, <4>1 DEF Alone
      <4>2. CASE q = s
        <5>1. HandSteps(s) /\ (Held(s) => read[s] # None)
          BY <1>2, HandFrom DEF Held, Judged
        <5>2. QED
          BY <3>2, <3>4, <3>8, <3>10, <3>12, <4>2, <5>1 DEF HandSteps
      <4>3. QED
        BY <4>1, <4>2
    <3>13. Fresh(t)'
      <4>1. /\ \A c \in Clone : lease'[c] # None => lease'[c].sha \in Nat
            /\ \A q \in Session : sha'[q] \in Nat /\ (read'[q] # None => read'[q].sha \in Nat)
        <5>1. TypeInv'
          BY <1>2, TypeStep DEF Next, Acts
        <5>2. QED
          BY <5>1 DEF TypeInv, Lease
      <4>2. QED
        BY <2>0, <2>2, <3>6, <3>9, <3>11, <3>12, <4>1
    <3>14. QED
      BY <3>7, <3>13
  <2>5. QED
    BY <1>2, <2>0, <2>3, <2>4, StampFrom DEF Alone
<1>3. ASSUME NEW r \in runs, Turning(r) PROVE NewMarker'
  BY <1>1, <1>3, TurningFrom DEF local
<1>4. QED
  BY <1>1, <1>2, <1>3, NextActs DEF vars, local, remote, NewMarker

\* A stamp was there, or is of the step.
LEMMA StampsFrom ==
  ASSUME TypeInv, Judged, NEW s \in Session, Acts(s), ~Strayed',
         NEW c \in Clone, NEW h, NEW n \in Nat \ {0}, Stamped(c, h, n)'
  PROVE  \/ Stamped(c, h, n)
         \/ StampLease(s) /\ c = clone[s] /\ h = s /\ n = Top(Branch(s)).id
<1>0. clone' = clone /\ Alone(s) /\ clone[s] \in Clone /\ Mine(s) = lease[clone[s]]
  BY ActsAlone DEF TypeInv, Mine
<1>1. ASSUME lease'[c] # None, lease'[c].holder = h, lease'[c].sha = n
      PROVE  Stamped(c, h, n) \/ (StampLease(s) /\ c = clone[s] /\ h = s /\ n = Top(Branch(s)).id)
  <2>1. CASE lease'[c] = lease[c]
    BY <1>1, <2>1 DEF Stamped
  <2>2. CASE c = clone[s] /\ lease'[c] # lease[c]
    <3>1. LeaseNow(s, lease'[c])
      BY <2>2, LeaseAt
    <3>2. CASE Confirm(s) /\ Own(s, Mine(s)) /\ h = s /\ n = Mine(s).sha
      BY <1>0, <2>2, <3>2 DEF Own, Stamped
    <3>3. CASE read[s] # None /\ h = read[s].holder /\ n = read[s].sha
      BY <2>2, <3>3 DEF Stamped
    <3>4. QED
      BY <1>0, <1>1, <2>2, <3>1, <3>2, <3>3 DEF LeaseNow
  <2>3. QED
    BY <2>1, <2>2, LeaseAt
<1>2. ASSUME NEW t \in Session, clone[t] = c, read'[t] # None, read'[t].holder = h, read'[t].sha = n
      PROVE  Stamped(c, h, n)
  <2>1. read'[t] = read[t] \/ (t = s /\ read'[t] \in {None, Mine(s)})
    BY <1>0, HandFrom DEF Alone, HandSteps
  <2>2. QED
    BY <1>0, <1>2, <2>1 DEF Stamped
<1>3. ASSUME h \in Session, clone[h] = c, pc'[h] # "forceAbort", sha'[h] = n
      PROVE  Stamped(c, h, n) \/ (StampLease(s) /\ c = clone[s] /\ h = s /\ n = Top(Branch(s)).id)
  <2>1. CASE h # s
    BY <1>0, <1>3, <2>1 DEF Alone, Stamped, Forcing
  <2>2. CASE h = s
    <3>1. ~Forcing(s)
      BY <1>3, <2>2, ForceFrom
    <3>2. HandSteps(s)
      BY HandFrom
    <3>3. CASE sha'[s] = sha[s]
      BY <1>3, <2>2, <3>1, <3>3 DEF Stamped
    <3>4. CASE StampLease(s) /\ sha'[s] = Top(Branch(s)).id
      BY <1>3, <2>2, <3>4
    <3>5. CASE Own(s, read[s]) /\ sha'[s] = read[s].sha
      BY <1>3, <2>2, <3>5 DEF Stamped, Own
    <3>6. CASE Own(s, Mine(s)) /\ sha'[s] = Mine(s).sha
      BY <1>0, <1>3, <2>2, <3>6 DEF Stamped, Own
    <3>7. QED
      BY <1>3, <2>2, <3>2, <3>3, <3>4, <3>5, <3>6 DEF HandSteps
  <2>3. QED
    BY <2>1, <2>2
<1>4. QED
  BY <1>0, <1>1, <1>2, <1>3 DEF Stamped, Forcing

\* No two sessions have stamped one marker.
LEMMA OneHolderStep ==
  ASSUME TypeInv, Judged, OneHolder, NewMarker, [Next]_vars, ~Strayed'
  PROVE  OneHolder'
<1>1. CASE UNCHANGED <<clone, lease, pc, read, sha>>
  BY <1>1 DEF OneHolder, Stamped, Forcing
<1>2. ASSUME NEW s \in Session, Acts(s), NEW c \in Clone, NEW n \in Nat \ {0}, NEW g, NEW h,
             Stamped(c, g, n)', Stamped(c, h, n)'
      PROVE  g = h
  <2>1. ASSUME StampLease(s), NEW f, Stamped(clone[s], f, Top(Branch(s)).id)
        PROVE  FALSE
    <3>1. Fresh(s)
      BY <2>1 DEF NewMarker, StampLease
    <3>2. Top(Branch(s)).id < Top(Branch(s)).id /\ Top(Branch(s)).id \in Nat
      BY <2>1, <3>1, TopFacts DEF Stamped, Fresh, Mine, TypeInv, Branch
    <3>3. QED
      BY <3>2
  <2>2. \/ Stamped(c, g, n)
        \/ StampLease(s) /\ c = clone[s] /\ g = s /\ n = Top(Branch(s)).id
    BY <1>2, StampsFrom
  <2>3. \/ Stamped(c, h, n)
        \/ StampLease(s) /\ c = clone[s] /\ h = s /\ n = Top(Branch(s)).id
    BY <1>2, StampsFrom
  <2>4. QED
    BY <2>1, <2>2, <2>3 DEF OneHolder
<1>3. ASSUME NEW r \in runs, Turning(r) PROVE OneHolder'
  BY <1>1, <1>3, TurningFrom DEF local
<1>4. ASSUME NEW s \in Session, Acts(s) PROVE OneHolder'
  BY <1>2, <1>4 DEF OneHolder
<1>5. QED
  BY <1>1, <1>3, <1>4, NextActs DEF vars, local

\* The numbers in a branch.
LEMMA IdsFacts ==
  ASSUME NEW b \in Seq(Commits)
  PROVE  /\ \A n \in Ids(b) : n \in Nat \ {0}
         /\ Top(b).id # 0 => Top(b).id \in Ids(b)
BY CommitFacts, TopFacts DEF Ids

\* A stage says what was stamped, and pushed is on origin.
LEMMA StagesStep ==
  ASSUME TypeInv, Judged, NewMarker, StagesAreStamped, Claims, Pushed, [Next]_vars, ~Strayed'
  PROVE  StagesAreStamped' /\ Pushed'
<1>1. CASE UNCHANGED <<clone, lease, read, origin>>
  BY <1>1 DEF StagesAreStamped, Pushed, Staged
<1>2. ASSUME NEW s \in Session, Acts(s) PROVE StagesAreStamped' /\ Pushed'
  <2>0. /\ clone' = clone /\ Alone(s) /\ clone[s] \in Clone /\ Mine(s) = lease[clone[s]]
        /\ origin \in Seq(Commits) /\ Branch(s) \in Seq(Commits)
    BY <1>2, ActsAlone DEF TypeInv, Mine, Branch
  <2>1. StampLease(s) => Top(Branch(s)).id # 0
    <3>1. StampLease(s) => Branch(s) # <<>>
      BY DEF StampLease, NewMarker, Unpushed, ToSet
    <3>2. QED
      BY <2>0, <3>1, TopFacts, CommitFacts
  <2>2. Confirm(s) /\ Own(s, Mine(s)) => Mine(s).sha \in Ids(origin)
    BY DEF Confirm, Claims
  <2>3. Upgrade(s) /\ read[s] # None /\ Top(origin).id = read[s].sha => read[s].sha \in Ids(origin)
    BY <2>0, IdsFacts DEF Upgrade, Judged, StagesAreStamped, Staged
  <2>4. ASSUME NEW c \in Clone
        PROVE  /\ Staged(lease'[c])
               /\ lease'[c] # None /\ lease'[c].stage = "marker-pushed" => lease'[c].sha \in Ids(origin)
    <3>1. CASE lease'[c] = lease[c]
      BY <3>1 DEF StagesAreStamped, Pushed
    <3>2. CASE c = clone[s] /\ lease'[c] # lease[c]
      <4>1. LeaseNow(s, lease'[c])
        BY <1>2, <3>2, LeaseAt
      <4>2. \A n \in Ids(origin) : n # 0
        BY <2>0, IdsFacts
      <4>3. QED
        BY <2>0, <2>1, <2>2, <2>3, <3>2, <4>1, <4>2 DEF LeaseNow, Staged
    <3>3. QED
      BY <1>2, <3>1, <3>2, LeaseAt
  <2>5. ASSUME NEW t \in Session PROVE Staged(read'[t])
    <3>1. read'[t] = read[t] \/ (t = s /\ read'[t] \in {None, Mine(s)})
      BY <1>2, <2>0, HandFrom DEF Alone, HandSteps
    <3>2. QED
      BY <2>0, <3>1 DEF StagesAreStamped, Staged
  <2>6. Ids(origin) \subseteq Ids(origin')
    BY OriginGrows
  <2>7. Pushed'
    BY <2>4, <2>6 DEF Pushed
  <2>8. StagesAreStamped'
    BY <2>4, <2>5 DEF StagesAreStamped, Staged
  <2>9. QED
    BY <2>7, <2>8
<1>3. ASSUME NEW r \in runs, Turning(r) PROVE StagesAreStamped' /\ Pushed'
  BY <1>1, <1>3, TurningFrom DEF local
<1>4. QED
  BY <1>1, <1>2, <1>3, NextActs DEF vars, local, remote

\* A commit leaves main where a session drops its own.
LEMMA IdsStay ==
  ASSUME TypeInv, NEW s \in Session, Acts(s), ~Strayed', NEW c \in Clone, NEW n \in Ids(main[c])
  PROVE  \/ n \in Ids(main'[c])
         \/ /\ Complete(s) \/ (AbortLocal(s) /\ ~Takes(s, Forcing(s)))
            /\ c = clone[s] /\ n = sha[s]
<1>0. /\ clone[s] \in Clone /\ Branch(s) = main[clone[s]]
      /\ Len(Branch(s)) \in Nat /\ DOMAIN Branch(s) = 1..Len(Branch(s))
  BY LenProperties DEF TypeInv, Branch
<1>1. PICK i \in DOMAIN main[c] : main[c][i].id = n
  BY DEF Ids
<1>2. CASE main'[c] = main[c]
  BY <1>2
<1>3. CASE c = clone[s] /\ (Commit(s) \/ CommitMarker(s))
  <2>1. /\ DOMAIN main'[c] = 1..Len(Branch(s)) + 1
        /\ \A j \in 1..Len(Branch(s)) : main'[c][j] = Branch(s)[j]
    BY <1>3, AppendAt
  <2>2. i \in DOMAIN main'[c] /\ main'[c][i] = main[c][i]
    BY <1>0, <1>1, <1>3, <2>1
  <2>3. QED
    BY <1>1, <2>2 DEF Ids
<1>4. CASE c = clone[s] /\ Pull(s)
  <2>1. PICK k \in Nat : PullsAt(s, k, main'[c])
    BY <1>4, PullAt
  <2>2. PICK j \in DOMAIN main'[c] : main'[c][j] = Branch(s)[i]
    BY <1>0, <1>1, <1>4, <2>1, PullCases
  <2>3. QED
    BY <1>0, <1>1, <1>4, <2>2 DEF Ids
<1>5. CASE c = clone[s] /\ Resets(s) /\ OnTop(s) /\ (Complete(s) \/ (AbortLocal(s) /\ ~Takes(s, Forcing(s))))
  <2>1. /\ \A j \in DOMAIN main'[c] : main'[c][j] = Branch(s)[j]
        /\ i \in DOMAIN main'[c] \/ Branch(s)[i] = Top(Branch(s))
    BY <1>0, <1>1, <1>5, ResetAt
  <2>2. QED
    BY <1>0, <1>1, <1>5, <2>1 DEF Ids, OnTop
<1>6. QED
  BY <1>2, <1>3, <1>4, <1>5, BranchFrom, AppendAt, ResetAt, PullAt DEF BranchSteps

\* What holds of the marker of a lease at a step of its session.
Claimed(step, v, r, o, b, i, n) ==
  /\ v # 0 /\ step \in {"complete", "push"} => n \in b \cup i
  /\ v # 0 /\ step = "transfer" => n \in Ids(o) \cup i
  /\ step = "confirm" => n \in i
  /\ step = "finished" => n = r.sha \/ n \in i

\* Where the marker of a lease is, when another session acts.
LEMMA ClaimsOfOthers ==
  ASSUME TypeInv, Judged, OneHolder, StagesAreStamped, Claims, NEW s \in Session, Acts(s), ~Strayed',
         NEW t \in Session, t # s, lease'[clone[t]] # None, lease'[clone[t]].holder = t
  PROVE  Claimed(pc[t], ver[t], read[t], out[t], Ids(main'[clone[t]]), Ids(origin'), lease'[clone[t]].sha)
<1> DEFINE c == clone[t]
           n == lease'[c].sha
<1>0. /\ c \in Clone /\ clone[s] \in Clone /\ Mine(s) = lease[clone[s]] /\ Mine(t) = lease[c] /\ Branch(t) = main[c]
      /\ origin \in Seq(Commits) /\ main[c] \in Seq(Commits)
  BY DEF TypeInv, Mine, Branch
<1>1. Ids(origin) \subseteq Ids(origin')
  BY OriginGrows DEF Next, Acts
<1>2. CASE n \in Ids(origin)
  BY <1>1, <1>2 DEF Claimed
<1>3. CASE lease'[c] = lease[c]
  <2>1. Own(t, Mine(t)) /\ n = Mine(t).sha
    BY <1>0, <1>3 DEF Own
  <2>2. Claimed(pc[t], ver[t], read[t], out[t], Ids(main[c]), Ids(origin), n)
    BY <1>0, <2>1 DEF Claims, Claimed
  <2>3. n \in Ids(main[c]) => n \in Ids(main'[c])
    <3>1. SUFFICES ASSUME n \in Ids(main[c]), c = clone[s], n = sha[s],
                          Complete(s) \/ (AbortLocal(s) /\ ~Takes(s, Forcing(s)))
                   PROVE  FALSE
      BY <1>0, IdsStay
    <3>2. n \in Nat \ {0} /\ Stamped(c, t, n)
      BY <1>0, <2>1, <3>1, IdsFacts DEF Stamped, Own
    <3>3. ~Forcing(s)
      BY <1>0, <2>1, <3>1 DEF Takes, Own, Complete, Forcing
    <3>4. Stamped(c, s, n)
      BY <3>1, <3>3 DEF Stamped
    <3>5. QED
      BY <1>0, <3>2, <3>4 DEF OneHolder
  <2>4. QED
    BY <1>1, <2>2, <2>3 DEF Claimed
<1>4. CASE c = clone[s] /\ lease'[c] # lease[c]
  <2>1. LeaseNow(s, lease'[c])
    BY <1>4, LeaseAt
  <2>2. t # None
    BY ReleaseAssumption
  <2>3. Upgrade(s) /\ Top(origin).id = read[s].sha /\ read[s] # None /\ n = read[s].sha
    BY <1>0, <1>4, <2>1, <2>2 DEF LeaseNow
  <2>4. n \in Ids(origin)
    BY <1>0, <2>3, IdsFacts DEF Upgrade, Judged, StagesAreStamped, Staged
  <2>5. QED
    BY <1>2, <2>4
<1>5. QED
  BY <1>0, <1>3, <1>4, LeaseAt

\* Where the marker of a lease is, when its holder acts.
LEMMA ClaimsOfOwn ==
  ASSUME TypeInv, Judged, NewMarker, StagesAreStamped, Claims, NEW s \in Session, Acts(s), ~Strayed',
         lease'[clone[s]] # None, lease'[clone[s]].holder = s
  PROVE  Claimed(pc'[s], ver'[s], read'[s], out'[s], Ids(main'[clone[s]]), Ids(origin'), lease'[clone[s]].sha)
<1> DEFINE c == clone[s]
           n == lease'[c].sha
<1>0. /\ c \in Clone /\ Mine(s) = lease[c] /\ Branch(s) = main[c]
      /\ origin \in Seq(Commits) /\ main[c] \in Seq(Commits)
      /\ DOMAIN pc = Session /\ DOMAIN ver = Session /\ DOMAIN read = Session /\ DOMAIN out = Session
  BY DEF TypeInv, Mine, Branch
<1>1. Ids(origin) \subseteq Ids(origin')
  BY OriginGrows DEF Next, Acts
<1>2. LeaseNow(s, lease'[c])
  BY LeaseAt
<1>3. CASE pc'[s] \notin {"complete", "push", "transfer", "confirm", "finished"}
  BY <1>3 DEF Claimed
\* As long as its lease stays what it was, what held of it before can be used.
<1>4. lease'[c] = lease[c] =>
        Claimed(pc[s], ver[s], read[s], out[s], Ids(main[c]), Ids(origin), n)
  BY <1>0 DEF Claims, Claimed, Own
<1>5. CASE Release(s)
  <2>1. (UNCHANGED lease /\ read' = [read EXCEPT ![s] = Mine(s)]) \/ pc'[s] \in {"probes", "idle"}
    BY <1>0, <1>5 DEF Release, Create, Goes, Keeps
  <2>2. pc'[s] \in {"probes", "idle", "finished"}
    BY <1>0, <1>5 DEF Release, Create, Goes
  <2>3. QED
    BY <1>0, <1>3, <2>1, <2>2 DEF Claimed
<1>6. CASE Held(s)
  <2>1. pc[s] = "finished" /\ UNCHANGED <<lease, main, origin>>
    BY <1>6 DEF Held, remote
  <2>2. \/ pc'[s] = "idle"
        \/ /\ pc'[s] = "complete" /\ Top(Branch(s)).id = read[s].sha /\ read[s] # None
           /\ read[s].stage \in {"marker-local", "marker-pushed"}
    BY <1>0, <1>6 DEF Held, Goes, Ends, Own
  <2>3. CASE pc'[s] = "complete"
    <3>1. read[s].sha \in Ids(main[c])
      BY <1>0, <2>2, <2>3, IdsFacts DEF StagesAreStamped, Staged
    <3>2. n = read[s].sha \/ n \in Ids(origin)
      BY <1>4, <2>1 DEF Claimed
    <3>3. QED
      BY <2>1, <2>3, <3>1, <3>2 DEF Claimed
  <2>4. QED
    BY <1>3, <2>2, <2>3
<1>7. CASE Retry(s) \/ Probes(s) \/ Guards(s) \/ CommitMarker(s)
  <2>1. pc'[s] \in {"idle", "probes", "guards", "commit", "stamp"}
    BY <1>0, <1>7 DEF Retry, Create, Probes, Guards, CommitMarker, Refuse, Goes, Ends
  <2>2. QED
    BY <1>3, <2>1
<1>8. CASE StampLease(s)
  <2>1. UNCHANGED <<main, origin>> /\ pc'[s] = "complete" /\ pc[s] = "stamp"
    BY <1>0, <1>8 DEF StampLease, Goes, remote
  <2>2. Top(main[c]).id \in Ids(main[c])
    <3>1. main[c] # <<>>
      BY <1>0, <2>1 DEF NewMarker, Unpushed, ToSet
    <3>2. QED
      BY <1>0, <3>1, TopFacts, CommitFacts, IdsFacts
  <2>3. n = Top(main[c]).id
    <3>1. IF Own(s, Mine(s)) THEN Sets(s, [Mine(s) EXCEPT !.stage = "marker-local", !.sha = Top(Branch(s)).id])
                             ELSE Sets(s, Mine(s))
      BY <1>8 DEF StampLease, Updates
    <3>2. CASE Own(s, Mine(s))
      <4>1. lease'[c] = [Mine(s) EXCEPT !.stage = "marker-local", !.sha = Top(Branch(s)).id]
        BY <1>0, <3>1, <3>2 DEF Sets, TypeInv
      <4>2. Mine(s) \in Lease
        BY <3>2, LeaseTypes
      <4>3. QED
        BY <1>0, <4>1, <4>2, LeaseParts
    <3>3. CASE ~Own(s, Mine(s))
      <4>1. lease'[c] = Mine(s)
        BY <1>0, <3>1, <3>3 DEF Sets, TypeInv
      <4>2. QED
        BY <3>3, <4>1 DEF Own
    <3>4. QED
      BY <3>2, <3>3
  <2>4. QED
    BY <2>1, <2>2, <2>3 DEF Claimed
<1>9. CASE Complete(s)
  <2>1. /\ pc[s] = "complete"
        /\ pc'[s] = "idle" \/ (pc'[s] = "push" /\ UNCHANGED <<lease, main, ver, origin>>)
    BY <1>0, <1>9 DEF Complete, Refuse, Goes, Ends, local, remote
  <2>2. QED
    BY <1>3, <1>4, <2>1 DEF Claimed
<1>10. CASE PushMain(s)
  <2>1. ver'[s] = 0 /\ pc'[s] = "push"
    BY <1>0, <1>10 DEF PushMain, Judged, Goes, local
  <2>2. QED
    BY <2>1 DEF Claimed
<1>11. CASE Guard(s)
  <2>1. /\ pc[s] = "push" /\ UNCHANGED <<main, origin>>
        /\ \/ pc'[s] \in {"idle", "blocked"}
           \/ pc'[s] = "transfer" /\ out'[s] = main[c] /\ UNCHANGED ver
    BY <1>0, <1>11 DEF Guard, Passes, Goes, Ends, remote
  <2>2. ~StampLease(s) /\ ~Confirm(s) /\ ~Upgrade(s)
    BY <2>1 DEF StampLease, Confirm, Upgrade
  <2>3. CASE pc'[s] = "transfer"
    <3>1. lease'[c] = lease[c]
      BY <1>0, <1>2, <2>2, <2>3, ReleaseAssumption DEF LeaseNow
    <3>2. QED
      BY <1>4, <2>1, <2>3, <3>1 DEF Claimed
  <2>4. QED
    BY <1>3, <2>1, <2>3
<1>12. CASE Blocked(s)
  <2>1. pc'[s] = "idle" \/ Sets(s, None)
    BY <1>0, <1>12 DEF Blocked, Replaces, Ends, Goes
  <2>2. Sets(s, None) => lease'[c] = None
    BY <1>0 DEF Sets, TypeInv
  <2>3. QED
    BY <1>3, <2>1, <2>2
<1>13. CASE Transfer(s)
  <2>1. pc[s] = "transfer" /\ UNCHANGED lease
    BY <1>13 DEF Transfer
  <2>2. \/ pc'[s] = "idle"
        \/ pc'[s] = "confirm" /\ ver[s] # 0 /\ (origin' = out[s] \/ (UNCHANGED origin /\ out[s] = origin))
    BY <1>0, <1>13 DEF Transfer, Goes, Ends
  <2>3. QED
    BY <1>1, <1>3, <1>4, <2>1, <2>2 DEF Claimed
<1>14. CASE Confirm(s) \/ Status(s) \/ Clear(s) \/ Upgrade(s) \/ AbortLocal(s) \/ AbortPushed(s) \/ Dies(s)
  <2>1. pc'[s] \in {"idle", "clear", "upgrade"}
    BY <1>0, <1>14 DEF Confirm, Status, Clear, Upgrade, AbortLocal, AbortPushed, Dies, Goes, Ends
  <2>2. QED
    BY <1>3, <2>1
<1>15. CASE \E force \in BOOLEAN : Abort(s, force)
  <2>1. pc'[s] \in {"idle", "abort", "forceAbort"}
    BY <1>0, <1>15 DEF Abort, Goes
  <2>2. QED
    BY <1>3, <2>1
<1>16. CASE Commit(s) \/ Pull(s)
  <2>1. UNCHANGED <<pc, ver, read, out, lease, origin>>
    BY <1>16 DEF Commit, Pull, local, remote
  <2>2. Claimed(pc[s], ver[s], read[s], out[s], Ids(main[c]), Ids(origin), n)
    BY <1>4, <2>1
  <2>3. Ids(main[c]) \subseteq Ids(main'[c])
    <3>1. ASSUME Complete(s) \/ AbortLocal(s) PROVE pc'[s] # pc[s] \/ main' = main
      BY <1>0, <3>1 DEF Complete, AbortLocal, Ends, Goes, Refuse
    <3>2. QED
      BY <1>0, <2>1, <3>1, IdsStay
  <2>4. QED
    BY <2>1, <2>2, <2>3 DEF Claimed
<1>17. QED
  BY <1>5, <1>6, <1>7, <1>8, <1>9, <1>10, <1>11, <1>12, <1>13, <1>14, <1>15, <1>16 DEF Acts

\* Where the marker of a lease is, whatever the step.
LEMMA ClaimsStep ==
  ASSUME TypeInv, Judged, OneHolder, NewMarker, StagesAreStamped, Claims, [Next]_vars, ~Strayed'
  PROVE  Claims'
<1>1. CASE UNCHANGED <<clone, lease, main, origin, pc, ver, read, out>>
  BY <1>1 DEF Claims, Own, Mine, Branch, Ids
<1>2. ASSUME NEW s \in Session, Acts(s) PROVE Claims'
  <2>0. clone' = clone /\ Alone(s)
    BY <1>2, ActsAlone
  <2>1. ASSUME NEW t \in Session, Own(t, Mine(t))'
        PROVE  Claimed(pc'[t], ver'[t], read'[t], out'[t], Ids(main'[clone[t]]), Ids(origin'), lease'[clone[t]].sha)
    <3>1. lease'[clone[t]] # None /\ lease'[clone[t]].holder = t
      BY <2>0, <2>1 DEF Own, Mine
    <3>2. CASE t = s
      BY <1>2, <3>1, <3>2, ClaimsOfOwn
    <3>3. CASE t # s
      BY <1>2, <2>0, <3>1, <3>3, ClaimsOfOthers DEF Alone
    <3>4. QED
      BY <3>2, <3>3
  <2>2. QED
    BY <2>0, <2>1 DEF Claims, Claimed, Own, Mine, Branch, Ids
<1>3. ASSUME NEW r \in runs, Turning(r) PROVE Claims'
  BY <1>1, <1>3, TurningFrom DEF local
<1>4. QED
  BY <1>1, <1>2, <1>3, NextActs DEF vars, local, remote

-----------------------------------------------------------------------------
(* The inductive invariant.  What a release may count on holds together, and *)
(* only until something strays.                                              *)

Calm ==
  /\ Made /\ HasLease /\ OneByOne /\ RunsAreOfOrigin /\ NothingPends
  /\ OneClone /\ NewMarker /\ OneHolder /\ StagesAreStamped /\ Claims /\ Pushed

IInv == TypeInv /\ Judged /\ (Strayed \/ Calm)

\* At the start.
LEMMA InitIInv == Init => IInv
<1> SUFFICES ASSUME Init PROVE IInv
  OBVIOUS
<1> USE DEF Init
<1>1. <<>> \in Seq(Commits) /\ DOMAIN <<>> = {}
  BY EmptySeq
<1>2. TypeInv
  BY <1>1 DEF TypeInv, Step
<1>3. Judged
  BY DEF Judged, Cutting
<1>4. Made
  BY <1>1 DEF Made
<1>5. HasLease /\ OneByOne /\ RunsAreOfOrigin
  BY <1>1 DEF HasLease, Cutting, OneByOne, InLine, RunsAreOfOrigin
<1>6. NothingPends
  BY DEF NothingPends
<1>7. OneClone
  BY <1>1 DEF OneClone, Has, ToSet
<1>8. NewMarker /\ Claims /\ Pushed
  BY DEF NewMarker, Claims, Pushed, Own, Mine
<1>9. OneHolder
  BY DEF OneHolder, Stamped
<1>10. StagesAreStamped
  BY DEF StagesAreStamped, Staged
<1>11. QED
  BY <1>2, <1>3, <1>4, <1>5, <1>6, <1>7, <1>8, <1>9, <1>10 DEF IInv, Calm

\* The invariant is inductive.
LEMMA NextIInv == IInv /\ [Next]_vars => IInv'
<1> SUFFICES ASSUME IInv, [Next]_vars PROVE IInv'
  OBVIOUS
<1>1. TypeInv /\ Judged /\ TypeInv' /\ Judged'
  BY TypeStep, JudgedStep DEF IInv
<1>2. CASE Strayed'
  BY <1>1, <1>2 DEF IInv
<1>3. CASE ~Strayed'
  <2>1. Calm
    BY <1>1, <1>3, StaysCalm DEF IInv
  <2>2. Made' /\ HasLease'
    BY <1>1, <1>3, <2>1, MadeStep, HasLeaseStep DEF Calm
  <2>3. OneByOne' /\ RunsAreOfOrigin' /\ NothingPends'
    BY <1>1, <1>3, <2>1, OneByOneStep, RunsStep, PendsStep DEF Calm
  <2>4. OneClone' /\ NewMarker' /\ OneHolder'
    BY <1>1, <1>3, <2>1, OneCloneStep, NewMarkerStep, OneHolderStep DEF Calm
  <2>5. StagesAreStamped' /\ Pushed' /\ Claims'
    BY <1>1, <1>3, <2>1, StagesStep, ClaimsStep DEF Calm
  <2>6. QED
    BY <1>1, <2>2, <2>3, <2>4, <2>5 DEF IInv, Calm
<1>4. QED
  BY <1>2, <1>3

\* Everything a step relies on holds of every state, for any sessions, clones and
\* versions.
THEOREM Safety == Spec => []IInv
BY InitIInv, NextIInv, PTL DEF Spec

\* A session that has seen its version untagged and has not yet told the lease of
\* its marker holds the lease of its clone (release.mjs, planRelease up to the
\* stamp), as long as no --force, no overtaken judgement and no tag of the very
\* version came between.
THEOREM LeaseHeld == Spec => []CutterHoldsLease
<1>1. IInv => CutterHoldsLease
  BY DEF IInv, Calm, HasLease, Holds, CutterHoldsLease
<1>2. QED
  BY <1>1, Safety, PTL

\* On origin at most one run of release.yml is live that has not tagged its
\* version, however many clones and sessions release, abort, pull and push at
\* once, unless something has strayed.
THEOREM OneAtATime == Spec => []OneLiveRun
<1>1. IInv => OneLiveRun
  BY OneLive DEF IInv, Calm, OneLiveRun
<1>2. QED
  BY <1>1, Safety, PTL

\* A lease at stage marker-pushed names a commit that is on origin, whether the
\* release that pushed it or a --status of anybody raised the stage
\* (reconcilePushedMarker), unless something has strayed.
THEOREM StagesTrue == Spec => []StageIsTrue
<1>1. IInv => StageIsTrue
  BY DEF IInv, Calm, Pushed, Ids, StageIsTrue
<1>2. QED
  BY <1>1, Safety, PTL
=============================================================================
