--------------------------- MODULE ConnectionsProofs ---------------------------
(***************************************************************************)
(* Machine-checked facts about the connections to the database.            *)
(*                                                                         *)
(* Those of the pool, Transactions, for any number of requests,            *)
(* connections, changes, faults and savepoints.                            *)
(*                                                                         *)
(* Those outside it, Sessions, for any number of processes, attempts and   *)
(* connections: a body that was not cut from its session holds the lock,   *)
(* and the connections that are not dead are the one connect() keeps.      *)
(***************************************************************************)
EXTENDS MCConnections, SequenceTheorems, FiniteSetTheorems, TLAPS

Step == {"idle", "begin", "query", "body", "hooks", "hook"}
Who == Request \cup {None}
EntryRec == [write : Write, of : Request, actor : Who]
ScopeRec == [onCommit : Seq(Write), entries : SUBSET EntryRec]

TypeInv ==
  /\ pc \in [Request -> Step]
  /\ held \in [Request -> Conn \cup {None}]
  /\ scopes \in [Request -> Seq(ScopeRec)]
  /\ hooks \in [Request -> Seq(Write)]
  /\ idle \subseteq Conn /\ fresh \subseteq Conn
  /\ queue \in Seq(Request)
  /\ ctx \in [Conn -> Who]
  /\ rows \subseteq Write /\ entries \subseteq EntryRec
  /\ ran \in Seq(Write) /\ order \subseteq Write \X Write /\ unhooked \subseteq Write
  /\ faults \in Nat

\* What a request has in its hands, by its step.
Waits(r) == pc[r] \in {"begin", "query", "hook"}

Tidy ==
  \A r \in Request :
    /\ InTransaction(r) <=> pc[r] = "body"
    /\ pc[r] = "body" => held[r] # None
    /\ pc[r] \in {"idle", "hooks"} => held[r] = None
    /\ pc[r] \notin {"hooks", "hook"} => hooks[r] = <<>>
    /\ pc[r] = "hook" => hooks[r] # <<>>

\* A connection is with one request, in the pool or not yet open.
ConnsApart ==
  /\ idle \cap fresh = {}
  /\ \A r \in Request : held[r] # None =>
       /\ held[r] \notin idle \cup fresh
       /\ \A q \in Request : held[q] = held[r] => q = r

\* Who is in the queue waits, with nothing in its hands, at one place.
QueueWaits ==
  /\ \A i \in DOMAIN queue : Waits(queue[i]) /\ held[queue[i]] = None
  /\ \A i, j \in DOMAIN queue : queue[i] = queue[j] => i = j
  /\ Len(queue) <= MaxWaiting
-----------------------------------------------------------------------------
(* Sequences *)

LEMMA FrontFacts ==
  ASSUME NEW S, NEW s \in Seq(S), s # <<>>
  PROVE  /\ Front(s) \in Seq(S) /\ Len(Front(s)) = Len(s) - 1 /\ Len(s) \in Nat \ {0}
         /\ \A i \in 1..Len(s) - 1 : Front(s)[i] = s[i]
         /\ Last(s) = s[Len(s)] /\ Last(s) \in S
<1>1. Len(s) \in Nat \ {0} /\ \A i \in 1..Len(s) : s[i] \in S
  BY EmptySeq, ElementOfSeq
<1> DEFINE n == Len(s)
           f == SubSeq(s, 1, n - 1)
<1>2. 1 \in Int /\ n - 1 \in Int /\ \A i \in 1..n - 1 : s[i] \in S
  BY <1>1
<1>3. /\ f \in Seq(S) /\ Len(f) = (IF 1 <= n - 1 THEN (n - 1) - 1 + 1 ELSE 0)
      /\ \A i \in 1..((n - 1) - 1 + 1) : f[i] = s[1 + i - 1]
  BY <1>2, SubSeqProperties
<1>4. Front(s) = f /\ Last(s) = s[n]
  BY DEF Front, Last
<1> HIDE DEF f
<1>5. Len(f) = n - 1 /\ \A i \in 1..n - 1 : f[i] = s[i]
  <2>1. n \in Int /\ n >= 1
    BY <1>1
  <2> HIDE DEF n
  <2>2. Len(f) = n - 1
    BY <1>3, <2>1
  <2>3. \A i \in 1..n - 1 : i \in 1..((n - 1) - 1 + 1) /\ 1 + i - 1 = i
    BY <2>1
  <2>4. QED
    BY <1>3, <2>2, <2>3
<1>6. QED
  BY <1>1, <1>3, <1>4, <1>5

\* A sequence with one element less.
LEMMA RemoveFacts ==
  ASSUME NEW S, NEW s \in Seq(S), NEW i \in DOMAIN s
  PROVE  /\ RemoveAt(s, i) \in Seq(S) /\ Len(RemoveAt(s, i)) = Len(s) - 1
         /\ \A j \in DOMAIN RemoveAt(s, i) : RemoveAt(s, i)[j] = s[IF j < i THEN j ELSE j + 1]
<1>1. Len(s) \in Nat /\ i \in 1..Len(s) /\ \A j \in 1..Len(s) : s[j] \in S
  BY ElementOfSeq, LenProperties
<1> DEFINE a == SubSeq(s, 1, i - 1)
           b == SubSeq(s, i + 1, Len(s))
<1>2. a \in Seq(S) /\ Len(a) = i - 1 /\ \A j \in 1..i - 1 : a[j] = s[j]
  <2>1. 1 \in Int /\ i - 1 \in Int /\ \A j \in 1..i - 1 : s[j] \in S
    BY <1>1
  <2>2. /\ a \in Seq(S) /\ Len(a) = IF 1 <= i - 1 THEN i - 1 - 1 + 1 ELSE 0
        /\ \A j \in 1..(i - 1 - 1 + 1) : a[j] = s[1 + j - 1]
    BY <2>1, SubSeqProperties
  <2>3. QED
    BY <1>1, <2>2
<1>3. b \in Seq(S) /\ Len(b) = Len(s) - i /\ \A j \in 1..Len(s) - i : b[j] = s[i + j]
  <2>1. i + 1 \in Int /\ Len(s) \in Int /\ \A j \in i + 1..Len(s) : s[j] \in S
    BY <1>1
  <2>2. /\ b \in Seq(S) /\ Len(b) = IF i + 1 <= Len(s) THEN Len(s) - (i + 1) + 1 ELSE 0
        /\ \A j \in 1..(Len(s) - (i + 1) + 1) : b[j] = s[i + 1 + j - 1]
    BY <2>1, SubSeqProperties
  <2>3. QED
    BY <1>1, <2>2
<1> HIDE DEF a, b
<1>4. /\ a \o b \in Seq(S) /\ Len(a \o b) = Len(a) + Len(b)
      /\ \A j \in 1..Len(a) + Len(b) : (a \o b)[j] = IF j <= Len(a) THEN a[j] ELSE b[j - Len(a)]
  BY <1>2, <1>3, ConcatProperties
<1>5. \A j \in 1..Len(s) - 1 : (a \o b)[j] = s[IF j < i THEN j ELSE j + 1]
  <2> TAKE j \in 1..Len(s) - 1
  <2>1. CASE j < i
    <3>1. j \in 1..i - 1 /\ j \in 1..Len(a) + Len(b) /\ j <= Len(a)
      BY <1>1, <1>2, <1>3, <2>1
    <3>2. (a \o b)[j] = a[j]
      BY <1>4, <3>1
    <3>3. a[j] = s[j]
      BY <1>2, <3>1
    <3>4. QED
      BY <2>1, <3>2, <3>3
  <2>2. CASE ~(j < i)
    <3>1. j - (i - 1) \in 1..Len(s) - i /\ i + (j - (i - 1)) = j + 1 /\ j \in 1..Len(a) + Len(b) /\ ~(j <= Len(a))
      BY SMTT(20), <1>1, <1>2, <1>3, <2>2
    <3>2. (a \o b)[j] = b[j - (i - 1)]
      BY <1>2, <1>4, <3>1
    <3>3. b[j - (i - 1)] = s[i + (j - (i - 1))]
      BY <1>3, <3>1
    <3>4. QED
      BY <2>2, <3>1, <3>2, <3>3
  <2>3. QED
    BY <2>1, <2>2
<1>6. RemoveAt(s, i) = a \o b
  BY DEF RemoveAt, a, b
<1>7. DOMAIN RemoveAt(s, i) = 1..Len(s) - 1 /\ Len(RemoveAt(s, i)) = Len(s) - 1
  BY SMTT(20), <1>1, <1>2, <1>3, <1>4, <1>6, LenProperties
<1>8. QED
  BY <1>4, <1>5, <1>6, <1>7

\* A sequence with one element more.
LEMMA AppendFacts ==
  ASSUME NEW S, NEW s \in Seq(S), NEW e \in S
  PROVE  /\ Append(s, e) \in Seq(S) /\ Append(s, e) # <<>> /\ Len(Append(s, e)) = Len(s) + 1
         /\ \A i \in DOMAIN Append(s, e) : Append(s, e)[i] = IF i <= Len(s) THEN s[i] ELSE e
<1>1. Append(s, e) \in Seq(S) /\ Len(s) \in Nat
  BY AppendProperties, LenProperties
<1>2. DOMAIN Append(s, e) = 1..Len(Append(s, e))
  BY <1>1, LenProperties
<1>3. QED
  BY <1>1, <1>2, AppendProperties

\* A sequence without its first element.
LEMMA TailFacts ==
  ASSUME NEW S, NEW s \in Seq(S), s # <<>>
  PROVE  /\ Head(s) \in S /\ Head(s) = s[1] /\ Tail(s) \in Seq(S) /\ Len(Tail(s)) = Len(s) - 1
         /\ \A i \in DOMAIN Tail(s) : i + 1 \in DOMAIN s /\ Tail(s)[i] = s[i + 1]
<1>1. Tail(s) \in Seq(S) /\ Len(s) \in Nat \ {0}
  BY HeadTailProperties, EmptySeq
<1>2. DOMAIN Tail(s) = 1..Len(Tail(s)) /\ DOMAIN s = 1..Len(s)
  BY <1>1, LenProperties
<1>3. Head(s) = s[1]
  OBVIOUS
<1>4. QED
  BY <1>1, <1>2, <1>3, HeadTailProperties

\* A sequence without repetitions that loses an element has the others, once each.
Lacks(t, s, e) ==
  /\ Len(t) \in Nat /\ Len(t) <= Len(s)
  /\ \A i \in DOMAIN t : t[i] # e /\ \E m \in DOMAIN s : t[i] = s[m]
  /\ \A i, j \in DOMAIN t : t[i] = t[j] => i = j

\* What is removed is gone when it was there once.
LEMMA RemoveLacks ==
  ASSUME NEW S, NEW s \in Seq(S), NEW k \in DOMAIN s, \A i, j \in DOMAIN s : s[i] = s[j] => i = j
  PROVE  Lacks(RemoveAt(s, k), s, s[k])
<1> DEFINE t == RemoveAt(s, k)
           n == Len(s)
           at(i) == IF i < k THEN i ELSE i + 1
<1>1. n \in Nat /\ DOMAIN s = 1..n
  BY LenProperties
<1>2. t \in Seq(S) /\ Len(t) = n - 1 /\ \A j \in DOMAIN t : t[j] = s[at(j)]
  BY RemoveFacts
<1> HIDE DEF t
<1>3. DOMAIN t = 1..n - 1
  BY <1>2, LenProperties
<1> HIDE DEF n
<1>4. \A i \in DOMAIN t : at(i) \in DOMAIN s /\ at(i) # k
  BY <1>1, <1>3
<1>5. \A i, j \in DOMAIN t : at(i) = at(j) => i = j
  BY <1>1, <1>3
<1> HIDE DEF at
<1>6. \A i \in DOMAIN t : t[i] # s[k] /\ \E m \in DOMAIN s : t[i] = s[m]
  BY <1>2, <1>4
<1>7. \A i, j \in DOMAIN t : t[i] = t[j] => i = j
  BY <1>2, <1>4, <1>5
<1>8. Len(t) \in Nat /\ Len(t) <= n
  BY <1>1, <1>2
<1>9. QED
  BY <1>6, <1>7, <1>8 DEF Lacks, t, n

\* The same when it was the first.
LEMMA TailLacks ==
  ASSUME NEW S, NEW s \in Seq(S), s # <<>>, \A i, j \in DOMAIN s : s[i] = s[j] => i = j
  PROVE  Lacks(Tail(s), s, Head(s))
<1> DEFINE t == Tail(s)
           n == Len(s)
<1>1. /\ n \in Nat \ {0} /\ DOMAIN s = 1..n /\ Head(s) = s[1]
      /\ t \in Seq(S) /\ Len(t) = n - 1 /\ \A i \in DOMAIN t : i + 1 \in DOMAIN s /\ t[i] = s[i + 1]
  BY LenProperties, EmptySeq, TailFacts
<1> HIDE DEF t
<1>2. DOMAIN t = 1..n - 1
  BY <1>1, LenProperties
<1> HIDE DEF n
<1>3. \A i, j \in DOMAIN t : t[i] = t[j] => i = j
  BY <1>1, <1>2
<1>4. \A i \in DOMAIN t : t[i] # Head(s) /\ \E m \in DOMAIN s : t[i] = s[m]
  BY <1>1, <1>2
<1>5. Len(t) \in Nat /\ Len(t) <= n
  BY <1>1
<1>6. QED
  BY <1>3, <1>4, <1>5 DEF Lacks, t, n

-----------------------------------------------------------------------------
(* Types *)

LEMMA ScopeOps ==
  ASSUME TypeInv, NEW r \in Request
  PROVE  /\ Scope \in ScopeRec /\ <<Scope>> \in Seq(ScopeRec) /\ <<>> \in Seq(ScopeRec)
         /\ scopes[r] \in Seq(ScopeRec) /\ Len(scopes[r]) \in Nat /\ (scopes[r] # <<>> <=> Len(scopes[r]) > 0)
         /\ scopes[r] # <<>> =>
              /\ Top(r) \in ScopeRec /\ Top(r) = scopes[r][Depth(r)] /\ Below(r) \in Seq(ScopeRec)
              /\ Len(Below(r)) = Depth(r) - 1 /\ \A i \in 1..Depth(r) - 1 : Below(r)[i] = scopes[r][i]
         /\ \A s \in ScopeRec : s.onCommit \in Seq(Write) /\ s.entries \subseteq EntryRec
         /\ \A h \in Seq(Write), E \in SUBSET EntryRec : [onCommit |-> h, entries |-> E] \in ScopeRec
<1>1. Scope \in ScopeRec /\ <<Scope>> \in Seq(ScopeRec) /\ <<>> \in Seq(ScopeRec)
  BY DEF Scope, ScopeRec
<1>2. scopes[r] \in Seq(ScopeRec) /\ Len(scopes[r]) \in Nat /\ (scopes[r] # <<>> <=> Len(scopes[r]) > 0)
  BY EmptySeq, LenProperties DEF TypeInv
<1>3. ASSUME scopes[r] # <<>>
      PROVE  /\ Top(r) \in ScopeRec /\ Top(r) = scopes[r][Depth(r)] /\ Below(r) \in Seq(ScopeRec)
             /\ Len(Below(r)) = Depth(r) - 1 /\ \A i \in 1..Depth(r) - 1 : Below(r)[i] = scopes[r][i]
  BY <1>2, <1>3, FrontFacts DEF Top, Below, Depth
<1>4. /\ \A s \in ScopeRec : s.onCommit \in Seq(Write) /\ s.entries \subseteq EntryRec
      /\ \A h \in Seq(Write), E \in SUBSET EntryRec : [onCommit |-> h, entries |-> E] \in ScopeRec
  BY DEF ScopeRec
<1>5. QED
  BY <1>1, <1>2, <1>3, <1>4

\* The scopes after a change and after a savepoint that returns.
LEMMA NewTop ==
  ASSUME TypeInv, NEW r \in Request, scopes[r] # <<>>, NEW top \in ScopeRec
  PROVE  LET s == Append(Below(r), top) IN
         /\ s \in Seq(ScopeRec) /\ Len(s) = Depth(r) /\ s[Depth(r)] = top
         /\ \A i \in 1..Depth(r) - 1 : s[i] = scopes[r][i]
<1> DEFINE s == Append(Below(r), top)
<1>1. /\ Depth(r) \in Nat \ {0} /\ Below(r) \in Seq(ScopeRec) /\ Len(Below(r)) = Depth(r) - 1
      /\ \A i \in 1..Depth(r) - 1 : Below(r)[i] = scopes[r][i]
  BY ScopeOps DEF Depth
<1>2. s \in Seq(ScopeRec) /\ Len(s) = Depth(r)
      /\ \A i \in DOMAIN s : s[i] = IF i <= Len(Below(r)) THEN Below(r)[i] ELSE top
  BY <1>1, AppendFacts
<1>3. DOMAIN s = 1..Depth(r)
  BY <1>2, LenProperties
<1>4. QED
  BY <1>1, <1>2, <1>3

\* A savepoint that is released joins its callbacks and entries to those around it.
LEMMA Joined ==
  ASSUME TypeInv, NEW r \in Request, Depth(r) > 1
  PROVE  LET s == Unnested(Below(r), Top(r))
             n == Depth(r) - 1
             a == scopes[r][n]
             b == scopes[r][n + 1]
         IN
         /\ n \in Nat \ {0} /\ a \in ScopeRec /\ b \in ScopeRec
         /\ s \in Seq(ScopeRec) /\ Len(s) = n /\ \A i \in 1..n - 1 : s[i] = scopes[r][i]
         /\ s[n] = [onCommit |-> a.onCommit \o b.onCommit, entries |-> a.entries \cup b.entries]
         /\ s[n] \in ScopeRec
<1> DEFINE s == Unnested(Below(r), Top(r))
           n == Depth(r) - 1
           a == scopes[r][n]
           b == scopes[r][n + 1]
           B == Below(r)
           joined == [onCommit |-> a.onCommit \o b.onCommit, entries |-> a.entries \cup b.entries]
<1>1. /\ Depth(r) \in Nat /\ scopes[r] # <<>> /\ n \in Nat \ {0}
      /\ B \in Seq(ScopeRec) /\ Len(B) = n /\ \A i \in 1..n : B[i] = scopes[r][i]
      /\ b = Top(r) /\ b \in ScopeRec
  BY SMTT(20), ScopeOps DEF Depth
<1>2. B # <<>>
  BY <1>1, EmptySeq
<1>3. Front(B) \in Seq(ScopeRec) /\ Len(Front(B)) = n - 1 /\ Last(B) = a /\ a \in ScopeRec /\ \A i \in 1..n - 1 : Front(B)[i] = B[i]
  <2>1. B \in Seq(ScopeRec) /\ Len(B) = n /\ B[n] = a
    BY <1>1
  <2> HIDE DEF B
  <2>2. /\ Front(B) \in Seq(ScopeRec) /\ Len(Front(B)) = Len(B) - 1 /\ Last(B) = B[Len(B)] /\ Last(B) \in ScopeRec
        /\ \A i \in 1..Len(B) - 1 : Front(B)[i] = B[i]
    BY <1>2, <2>1, FrontFacts
  <2>3. QED
    BY <2>1, <2>2
<1>4. joined \in ScopeRec
  <2>1. a.onCommit \in Seq(Write) /\ b.onCommit \in Seq(Write) /\ a.entries \cup b.entries \subseteq EntryRec
    BY <1>1, <1>3, ScopeOps
  <2>2. a.onCommit \o b.onCommit \in Seq(Write)
    BY <2>1, ConcatProperties
  <2>3. QED
    BY <2>1, <2>2, ScopeOps
<1>5. s = Append(Front(B), joined)
  BY <1>1, <1>3 DEF Unnested
<1> HIDE DEF joined, B
<1>6. s \in Seq(ScopeRec) /\ Len(s) = n /\ \A i \in DOMAIN s : s[i] = IF i <= n - 1 THEN Front(B)[i] ELSE joined
  BY <1>1, <1>3, <1>4, <1>5, AppendFacts
<1>7. DOMAIN s = 1..n
  BY <1>6, LenProperties
<1>8. s[n] = joined /\ \A i \in 1..n - 1 : s[i] = scopes[r][i]
  BY <1>1, <1>3, <1>6, <1>7
<1>9. QED
  BY <1>1, <1>3, <1>4, <1>6, <1>8 DEF joined

\* The types, when a connection is asked for.
LEMMA TypeAcquire ==
  ASSUME TypeInv, NEW r \in Request, Acquire(r)
  PROVE  /\ held' \in [Request -> Conn \cup {None}] /\ idle' \subseteq Conn /\ fresh' \subseteq Conn
         /\ queue' \in Seq(Request)
<1>1. Append(queue, r) \in Seq(Request)
  BY AppendFacts DEF TypeInv
<1>2. QED
  BY <1>1 DEF Acquire, TypeInv

\* What a waiting request, the body or a callback holds is a connection.
LEMMA HeldIsConn ==
  ASSUME TypeInv, NEW r \in Request, held[r] # None
  PROVE  held[r] \in Conn
BY DEF TypeInv

\* The types, when a change is made.
LEMMA TypeChange ==
  ASSUME TypeInv, Tidy, NEW r \in Request, NEW w \in Write, Change(r, w)
  PROVE  TypeInv'
<1> DEFINE top == [onCommit |-> Append(Top(r).onCommit, w), entries |-> Top(r).entries \cup {Entry(r, w)}]
<1>1. scopes[r] # <<>> /\ held[r] \in Conn /\ Top(r) \in ScopeRec
  BY ScopeOps, HeldIsConn DEF Change, Tidy, InTransaction
<1>2. Entry(r, w) \in EntryRec
  BY <1>1 DEF Entry, EntryRec, TypeInv, Who
<1>3. top \in ScopeRec
  <2>1. Append(Top(r).onCommit, w) \in Seq(Write) /\ Top(r).entries \cup {Entry(r, w)} \subseteq EntryRec
    BY <1>1, <1>2, ScopeOps, AppendFacts
  <2>2. QED
    BY <2>1, ScopeOps
<1>4. scopes' = [scopes EXCEPT ![r] = Append(Below(r), top)]
  BY DEF Change
<1> HIDE DEF top
<1>5. Append(Below(r), top) \in Seq(ScopeRec)
  BY <1>1, <1>3, ScopeOps, AppendFacts
<1>6. order' \subseteq Write \X Write
  BY DEF Change, MadeLast, Made, TypeInv
<1>7. QED
  BY <1>4, <1>5, <1>6 DEF Change, TypeInv, pool, db

\* The types, when a callback is called.
LEMMA TypeHooks ==
  ASSUME TypeInv, NEW r \in Request, hooks[r] # <<>>
  PROVE  Tail(hooks[r]) \in Seq(Write) /\ Append(ran, Head(hooks[r])) \in Seq(Write)
<1>1. hooks[r] \in Seq(Write) /\ ran \in Seq(Write)
  BY DEF TypeInv
<1>2. Tail(hooks[r]) \in Seq(Write) /\ Head(hooks[r]) \in Write
  BY <1>1, TailFacts
<1>3. QED
  BY <1>1, <1>2, AppendFacts

\* The types, whatever the step.
LEMMA TypeStep ==
  ASSUME TypeInv, Tidy, QueueWaits, [Next]_vars
  PROVE  TypeInv'
<1> USE DEF TypeInv, pool, db, past, Goes
<1>1. CASE Pulse
  <2>1. Head(queue) \in Request /\ Tail(queue) \in Seq(Request)
    BY <1>1, TailFacts DEF Pulse
  <2>2. QED
    BY <1>1, <2>1 DEF Pulse
<1>2. CASE Crash
  <2>1. \A r \in Request : ToSet(hooks[r]) \subseteq Write
    BY ElementOfSeq, LenProperties DEF ToSet
  <2>2. UNION {ToSet(hooks[r]) : r \in Request} \subseteq Write
    BY <2>1
  <2>3. /\ [r \in Request |-> <<>>] \in [Request -> Seq(ScopeRec)]
        /\ [r \in Request |-> <<>>] \in [Request -> Seq(Write)] /\ <<>> \in Seq(Request)
    BY EmptySeq
  <2>4. QED
    BY <1>2, <2>2, <2>3 DEF Crash, Fault, Step, Who
<1>3. ASSUME NEW r \in Request, Ask(r, "begin") \/ Ask(r, "query") PROVE TypeInv'
  BY <1>3, TypeAcquire DEF Ask, Step
<1>4. ASSUME NEW r \in Request, AcquireTimeout(r) PROVE TypeInv'
  <2>1. queue' \in Seq(Request)
    BY <1>4, RemoveFacts DEF AcquireTimeout
  <2>2. CASE pc[r] = "hook"
    BY <1>4, <2>1, <2>2, TypeHooks DEF AcquireTimeout, Tidy, Step
  <2>3. CASE pc[r] # "hook"
    BY <1>4, <2>1, <2>3 DEF AcquireTimeout, Step
  <2>4. QED
    BY <2>2, <2>3
<1>5. ASSUME NEW r \in Request, Begin(r) PROVE TypeInv'
  <2>1. scopes' \in [Request -> Seq(ScopeRec)]
    BY <1>5, ScopeOps DEF Begin
  <2>2. QED
    BY <1>5, <2>1 DEF Begin, Stamp, Step, Who
<1>6. ASSUME NEW r \in Request, Nest(r) PROVE TypeInv'
  <2>1. Append(scopes[r], Scope) \in Seq(ScopeRec)
    BY ScopeOps, AppendFacts
  <2>2. QED
    BY <1>6, <2>1 DEF Nest
<1>7. ASSUME NEW r \in Request, NestReturns(r) PROVE TypeInv'
  <2>1. Unnested(Below(r), Top(r)) \in Seq(ScopeRec)
    BY <1>7, Joined DEF NestReturns
  <2>2. QED
    BY <1>7, <2>1 DEF NestReturns
<1>8. ASSUME NEW r \in Request, Throw(r) PROVE TypeInv'
  <2>1. Below(r) \in Seq(ScopeRec) /\ <<>> \in Seq(ScopeRec) /\ held[r] \in Conn
    BY <1>8, ScopeOps, HeldIsConn DEF Throw, Tidy, InTransaction
  <2>2. CASE scopes' = [scopes EXCEPT ![r] = Below(r)] /\ UNCHANGED <<pc, held, pool, ctx>>
    BY <1>8, <2>1, <2>2 DEF Throw
  <2>3. CASE Leaves(r) /\ Returned(r) /\ Unstamp(r) /\ Goes(r, "idle")
    BY <1>8, <2>1, <2>3 DEF Throw, Leaves, Returned, Unstamp, Step, Who
  <2>4. QED
    BY <1>8, <2>2, <2>3 DEF Throw, RolledBack
<1>9. ASSUME NEW r \in Request, pc[r] = "body"
      PROVE  /\ held[r] \in Conn /\ Top(r).onCommit \in Seq(Write) /\ <<>> \in Seq(ScopeRec)
             /\ (Persist(r) => rows' \subseteq Write /\ entries' \subseteq EntryRec)
             /\ Changed(r) \subseteq Write
  <2>1. held[r] \in Conn /\ Top(r) \in ScopeRec
    BY <1>9, ScopeOps, HeldIsConn DEF Tidy, InTransaction
  <2>2. Top(r).onCommit \in Seq(Write) /\ Top(r).entries \subseteq EntryRec /\ <<>> \in Seq(ScopeRec)
    BY <2>1, ScopeOps
  <2>3. Changed(r) \subseteq Write
    <3>1. \A s \in ToSet(scopes[r]) : s.entries \subseteq EntryRec
      BY ElementOfSeq, LenProperties, ScopeOps DEF ToSet
    <3>2. QED
      BY <3>1 DEF Changed, EntryRec
  <2>4. QED
    BY <2>1, <2>2, <2>3 DEF Persist, EntryRec
<1>10. ASSUME NEW r \in Request, Commit(r) PROVE TypeInv'
  BY <1>9, <1>10 DEF Commit, Leaves, Returned, Unstamp, Step, Who
<1>11. ASSUME NEW r \in Request, ConnectionLost(r) PROVE TypeInv'
  BY <1>9, <1>11 DEF ConnectionLost, Leaves, Broken, Unstamp, Fault, Step, Who
<1>12. ASSUME NEW r \in Request, RunHook(r) PROVE TypeInv'
  <2>1. CASE HookFails(r) /\ ran' = Append(ran, Head(hooks[r])) /\ UNCHANGED pc
    BY <1>12, <2>1, TypeHooks DEF RunHook, HookFails
  <2>2. CASE Acquire(r) /\ Goes(r, "hook") /\ UNCHANGED <<hooks, ran>>
    BY <1>12, <2>2, TypeAcquire DEF RunHook, Step
  <2>3. QED
    BY <1>12, <2>1, <2>2 DEF RunHook
<1>13. ASSUME NEW r \in Request, HooksDone(r) PROVE TypeInv'
  BY <1>13 DEF HooksDone, Step
<1>14. ASSUME NEW r \in Request, Query(r) PROVE TypeInv'
  <2>1. held[r] \in Conn
    BY <1>14, HeldIsConn DEF Query
  <2>2. \A w \in Write : Entry(r, w) \in EntryRec
    BY <2>1 DEF Entry, EntryRec, Who
  <2>3. CASE pc[r] = "query"
    BY <1>14, <2>1, <2>2, <2>3 DEF Query, Returned, Step
  <2>4. CASE pc[r] = "hook"
    BY <1>14, <2>1, <2>4, TypeHooks DEF Query, Returned, Step, Tidy
  <2>5. QED
    BY <1>14, <2>3, <2>4 DEF Query
<1>15. CASE UNCHANGED vars
  BY <1>15 DEF vars
<1>16. QED
  BY <1>1, <1>2, <1>3, <1>4, <1>5, <1>6, <1>7, <1>8, <1>10, <1>11, <1>12, <1>13, <1>14, <1>15, TypeChange DEF Next, Proceeds

-----------------------------------------------------------------------------
(* Steps, connections and the queue *)

LEMMA QueueIndex ==
  ASSUME TypeInv
  PROVE  /\ DOMAIN queue = 1..Len(queue) /\ Len(queue) \in Nat
         /\ \A i \in DOMAIN queue : queue[i] \in Request
         /\ queue # <<>> => 1 \in DOMAIN queue /\ Head(queue) = queue[1]
BY LenProperties, ElementOfSeq, EmptySeq, TailFacts DEF TypeInv

\* What a body does to its scopes leaves one.
LEMMA BodyGoesOn ==
  ASSUME TypeInv, Tidy, QueueWaits, NEW r \in Request, Nest(r) \/ NestReturns(r) \/ \E w \in Write : Change(r, w)
  PROVE  /\ scopes[r] # <<>> /\ pc[r] = "body" /\ UNCHANGED <<pc, held, hooks>>
         /\ \E s \in Seq(ScopeRec) : s # <<>> /\ scopes' = [scopes EXCEPT ![r] = s]
<1>1. scopes[r] # <<>> /\ pc[r] = "body" /\ UNCHANGED <<pc, held, hooks>>
  BY DEF Nest, NestReturns, Change, Tidy, InTransaction
<1>2. CASE Nest(r)
  <2> DEFINE s == Append(scopes[r], Scope)
  <2>1. s \in Seq(ScopeRec) /\ s # <<>>
    BY ScopeOps, AppendFacts
  <2>2. scopes' = [scopes EXCEPT ![r] = s]
    BY <1>2 DEF Nest
  <2>3. QED
    BY <1>1, <2>1, <2>2
<1>3. CASE NestReturns(r)
  <2> DEFINE s == Unnested(Below(r), Top(r))
             n == Depth(r) - 1
             a == scopes[r][n]
             b == scopes[r][n + 1]
  <2>1. Depth(r) > 1 /\ scopes' = [scopes EXCEPT ![r] = s]
    BY <1>3 DEF NestReturns
  <2>2. s \in Seq(ScopeRec) /\ Len(s) = n /\ n \in Nat \ {0}
    BY <2>1, Joined
  <2> HIDE DEF s, n
  <2>3. s # <<>>
    BY <2>2, EmptySeq
  <2>4. QED
    BY <1>1, <2>1, <2>2, <2>3
<1>4. ASSUME NEW w \in Write, Change(r, w)
      PROVE  \E s \in Seq(ScopeRec) : s # <<>> /\ scopes' = [scopes EXCEPT ![r] = s]
  <2>1. PICK top : scopes' = [scopes EXCEPT ![r] = Append(Below(r), top)]
    BY <1>4 DEF Change
  <2>2. scopes'[r] = Append(Below(r), top) /\ scopes'[r] \in Seq(ScopeRec)
    BY <1>4, <2>1, TypeChange DEF TypeInv
  <2>3. Below(r) \in Seq(ScopeRec)
    BY <1>1, ScopeOps
  <2>4. Append(Below(r), top) # <<>>
    BY <2>3
  <2>5. QED
    BY <2>1, <2>2, <2>4
<1>5. QED
  BY <1>1, <1>2, <1>3, <1>4

\* What a request has in its hands goes with its step.
LEMMA TidyStep ==
  ASSUME TypeInv, Tidy, QueueWaits, [Next]_vars
  PROVE  Tidy'
<1> USE DEF TypeInv, pool, db, past, Goes, Tidy, InTransaction
<1>1. CASE Pulse
  <2>1. Head(queue) \in Request /\ Waits(Head(queue)) /\ pc[Head(queue)] \notin {"idle", "hooks"}
    BY <1>1, QueueIndex DEF Pulse, QueueWaits, Waits
  <2>2. PICK c \in Conn : held' = [held EXCEPT ![Head(queue)] = c]
    BY <1>1 DEF Pulse
  <2>3. c # None
    BY TransactionsAssumption
  <2>4. QED
    BY <1>1, <2>1, <2>2, <2>3 DEF Pulse
<1>2. CASE Crash
  BY <1>2 DEF Crash
<1>3. ASSUME NEW r \in Request, Ask(r, "begin") \/ Ask(r, "query") PROVE Tidy'
  <2>1. pc[r] = "idle"
    BY <1>3 DEF Ask, Refused
  <2>2. QED
    BY <1>3, <2>1 DEF Ask, Acquire
<1>4. ASSUME NEW r \in Request, AcquireTimeout(r) PROVE Tidy'
  BY ZenonT(40), <1>4 DEF AcquireTimeout, QueueWaits, Waits
<1>5. ASSUME NEW r \in Request, Begin(r) PROVE Tidy'
  BY <1>5 DEF Begin
<1>6. ASSUME NEW r \in Request, Nest(r) \/ NestReturns(r) \/ \E w \in Write : Change(r, w) PROVE Tidy'
  BY <1>6, BodyGoesOn
<1>7. ASSUME NEW r \in Request, Throw(r) PROVE Tidy'
  <2>1. CASE Depth(r) > 1 /\ scopes' = [scopes EXCEPT ![r] = Below(r)] /\ UNCHANGED <<pc, held, hooks>>
    <3>1. Below(r) # <<>>
      BY <1>7, <2>1, ScopeOps, EmptySeq DEF Depth
    <3>2. QED
      BY <1>7, <2>1, <3>1 DEF Throw
  <2>2. CASE Leaves(r) /\ Returned(r) /\ Goes(r, "idle") /\ UNCHANGED hooks
    BY <1>7, <2>2 DEF Throw, Leaves, Returned
  <2>3. QED
    BY <1>7, <2>1, <2>2 DEF Throw, RolledBack
<1>8. ASSUME NEW r \in Request, Commit(r) PROVE Tidy'
  BY <1>8 DEF Commit, Leaves, Returned
<1>9. ASSUME NEW r \in Request, ConnectionLost(r) PROVE Tidy'
  BY <1>9 DEF ConnectionLost, Leaves, Broken
<1>10. ASSUME NEW r \in Request, RunHook(r) PROVE Tidy'
  BY <1>10 DEF RunHook, HookFails, Acquire
<1>11. ASSUME NEW r \in Request, HooksDone(r) PROVE Tidy'
  BY <1>11 DEF HooksDone
<1>12. ASSUME NEW r \in Request, Query(r) PROVE Tidy'
  BY <1>12 DEF Query, Returned
<1>13. CASE UNCHANGED vars
  BY <1>13 DEF vars
<1>14. QED
  BY <1>1, <1>2, <1>3, <1>4, <1>5, <1>6, <1>7, <1>8, <1>9, <1>10, <1>11, <1>12, <1>13 DEF Next, Proceeds

\* Who gets a connection had none, and it came from the pool; who gives one back or
\* breaks it has none left.
LEMMA ConnsMove ==
  ASSUME TypeInv, Tidy, QueueWaits, [Next]_vars
  PROVE  \/ UNCHANGED <<held, idle, fresh>>
         \/ \E r \in Request, c \in idle \cup fresh :
              /\ held' = [held EXCEPT ![r] = c] /\ idle' = idle \ {c} /\ fresh' = fresh \ {c}
         \/ \E r \in Request :
              /\ held[r] # None /\ held' = [held EXCEPT ![r] = None]
              /\ \/ idle' = idle \cup {held[r]} /\ fresh' = fresh
                 \/ fresh' = fresh \cup {held[r]} /\ idle' = idle
         \/ held' = [r \in Request |-> None] /\ idle' = {} /\ fresh' = Conn
<1> USE DEF pool, db, past
<1>1. CASE Pulse
  BY <1>1, QueueIndex DEF Pulse
<1>2. ASSUME NEW r \in Request, Acquire(r)
      PROVE  \/ UNCHANGED <<held, idle, fresh>>
             \/ \E c \in idle \cup fresh :
                  /\ held' = [held EXCEPT ![r] = c] /\ idle' = idle \ {c} /\ fresh' = fresh \ {c}
  BY <1>2 DEF Acquire
<1>3. ASSUME NEW r \in Request, Throw(r) \/ Commit(r) \/ ConnectionLost(r) \/ Query(r)
      PROVE  \/ UNCHANGED <<held, idle, fresh>>
             \/ /\ held[r] # None /\ held' = [held EXCEPT ![r] = None]
                /\ \/ idle' = idle \cup {held[r]} /\ fresh' = fresh
                   \/ fresh' = fresh \cup {held[r]} /\ idle' = idle
  BY <1>3 DEF Throw, Commit, ConnectionLost, Query, Returned, Broken, Tidy
<1>4. QED
  BY <1>1, <1>2, <1>3 DEF Next, vars, Crash, Ask, AcquireTimeout, Begin, Change, Nest, NestReturns, RunHook, HookFails,
     HooksDone, Proceeds

\* A connection is in one place.
LEMMA ApartStep ==
  ASSUME TypeInv, Tidy, QueueWaits, ConnsApart, [Next]_vars
  PROVE  ConnsApart'
<1> USE TransactionsAssumption DEF TypeInv, ConnsApart
<1>1. CASE UNCHANGED <<held, idle, fresh>>
  BY <1>1
<1>2. ASSUME NEW r \in Request, NEW c \in idle \cup fresh,
             held' = [held EXCEPT ![r] = c], idle' = idle \ {c}, fresh' = fresh \ {c}
      PROVE  ConnsApart'
  BY <1>2
<1>3. ASSUME NEW r \in Request, held[r] # None, held' = [held EXCEPT ![r] = None],
             \/ idle' = idle \cup {held[r]} /\ fresh' = fresh
             \/ fresh' = fresh \cup {held[r]} /\ idle' = idle
      PROVE  ConnsApart'
  BY <1>3
<1>4. CASE held' = [r \in Request |-> None] /\ idle' = {} /\ fresh' = Conn
  BY <1>4
<1>5. QED
  BY <1>1, <1>2, <1>3, <1>4, ConnsMove

\* Who is in the queue waits.
LEMMA QueueStep ==
  ASSUME TypeInv, Tidy, QueueWaits, [Next]_vars
  PROVE  QueueWaits'
<1> USE TransactionsAssumption DEF TypeInv, pool, db, past, Goes
<1>0. ASSUME NEW r \in Request, Lacks(queue', queue, r),
             \A q \in Request : q # r => pc'[q] = pc[q] /\ held'[q] = held[q]
      PROVE  QueueWaits'
  <2>1. \A i \in DOMAIN queue' : Waits(queue'[i]) /\ held[queue'[i]] = None /\ queue'[i] \in Request \ {r}
    BY <1>0, QueueIndex DEF Lacks, QueueWaits
  <2>2. \A i \in DOMAIN queue' : pc'[queue'[i]] \in {"begin", "query", "hook"} /\ held'[queue'[i]] = None
    BY <1>0, <2>1 DEF Waits
  <2>3. Len(queue') <= MaxWaiting
    BY <1>0, QueueIndex DEF Lacks, QueueWaits
  <2>4. QED
    BY <1>0, <2>2, <2>3 DEF Lacks, QueueWaits, Waits
<1>1. CASE Pulse
  <2>1. Lacks(queue', queue, Head(queue))
    BY <1>1, TailLacks DEF Pulse, QueueWaits
  <2>2. Head(queue) \in Request /\ UNCHANGED pc /\ \A q \in Request : q # Head(queue) => held'[q] = held[q]
    BY <1>1, QueueIndex DEF Pulse
  <2>3. QED
    BY <1>0, <2>1, <2>2
<1>2. CASE Crash
  BY <1>2 DEF Crash, QueueWaits
<1>3. ASSUME NEW r \in Request, Acquire(r), ~Waits(r), ~Refused(r), Waits(r)',
             \A q \in Request : q # r => pc'[q] = pc[q], held[r] = None
      PROVE  QueueWaits'
  <2>1. \A i \in DOMAIN queue : queue[i] # r /\ queue[i] \in Request
    BY <1>3, QueueIndex DEF QueueWaits
  <2>2. CASE queue' = Append(queue, r) /\ UNCHANGED held
    <3>1. /\ Len(queue') = Len(queue) + 1 /\ DOMAIN queue' = 1..Len(queue) + 1 /\ DOMAIN queue = 1..Len(queue)
          /\ \A i \in DOMAIN queue' : queue'[i] = IF i <= Len(queue) THEN queue[i] ELSE r
      BY <2>2, AppendFacts, LenProperties
    <3>2. Len(queue) \in Nat /\ Len(queue) < MaxWaiting
      BY <1>3, QueueIndex DEF Refused
    <3>3. QED
      BY <1>3, <2>1, <2>2, <3>1, <3>2 DEF QueueWaits, Waits
  <2>3. CASE UNCHANGED queue /\ \A q \in Request : q # r => held'[q] = held[q]
    BY <1>3, <2>1, <2>3 DEF QueueWaits, Waits
  <2>4. QED
    BY <1>3, <2>2, <2>3 DEF Acquire
<1>4. ASSUME NEW r \in Request, Ask(r, "begin") \/ Ask(r, "query") PROVE QueueWaits'
  <2>1. pc[r] = "idle" /\ held[r] = None
    BY <1>4 DEF Ask, Refused, Tidy, InTransaction
  <2>2. QED
    BY <1>3, <1>4, <2>1 DEF Ask, Waits
<1>5. ASSUME NEW r \in Request, AcquireTimeout(r) PROVE QueueWaits'
  <2>1. PICK k \in DOMAIN queue : queue[k] = r /\ queue' = RemoveAt(queue, k)
    BY <1>5 DEF AcquireTimeout
  <2>2. Lacks(queue', queue, r)
    BY <2>1, RemoveLacks DEF QueueWaits
  <2>3. UNCHANGED held /\ \A q \in Request : q # r => pc'[q] = pc[q]
    BY <1>5 DEF AcquireTimeout
  <2>4. QED
    BY <1>0, <2>2, <2>3
<1>6. ASSUME NEW r \in Request, ~Waits(r) \/ held[r] # None, UNCHANGED queue,
             \A q \in Request : q # r => pc'[q] = pc[q] /\ held'[q] = held[q]
      PROVE  QueueWaits'
  BY <1>6, QueueIndex DEF QueueWaits, Waits
<1>7. ASSUME NEW r \in Request, Begin(r) \/ Throw(r) \/ Commit(r) \/ ConnectionLost(r) \/ Query(r)
      PROVE  QueueWaits'
  <2>1. ~Waits(r) \/ held[r] # None
    BY <1>7 DEF Begin, Throw, Commit, ConnectionLost, Query, Waits
  <2>2. UNCHANGED queue /\ \A q \in Request : q # r => pc'[q] = pc[q] /\ held'[q] = held[q]
    BY <1>7 DEF Begin, Throw, Commit, ConnectionLost, Query, Returned, Broken
  <2>3. QED
    BY <1>6, <2>1, <2>2
<1>8. ASSUME NEW r \in Request, RunHook(r) PROVE QueueWaits'
  <2>1. pc[r] = "hooks" /\ held[r] = None
    BY <1>8 DEF RunHook, Tidy
  <2>2. CASE HookFails(r) /\ UNCHANGED pc
    BY <1>6, <2>1, <2>2 DEF HookFails, Waits
  <2>3. CASE ~Refused(r) /\ Acquire(r) /\ Goes(r, "hook")
    BY <1>3, <2>1, <2>3 DEF Waits
  <2>4. QED
    BY <1>8, <2>2, <2>3 DEF RunHook
<1>9. ASSUME NEW r \in Request, HooksDone(r) PROVE QueueWaits'
  BY <1>6, <1>9 DEF HooksDone, Waits
<1>10. CASE UNCHANGED <<queue, pc, held>>
  BY <1>10 DEF QueueWaits, Waits
<1>11. QED
  BY <1>1, <1>2, <1>4, <1>5, <1>7, <1>8, <1>9, <1>10 DEF Next, vars, Proceeds, Change, Nest, NestReturns

-----------------------------------------------------------------------------
PoolInv == TypeInv /\ Tidy /\ ConnsApart /\ QueueWaits

\* What is known of the pool is inductive.
LEMMA PoolStep == PoolInv /\ [Next]_vars => PoolInv'
BY TypeStep, TidyStep, ApartStep, QueueStep DEF PoolInv

\* What is known of the pool holds at the start.
LEMMA PoolInit == Init => PoolInv
<1> SUFFICES ASSUME Init PROVE PoolInv
  OBVIOUS
<1>1. \A S : <<>> \in Seq(S) /\ Len(<<>>) = 0
  BY EmptySeq
<1>2. TypeInv
  BY <1>1 DEF Init, TypeInv, Step, Who
<1>3. Tidy /\ ConnsApart /\ QueueWaits
  BY TransactionsAssumption DEF Init, Tidy, InTransaction, ConnsApart, QueueWaits
<1>4. QED
  BY <1>2, <1>3 DEF PoolInv

\* With any number of requests and connections, in any order of timeouts, lost
\* connections and crashes: nobody waits for a connection with one in its hands or
\* from inside a transaction, nobody shares one, and the queue keeps its limit.
THEOREM NobodyWaitsHolding == Spec => []HoldersNeverWait
<1>1. PoolInv => HoldersNeverWait
  <2> SUFFICES ASSUME PoolInv PROVE HoldersNeverWait
    OBVIOUS
  <2>1. ASSUME NEW c \in Conn PROVE Cardinality({r \in Request : held[r] = c}) <= 1
    <3> DEFINE users == {r \in Request : held[r] = c}
    <3>1. \A r, q \in users : r = q
      BY TransactionsAssumption DEF PoolInv, ConnsApart
    <3>2. CASE users = {}
      BY <3>2, FS_EmptySet
    <3>3. ASSUME NEW r \in users PROVE Cardinality(users) = 1
      <4>1. users = {r}
        BY <3>1, <3>3
      <4>2. QED
        BY <4>1, FS_Singleton
    <3>4. QED
      BY <3>2, <3>3
  <2>2. ASSUME NEW r \in ToSet(queue) PROVE held[r] = None /\ ~InTransaction(r)
    BY <2>2, QueueIndex DEF PoolInv, QueueWaits, Waits, Tidy, ToSet
  <2>3. QED
    BY <2>1, <2>2 DEF PoolInv, QueueWaits, HoldersNeverWait
<1>2. QED
  BY <1>1, PoolInit, PoolStep, PTL DEF Spec

-----------------------------------------------------------------------------
(* What becomes of the scopes of a request *)

Places(r) == DOMAIN scopes[r]

\* From S to T: all closed, or one just opened; one more; the top one changed; the
\* two on top made one; the top one dropped.
Reset(T) == T \in {<<>>, <<Scope>>}
Deepened(S, T) ==
  /\ DOMAIN T = 1..Len(S) + 1 /\ T[Len(S) + 1] = Scope
  /\ \A i \in DOMAIN S : T[i] = S[i]
Extended(S, T, d, w, e) ==
  /\ DOMAIN S = 1..d /\ DOMAIN T = 1..d /\ d \in Nat \ {0}
  /\ T[d] = [onCommit |-> Append(S[d].onCommit, w), entries |-> S[d].entries \cup {e}]
  /\ \A i \in 1..d - 1 : T[i] = S[i]
Merged(S, T, n) ==
  /\ DOMAIN S = 1..n + 1 /\ DOMAIN T = 1..n /\ n \in Nat \ {0}
  /\ T[n] = [onCommit |-> S[n].onCommit \o S[n + 1].onCommit, entries |-> S[n].entries \cup S[n + 1].entries]
  /\ \A i \in 1..n - 1 : T[i] = S[i]
Dropped(S, T) == DOMAIN T \subseteq DOMAIN S /\ \A i \in DOMAIN T : T[i] = S[i]

Reshaped(r) ==
  /\ UNCHANGED <<rows, entries, hooks, ran, ctx, pc, held, unhooked>>
  /\ \A q \in Request \ {r} : scopes'[q] = scopes[q]
  /\ \/ Deepened(scopes[r], scopes'[r]) /\ UNCHANGED order
     \/ \E w \in Write \ Written, d \in Nat : Extended(scopes[r], scopes'[r], d, w, Entry(r, w)) /\ order' = MadeLast(w)
     \/ (\E n \in Nat : Merged(scopes[r], scopes'[r], n)) /\ UNCHANGED order
     \/ Dropped(scopes[r], scopes'[r]) /\ UNCHANGED order

\* The scopes of a request.
LEMMA PlacesAre ==
  ASSUME TypeInv, NEW r \in Request
  PROVE  Places(r) = 1..Depth(r) /\ Depth(r) \in Nat /\ \A i \in Places(r) : scopes[r][i] \in ScopeRec
BY LenProperties, ElementOfSeq DEF TypeInv, Places, Depth

\* Its scopes after a step.
LEMMA PlacesNext ==
  ASSUME NEW r \in Request, scopes'[r] \in Seq(ScopeRec)
  PROVE  Places(r)' = 1..Len(scopes'[r]) /\ Len(scopes'[r]) \in Nat
BY LenProperties DEF Places

\* A body adds to its scopes, joins two of them or drops the top one.
LEMMA BodyReshapes ==
  ASSUME TypeInv, Tidy, NEW r \in Request, pc[r] = "body",
         \/ Nest(r) \/ NestReturns(r) \/ \E w \in Write : Change(r, w)
         \/ Throw(r) /\ Depth(r) > 1
  PROVE  Reshaped(r)
<1> USE DEF TypeInv, pool, db, past
<1>1. scopes[r] # <<>> /\ Depth(r) \in Nat \ {0} /\ Places(r) = 1..Depth(r) /\ Top(r) = scopes[r][Depth(r)]
  BY ScopeOps, PlacesAre DEF Tidy, InTransaction, Depth
<1>2. CASE Nest(r)
  <2>1. /\ Append(scopes[r], Scope) \in Seq(ScopeRec) /\ Len(Append(scopes[r], Scope)) = Depth(r) + 1
        /\ \A i \in DOMAIN Append(scopes[r], Scope) : Append(scopes[r], Scope)[i] = IF i <= Depth(r) THEN scopes[r][i] ELSE Scope
    BY ScopeOps, AppendFacts DEF Depth
  <2>2. scopes'[r] = Append(scopes[r], Scope)
    BY <1>2 DEF Nest
  <2>3. Places(r)' = 1..Depth(r) + 1
    BY <2>1, <2>2, PlacesNext
  <2>4. Deepened(scopes[r], scopes'[r])
    BY <1>1, <2>1, <2>2, <2>3 DEF Deepened, Places, Depth
  <2>5. QED
    BY <1>2, <2>4 DEF Nest, Reshaped
<1>3. CASE NestReturns(r)
  <2> DEFINE n == Depth(r) - 1
             a == scopes[r][n]
             b == scopes[r][n + 1]
             s == Unnested(Below(r), Top(r))
  <2>1. Depth(r) > 1 /\ scopes'[r] = s
    BY <1>3 DEF NestReturns
  <2>2. /\ n \in Nat \ {0}
        /\ s \in Seq(ScopeRec) /\ Len(s) = n /\ \A i \in 1..n - 1 : s[i] = scopes[r][i]
        /\ s[n] = [onCommit |-> a.onCommit \o b.onCommit, entries |-> a.entries \cup b.entries]
    BY <2>1, Joined
  <2> HIDE DEF s
  <2>3. Places(r)' = 1..n
    BY <2>1, <2>2, PlacesNext
  <2>4. Places(r) = 1..n + 1
    BY <1>1, <2>1
  <2>5. Merged(scopes[r], scopes'[r], n)
    BY <2>1, <2>2, <2>3, <2>4 DEF Merged, Places
  <2>6. QED
    BY <1>3, <2>2, <2>5 DEF NestReturns, Reshaped
<1>4. ASSUME NEW w \in Write, Change(r, w) PROVE Reshaped(r)
  <2> DEFINE top == [onCommit |-> Append(Top(r).onCommit, w), entries |-> Top(r).entries \cup {Entry(r, w)}]
             s == Append(Below(r), top)
  <2>1. scopes'[r] = s
    BY <1>4 DEF Change
  <2>2. top \in ScopeRec
    <3>1. held[r] \in Conn /\ Top(r) \in ScopeRec
      BY <1>1, ScopeOps, HeldIsConn DEF Tidy
    <3>2. Entry(r, w) \in EntryRec
      BY <3>1 DEF Entry, EntryRec, Who
    <3>3. Append(Top(r).onCommit, w) \in Seq(Write) /\ Top(r).entries \cup {Entry(r, w)} \subseteq EntryRec
      BY <3>1, <3>2, ScopeOps, AppendFacts
    <3>4. QED
      BY <3>3, ScopeOps
  <2>3. /\ s \in Seq(ScopeRec) /\ Len(s) = Depth(r) /\ s[Depth(r)] = top
        /\ \A i \in 1..Depth(r) - 1 : s[i] = scopes[r][i]
    BY <1>1, <2>2, NewTop
  <2> HIDE DEF s
  <2>4. Places(r)' = Places(r)
    BY <1>1, <2>1, <2>3, PlacesNext
  <2>5. Extended(scopes[r], scopes'[r], Depth(r), w, Entry(r, w))
    BY <1>1, <2>1, <2>3, <2>4 DEF Extended, Places
  <2>6. w \notin Written /\ order' = MadeLast(w)
    BY <1>4 DEF Change
  <2>7. QED
    BY <1>1, <1>4, <2>5, <2>6 DEF Change, Reshaped
<1>5. CASE Throw(r) /\ Depth(r) > 1
  <2>1. scopes'[r] = Below(r)
    BY <1>5 DEF Throw, RolledBack
  <2>2. Below(r) \in Seq(ScopeRec) /\ Len(Below(r)) = Depth(r) - 1 /\ \A i \in 1..Depth(r) - 1 : Below(r)[i] = scopes[r][i]
    BY <1>1, ScopeOps
  <2>3. Places(r)' = 1..Depth(r) - 1
    BY <2>1, <2>2, PlacesNext
  <2>4. Dropped(scopes[r], scopes'[r])
    BY <1>1, <2>1, <2>2, <2>3 DEF Dropped, Places
  <2>5. QED
    BY <1>5, <2>4 DEF Throw, Reshaped
<1>6. QED
  BY <1>2, <1>3, <1>4, <1>5

\* How the scopes of a request change, whatever the step.
LEMMA ScopesFrom ==
  ASSUME TypeInv, Tidy, [Next]_vars
  PROVE  \/ \E r \in Request : pc[r] = "body" /\ Reshaped(r)
         \/ UNCHANGED <<scopes, order>>
         \/ UNCHANGED order /\ \E r \in Request : Reset(scopes'[r]) /\ \A q \in Request \ {r} : scopes'[q] = scopes[q]
         \/ Crash
<1> USE DEF TypeInv, pool, db, past
<1>1. ASSUME NEW r \in Request, Nest(r) \/ NestReturns(r) \/ \E w \in Write : Change(r, w)
      PROVE  pc[r] = "body" /\ Reshaped(r)
  <2>1. pc[r] = "body"
    BY <1>1 DEF Nest, NestReturns, Change
  <2>2. QED
    BY <1>1, <2>1, BodyReshapes
<1>2. ASSUME NEW r \in Request, Throw(r)
      PROVE  \/ pc[r] = "body" /\ Reshaped(r)
             \/ UNCHANGED order /\ Reset(scopes'[r]) /\ \A q \in Request \ {r} : scopes'[q] = scopes[q]
  <2>1. CASE Depth(r) > 1
    <3>1. pc[r] = "body"
      BY <1>2 DEF Throw
    <3>2. QED
      BY <1>2, <2>1, <3>1, BodyReshapes
  <2>2. CASE ~(Depth(r) > 1)
    BY <1>2, <2>2 DEF Throw, Leaves, Reset
  <2>3. QED
    BY <2>1, <2>2
<1>3. ASSUME NEW r \in Request, Begin(r) \/ Commit(r) \/ ConnectionLost(r)
      PROVE  UNCHANGED order /\ Reset(scopes'[r]) /\ \A q \in Request \ {r} : scopes'[q] = scopes[q]
  BY <1>3 DEF Begin, Commit, ConnectionLost, Leaves, Reset
<1>4. QED
  BY <1>1, <1>2, <1>3 DEF Next, vars, Ask, AcquireTimeout, RunHook, HooksDone, Query, Pulse, Proceeds

-----------------------------------------------------------------------------
(* The audit trail *)

Actor(r) == IF r \in Anonymous THEN None ELSE r

\* A connection names who has it in a transaction, if it names anybody.
StampsAreRight ==
  /\ \A r \in Request : pc[r] = "body" => ctx[held[r]] = Actor(r)
  /\ \A c \in Conn : ctx[c] # None => \E r \in Request : pc[r] = "body" /\ held[r] = c

EntriesInHand ==
  \A r \in Request : \A i \in Places(r) : \A e \in scopes[r][i].entries : e.of = r /\ e.actor = Actor(r)

EntriesAreTrue ==
  /\ \A w \in rows : \E e \in entries : e.write = w
  /\ \A e \in entries : e.actor = Actor(e.of) \/ (e.actor = None /\ e.write \in unhooked)

\* A connection names its holder in a transaction and nobody otherwise.
LEMMA StampsStep ==
  ASSUME PoolInv, StampsAreRight, [Next]_vars
  PROVE  StampsAreRight'
<1>0. TypeInv /\ Tidy /\ ConnsApart /\ QueueWaits
  BY DEF PoolInv
<1> USE <1>0 DEF TypeInv, pool, db, past, Goes
<1>1. ASSUME UNCHANGED ctx, NEW r \in Request, pc[r] # "body", pc'[r] # "body",
             \A q \in Request \ {r} : pc'[q] = pc[q] /\ held'[q] = held[q]
      PROVE  StampsAreRight'
  <2>1. \A q \in Request : (pc'[q] = "body" <=> pc[q] = "body") /\ (pc[q] = "body" => q # r /\ held'[q] = held[q])
    BY <1>1
  <2>2. \A q \in Request : pc'[q] = "body" => ctx'[held'[q]] = Actor(q)
    BY <1>1, <2>1 DEF StampsAreRight
  <2>3. ASSUME NEW c \in Conn, ctx'[c] # None PROVE \E q \in Request : pc'[q] = "body" /\ held'[q] = c
    <3>1. PICK q \in Request : pc[q] = "body" /\ held[q] = c
      BY <1>1, <2>3 DEF StampsAreRight
    <3>2. QED
      BY <2>1, <3>1
  <2>4. QED
    BY <2>2, <2>3 DEF StampsAreRight, Actor
<1>2. CASE Pulse
  <2>1. Head(queue) \in Request /\ pc[Head(queue)] # "body"
    <3>1. 1 \in DOMAIN queue /\ Head(queue) = queue[1] /\ queue[1] \in Request
      BY <1>2, QueueIndex DEF Pulse
    <3>2. QED
      BY <3>1 DEF QueueWaits, Waits
  <2>2. QED
    BY <1>1, <1>2, <2>1 DEF Pulse
<1>3. CASE Crash
  BY <1>3 DEF Crash, StampsAreRight
<1>4. ASSUME NEW r \in Request, Ask(r, "begin") \/ Ask(r, "query") PROVE StampsAreRight'
  <2>1. pc[r] = "idle"
    BY <1>4 DEF Ask, Refused, Tidy
  <2>2. QED
    BY <1>1, <1>4, <2>1 DEF Ask, Acquire
<1>5. ASSUME NEW r \in Request, AcquireTimeout(r) PROVE StampsAreRight'
  BY <1>1, <1>5 DEF AcquireTimeout, QueueWaits, Waits
<1>6. ASSUME NEW r \in Request, Begin(r) PROVE StampsAreRight'
  <2>1. held[r] \in Conn /\ \A q \in Request : q # r => held[q] # held[r]
    BY <1>6, HeldIsConn DEF Begin, ConnsApart
  <2>2. ctx[held[r]] = None
    BY <1>6, <2>1 DEF Begin, StampsAreRight
  <2>3. ctx' = [ctx EXCEPT ![held[r]] = Actor(r)]
    BY <1>6, <2>1, <2>2 DEF Begin, Stamp, Actor
  <2>4. UNCHANGED held /\ pc' = [pc EXCEPT ![r] = "body"]
    BY <1>6 DEF Begin
  <2>5. QED
    BY <2>1, <2>3, <2>4 DEF StampsAreRight, Actor, Tidy
<1>7. ASSUME NEW r \in Request, pc[r] = "body", Unstamp(r), pc'[r] # "body",
             \A q \in Request \ {r} : pc'[q] = pc[q] /\ held'[q] = held[q]
      PROVE  StampsAreRight'
  <2>1. held[r] \in Conn /\ \A q \in Request : q # r => held[q] # held[r]
    BY <1>7, HeldIsConn DEF Tidy, ConnsApart
  <2>2. ctx' = [ctx EXCEPT ![held[r]] = None] /\ \A c \in Conn : ctx'[c] = IF c = held[r] THEN None ELSE ctx[c]
    BY <1>7, <2>1 DEF Unstamp
  <2>3. \A q \in Request : /\ pc'[q] = "body" <=> pc[q] = "body" /\ q # r
                           /\ pc'[q] = "body" => held'[q] = held[q] /\ held[q] \in Conn
    BY <1>7, HeldIsConn DEF Tidy
  <2>4. \A q \in Request : pc'[q] = "body" => ctx'[held'[q]] = Actor(q)
    BY <2>1, <2>2, <2>3 DEF StampsAreRight
  <2>5. \A c \in Conn : ctx'[c] # None => \E q \in Request : pc'[q] = "body" /\ held'[q] = c
    <3> TAKE c \in Conn
    <3> HAVE ctx'[c] # None
    <3>1. PICK q \in Request : pc[q] = "body" /\ held[q] = c
      BY <2>2 DEF StampsAreRight
    <3>2. q # r
      BY <2>2, <3>1
    <3>3. QED
      BY <2>3, <3>1, <3>2
  <2>6. QED
    BY <2>4, <2>5 DEF StampsAreRight, Actor
<1>8. ASSUME NEW r \in Request, Throw(r) \/ Commit(r) \/ ConnectionLost(r) PROVE StampsAreRight'
  <2>1. CASE UNCHANGED <<pc, held, ctx>>
    BY <2>1 DEF StampsAreRight, Actor
  <2>2. CASE /\ pc[r] = "body" /\ Unstamp(r) /\ pc'[r] # "body"
             /\ \A q \in Request \ {r} : pc'[q] = pc[q] /\ held'[q] = held[q]
    BY <1>7, <2>2
  <2>3. QED
    BY <1>8, <2>1, <2>2 DEF Throw, Commit, ConnectionLost, Returned, Broken
<1>9. ASSUME NEW r \in Request, RunHook(r) \/ HooksDone(r) \/ Query(r) PROVE StampsAreRight'
  BY <1>1, <1>9 DEF RunHook, HookFails, HooksDone, Query, Acquire, Returned
<1>10. CASE UNCHANGED <<pc, held, ctx>>
  BY <1>10 DEF StampsAreRight, Actor
<1>11. QED
  BY <1>2, <1>3, <1>4, <1>5, <1>6, <1>8, <1>9, <1>10 DEF Next, vars, Proceeds, Change, Nest, NestReturns

\* What the trigger writes, in a transaction and out of one.
LEMMA EntryIsTrue ==
  ASSUME PoolInv, StampsAreRight, NEW r \in Request, NEW w
  PROVE  /\ Entry(r, w).write = w /\ Entry(r, w).of = r
         /\ pc[r] = "body" => Entry(r, w).actor = Actor(r)
         /\ pc[r] = "query" /\ held[r] # None => Entry(r, w).actor = None
<1>1. pc[r] = "query" /\ held[r] # None => ctx[held[r]] = None
  BY HeldIsConn DEF PoolInv, ConnsApart, StampsAreRight
<1>2. QED
  BY <1>1 DEF Entry, StampsAreRight

\* The entries a request carries are of its own changes.
LEMMA InHandStep ==
  ASSUME PoolInv, StampsAreRight, EntriesInHand, [Next]_vars
  PROVE  EntriesInHand'
<1> USE DEF EntriesInHand, Places
<1>1. ASSUME NEW r \in Request, \A q \in Request \ {r} : scopes'[q] = scopes[q],
             \A i \in Places(r)' : \A e \in scopes'[r][i].entries : e.of = r /\ e.actor = Actor(r)
      PROVE  EntriesInHand'
  BY <1>1 DEF Actor
<1>2. ASSUME NEW r \in Request, Reset(scopes'[r]), \A q \in Request \ {r} : scopes'[q] = scopes[q]
      PROVE  EntriesInHand'
  <2>1. \A i \in Places(r)' : scopes'[r][i].entries = {}
    BY <1>2 DEF Reset, Scope
  <2>2. QED
    BY <1>1, <1>2, <2>1
<1>3. ASSUME NEW r \in Request, pc[r] = "body", Reshaped(r) PROVE EntriesInHand'
  <2>1. CASE Deepened(scopes[r], scopes'[r])
    <3>1. Scope.entries = {}
      BY DEF Scope
    <3>2. \A i \in Places(r)' : i \in Places(r) \/ i = Len(scopes[r]) + 1
      BY <2>1, PlacesAre DEF Deepened, PoolInv, Depth
    <3>3. \A i \in Places(r)' : scopes'[r][i].entries = {} \/ (i \in Places(r) /\ scopes'[r][i] = scopes[r][i])
      BY <2>1, <3>1, <3>2 DEF Deepened
    <3>4. QED
      BY <1>1, <1>3, <3>3 DEF Reshaped
  <2>2. ASSUME NEW w \in Write, NEW d \in Nat, Extended(scopes[r], scopes'[r], d, w, Entry(r, w)) PROVE EntriesInHand'
    <3>1. Entry(r, w).of = r /\ Entry(r, w).actor = Actor(r)
      BY <1>3, EntryIsTrue
    <3>2. scopes'[r][d].entries = scopes[r][d].entries \cup {Entry(r, w)}
      BY <2>2 DEF Extended
    <3>3. \A i \in Places(r)' : i \in Places(r) /\ (i = d \/ scopes'[r][i] = scopes[r][i])
      BY <2>2 DEF Extended
    <3>4. QED
      BY <1>1, <1>3, <3>1, <3>2, <3>3 DEF Reshaped
  <2>3. ASSUME NEW n \in Nat, Merged(scopes[r], scopes'[r], n) PROVE EntriesInHand'
    <3>1. scopes'[r][n].entries = scopes[r][n].entries \cup scopes[r][n + 1].entries /\ n \in Places(r) /\ n + 1 \in Places(r)
      BY <2>3 DEF Merged
    <3>2. \A i \in Places(r)' : i = n \/ (i \in Places(r) /\ scopes'[r][i] = scopes[r][i])
      <4>1. /\ DOMAIN scopes[r] = 1..n + 1 /\ DOMAIN scopes'[r] = 1..n
            /\ \A i \in 1..n - 1 : scopes'[r][i] = scopes[r][i]
        BY <2>3 DEF Merged
      <4>2. \A i \in 1..n : i \in 1..n + 1 /\ (i = n \/ i \in 1..n - 1)
        OBVIOUS
      <4>3. QED
        BY <4>1, <4>2
    <3>3. QED
      BY <1>1, <1>3, <3>1, <3>2 DEF Reshaped
  <2>4. CASE Dropped(scopes[r], scopes'[r])
    BY <1>1, <1>3, <2>4 DEF Dropped, Reshaped
  <2>5. QED
    BY <1>3, <2>1, <2>2, <2>3, <2>4 DEF Reshaped
<1>4. CASE Crash
  BY <1>4 DEF Crash
<1>5. CASE UNCHANGED scopes
  BY <1>5 DEF Actor
<1>6. QED
  BY <1>2, <1>3, <1>4, <1>5, ScopesFrom DEF PoolInv

\* The two ways a change is committed: with its transaction, or on its own.
Persisted(r) ==
  /\ pc[r] = "body" /\ Depth(r) = 1 /\ Persist(r) /\ scopes'[r] = <<>> /\ pc'[r] # "body"
  /\ UNCHANGED <<order, ran>> /\ \A q \in Request \ {r} : scopes'[q] = scopes[q] /\ hooks'[q] = hooks[q]
  /\ hooks'[r] \in {<<>>, Top(r).onCommit}
Queried(r, w) ==
  /\ pc[r] = "query" /\ held[r] # None /\ w \in Write \ Written
  /\ rows' = rows \cup {w} /\ entries' = entries \cup {Entry(r, w)} /\ unhooked' = unhooked \cup {w}
  /\ UNCHANGED <<scopes, order, ran, hooks>>

\* Rows come with a commit, or with a statement outside a transaction.
LEMMA RowsFrom ==
  ASSUME TypeInv, Tidy, [Next]_vars
  PROVE  /\ unhooked \subseteq unhooked'
         /\ \/ UNCHANGED <<rows, entries>>
            \/ \E r \in Request : Persisted(r) \/ \E w \in Write : Queried(r, w)
<1> USE DEF TypeInv, pool, db, past, Goes
<1>1. ASSUME NEW r \in Request, Commit(r)
      PROVE  unhooked \subseteq unhooked' /\ Persisted(r)
  BY <1>1 DEF Commit, Persisted, Leaves
<1>2. ASSUME NEW r \in Request, ConnectionLost(r)
      PROVE  unhooked \subseteq unhooked' /\ (UNCHANGED <<rows, entries>> \/ Persisted(r))
  BY <1>2 DEF ConnectionLost, Persisted, Leaves, Tidy
<1>3. ASSUME NEW r \in Request, Query(r)
      PROVE  unhooked \subseteq unhooked' /\ (UNCHANGED <<rows, entries>> \/ \E w \in Write : Queried(r, w))
  BY <1>3 DEF Query, Queried
<1>4. QED
  BY <1>1, <1>2, <1>3 DEF Next, vars, Crash, Pulse, Ask, AcquireTimeout, Begin, Change, Nest, NestReturns, Throw, RunHook,
     HooksDone, Proceeds

\* A transaction without a savepoint is one scope.
LEMMA TopIs ==
  ASSUME TypeInv, NEW r \in Request, Depth(r) = 1
  PROVE  Places(r) = {1} /\ Top(r) = scopes[r][1]
BY PlacesAre DEF Top, Depth, Last

\* The entries of the trail are true.
LEMMA TrueStep ==
  ASSUME PoolInv, StampsAreRight, EntriesInHand, EntriesAreTrue, [Next]_vars
  PROVE  EntriesAreTrue'
<1>0. TypeInv /\ Tidy /\ unhooked \subseteq unhooked'
  BY RowsFrom DEF PoolInv
<1>1. CASE UNCHANGED <<rows, entries>>
  BY <1>0, <1>1 DEF EntriesAreTrue, Actor
<1>2. ASSUME NEW r \in Request, Persisted(r) PROVE EntriesAreTrue'
  <2>1. \A e \in Top(r).entries : e.of = r /\ e.actor = Actor(r)
    BY <1>0, <1>2, TopIs DEF Persisted, EntriesInHand
  <2>2. rows' = rows \cup {e.write : e \in Top(r).entries} /\ entries' = entries \cup Top(r).entries
    BY <1>2 DEF Persisted, Persist
  <2>3. QED
    BY <1>0, <2>1, <2>2 DEF EntriesAreTrue, Actor
<1>3. ASSUME NEW r \in Request, NEW w \in Write, Queried(r, w) PROVE EntriesAreTrue'
  <2>1. Entry(r, w).write = w /\ Entry(r, w).actor = None
    BY <1>3, EntryIsTrue DEF Queried
  <2>2. rows' = rows \cup {w} /\ entries' = entries \cup {Entry(r, w)} /\ w \in unhooked'
    BY <1>3 DEF Queried
  <2>3. QED
    BY <1>0, <2>1, <2>2 DEF EntriesAreTrue, Actor
<1>4. QED
  BY <1>0, <1>1, <1>2, <1>3, RowsFrom

TrailInv == PoolInv /\ StampsAreRight /\ EntriesInHand /\ EntriesAreTrue

\* What is known of the trail holds.
LEMMA TrailHolds == Spec => []TrailInv
<1>1. Init => TrailInv
  <2> SUFFICES ASSUME Init PROVE TrailInv
    OBVIOUS
  <2>1. StampsAreRight /\ EntriesInHand /\ EntriesAreTrue
    BY DEF Init, StampsAreRight, EntriesInHand, EntriesAreTrue, Places
  <2>2. QED
    BY <2>1, PoolInit DEF TrailInv
<1>2. TrailInv /\ [Next]_vars => TrailInv'
  BY PoolStep, StampsStep, InHandStep, TrueStep DEF TrailInv
<1>3. QED
  BY <1>1, <1>2, PTL DEF Spec

\* Whoever had the connection before, whichever transaction was rolled back on it and
\* whenever the process died: an entry of the trail names the maker of its change or
\* nobody, and its maker when the change was made in a transaction with a context.
THEOREM TrailIsTrue == Spec => []AuditNamesTheMaker
<1>1. TrailInv => AuditNamesTheMaker
  BY DEF TrailInv, EntriesAreTrue, Actor, AuditNamesTheMaker
<1>2. QED
  BY <1>1, TrailHolds, PTL
-----------------------------------------------------------------------------
(* Callbacks, in the order they are to be called *)

\* The places of the callbacks in the scopes of a request, and which come first.
Calls(S) == {p \in (DOMAIN S) \X Nat : p[2] \in DOMAIN S[p[1]].onCommit}
At(S, p) == S[p[1]].onCommit[p[2]]
Before(p, q) == p[1] < q[1] \/ (p[1] = q[1] /\ p[2] < q[2])
InHand(S) == UNION {S[i].entries : i \in DOMAIN S}

\* Every callback of T is one of S with its entry, and none has overtaken another.
Kept(S, T) ==
  /\ InHand(T) \subseteq InHand(S)
  /\ \E f \in [Calls(T) -> Calls(S)] :
       /\ \A p \in Calls(T) : At(T, p) = At(S, f[p]) /\ S[f[p][1]].entries \subseteq T[p[1]].entries
       /\ \A p, q \in Calls(T) : Before(p, q) => Before(f[p], f[q])

\* The callbacks that remain keep their order when a scope is dropped.
LEMMA DroppedKeeps ==
  ASSUME NEW S, NEW T, Dropped(S, T)
  PROVE  Kept(S, T)
<1> DEFINE f == [p \in Calls(T) |-> p]
<1>1. InHand(T) \subseteq InHand(S)
  BY DEF Dropped, InHand
<1>2. \A p \in Calls(T) : p \in Calls(S) /\ At(T, p) = At(S, p) /\ S[p[1]] = T[p[1]]
  BY DEF Dropped, Calls, At
<1>3. f \in [Calls(T) -> Calls(S)]
  BY <1>2
<1>4. QED
  BY <1>1, <1>2, <1>3 DEF Kept

\* They do when all scopes are.
LEMMA ResetKeeps ==
  ASSUME NEW S, NEW T, Reset(T)
  PROVE  Kept(S, T)
<1>1. Calls(T) = {} /\ InHand(T) = {}
  BY DEF Reset, Calls, InHand, Scope
<1>2. [p \in Calls(T) |-> p] \in [Calls(T) -> Calls(S)]
  BY <1>1
<1>3. QED
  BY <1>1, <1>2 DEF Kept

\* They do when a scope is added, which is empty.
LEMMA DeepenedKeeps ==
  ASSUME NEW S, Len(S) \in Nat, DOMAIN S = 1..Len(S), NEW T, Deepened(S, T)
  PROVE  Kept(S, T)
<1> DEFINE f == [p \in Calls(T) |-> p]
           n == Len(S) + 1
<1>1. DOMAIN T = DOMAIN S \cup {n} /\ n \notin DOMAIN S /\ T[n].entries = {} /\ DOMAIN T[n].onCommit = {}
      /\ \A i \in DOMAIN S : T[i] = S[i]
  BY DEF Deepened, Scope
<1> HIDE DEF n
<1>2. InHand(T) \subseteq InHand(S)
  BY <1>1 DEF InHand
<1>3. \A p \in Calls(T) : p \in Calls(S) /\ At(T, p) = At(S, p) /\ S[p[1]] = T[p[1]]
  BY <1>1 DEF Calls, At
<1>4. f \in [Calls(T) -> Calls(S)]
  BY <1>3
<1>5. QED
  BY <1>2, <1>3, <1>4 DEF Kept

\* Those of the savepoint that returns come after those of the scope it joins.
LEMMA MergedKeeps ==
  ASSUME NEW S, NEW T, NEW n \in Nat, Merged(S, T, n),
         NEW A, S[n].onCommit \in Seq(A), S[n + 1].onCommit \in Seq(A)
  PROVE  Kept(S, T)
<1> DEFINE a == S[n].onCommit
           b == S[n + 1].onCommit
           m == Len(a)
           k == Len(b)
           c == a \o b
           g(p) == IF p[1] = n /\ p[2] > m THEN <<n + 1, p[2] - m>> ELSE p
           f == [p \in Calls(T) |-> g(p)]
<1>1. m \in Nat /\ k \in Nat /\ DOMAIN a = 1..m /\ DOMAIN b = 1..k
  BY LenProperties
<1>2. c \in Seq(A) /\ DOMAIN c = 1..m + k /\ \A i \in 1..m + k : c[i] = IF i <= m THEN a[i] ELSE b[i - m]
  <2>1. /\ c \in Seq(A) /\ Len(c) = m + k
        /\ \A i \in 1..m + k : c[i] = IF i <= m THEN a[i] ELSE b[i - m]
    BY ConcatProperties
  <2>2. QED
    BY <2>1, LenProperties
<1> HIDE DEF c
<1>3. /\ DOMAIN S = 1..n + 1 /\ DOMAIN T = 1..n /\ n \in Nat \ {0} /\ T[n].onCommit = c
      /\ T[n].entries = S[n].entries \cup S[n + 1].entries
      /\ \A i \in 1..n - 1 : T[i] = S[i]
  <2>1. T[n] = [onCommit |-> c, entries |-> S[n].entries \cup S[n + 1].entries]
    BY DEF Merged, c
  <2>2. /\ DOMAIN S = 1..n + 1 /\ DOMAIN T = 1..n /\ n \in Nat \ {0}
        /\ \A i \in 1..n - 1 : T[i] = S[i]
    BY DEF Merged
  <2>3. T[n].onCommit = c /\ T[n].entries = S[n].entries \cup S[n + 1].entries
    BY <2>1
  <2>4. QED
    BY <2>2, <2>3
<1>4. ASSUME NEW e \in InHand(T) PROVE e \in InHand(S)
  <2>1. PICK i \in 1..n : e \in T[i].entries
    BY <1>3 DEF InHand
  <2>2. CASE i = n
    <3>1. n \in DOMAIN S /\ n + 1 \in DOMAIN S /\ e \in S[n].entries \cup S[n + 1].entries
      BY <1>3, <2>1, <2>2
    <3>2. QED
      BY <3>1 DEF InHand
  <2>3. CASE i # n
    <3>1. i \in DOMAIN S /\ e \in S[i].entries
      BY <1>3, <2>1, <2>3
    <3>2. QED
      BY <3>1 DEF InHand
  <2>4. QED
    BY <2>2, <2>3
<1> HIDE DEF m, k
<1>5. ASSUME NEW p \in Calls(T)
      PROVE  g(p) \in Calls(S) /\ At(T, p) = At(S, g(p)) /\ S[g(p)[1]].entries \subseteq T[p[1]].entries
  <2>1. p[1] \in 1..n /\ p[2] \in Nat /\ p[2] \in DOMAIN T[p[1]].onCommit /\ p = <<p[1], p[2]>>
    BY <1>3 DEF Calls
  <2>2. CASE p[1] # n
    <3>1. p[1] \in 1..n - 1 /\ g(p) = p
      BY <1>3, <2>1, <2>2
    <3>2. p[1] \in DOMAIN S /\ T[p[1]] = S[p[1]]
      BY <1>3, <3>1
    <3>3. QED
      BY <2>1, <3>1, <3>2 DEF Calls, At
  <2>3. CASE p[1] = n /\ p[2] <= m
    <3>0. p[2] \in 1..m + k
      BY <1>2, <1>3, <2>1, <2>3
    <3>1. g(p) = p /\ n \in DOMAIN S /\ p[2] \in 1..m
      BY <1>1, <1>3, <2>3, <3>0
    <3>2. c[p[2]] = a[p[2]]
      BY <1>2, <2>3, <3>0
    <3>3. p \in Calls(S)
      BY <1>1, <2>1, <2>3, <3>1 DEF Calls
    <3>4. QED
      BY <1>3, <2>3, <3>1, <3>2, <3>3 DEF At
  <2>4. CASE p[1] = n /\ p[2] > m
    <3>0. p[2] \in 1..m + k /\ n + 1 \in DOMAIN S
      <4>1. p[2] \in DOMAIN c
        BY <1>3, <2>1, <2>4
      <4>2. n + 1 \in DOMAIN S
        BY <1>3
      <4>3. QED
        BY <1>2, <4>1, <4>2
    <3>1. g(p) = <<n + 1, p[2] - m>> /\ n + 1 \in DOMAIN S /\ p[2] - m \in 1..k /\ p[2] \in 1..m + k /\ ~(p[2] <= m)
      <4>1. g(p) = <<n + 1, p[2] - m>>
        BY <2>4
      <4> HIDE DEF g
      <4>2. p[2] - m \in 1..k /\ ~(p[2] <= m)
        BY <1>1, <2>4, <3>0
      <4>3. QED
        BY <3>0, <4>1, <4>2
    <3>2. c[p[2]] = b[p[2] - m]
      BY <1>2, <3>1
    <3>3. g(p)[1] = n + 1 /\ g(p)[2] = p[2] - m
      BY <3>1
    <3>4. g(p) \in Calls(S)
      BY <1>1, <3>1, <3>3 DEF Calls
    <3> HIDE DEF g
    <3>5. QED
      BY <1>3, <2>4, <3>2, <3>3, <3>4 DEF At
  <2>5. QED
    BY <1>1, <2>1, <2>2, <2>3, <2>4
<1>6. ASSUME NEW p \in Calls(T), NEW q \in Calls(T), Before(p, q)
      PROVE  Before(g(p), g(q))
  <2>1. p[1] \in 1..n /\ q[1] \in 1..n /\ p[2] \in Nat /\ q[2] \in Nat
    BY <1>3 DEF Calls
  <2>2. /\ g(p)[1] = (IF p[1] = n /\ p[2] > m THEN n + 1 ELSE p[1])
        /\ g(p)[2] = (IF p[1] = n /\ p[2] > m THEN p[2] - m ELSE p[2])
        /\ g(q)[1] = (IF q[1] = n /\ q[2] > m THEN n + 1 ELSE q[1])
        /\ g(q)[2] = (IF q[1] = n /\ q[2] > m THEN q[2] - m ELSE q[2])
    OBVIOUS
  <2> HIDE DEF g
  <2>3. QED
    BY <1>1, <1>3, <1>6, <2>1, <2>2 DEF Before
<1> HIDE DEF g
<1>7. f \in [Calls(T) -> Calls(S)]
  BY <1>5
<1>8. QED
  BY <1>4, <1>5, <1>6, <1>7 DEF Kept

\* One callback of T is new, with its entry, and it comes last.
Added(S, T, w, e) ==
  /\ InHand(T) = InHand(S) \cup {e}
  /\ \E last \in Calls(T) :
       /\ At(T, last) = w /\ e \in T[last[1]].entries /\ ~Before(last, last)
       /\ \A p \in Calls(T) \ {last} :
            /\ p \in Calls(S) /\ At(T, p) = At(S, p) /\ S[p[1]].entries \subseteq T[p[1]].entries
            /\ ~Before(last, p)

\* A change has its entry in the scope on top, and its callback behind the others.
LEMMA ExtendedAdds ==
  ASSUME NEW S, NEW T, NEW d \in Nat, NEW w \in Write, NEW e, Extended(S, T, d, w, e), S[d].onCommit \in Seq(Write)
  PROVE  Added(S, T, w, e)
<1> DEFINE a == S[d].onCommit
           m == Len(a)
           last == <<d, m + 1>>
           c == Append(a, w)
<1>1. m \in Nat /\ DOMAIN a = 1..m
  BY LenProperties
<1>2. DOMAIN c = 1..m + 1 /\ \A i \in 1..m + 1 : c[i] = IF i <= m THEN a[i] ELSE w
  <2>1. c \in Seq(Write) /\ Len(c) = m + 1 /\ \A i \in DOMAIN c : c[i] = IF i <= m THEN a[i] ELSE w
    BY AppendFacts
  <2>2. QED
    BY <2>1, LenProperties
<1>3. /\ DOMAIN S = 1..d /\ DOMAIN T = 1..d /\ d \in Nat \ {0} /\ T[d].onCommit = c
      /\ T[d].entries = S[d].entries \cup {e}
      /\ \A i \in 1..d - 1 : T[i] = S[i]
  BY DEF Extended
<1> HIDE DEF c
<1>4. InHand(T) = InHand(S) \cup {e}
  <2>1. \A i \in 1..d : T[i].entries = IF i = d THEN S[i].entries \cup {e} ELSE S[i].entries
    <3>1. \A i \in 1..d : i = d \/ i \in 1..d - 1
      BY <1>3
    <3>2. QED
      BY <1>3, <3>1
  <2>2. d \in 1..d
    BY <1>3
  <2>3. QED
    BY <1>3, <2>1, <2>2 DEF InHand
<1>5. last \in Calls(T) /\ At(T, last) = w /\ e \in T[last[1]].entries /\ ~Before(last, last)
  <2>1. m + 1 \in DOMAIN T[d].onCommit /\ d \in DOMAIN T /\ c[m + 1] = w /\ m + 1 \in Nat
    BY <1>1, <1>2, <1>3
  <2>2. QED
    BY <1>1, <1>3, <2>1 DEF Calls, At, Before
<1>6. ASSUME NEW p \in Calls(T), p # last
      PROVE  p \in Calls(S) /\ At(T, p) = At(S, p) /\ S[p[1]].entries \subseteq T[p[1]].entries /\ ~Before(last, p)
  <2>1. p[1] \in 1..d /\ p[2] \in Nat /\ p[2] \in DOMAIN T[p[1]].onCommit /\ p = <<p[1], p[2]>> /\ p \in (1..d) \X Nat
    BY <1>3 DEF Calls
  <2>2. CASE p[1] # d
    <3>1. p[1] \in 1..d - 1 /\ p[1] \in DOMAIN S /\ T[p[1]] = S[p[1]] /\ p[1] < d
      BY <1>3, <2>1, <2>2
    <3>2. ~Before(last, p)
      BY <1>3, <3>1 DEF Before
    <3>3. QED
      BY <1>3, <2>1, <3>1, <3>2 DEF Calls, At
  <2>3. CASE p[1] = d
    <3>1. p[2] \in 1..m + 1 /\ p[2] # m + 1
      BY <1>2, <1>3, <1>6, <2>1, <2>3
    <3>2. p[2] \in 1..m /\ ~(m + 1 < p[2])
      BY <1>1, <3>1
    <3>3. c[p[2]] = a[p[2]]
      BY <1>1, <1>2, <3>2
    <3>4. p \in Calls(S)
      BY <1>1, <1>3, <2>1, <2>3, <3>2 DEF Calls
    <3>5. ~Before(last, p)
      BY <1>3, <2>3, <3>2 DEF Before
    <3>6. QED
      BY <1>3, <2>3, <3>3, <3>4, <3>5 DEF At
  <2>4. QED
    BY <2>2, <2>3
<1> HIDE DEF last
<1>7. QED
  BY <1>4, <1>5, <1>6 DEF Added


\* The scopes after a step: no callback is new, or one is, behind the others of its
\* request and of a change nobody had made and kept.
LEMMA KeptFrom ==
  ASSUME TypeInv, Tidy, [Next]_vars
  PROVE  \/ UNCHANGED order /\ \A r \in Request : Kept(scopes[r], scopes'[r])
         \/ \E r \in Request, w \in Write \ Written :
              /\ Added(scopes[r], scopes'[r], w, Entry(r, w)) /\ order' = MadeLast(w)
              /\ \A q \in Request \ {r} : scopes'[q] = scopes[q]
              /\ UNCHANGED <<rows, entries, hooks, ran>>
<1>1. \A S : Kept(S, S)
  BY DroppedKeeps DEF Dropped
<1>2. \A r \in Request : \A i \in Places(r) : scopes[r][i].onCommit \in Seq(Write)
  BY PlacesAre, ScopeOps
<1>3. ASSUME NEW r \in Request, pc[r] = "body", Reshaped(r)
      PROVE  \/ UNCHANGED order /\ Kept(scopes[r], scopes'[r])
             \/ \E w \in Write \ Written :
                  /\ Added(scopes[r], scopes'[r], w, Entry(r, w)) /\ order' = MadeLast(w)
  <2>1. CASE Deepened(scopes[r], scopes'[r]) /\ UNCHANGED order
    BY <2>1, DeepenedKeeps, PlacesAre DEF Places, Depth
  <2>2. ASSUME NEW w \in Write \ Written, NEW d \in Nat,
               Extended(scopes[r], scopes'[r], d, w, Entry(r, w))
        PROVE  Added(scopes[r], scopes'[r], w, Entry(r, w))
    <3>1. scopes[r][d].onCommit \in Seq(Write)
      BY <1>2, <2>2 DEF Extended, Places
    <3>2. QED
      BY <2>2, <3>1, ExtendedAdds
  <2>3. ASSUME NEW n \in Nat, Merged(scopes[r], scopes'[r], n) PROVE Kept(scopes[r], scopes'[r])
    <3>1. n \in Places(r) /\ n + 1 \in Places(r)
      BY <2>3 DEF Merged, Places
    <3>2. QED
      BY <1>2, <2>3, <3>1, MergedKeeps
  <2>4. CASE Dropped(scopes[r], scopes'[r]) /\ UNCHANGED order
    BY <2>4, DroppedKeeps
  <2>5. QED
    BY <1>3, <2>1, <2>2, <2>3, <2>4 DEF Reshaped
<1>4. CASE UNCHANGED <<scopes, order>>
  BY <1>1, <1>4
<1>5. CASE UNCHANGED order /\ \E r \in Request : Reset(scopes'[r]) /\ \A q \in Request \ {r} : scopes'[q] = scopes[q]
  BY <1>1, <1>5, ResetKeeps
<1>6. CASE Crash
  BY <1>6, ResetKeeps DEF Crash, Reset
<1>7. ASSUME NEW r \in Request, pc[r] = "body", Reshaped(r)
      PROVE  \/ UNCHANGED order /\ \A q \in Request : Kept(scopes[q], scopes'[q])
             \/ \E w \in Write \ Written :
                  /\ Added(scopes[r], scopes'[r], w, Entry(r, w)) /\ order' = MadeLast(w)
                  /\ \A q \in Request \ {r} : scopes'[q] = scopes[q]
                  /\ UNCHANGED <<rows, entries, hooks, ran>>
  <2>1. /\ \A q \in Request \ {r} : scopes'[q] = scopes[q] /\ Kept(scopes[q], scopes'[q])
        /\ UNCHANGED <<rows, entries, hooks, ran>>
    BY <1>1, <1>7 DEF Reshaped
  <2>2. CASE UNCHANGED order /\ Kept(scopes[r], scopes'[r])
    BY <2>1, <2>2
  <2>3. QED
    BY <1>3, <1>7, <2>1, <2>2
<1>8. QED
  BY <1>4, <1>5, <1>6, <1>7, ScopesFrom

\* What a step does to the changes committed and to the callbacks to call.
Called(r) ==
  /\ pc[r] \in {"hooks", "hook"} /\ hooks[r] # <<>>
  /\ hooks' = [hooks EXCEPT ![r] = Tail(@)] /\ ran' = Append(ran, Head(hooks[r]))
  /\ UNCHANGED <<scopes, order, rows, entries>>

\* How callbacks come to be called, whatever the step.
LEMMA HooksFrom ==
  ASSUME TypeInv, Tidy, [Next]_vars
  PROVE  \/ \E r \in Request : Called(r) \/ Persisted(r) \/ \E w \in Write : Queried(r, w)
         \/ UNCHANGED <<rows, entries, ran>> /\ \A r \in Request : hooks'[r] \in {hooks[r], <<>>}
<1> USE DEF TypeInv, pool, db, past, Goes
<1>1. ASSUME NEW r \in Request, Commit(r)
      PROVE  Persisted(r)
  BY <1>1 DEF Commit, Persisted, Leaves
<1>2. ASSUME NEW r \in Request, ConnectionLost(r)
      PROVE  UNCHANGED <<rows, entries, ran, hooks>> \/ Persisted(r)
  BY <1>2 DEF ConnectionLost, Persisted, Leaves, Tidy
<1>3. ASSUME NEW r \in Request, Query(r)
      PROVE  UNCHANGED <<rows, entries, ran, hooks>> \/ Called(r) \/ \E w \in Write : Queried(r, w)
  BY <1>3 DEF Query, Queried, Called, Tidy
<1>4. ASSUME NEW r \in Request, AcquireTimeout(r)
      PROVE  UNCHANGED <<rows, entries, ran, hooks>> \/ Called(r)
  BY <1>4 DEF AcquireTimeout, Called, Tidy
<1>5. ASSUME NEW r \in Request, RunHook(r)
      PROVE  UNCHANGED <<rows, entries, ran, hooks>> \/ Called(r)
  BY <1>5 DEF RunHook, HookFails, Called
<1>6. CASE Crash
  BY <1>6 DEF Crash
<1>7. QED
  BY <1>1, <1>2, <1>3, <1>4, <1>5, <1>6 DEF Next, vars, Pulse, Ask, Begin, Change, Nest, NestReturns, Throw,
     HooksDone, Proceeds


\* Precedes, after a step.
PrecedesNext(v, w) == v # w /\ <<v, w>> \in order'

\* A change made last comes behind all others, whose order stays.
LEMMA MadeLastIs ==
  ASSUME NEW w, order' = MadeLast(w)
  PROVE  /\ Made \subseteq Made' /\ w \in Made'
         /\ \A v \in Made \ {w} : PrecedesNext(v, w)
         /\ \A u, v : w \notin {u, v} /\ Precedes(u, v) => PrecedesNext(u, v)
<1>1. order' = {p \in order : w \notin {p[1], p[2]}} \cup ((Made \cup {w}) \X {w})
  BY DEF MadeLast
<1>2. \A v \in Made \cup {w} : <<v, w>> \in order' /\ v \in Made'
  BY <1>1 DEF Made
<1>3. \A u, v : w \notin {u, v} /\ <<u, v>> \in order => <<u, v>> \in order'
  BY <1>1
<1>4. QED
  BY <1>2, <1>3 DEF Precedes, PrecedesNext

\* Changes that were made stay made.
LEMMA MadeGrows ==
  ASSUME TypeInv, Tidy, [Next]_vars
  PROVE  Made \subseteq Made'
BY KeptFrom, MadeLastIs DEF Made

\* A change has one entry, with the transaction that made it or committed, not both.
WrittenOnce ==
  /\ rows = {e.write : e \in entries}
  /\ \A d, e \in entries : d.write = e.write => d = e
  /\ \A r \in Request : \A e \in InHand(scopes[r]) : e.write \notin rows
  /\ \A r, q \in Request : \A d \in InHand(scopes[r]), e \in InHand(scopes[q]) : d.write = e.write => d = e

\* A callback is of a change made, whose entry is where the callback is.
CallsKnown ==
  /\ \A r \in Request : \A p \in Calls(scopes[r]) :
       At(scopes[r], p) \in Made /\ \E e \in scopes[r][p[1]].entries : e.write = At(scopes[r], p)
  /\ \A r \in Request : \A k \in DOMAIN hooks[r] :
       hooks[r][k] \in Made /\ \E e \in entries : e.of = r /\ e.write = hooks[r][k]
  /\ \A i \in DOMAIN ran : ran[i] \in Made /\ \E e \in entries : e.write = ran[i]

\* Callbacks are to be called in the order of their changes, those called before
\* those that wait, and those that wait before those still in a transaction.
CallsOrdered ==
  /\ \A r \in Request : \A p, q \in Calls(scopes[r]) :
       Before(p, q) => Precedes(At(scopes[r], p), At(scopes[r], q))
  /\ \A r \in Request : \A k, l \in DOMAIN hooks[r] : k < l => Precedes(hooks[r][k], hooks[r][l])
  /\ \A i \in DOMAIN ran : \A e \in entries : e.write = ran[i] =>
       /\ \A p \in Calls(scopes[e.of]) : Precedes(ran[i], At(scopes[e.of], p))
       /\ \A k \in DOMAIN hooks[e.of] : Precedes(ran[i], hooks[e.of][k])
  /\ \A d, e \in entries : \A i, j \in DOMAIN ran :
       d.of = e.of /\ d.write = ran[i] /\ e.write = ran[j] /\ i < j => Precedes(ran[i], ran[j])

\* Rows and entries in hand are of changes that were written.
LEMMA WrittenIs ==
  /\ rows \subseteq Written
  /\ \A r \in Request : \A e \in InHand(scopes[r]) : e.write \in Written
BY DEF Written, Changed, InHand, ToSet

\* An entry in hand is of the request that has it.
LEMMA InHandOf ==
  ASSUME EntriesInHand, NEW r \in Request
  PROVE  \A e \in InHand(scopes[r]) : e.of = r
BY DEF EntriesInHand, InHand, Places


\* A commit takes the entries of the request to the trail, and leaves it without scopes.
LEMMA PersistedIs ==
  ASSUME TypeInv, NEW r \in Request, Persisted(r)
  PROVE  /\ rows' = rows \cup {e.write : e \in InHand(scopes[r])}
         /\ entries' = entries \cup InHand(scopes[r])
         /\ \A q \in Request : scopes'[q] = IF q = r THEN <<>> ELSE scopes[q]
         /\ Calls(<<>>) = {} /\ InHand(<<>>) = {}
         /\ \A k \in DOMAIN hooks'[r] :
              <<1, k>> \in Calls(scopes[r]) /\ hooks'[r][k] = At(scopes[r], <<1, k>>)
<1>1. DOMAIN scopes[r] = {1} /\ Top(r) = scopes[r][1]
  BY TopIs DEF Persisted, Places
<1>2. InHand(scopes[r]) = Top(r).entries
  BY <1>1 DEF InHand
<1>3. Calls(<<>>) = {} /\ InHand(<<>>) = {}
  BY DEF Calls, InHand
<1>4. Top(r).onCommit \in Seq(Write)
  BY <1>1, PlacesAre, ScopeOps DEF Places
<1>5. ASSUME NEW k \in DOMAIN hooks'[r]
      PROVE  <<1, k>> \in Calls(scopes[r]) /\ hooks'[r][k] = At(scopes[r], <<1, k>>)
  <2>1. hooks'[r] = scopes[r][1].onCommit
    BY <1>1, <1>5 DEF Persisted
  <2>2. k \in Nat
    BY <1>1, <1>4, <2>1, <1>5, LenProperties
  <2>3. QED
    BY <1>1, <1>5, <2>1, <2>2 DEF Calls, At
<1>6. QED
  BY <1>2, <1>3, <1>5 DEF Persisted, Persist

\* A change has one entry.
LEMMA WrittenStep ==
  ASSUME PoolInv, StampsAreRight, EntriesInHand, WrittenOnce, [Next]_vars
  PROVE  WrittenOnce'
<1>0. TypeInv /\ Tidy
  BY DEF PoolInv
<1>1. ASSUME NEW r \in Request, Persisted(r) PROVE WrittenOnce'
  <2>1. /\ rows' = rows \cup {e.write : e \in InHand(scopes[r])} /\ entries' = entries \cup InHand(scopes[r])
        /\ \A q \in Request : \A e \in InHand(scopes'[q]) : q # r /\ e \in InHand(scopes[q])
    BY <1>0, <1>1, PersistedIs
  <2>2. \A d \in entries : d.write \in rows
    BY DEF WrittenOnce
  <2>3. rows' = {e.write : e \in entries'}
    BY <2>1 DEF WrittenOnce
  <2>4. \A d, e \in entries' : d.write = e.write => d = e
    BY <2>1, <2>2 DEF WrittenOnce
  <2>5. \A q \in Request : \A e \in InHand(scopes'[q]) : e.write \notin rows'
    BY <2>1, InHandOf DEF WrittenOnce
  <2>6. \A p, q \in Request : \A d \in InHand(scopes'[p]), e \in InHand(scopes'[q]) : d.write = e.write => d = e
    BY <2>1 DEF WrittenOnce
  <2> HIDE DEF WrittenOnce
  <2>7. QED
    BY <2>3, <2>4, <2>5, <2>6 DEF WrittenOnce
<1>2. ASSUME NEW r \in Request, NEW w \in Write, Queried(r, w) PROVE WrittenOnce'
  <2>1. w \notin Written /\ Entry(r, w).write = w
    BY <1>2 DEF Queried, Entry
  <2>2. rows' = rows \cup {w} /\ entries' = entries \cup {Entry(r, w)} /\ UNCHANGED scopes
    BY <1>2 DEF Queried
  <2>3. QED
    BY <2>1, <2>2, WrittenIs DEF WrittenOnce
<1>3. CASE UNCHANGED <<rows, entries>> /\ \A r \in Request : Kept(scopes[r], scopes'[r])
  BY <1>3 DEF Kept, WrittenOnce
<1>4. ASSUME NEW r \in Request, NEW w \in Write \ Written, Added(scopes[r], scopes'[r], w, Entry(r, w)),
             \A q \in Request \ {r} : scopes'[q] = scopes[q], UNCHANGED <<rows, entries>>
      PROVE  WrittenOnce'
  <2>1. InHand(scopes'[r]) = InHand(scopes[r]) \cup {Entry(r, w)}
    BY <1>4 DEF Added
  <2>2. Entry(r, w).write = w /\ w \notin Written
    BY DEF Entry
  <2>3. \A q \in Request : \A e \in InHand(scopes'[q]) :
          \/ e \in InHand(scopes[q])
          \/ e = Entry(r, w)
    BY <1>4, <2>1
  <2>4. QED
    BY <1>4, <2>2, <2>3, WrittenIs DEF WrittenOnce
<1>5. CASE UNCHANGED <<rows, entries>>
  BY <1>0, <1>3, <1>4, <1>5, KeptFrom
<1>6. ASSUME NEW r \in Request, Called(r) PROVE UNCHANGED <<rows, entries>>
  BY <1>6 DEF Called
<1>7. QED
  BY <1>0, <1>1, <1>2, <1>5, <1>6, HooksFrom

\* A callback that is called leaves the list of its request.
LEMMA CalledIs ==
  ASSUME TypeInv, Tidy, NEW r \in Request, Called(r)
  PROVE  /\ scopes[r] = <<>> /\ Calls(<<>>) = {} /\ 1 \in DOMAIN hooks[r]
         /\ \A k \in DOMAIN hooks'[r] : k \in Nat /\ k + 1 \in DOMAIN hooks[r] /\ hooks'[r][k] = hooks[r][k + 1]
         /\ \A q \in Request \ {r} : hooks'[q] = hooks[q]
         /\ DOMAIN ran = 1..Len(ran) /\ DOMAIN ran' = 1..Len(ran) + 1 /\ Len(ran) \in Nat
         /\ \A i \in DOMAIN ran : ran'[i] = ran[i]
         /\ ran'[Len(ran) + 1] = hooks[r][1]
<1>1. hooks[r] \in Seq(Write) /\ ran \in Seq(Write) /\ hooks[r] # <<>> /\ scopes[r] = <<>>
  BY DEF Called, Tidy, InTransaction, TypeInv
<1>2. /\ Tail(hooks[r]) \in Seq(Write) /\ Head(hooks[r]) = hooks[r][1] /\ Head(hooks[r]) \in Write
      /\ \A k \in DOMAIN Tail(hooks[r]) : k + 1 \in DOMAIN hooks[r] /\ Tail(hooks[r])[k] = hooks[r][k + 1]
      /\ DOMAIN Tail(hooks[r]) \subseteq Nat
  BY <1>1, TailFacts, LenProperties
<1>3. 1 \in DOMAIN hooks[r]
  BY <1>1, EmptySeq, LenProperties
<1>4. hooks'[r] = Tail(hooks[r]) /\ ran' = Append(ran, Head(hooks[r])) /\ \A q \in Request \ {r} : hooks'[q] = hooks[q]
  BY DEF Called, TypeInv
<1>5. /\ DOMAIN ran = 1..Len(ran) /\ Len(ran) \in Nat
      /\ DOMAIN Append(ran, Head(hooks[r])) = 1..Len(ran) + 1
      /\ \A i \in 1..Len(ran) + 1 : Append(ran, Head(hooks[r]))[i] = IF i <= Len(ran) THEN ran[i] ELSE Head(hooks[r])
  <2>1. /\ Append(ran, Head(hooks[r])) \in Seq(Write) /\ Len(Append(ran, Head(hooks[r]))) = Len(ran) + 1
        /\ \A i \in DOMAIN Append(ran, Head(hooks[r])) :
             Append(ran, Head(hooks[r]))[i] = IF i <= Len(ran) THEN ran[i] ELSE Head(hooks[r])
    BY <1>1, <1>2, AppendFacts
  <2>2. QED
    BY <1>1, <2>1, LenProperties
<1>6. Calls(<<>>) = {}
  BY DEF Calls
<1>7. QED
  BY <1>1, <1>2, <1>3, <1>4, <1>5, <1>6


\* What waits to be called, or was called, is of a change that was made and has its entry.
LEMMA KnownStep ==
  ASSUME PoolInv, EntriesInHand, CallsKnown, [Next]_vars
  PROVE  CallsKnown'
<1>0. TypeInv /\ Tidy /\ Made \subseteq Made' /\ entries \subseteq entries'
  <2>1. TypeInv /\ Tidy
    BY DEF PoolInv
  <2>2. entries \subseteq entries'
    BY <2>1, RowsFrom DEF Persisted, Persist, Queried
  <2>3. QED
    BY <2>1, <2>2, MadeGrows
<1>1. ASSUME NEW r \in Request, NEW p \in Calls(scopes'[r])
      PROVE  At(scopes'[r], p) \in Made' /\ \E e \in scopes'[r][p[1]].entries : e.write = At(scopes'[r], p)
  <2>1. CASE Kept(scopes[r], scopes'[r])
    <3>1. PICK f \in [Calls(scopes'[r]) -> Calls(scopes[r])] : \A q \in Calls(scopes'[r]) :
            At(scopes'[r], q) = At(scopes[r], f[q]) /\ scopes[r][f[q][1]].entries \subseteq scopes'[r][q[1]].entries
      BY <2>1 DEF Kept
    <3>2. f[p] \in Calls(scopes[r])
      OBVIOUS
    <3>3. At(scopes[r], f[p]) \in Made /\ \E e \in scopes[r][f[p][1]].entries : e.write = At(scopes[r], f[p])
      BY <3>2 DEF CallsKnown
    <3>4. QED
      BY <1>0, <3>1, <3>3
  <2>2. ASSUME NEW w \in Write, Added(scopes[r], scopes'[r], w, Entry(r, w)), order' = MadeLast(w)
        PROVE  At(scopes'[r], p) \in Made' /\ \E e \in scopes'[r][p[1]].entries : e.write = At(scopes'[r], p)
    <3>1. PICK last \in Calls(scopes'[r]) :
            /\ At(scopes'[r], last) = w /\ Entry(r, w) \in scopes'[r][last[1]].entries
            /\ \A q \in Calls(scopes'[r]) \ {last} :
                 /\ q \in Calls(scopes[r]) /\ At(scopes'[r], q) = At(scopes[r], q)
                 /\ scopes[r][q[1]].entries \subseteq scopes'[r][q[1]].entries
      BY <2>2 DEF Added
    <3>2. Entry(r, w).write = w /\ w \in Made'
      BY <2>2, MadeLastIs DEF Entry
    <3>3. p # last => At(scopes[r], p) \in Made /\ \E e \in scopes[r][p[1]].entries : e.write = At(scopes[r], p)
      BY <3>1 DEF CallsKnown
    <3>4. QED
      BY <1>0, <3>1, <3>2, <3>3
  <2>3. CASE scopes'[r] = scopes[r]
    BY <1>0, <2>3 DEF CallsKnown
  <2>4. QED
    BY <1>0, <2>1, <2>2, <2>3, KeptFrom
<1>2. ASSUME NEW r \in Request, NEW k \in DOMAIN hooks'[r]
      PROVE  hooks'[r][k] \in Made' /\ \E e \in entries' : e.of = r /\ e.write = hooks'[r][k]
  <2>1. ASSUME NEW q \in Request, Called(q) PROVE \E l \in DOMAIN hooks[r] : hooks'[r][k] = hooks[r][l]
    <3>1. CASE q = r
      BY <1>0, <2>1, <3>1, CalledIs
    <3>2. CASE q # r
      BY <1>0, <2>1, <3>2, CalledIs
    <3>3. QED
      BY <3>1, <3>2
  <2>2. ASSUME NEW q \in Request, Persisted(q)
        PROVE  \/ hooks'[r] = hooks[r]
               \/ r = q
    BY <2>2 DEF Persisted
  <2>3. CASE Persisted(r)
    <3>1. <<1, k>> \in Calls(scopes[r]) /\ hooks'[r][k] = At(scopes[r], <<1, k>>) /\ entries' = entries \cup InHand(scopes[r])
      BY <1>0, <2>3, PersistedIs
    <3>2. PICK e \in scopes[r][1].entries : At(scopes[r], <<1, k>>) \in Made /\ e.write = At(scopes[r], <<1, k>>)
      BY <3>1 DEF CallsKnown
    <3>3. e \in InHand(scopes[r])
      BY <3>1 DEF Calls, InHand
    <3>4. QED
      BY <1>0, <3>1, <3>2, <3>3, InHandOf
  <2>4. CASE \E l \in DOMAIN hooks[r] : hooks'[r][k] = hooks[r][l]
    BY <1>0, <2>4 DEF CallsKnown
  <2>5. CASE hooks'[r] \in {hooks[r], <<>>}
    BY <2>4, <2>5
  <2>6. ASSUME NEW q \in Request, NEW w \in Write, Queried(q, w) PROVE hooks'[r] = hooks[r]
    BY <2>6 DEF Queried
  <2>7. QED
    BY <1>0, <2>1, <2>2, <2>3, <2>4, <2>5, <2>6, HooksFrom
<1>3. ASSUME NEW i \in DOMAIN ran'
      PROVE  ran'[i] \in Made' /\ \E e \in entries' : e.write = ran'[i]
  <2>1. ASSUME NEW q \in Request, Called(q)
        PROVE  (i \in DOMAIN ran /\ ran'[i] = ran[i]) \/ (1 \in DOMAIN hooks[q] /\ ran'[i] = hooks[q][1])
    BY <1>0, <2>1, CalledIs
  <2>2. CASE i \in DOMAIN ran /\ ran'[i] = ran[i]
    BY <1>0, <2>2 DEF CallsKnown
  <2>3. ASSUME NEW q \in Request, 1 \in DOMAIN hooks[q], ran'[i] = hooks[q][1]
        PROVE  ran'[i] \in Made' /\ \E e \in entries' : e.write = ran'[i]
    BY <1>0, <2>3 DEF CallsKnown
  <2>4. ASSUME NEW q \in Request, Persisted(q) \/ \E w \in Write : Queried(q, w) PROVE UNCHANGED ran
    BY <2>4 DEF Persisted, Queried
  <2>5. QED
    BY <1>0, <2>1, <2>2, <2>3, <2>4, HooksFrom
<1>4. QED
  BY <1>1, <1>2, <1>3 DEF CallsKnown


\* Callbacks go in the order of their changes, wherever they wait.
LEMMA OrderedStep ==
  ASSUME PoolInv, EntriesInHand, WrittenOnce, CallsKnown, CallsOrdered, [Next]_vars
  PROVE  CallsOrdered'
<1>0. TypeInv /\ Tidy
  BY DEF PoolInv
\* What waits has changes that are not in hand, and what ran is committed.
<1>1. /\ \A r \in Request : \A k \in DOMAIN hooks[r] : hooks[r][k] \in Made /\ hooks[r][k] \in rows
      /\ \A i \in DOMAIN ran : ran[i] \in Made /\ ran[i] \in rows
      /\ \A r \in Request : \A p \in Calls(scopes[r]) : At(scopes[r], p) \in Made /\ At(scopes[r], p) \in Written
  <2>1. \A r \in Request : \A p \in Calls(scopes[r]) : At(scopes[r], p) \in Made /\ At(scopes[r], p) \in Written
    <3> TAKE r \in Request
    <3> TAKE p \in Calls(scopes[r])
    <3>1. At(scopes[r], p) \in Made /\ \E e \in scopes[r][p[1]].entries : e.write = At(scopes[r], p)
      BY DEF CallsKnown
    <3>2. \A e \in scopes[r][p[1]].entries : e \in InHand(scopes[r])
      BY DEF Calls, InHand
    <3>3. QED
      BY <3>1, <3>2, WrittenIs
  <2>2. QED
    BY <2>1 DEF CallsKnown, WrittenOnce
\* The orders hold while nothing else changes, and once one more change is made.
<1>2. ASSUME NEW r \in Request, NEW p \in Calls(scopes'[r]), NEW q \in Calls(scopes'[r]), Before(p, q)
      PROVE  PrecedesNext(At(scopes'[r], p), At(scopes'[r], q))
  <2>1. CASE Kept(scopes[r], scopes'[r]) /\ UNCHANGED order
    <3>1. PICK f \in [Calls(scopes'[r]) -> Calls(scopes[r])] :
            /\ \A s \in Calls(scopes'[r]) : At(scopes'[r], s) = At(scopes[r], f[s])
            /\ \A s, u \in Calls(scopes'[r]) : Before(s, u) => Before(f[s], f[u])
      BY <2>1 DEF Kept
    <3>2. f[p] \in Calls(scopes[r]) /\ f[q] \in Calls(scopes[r]) /\ Before(f[p], f[q])
      BY <1>2, <3>1
    <3>3. Precedes(At(scopes[r], f[p]), At(scopes[r], f[q]))
      BY <3>2 DEF CallsOrdered
    <3>4. QED
      BY <2>1, <3>1, <3>3 DEF Precedes, PrecedesNext
  <2>2. ASSUME NEW w \in Write \ Written, Added(scopes[r], scopes'[r], w, Entry(r, w)), order' = MadeLast(w)
        PROVE  PrecedesNext(At(scopes'[r], p), At(scopes'[r], q))
    <3>1. PICK last \in Calls(scopes'[r]) :
            /\ At(scopes'[r], last) = w /\ ~Before(last, last)
            /\ \A s \in Calls(scopes'[r]) \ {last} :
                 s \in Calls(scopes[r]) /\ At(scopes'[r], s) = At(scopes[r], s) /\ ~Before(last, s)
      BY <2>2 DEF Added
    <3>2. p # last /\ p \in Calls(scopes[r]) /\ At(scopes'[r], p) = At(scopes[r], p)
      BY <1>2, <3>1
    <3>3. At(scopes[r], p) \in Made \ {w}
      BY <1>1, <3>2
    <3>4. CASE q = last
      BY <2>2, <3>1, <3>2, <3>3, <3>4, MadeLastIs
    <3>5. CASE q # last
      <4>1. q \in Calls(scopes[r]) /\ At(scopes'[r], q) = At(scopes[r], q) /\ At(scopes[r], q) # w
        BY <1>1, <3>1, <3>5
      <4>2. Precedes(At(scopes[r], p), At(scopes[r], q))
        BY <1>2, <3>2, <4>1 DEF CallsOrdered
      <4>3. QED
        BY <2>2, <3>2, <3>3, <4>1, <4>2, MadeLastIs
    <3>6. QED
      BY <3>4, <3>5
  <2>3. ASSUME NEW w \in Write \ Written, order' = MadeLast(w), scopes'[r] = scopes[r]
        PROVE  PrecedesNext(At(scopes'[r], p), At(scopes'[r], q))
    <3>1. Precedes(At(scopes[r], p), At(scopes[r], q)) /\ w \notin {At(scopes[r], p), At(scopes[r], q)}
      BY <1>1, <1>2, <2>3 DEF CallsOrdered
    <3>2. QED
      BY <2>3, <3>1, MadeLastIs
  <2>4. QED
    BY <1>0, <2>1, <2>2, <2>3, KeptFrom
<1>3. \A u, v \in rows : Precedes(u, v) => PrecedesNext(u, v)
  <2>1. ASSUME NEW w \in Write \ Written, order' = MadeLast(w) PROVE \A u, v \in rows : Precedes(u, v) => PrecedesNext(u, v)
    BY <2>1, MadeLastIs, WrittenIs
  <2>2. CASE UNCHANGED order
    BY <2>2 DEF Precedes, PrecedesNext
  <2>3. QED
    BY <1>0, <2>1, <2>2, KeptFrom
\* What precedes all callbacks of a request precedes them still.
<1>4. ASSUME NEW r \in Request, NEW v \in rows \cap Made, \A p \in Calls(scopes[r]) : Precedes(v, At(scopes[r], p)),
             NEW q \in Calls(scopes'[r])
      PROVE  PrecedesNext(v, At(scopes'[r], q))
  <2>1. CASE Kept(scopes[r], scopes'[r]) /\ UNCHANGED order
    <3>1. PICK f \in [Calls(scopes'[r]) -> Calls(scopes[r])] :
            \A s \in Calls(scopes'[r]) : At(scopes'[r], s) = At(scopes[r], f[s])
      BY <2>1 DEF Kept
    <3>2. f[q] \in Calls(scopes[r])
      OBVIOUS
    <3>3. QED
      BY <1>4, <2>1, <3>1, <3>2 DEF Precedes, PrecedesNext
  <2>2. ASSUME NEW w \in Write \ Written, Added(scopes[r], scopes'[r], w, Entry(r, w)), order' = MadeLast(w)
        PROVE  PrecedesNext(v, At(scopes'[r], q))
    <3>1. PICK last \in Calls(scopes'[r]) :
            /\ At(scopes'[r], last) = w
            /\ \A s \in Calls(scopes'[r]) \ {last} : s \in Calls(scopes[r]) /\ At(scopes'[r], s) = At(scopes[r], s)
      BY <2>2 DEF Added
    <3>2. v # w /\ v \in Made
      BY WrittenIs
    <3>3. CASE q = last
      BY <2>2, <3>1, <3>2, <3>3, MadeLastIs
    <3>4. CASE q # last
      <4>1. q \in Calls(scopes[r]) /\ At(scopes'[r], q) = At(scopes[r], q) /\ At(scopes[r], q) # w
        BY <1>1, <3>1, <3>4
      <4>2. QED
        BY <1>4, <2>2, <3>2, <4>1, MadeLastIs
    <3>5. QED
      BY <3>3, <3>4
  <2>3. ASSUME NEW w \in Write \ Written, order' = MadeLast(w), scopes'[r] = scopes[r]
        PROVE  PrecedesNext(v, At(scopes'[r], q))
    <3>1. Precedes(v, At(scopes[r], q)) /\ w \notin {v, At(scopes[r], q)}
      BY <1>1, <1>4, <2>3, WrittenIs
    <3>2. QED
      BY <2>3, <3>1, MadeLastIs
  <2>4. QED
    BY <1>0, <2>1, <2>2, <2>3, KeptFrom
<1>5. ASSUME NEW r \in Request, NEW k \in DOMAIN hooks'[r], NEW l \in DOMAIN hooks'[r], k < l
      PROVE  PrecedesNext(hooks'[r][k], hooks'[r][l])
  <2>1. CASE hooks'[r] = hooks[r]
    <3>1. Precedes(hooks[r][k], hooks[r][l]) /\ hooks[r][k] \in rows /\ hooks[r][l] \in rows
      BY <1>1, <1>5, <2>1 DEF CallsOrdered
    <3>2. QED
      BY <1>3, <2>1, <3>1
  <2>2. CASE Called(r)
    <3>1. /\ k \in Nat /\ l \in Nat /\ k + 1 \in DOMAIN hooks[r] /\ l + 1 \in DOMAIN hooks[r]
          /\ hooks'[r][k] = hooks[r][k + 1] /\ hooks'[r][l] = hooks[r][l + 1]
      BY <1>0, <2>2, CalledIs
    <3>2. k + 1 < l + 1
      BY <1>5, <3>1
    <3>3. Precedes(hooks[r][k + 1], hooks[r][l + 1]) /\ hooks[r][k + 1] \in rows /\ hooks[r][l + 1] \in rows
      BY <1>1, <3>1, <3>2 DEF CallsOrdered
    <3>4. QED
      BY <1>3, <3>1, <3>3
  <2>3. CASE Persisted(r)
    <3>1. /\ <<1, k>> \in Calls(scopes[r]) /\ hooks'[r][k] = At(scopes[r], <<1, k>>)
          /\ <<1, l>> \in Calls(scopes[r]) /\ hooks'[r][l] = At(scopes[r], <<1, l>>)
      BY <1>0, <2>3, PersistedIs
    <3>2. Before(<<1, k>>, <<1, l>>)
      BY <1>5 DEF Before
    <3>3. Precedes(hooks'[r][k], hooks'[r][l])
      BY <3>1, <3>2 DEF CallsOrdered
    <3>4. UNCHANGED order
      BY <2>3 DEF Persisted
    <3>5. QED
      BY <3>3, <3>4 DEF Precedes, PrecedesNext
  <2>4. ASSUME NEW q \in Request, q # r, Called(q) \/ Persisted(q) PROVE hooks'[r] = hooks[r]
    BY <1>0, <2>4, CalledIs DEF Persisted
  <2>5. ASSUME NEW q \in Request, NEW w \in Write, Queried(q, w) PROVE hooks'[r] = hooks[r]
    BY <2>5 DEF Queried
  <2>6. CASE hooks'[r] \in {hooks[r], <<>>}
    BY <2>1, <2>6
  <2>7. QED
    BY <1>0, <2>1, <2>2, <2>3, <2>4, <2>5, <2>6, HooksFrom
\* A callback called before this step, and the entry of its change.
<1>6. ASSUME NEW i \in DOMAIN ran, NEW e \in entries', e.write = ran[i]
      PROVE  e \in entries
  <2>1. ran[i] \in rows
    BY <1>1
  <2>2. ASSUME NEW q \in Request, Persisted(q) PROVE e \in entries
    <3>1. entries' = entries \cup InHand(scopes[q])
      BY <1>0, <2>2, PersistedIs
    <3>2. QED
      BY <1>6, <2>1, <3>1 DEF WrittenOnce
  <2>3. ASSUME NEW q \in Request, NEW w \in Write, Queried(q, w) PROVE e \in entries
    <3>1. entries' = entries \cup {Entry(q, w)} /\ Entry(q, w).write = w /\ w \notin rows
      BY <2>3, WrittenIs DEF Queried, Entry
    <3>2. QED
      BY <1>6, <2>1, <3>1
  <2>4. QED
    BY <1>0, <2>2, <2>3, HooksFrom DEF Called
<1>7. ASSUME NEW i \in DOMAIN ran, NEW e \in entries, e.write = ran[i], e.of \in Request
      PROVE  /\ \A p \in Calls(scopes'[e.of]) : PrecedesNext(ran[i], At(scopes'[e.of], p))
             /\ \A k \in DOMAIN hooks'[e.of] : PrecedesNext(ran[i], hooks'[e.of][k])
  <2> DEFINE r == e.of
  <2>1. /\ \A p \in Calls(scopes[r]) : Precedes(ran[i], At(scopes[r], p))
        /\ \A k \in DOMAIN hooks[r] : Precedes(ran[i], hooks[r][k])
    BY <1>7 DEF CallsOrdered
  <2>2. ran[i] \in rows \cap Made /\ r \in Request
    BY <1>1, <1>7
  <2> HIDE DEF r
  <2>3. \A p \in Calls(scopes'[r]) : PrecedesNext(ran[i], At(scopes'[r], p))
    BY <1>4, <2>1, <2>2
  <2>4. ASSUME NEW k \in DOMAIN hooks'[r] PROVE PrecedesNext(ran[i], hooks'[r][k])
    <3>1. CASE \E l \in DOMAIN hooks[r] : hooks'[r][k] = hooks[r][l]
      BY <1>1, <1>3, <2>1, <2>2, <3>1
    <3>2. CASE hooks'[r] \in {hooks[r], <<>>}
      BY <3>1, <3>2
    <3>3. CASE Persisted(r)
      <4>1. <<1, k>> \in Calls(scopes[r]) /\ hooks'[r][k] = At(scopes[r], <<1, k>>)
        BY <1>0, <2>2, <3>3, PersistedIs
      <4>2. UNCHANGED order
        BY <3>3 DEF Persisted
      <4>3. QED
        BY <2>1, <4>1, <4>2 DEF Precedes, PrecedesNext
    <3>4. CASE Called(r)
      BY <1>0, <2>2, <3>1, <3>4, CalledIs
    <3>5. ASSUME NEW q \in Request, q # r, Called(q) \/ Persisted(q) PROVE hooks'[r] = hooks[r]
      BY <1>0, <2>2, <3>5, CalledIs DEF Persisted
    <3>6. ASSUME NEW q \in Request, NEW w \in Write, Queried(q, w) PROVE hooks'[r] = hooks[r]
      BY <3>6 DEF Queried
    <3>7. QED
      BY <1>0, <2>2, <3>2, <3>3, <3>4, <3>5, <3>6, HooksFrom
  <2>5. QED
    BY <2>3, <2>4 DEF r
\* The callback this step calls.
<1>8. ASSUME NEW q \in Request, Called(q), NEW e \in entries, e.write = hooks[q][1]
      PROVE  e.of = q
  <2>1. 1 \in DOMAIN hooks[q]
    BY <1>0, <1>8, CalledIs
  <2>2. PICK d \in entries : d.of = q /\ d.write = hooks[q][1]
    BY <2>1 DEF CallsKnown
  <2>3. QED
    BY <1>8, <2>2 DEF WrittenOnce
<1>9. \A e \in entries : e.of \in Request
  BY <1>0 DEF TypeInv, EntryRec
<1>10. ASSUME NEW i \in DOMAIN ran', NEW e \in entries', e.write = ran'[i]
       PROVE  /\ \A p \in Calls(scopes'[e.of]) : PrecedesNext(ran'[i], At(scopes'[e.of], p))
              /\ \A k \in DOMAIN hooks'[e.of] : PrecedesNext(ran'[i], hooks'[e.of][k])
  <2>1. CASE i \in DOMAIN ran /\ ran'[i] = ran[i]
    <3>1. e \in entries
      BY <1>6, <1>10, <2>1
    <3>2. QED
      BY <1>7, <1>9, <1>10, <2>1, <3>1
  <2>2. ASSUME NEW q \in Request, Called(q), i \notin DOMAIN ran
        PROVE  /\ \A p \in Calls(scopes'[e.of]) : PrecedesNext(ran'[i], At(scopes'[e.of], p))
               /\ \A k \in DOMAIN hooks'[e.of] : PrecedesNext(ran'[i], hooks'[e.of][k])
    <3>1. /\ 1 \in DOMAIN hooks[q] /\ scopes[q] = <<>> /\ Calls(<<>>) = {}
          /\ \A k \in DOMAIN hooks'[q] : k \in Nat /\ k + 1 \in DOMAIN hooks[q] /\ hooks'[q][k] = hooks[q][k + 1]
          /\ DOMAIN ran = 1..Len(ran) /\ DOMAIN ran' = 1..Len(ran) + 1 /\ Len(ran) \in Nat
          /\ ran'[Len(ran) + 1] = hooks[q][1]
      BY <1>0, <2>2, CalledIs
    <3>2. i = Len(ran) + 1
      BY <2>2, <3>1
    <3>3. ran'[i] = hooks[q][1]
      BY <3>1, <3>2
    <3>4. e \in entries /\ UNCHANGED <<scopes, order>>
      BY <2>2 DEF Called
    <3>5. e.of = q
      BY <1>8, <1>10, <2>2, <3>3, <3>4
    <3>6. Calls(scopes'[q]) = {}
      BY <3>1, <3>4
    <3>7. ASSUME NEW k \in DOMAIN hooks'[q] PROVE PrecedesNext(ran'[i], hooks'[q][k])
      <4>1. k \in Nat /\ k + 1 \in DOMAIN hooks[q] /\ hooks'[q][k] = hooks[q][k + 1] /\ 1 \in DOMAIN hooks[q]
        BY <3>1
      <4>2. 1 < k + 1 \/ k = 0
        BY <4>1
      <4>3. k # 0
        BY <1>0, <2>2, <3>1, TailFacts, LenProperties DEF Called, TypeInv
      <4>4. Precedes(hooks[q][1], hooks[q][k + 1])
        BY <4>1, <4>2, <4>3 DEF CallsOrdered
      <4>5. QED
        BY <3>3, <3>4, <4>1, <4>4 DEF Precedes, PrecedesNext
    <3>8. QED
      BY <3>5, <3>6, <3>7
  <2>3. \/ i \in DOMAIN ran /\ ran'[i] = ran[i]
        \/ i \notin DOMAIN ran /\ \E q \in Request : Called(q)
    BY <1>0, HooksFrom, CalledIs DEF Persisted, Queried
  <2>4. QED
    BY <2>1, <2>2, <2>3
<1>11. ASSUME NEW d \in entries', NEW e \in entries', NEW i \in DOMAIN ran', NEW j \in DOMAIN ran',
              d.of = e.of, d.write = ran'[i], e.write = ran'[j], i < j
       PROVE  PrecedesNext(ran'[i], ran'[j])
  <2>1. CASE i \in DOMAIN ran /\ j \in DOMAIN ran /\ ran'[i] = ran[i] /\ ran'[j] = ran[j]
    <3>1. d \in entries /\ e \in entries
      BY <1>6, <1>11, <2>1
    <3>2. Precedes(ran[i], ran[j]) /\ ran[i] \in rows /\ ran[j] \in rows
      BY <1>1, <1>11, <2>1, <3>1 DEF CallsOrdered
    <3>3. QED
      BY <1>3, <2>1, <3>2
  <2>2. ASSUME NEW q \in Request, Called(q) PROVE PrecedesNext(ran'[i], ran'[j])
    <3>1. /\ 1 \in DOMAIN hooks[q]
          /\ DOMAIN ran = 1..Len(ran) /\ DOMAIN ran' = 1..Len(ran) + 1 /\ Len(ran) \in Nat
          /\ ran'[Len(ran) + 1] = hooks[q][1] /\ \A n \in DOMAIN ran : ran'[n] = ran[n]
      BY <1>0, <2>2, CalledIs
    <3>2. i \in DOMAIN ran /\ (j \in DOMAIN ran \/ j = Len(ran) + 1)
      BY <1>11, <3>1
    <3>3. CASE j \in DOMAIN ran
      BY <2>1, <3>1, <3>2, <3>3
    <3>4. CASE j = Len(ran) + 1
      <4>1. d \in entries /\ e \in entries /\ UNCHANGED order
        BY <2>2 DEF Called
      <4>2. ran'[j] = hooks[q][1] /\ ran'[i] = ran[i]
        BY <3>1, <3>2, <3>4
      <4>3. e.of = q
        BY <1>8, <1>11, <2>2, <4>1, <4>2
      <4>4. Precedes(ran[i], hooks[q][1])
        <5>1. d.write = ran[i] /\ d.of = q
          BY <1>11, <4>2, <4>3
        <5>2. \A k \in DOMAIN hooks[d.of] : Precedes(ran[i], hooks[d.of][k])
          BY <3>2, <4>1, <5>1 DEF CallsOrdered
        <5>3. QED
          BY <3>1, <5>1, <5>2
      <4>5. QED
        BY <4>1, <4>2, <4>4 DEF Precedes, PrecedesNext
    <3>5. QED
      BY <3>2, <3>3, <3>4
  <2>3. (\E q \in Request : Called(q)) \/ UNCHANGED ran
    BY <1>0, HooksFrom DEF Persisted, Queried
  <2>4. QED
    BY <2>1, <2>2, <2>3
<1>12. QED
  BY <1>2, <1>5, <1>10, <1>11 DEF CallsOrdered, Precedes, PrecedesNext

CallsInv == TrailInv /\ WrittenOnce /\ CallsKnown /\ CallsOrdered

\* However deep the savepoint, whatever is rolled back, lost or retried, and with any
\* number of requests side by side: a callback runs once, after the commit of its
\* change, and after those of the changes its transaction and the request made before.
THEOREM HooksInOrder == Spec => []HooksFollowCommit
<1>1. Init => CallsInv
  <2> SUFFICES ASSUME Init PROVE CallsInv
    OBVIOUS
  <2>1. TrailInv
    BY PoolInit DEF Init, TrailInv, StampsAreRight, EntriesInHand, EntriesAreTrue, Places
  <2>2. \A r \in Request : scopes[r] = <<>> /\ hooks[r] = <<>>
    BY DEF Init
  <2>3. Calls(<<>>) = {} /\ InHand(<<>>) = {}
    BY DEF Calls, InHand
  <2>4. WrittenOnce /\ CallsKnown /\ CallsOrdered
    BY <2>2, <2>3 DEF Init, WrittenOnce, CallsKnown, CallsOrdered
  <2>5. QED
    BY <2>1, <2>4 DEF CallsInv
<1>2. CallsInv /\ [Next]_vars => CallsInv'
  BY PoolStep, StampsStep, InHandStep, TrueStep, WrittenStep, KnownStep, OrderedStep DEF CallsInv, TrailInv
<1>3. CallsInv => HooksFollowCommit
  <2> SUFFICES ASSUME CallsInv PROVE HooksFollowCommit
    OBVIOUS
  <2>1. ToSet(ran) \subseteq rows
    BY DEF CallsInv, CallsKnown, WrittenOnce, ToSet
  <2>2. \A d, e \in entries : \A i, j \in DOMAIN ran :
          d.of = e.of /\ d.write = ran[i] /\ e.write = ran[j] /\ i < j => Precedes(ran[i], ran[j])
    BY DEF CallsInv, CallsOrdered
  <2>3. ASSUME NEW i \in DOMAIN ran, NEW j \in DOMAIN ran, ran[i] = ran[j] PROVE i = j
    <3>1. i \in Nat /\ j \in Nat
      BY LenProperties DEF CallsInv, TrailInv, PoolInv, TypeInv
    <3>2. PICK e \in entries : e.write = ran[i]
      BY DEF CallsInv, CallsKnown
    <3>3. ~(i < j) /\ ~(j < i)
      BY <2>2, <2>3, <3>2 DEF Precedes
    <3>4. QED
      BY <3>1, <3>3
  <2>4. IsInjective(ran)
    BY <2>3 DEF IsInjective
  <2>5. QED
    BY <2>1, <2>2, <2>4 DEF HooksFollowCommit
<1>4. QED
  BY <1>1, <1>2, <1>3, PTL DEF Spec

(***************************************************************************)
(* Sessions, outside the pool.                                             *)
(***************************************************************************)
-----------------------------------------------------------------------------
(* The jobs.                                                               *)

\* Who runs and still has its session is who holds the lock.
RunnersHoldTheLock == \A a \in Attempt : Outside!Runs(a) /\ a \notin cut => lock = a

\* A session left behind by a dead process has no attempt any more.
OrphansAreIdle == \A a \in Attempt : session[a] = "orphan" => jobStep[a] = "idle"

JobInv == Outside!JobTypeOK /\ RunnersHoldTheLock /\ OrphansAreIdle /\ Outside!JobSessionsAreOwned

\* What one attempt does to itself; the others stay as they are.
JobMove(a) == Outside!Start(a) \/ Outside!JobStep(a) \/ Outside!SessionLost(a)

\* maintenance-runtime.ts: every step of a run keeps the lock with the body
\* that took it.
LEMMA AttemptKeepsInv ==
  ASSUME NEW a \in Attempt, JobInv, JobMove(a)
  PROVE  JobInv'
<1> USE OutsideAssumption DEF Outside!SessionsAssumption, Outside!MaintenanceAssumption
<1> USE DEF JobInv, Outside!JobTypeOK, RunnersHoldTheLock, OrphansAreIdle,
            Outside!JobSessionsAreOwned, Outside!Runs, Outside!Goes, Outside!Freed, Outside!EndSession,
            Outside!Loss, Outside!Closed
<1>1. CASE Outside!Start(a)          BY <1>1 DEF Outside!Start
<1>2. CASE Outside!Connected(a)      BY <1>2 DEF Outside!Connected
<1>3. CASE Outside!ConnectFails(a)   BY <1>3 DEF Outside!ConnectFails
<1>4. CASE Outside!TryLock(a)        BY <1>4 DEF Outside!TryLock
<1>5. CASE Outside!TryLockFails(a)   BY <1>5 DEF Outside!TryLockFails
<1>6. CASE Outside!BodyEnds(a)       BY <1>6 DEF Outside!BodyEnds
<1>7. CASE Outside!Unlock(a)         BY <1>7 DEF Outside!Unlock
<1>8. CASE Outside!Leave(a)          BY <1>8 DEF Outside!Leave
<1>9. CASE Outside!Reaped(a)         BY <1>9 DEF Outside!Reaped
<1>10. CASE Outside!SessionLost(a)   BY <1>10 DEF Outside!SessionLost
<1> QED
  BY <1>1, <1>2, <1>3, <1>4, <1>5, <1>6, <1>7, <1>8, <1>9, <1>10
  DEF JobMove, Outside!JobStep

\* dedicated-client.ts, main.ts: a process that stops or dies takes its
\* attempts' sessions, and with them their locks.
LEMMA ProcessKeepsJobInv ==
  ASSUME NEW p \in Process, JobInv, Outside!CloseJobs(p) \/ Outside!ExitJobs(p) \/ Outside!Boot(p)
  PROVE  JobInv'
<1> USE OutsideAssumption DEF Outside!SessionsAssumption, Outside!MaintenanceAssumption
<1> USE DEF JobInv, Outside!JobTypeOK, RunnersHoldTheLock, OrphansAreIdle,
            Outside!JobSessionsAreOwned, Outside!Runs, Outside!Freed, Outside!Loss
<1>1. CASE Outside!CloseJobs(p)  BY <1>1 DEF Outside!CloseJobs
<1>2. CASE Outside!ExitJobs(p)   BY <1>2 DEF Outside!ExitJobs
<1>3. CASE Outside!Boot(p)       BY <1>3 DEF Outside!Boot, Outside!jobs
<1> QED BY <1>1, <1>2, <1>3

-----------------------------------------------------------------------------
(* The LISTEN client.                                                      *)

Standing == {c \in Conn : conn[c] # "dead"}

\* What may stand in each phase of connect(), until end() was called.
KeptConn == IF phase \in {"drop", "undo"} THEN {kept}
            ELSE IF phase = "create" THEN {} ELSE {client}

ClientInv ==
  /\ Outside!ClientTypeOK
  /\ ending # "no" => ended
  /\ ended \/ Standing \subseteq KeptConn

\* managed-client.ts: each step of connect(), end() and the events keeps it.
LEMMA ClientKeepsInv ==
  ASSUME ClientInv, Outside!ClientStep \/ Outside!EndCalled \/ Outside!FactoryCloses \/ Outside!ClientDies
  PROVE  ClientInv'
<1> USE OutsideAssumption DEF Outside!SessionsAssumption, Outside!ManagedClientAssumption
<1> USE DEF ClientInv, Outside!ClientTypeOK, Standing, KeptConn, Outside!Break, Outside!Ending, Outside!Gone
<1>1. CASE Outside!Handed             BY <1>1 DEF Outside!Handed, Outside!clientVars
<1>2. CASE Outside!Ensure             BY <1>2 DEF Outside!Ensure
<1>3. CASE Outside!Dropped            BY <1>3 DEF Outside!Dropped
<1>4. CASE Outside!Created            BY <1>4 DEF Outside!Created
<1>5. CASE Outside!CreateFails        BY <1>5 DEF Outside!CreateFails
<1>6. CASE Outside!Ready              BY <1>6 DEF Outside!Ready
<1>7. CASE Outside!ReadyFails
  <2>1. breaks' \in 0..MaxBreaks
    <3>1. CASE conn[kept] = "open"  BY <1>7, <3>1 DEF Outside!ReadyFails
    <3>2. CASE conn[kept] # "open"  BY <1>7, <3>2 DEF Outside!ReadyFails
    <3> QED BY <3>1, <3>2
  <2>2. /\ conn' = Outside!Ending(client) /\ phase' = "undo" /\ kept' = client
        /\ client' = NoConn /\ usable' = FALSE
        /\ phase = "ready"
        /\ UNCHANGED <<unheard, recent, ending, closing, ended>>
    BY <1>7 DEF Outside!ReadyFails
  <2> QED BY <2>1, <2>2
<1>8. CASE Outside!Undone             BY <1>8 DEF Outside!Undone
<1>9. CASE Outside!BackoffEnds        BY <1>9 DEF Outside!BackoffEnds
<1>10. CASE Outside!Events
  <2> PICK c \in Conn : Outside!Closes(c) \/ Outside!Invalidate(c)  BY <1>10 DEF Outside!Events
  <2>1. CASE Outside!Closes(c)      BY <2>1 DEF Outside!Closes
  <2>2. CASE Outside!Invalidate(c)
    <3>1. usable' \in BOOLEAN
      BY <2>2, Zenon DEF Outside!Invalidate
    <3>2. /\ c \in unheard /\ unheard' = unheard \ {c}
          /\ UNCHANGED <<conn, client, phase, kept, recent, ending, closing, breaks, ended>>
      BY <2>2 DEF Outside!Invalidate
    <3> QED BY <3>1, <3>2
  <2> QED BY <2>1, <2>2
<1>11. CASE \E c \in Conn : Outside!Lost(c) \/ Outside!Errs(c)
  <2>1. CASE \E c \in Conn : Outside!Lost(c)  BY <2>1 DEF Outside!Lost
  <2>2. ASSUME NEW c \in Conn, Outside!Errs(c) PROVE ClientInv'
    <3>1. /\ breaks < MaxBreaks /\ breaks' = breaks + 1 /\ usable' = FALSE
          /\ UNCHANGED <<conn, unheard, client, phase, kept, recent, ending, closing, ended>>
      BY <2>2 DEF Outside!Errs
    <3>2. breaks' \in 0..MaxBreaks  BY <3>1
    <3> QED BY <3>1, <3>2
  <2> QED BY <1>11, <2>1, <2>2
<1>12. CASE Outside!EndDrops          BY <1>12 DEF Outside!EndDrops
<1>13. CASE Outside!EndReturns        BY <1>13 DEF Outside!EndReturns
<1>14. CASE Outside!EndCalled         BY <1>14 DEF Outside!EndCalled
<1>15. CASE Outside!FactoryCloses     BY <1>15 DEF Outside!FactoryCloses
<1>16. CASE Outside!ClientDies        BY <1>16 DEF Outside!ClientDies
<1> QED
  BY <1>1, <1>2, <1>3, <1>4, <1>5, <1>6, <1>7, <1>8, <1>9, <1>10, <1>11,
     <1>12, <1>13, <1>14, <1>15, <1>16
  DEF Outside!ClientStep, Outside!Rebuild

\* The connections of the client that are not dead are the one connect() keeps.
LEMMA KeptIsOne ==
  ASSUME ClientInv
  PROVE  Outside!NeverTwoAlive
BY DEF ClientInv, Outside!NeverTwoAlive, Standing, KeptConn

-----------------------------------------------------------------------------
(* The two together.                                                       *)

SessionsInv == JobInv /\ ClientInv

\* At the start.
LEMMA SessionsStart ==
  ASSUME Outside!Init PROVE SessionsInv
<1>1. JobInv
  BY OutsideAssumption DEF Outside!SessionsAssumption, Outside!MaintenanceAssumption,
  Outside!Init, Outside!JobInit, JobInv, Outside!JobTypeOK, RunnersHoldTheLock, OrphansAreIdle,
      Outside!JobSessionsAreOwned, Outside!Runs
<1>2. Outside!ClientTypeOK
  <2>1. usable \in BOOLEAN /\ recent \in BOOLEAN /\ ended \in BOOLEAN
    BY Zenon DEF Outside!Init, Outside!ClientInit
  <2>2. breaks \in 0..MaxBreaks
    BY OutsideAssumption DEF Outside!SessionsAssumption, Outside!ManagedClientAssumption,
       Outside!Init, Outside!ClientInit
  <2> QED BY <2>1, <2>2 DEF Outside!Init, Outside!ClientInit, Outside!ClientTypeOK
<1>3. ending = "no" /\ Standing = {}
  BY DEF Outside!Init, Outside!ClientInit, Standing
<1> QED BY <1>1, <1>2, <1>3 DEF SessionsInv, ClientInv

\* What leaves the jobs alone keeps what is known of them.
LEMMA JobsUntouched ==
  ASSUME JobInv, UNCHANGED Outside!jobVars PROVE JobInv'
BY DEF Outside!jobVars, Outside!jobs, JobInv, Outside!JobTypeOK, RunnersHoldTheLock, OrphansAreIdle,
       Outside!JobSessionsAreOwned, Outside!Runs

\* What leaves the client alone keeps what is known of it.
LEMMA ClientUntouched ==
  ASSUME ClientInv, UNCHANGED Outside!clientVars PROVE ClientInv'
BY DEF Outside!clientVars, ClientInv, Outside!ClientTypeOK, Standing, KeptConn

\* The invariant is inductive.
LEMMA SessionsStep ==
  ASSUME SessionsInv, [Outside!Next]_(Outside!vars) PROVE SessionsInv'
<1> USE DEF SessionsInv
<1>1. CASE UNCHANGED Outside!vars
  BY <1>1, JobsUntouched, ClientUntouched DEF Outside!vars
<1>2. CASE /\ (\E a \in Attempt : JobMove(a)) \/ \E p \in Process : Outside!Boot(p)
           /\ UNCHANGED Outside!clientVars
  BY <1>2, AttemptKeepsInv, ProcessKeepsJobInv, ClientUntouched
<1>3. CASE (Outside!ClientStep \/ Outside!EndCalled) /\ UNCHANGED Outside!jobVars
  BY <1>3, ClientKeepsInv, JobsUntouched
<1>4. CASE \E p \in Process : Outside!Shutdown(p) \/ Outside!Exit(p)
  <2> PICK p \in Process : Outside!Shutdown(p) \/ Outside!Exit(p)  BY <1>4
  <2>1. JobInv'
    BY ProcessKeepsJobInv DEF Outside!Shutdown, Outside!Exit
  <2>2. ClientInv'
    BY ClientKeepsInv, ClientUntouched DEF Outside!Shutdown, Outside!Exit
  <2> QED BY <2>1, <2>2
<1> QED
  BY <1>1, <1>2, <1>3, <1>4 DEF Outside!Next, Outside!Moves, JobMove, Outside!End

\* What the sessions outside the pool keep, through losses, shutdowns and exits.
THEOREM SessionsStand == Outside!Spec => []SessionsInv
<1>1. Outside!Init => SessionsInv  BY SessionsStart
<1>2. SessionsInv /\ [Outside!Next]_(Outside!vars) => SessionsInv'  BY SessionsStep
<1> QED BY <1>1, <1>2, PTL DEF Outside!Spec

\* Two bodies of one job run at once only where a session was lost under one
\* of them, whatever processes start, stop and crash.
THEOREM BodiesAreAlone == Outside!Spec => []OneRun
<1>1. SessionsInv => OneRun
  BY OutsideAssumption DEF Outside!SessionsAssumption, Outside!MaintenanceAssumption, SessionsInv,
     JobInv, RunnersHoldTheLock, OneRun, Outside!OneRun
<1> QED BY <1>1, SessionsStand, PTL

\* No session outside the pool is left without its owner, and the LISTEN
\* client is never connected twice before end().
THEOREM SessionsHaveOwners == Outside!Spec => []NoSpareSession
<1>1. SessionsInv => NoSpareSession
  BY KeptIsOne DEF SessionsInv, JobInv, NoSpareSession, Outside!NoSpareSession
<1> QED BY <1>1, SessionsStand, PTL
=============================================================================
