--------------------------- MODULE AccountsProofs ---------------------------
(***************************************************************************)
(* Theorems about Accounts, for any number of concurrent requests, tokens, *)
(* passwords and sessions: an e-mailed token is redeemed once; and as long *)
(* as no commit wrote over newer columns, the account keeps the password   *)
(* chosen last, changes are made by who knows it, and older ones are out.  *)
(***************************************************************************)
EXTENDS Accounts, TLAPS

Actor == Call \cup {Job}

\* What the other invariants need of the types.
Shape ==
  /\ row \in Row \cup {NoRow}
  /\ tokens \in [Token -> TokenState]
  /\ sessions \subseteq Session
  /\ opened \in 0 .. MaxSession
  /\ work \in [Actor -> Work \cup {Idle}]
  /\ chosen \in Password
  /\ stale \in BOOLEAN

\* What a use case checked of the row it read.
Checked(w) ==
  /\ w.op = "confirm" => w.row.pending # NoEmail
  /\ w.op = "activate" => w.row.status = "pending"
AllChecked == \A c \in Actor : Checked(work[c])

\* Whoever redeems a token holds it, alone and unconsumed, until it ends.
Holds(c) == work[c].op \in Redeeming
Locks ==
  /\ ~Holds(Job)
  /\ \A c \in Call : Holds(c) => work[c].tokens \subseteq Live
  /\ \A c, d \in Call :
       c # d /\ Holds(c) /\ Holds(d) => work[c].tokens \cap work[d].tokens = {}

\* While the account is pending nobody is signed in.
PendingIsOut == Exists /\ row.status = "pending" => sessions = {}

Fresh == PasswordKept /\ PendingIsOut /\ OldPasswordsAreSignedOut

\* The inductive invariant.
AccountInv == Shape /\ AllChecked /\ Locks /\ (stale \/ Fresh)

\* The tokens others redeem stay unconsumed.
KeepsOthers(c) == \A d \in Call \ {c} : Holds(d) => work[d].tokens \subseteq Live'

\* The assumptions, for the provers.
LEMMA Parameters ==
  MaxPassword \in Nat /\ MaxSession \in Nat /\ Job \notin Call
  BY AccountsAssumption

\* Nobody at rest is mistaken for a use case.
LEMMA IdleIsNoWork == Idle.op = "idle" /\ "idle" \notin Op /\ Idle \notin Work
  BY DEF Idle, Work, Op, Redeeming, Issuing

\* A use case under way has read a row.
LEMMA AtWork ==
  ASSUME Shape, NEW c \in Actor, work[c].op \in Op
  PROVE  /\ work[c] \in Work /\ work[c].row \in Row /\ work[c].row # NoRow
         /\ work[c].tokens \subseteq Token
<1>1. work[c] \in Work
  BY IdleIsNoWork DEF Shape
<1> QED BY <1>1, NoRowAssumption DEF Work

\* Who redeems a token is at work, and issues none.
LEMMA RedeemersWork == Redeeming \subseteq Op /\ Redeeming \subseteq Op \ Issuing
  BY DEF Op, Redeeming, Issuing

-----------------------------------------------------------------------------
\* A read: only its request moves.
LEMMA ReadsInv ==
  ASSUME AccountInv, NEW c \in Actor, NEW op \in Op, NEW ts \in SUBSET Token,
         NEW s \in 0 .. MaxSession, Reads(c, op, ts, s),
         op = "confirm" => row.pending # NoEmail,
         op = "activate" => row.status = "pending",
         op \in Redeeming => c # Job /\ ts \subseteq Live /\ Unlocked(c, ts, Op)
  PROVE  AccountInv'
<1> DEFINE w == [op |-> op, row |-> row, tokens |-> ts, session |-> s]
<1>1. row \in Row
  BY DEF AccountInv, Shape, Reads, Exists
<1>2. w \in Work
  BY <1>1 DEF Work
<1>3. \A d \in Actor : work'[d] = IF d = c THEN w ELSE work[d]
  BY DEF AccountInv, Shape, Reads
<1>4. work' \in [Actor -> Work \cup {Idle}]
  BY <1>2 DEF AccountInv, Shape, Reads
<1>5. Shape'
  BY <1>4 DEF AccountInv, Shape, Reads
<1>6. AllChecked'
  BY <1>3 DEF AccountInv, AllChecked, Checked
<1>7. Live' = Live
  BY DEF Reads, Live
<1>8. Locks'
  <2>1. ~Holds(Job)'
    BY <1>3 DEF AccountInv, Locks, Holds, Actor
  <2>2. \A d \in Call : Holds(d)' => work'[d].tokens \subseteq Live'
    BY <1>3, <1>7 DEF AccountInv, Locks, Holds, Actor
  <2>3. ASSUME NEW d \in Call, d # c, op \in Redeeming, Holds(d)
        PROVE  ts \cap work[d].tokens = {}
    BY <2>3, RedeemersWork DEF Unlocked, Holds
  <2>4. ASSUME NEW d \in Call, NEW e \in Call, d # e, Holds(d)', Holds(e)'
        PROVE  work'[d].tokens \cap work'[e].tokens = {}
    <3>1. CASE d = c
      BY <1>3, <2>3, <2>4, <3>1 DEF Holds, Actor
    <3>2. CASE e = c
      BY <1>3, <2>3, <2>4, <3>2 DEF Holds, Actor
    <3>3. CASE d # c /\ e # c
      BY <1>3, <2>4, <3>3 DEF AccountInv, Locks, Holds, Actor
    <3> QED BY <3>1, <3>2, <3>3
  <2> QED BY <2>1, <2>2, <2>4 DEF Locks
<1>9. (stale \/ Fresh)'
  BY DEF AccountInv, Reads, Fresh, PasswordKept, PendingIsOut, OldPasswordsAreSignedOut, Exists
<1> QED BY <1>5, <1>6, <1>8, <1>9 DEF AccountInv

\* An end: what is left to show is the tokens, the row and what is Fresh.
LEMMA EndsInv ==
  ASSUME AccountInv, NEW c \in Actor, Ends(c), KeepsOthers(c),
         row' \in Row \cup {NoRow}, tokens' \in [Token -> TokenState],
         sessions' \subseteq Session, opened' \in 0 .. MaxSession,
         chosen' \in Password, stale' \in BOOLEAN, (stale \/ Fresh)'
  PROVE  AccountInv'
<1>1. \A d \in Actor : work'[d] = IF d = c THEN Idle ELSE work[d]
  BY DEF AccountInv, Shape, Ends
<1>2. Shape'
  BY DEF AccountInv, Shape, Ends
<1>3. AllChecked'
  BY <1>1, IdleIsNoWork DEF AccountInv, AllChecked, Checked
<1>4. Locks'
  BY <1>1, IdleIsNoWork, RedeemersWork DEF AccountInv, Locks, KeepsOthers, Holds, Actor
<1> QED BY <1>2, <1>3, <1>4 DEF AccountInv

\* Others keep their tokens where no token changes.
LEMMA UnchangedTokens ==
  ASSUME AccountInv, NEW c \in Actor, tokens' = tokens
  PROVE  KeepsOthers(c) /\ tokens' \in [Token -> TokenState]
  BY DEF AccountInv, Shape, Locks, KeepsOthers, Live

\* Others keep their tokens where those consumed are nobody else's.
LEMMA ConsumedTokens ==
  ASSUME AccountInv, NEW c \in Actor, NEW ts \in SUBSET Token, tokens' = Consumed(ts),
         \A d \in Call \ {c} : Holds(d) => work[d].tokens \cap ts = {}
  PROVE  KeepsOthers(c) /\ tokens' \in [Token -> TokenState]
<1>1. \A t \in Token : tokens'[t] = IF t \in ts THEN "consumed" ELSE tokens[t]
  BY DEF Consumed
<1>2. tokens' \in [Token -> TokenState]
  BY DEF Consumed, AccountInv, Shape, TokenState
<1>3. ASSUME NEW d \in Call \ {c}, Holds(d), NEW t \in work[d].tokens
      PROVE  t \in Live'
  <2>1. t \in Live /\ t \notin ts
    BY <1>3 DEF AccountInv, Locks
  <2> QED BY <1>1, <2>1 DEF Live
<1> QED BY <1>2, <1>3 DEF KeepsOthers

\* Others keep their tokens where a use case consumes its own (consumeByHash).
LEMMA ConsumesTokens ==
  ASSUME AccountInv, NEW c \in Actor, NEW ts \in SUBSET Token, Consumes(c, ts)
  PROVE  KeepsOthers(c) /\ tokens' \in [Token -> TokenState]
<1>1. \A d \in Call \ {c} : Holds(d) => work[d].tokens \cap ts = {}
  BY RedeemersWork DEF Consumes, Unlocked, Holds
<1> QED BY <1>1, ConsumedTokens DEF Consumes

\* Others keep their tokens where one is issued and those of its kind are consumed.
LEMMA IssuesTokens ==
  ASSUME AccountInv, NEW c \in Actor, NEW kind \in Kind, NEW ts \in SUBSET Token,
         Issues(c, kind, ts)
  PROVE  KeepsOthers(c) /\ tokens' \in [Token -> TokenState]
<1> DEFINE new == [kind |-> kind, no |-> Cardinality(IssuedOf(kind)) + 1]
<1> HIDE DEF new
<1>1. \A d \in Call \ {c} : Holds(d) => work[d].tokens \cap ts = {}
  BY RedeemersWork DEF Issues, Unlocked, Holds
<1>2. tokens' = [Consumed(ts) EXCEPT ![new] = "valid"]
  BY DEF Issues, new
<1>3. Consumed(ts) \in [Token -> TokenState]
  BY DEF Consumed, AccountInv, Shape, TokenState
<1>4. tokens' \in [Token -> TokenState]
  BY <1>2, <1>3 DEF TokenState
<1>5. \A t \in Token : t \notin ts => tokens'[t] = tokens[t] \/ tokens'[t] = "valid"
  BY <1>2 DEF Consumed
<1>6. ASSUME NEW d \in Call \ {c}, Holds(d), NEW t \in work[d].tokens
      PROVE  t \in Live'
  <2>1. t \in Live /\ t \notin ts
    BY <1>1, <1>6 DEF AccountInv, Locks
  <2> QED BY <1>5, <2>1 DEF Live
<1> QED BY <1>4, <1>6 DEF KeepsOthers

-----------------------------------------------------------------------------
\* What a use case writes over the row it read is, with nothing stale, a change
\* of the row there is.
LEMMA WritesRow ==
  ASSUME AccountInv, NEW c \in Actor, work[c].op \in Op, NEW new \in Row, Writes(c, new)
  PROVE  /\ row' \in Row \cup {NoRow} /\ stale' \in BOOLEAN
         /\ ~stale' => /\ ~stale /\ Fresh /\ Exists /\ Exists'
                       /\ row = work[c].row /\ row' = new
<1>1. stale' \in BOOLEAN /\ (~stale' => ~stale /\ row = work[c].row)
  BY DEF Writes, AccountInv, Shape
<1>2. row' \in Row \cup {NoRow}
  BY DEF Writes, AccountInv, Shape
<1>3. ASSUME ~stale' PROVE Exists /\ row' = new /\ Exists'
  <2>1. Exists
    BY <1>1, <1>3, AtWork DEF AccountInv, Exists
  <2> QED BY <2>1, NoRowAssumption DEF Writes, Exists
<1> QED BY <1>1, <1>2, <1>3 DEF AccountInv

\* What a stash or a restore makes of the row.
LEMMA DeletedRow ==
  ASSUME NEW r \in Row, NEW b \in BOOLEAN
  PROVE  /\ [r EXCEPT !.deleted = b] \in Row
         /\ [r EXCEPT !.deleted = b].password = r.password
         /\ [r EXCEPT !.deleted = b].status = r.status
  BY DEF Row

\* What a new password makes of it.
LEMMA PasswordRow ==
  ASSUME NEW r \in Row, NEW p \in Password
  PROVE  /\ [r EXCEPT !.password = p] \in Row
         /\ [r EXCEPT !.password = p].password = p
         /\ [r EXCEPT !.password = p].status = r.status
  BY DEF Row

\* What a verified address makes of it.
LEMMA VerifiedRow ==
  ASSUME NEW r \in Row
  PROVE  /\ [r EXCEPT !.verified = TRUE] \in Row
         /\ [r EXCEPT !.verified = TRUE].password = r.password
         /\ [r EXCEPT !.verified = TRUE].status = r.status
  BY DEF Row

\* What a confirmed change of address makes of it.
LEMMA ConfirmedRow ==
  ASSUME NEW r \in Row, r.pending # NoEmail,
         NEW a, a = [r EXCEPT !.email = r.pending, !.pending = NoEmail,
                              !.status = "active", !.verified = TRUE]
  PROVE  a \in Row /\ a.password = r.password /\ a.status = "active"
  BY DEF Row

\* What a change of address that waits makes of it.
LEMMA WaitingRow ==
  ASSUME NEW r \in Row, NEW e \in Email,
         NEW a, a = [r EXCEPT !.status = "pending", !.verified = FALSE, !.pending = e]
  PROVE  a \in Row /\ a.password = r.password
  BY DEF Row

\* What the job that reverts makes of it.
LEMMA RevertedRow ==
  ASSUME NEW r \in Row
  PROVE  /\ Reverted(r) \in Row
         /\ Reverted(r).password = r.password /\ Reverted(r).status = "active"
  BY DEF Row, Reverted

\* A session opened keeps the rule, whichever sessions give way to it.
LEMMA OpensTyped ==
  ASSUME AccountInv, NEW proof \in Password, Opens(proof)
  PROVE  sessions' \subseteq Session /\ opened' \in 0 .. MaxSession
<1> DEFINE new == [id |-> opened + 1, proof |-> proof, late |-> proof # chosen']
<1>1. \A s \in sessions' : s \in sessions \/ s = new
  BY DEF Opens, Capped
<1>2. opened + 1 \in 1 .. MaxSession /\ opened' = opened + 1
  BY Parameters DEF Opens, AccountInv, Shape
<1>3. new \in Session
  BY <1>2 DEF Session
<1> HIDE DEF new
<1> QED BY <1>1, <1>2, <1>3 DEF AccountInv, Shape

\* A session opened with the last password is none of an old one.
LEMMA OpensKeeps ==
  ASSUME NEW proof, Opens(proof), \A s \in sessions : s.late \/ s.proof = chosen',
         stale' \in BOOLEAN
  PROVE  OldPasswordsAreSignedOut'
<1> DEFINE new == [id |-> opened + 1, proof |-> proof, late |-> proof # chosen']
<1>1. \A s \in sessions' : s \in sessions \/ s = new
  BY DEF Opens, Capped
<1>2. new.late \/ new.proof = chosen'
  OBVIOUS
<1> QED BY <1>1, <1>2 DEF OldPasswordsAreSignedOut

-----------------------------------------------------------------------------
\* Use cases that keep password, status and sessions, or lose the sessions.
LEMMA KeepingWrites ==
  ASSUME AccountInv, NEW c \in Actor, work[c].op \in Op,
         NEW new \in Row, Writes(c, new), new.password = work[c].row.password,
         new.status \in {work[c].row.status, "active"},
         Ends(c), KeepsOthers(c), tokens' \in [Token -> TokenState],
         sessions' \subseteq sessions, opened' = opened, chosen' = chosen
  PROVE  AccountInv'
<1>1. (stale \/ Fresh)'
  <2> SUFFICES ASSUME ~stale' PROVE Fresh'
    OBVIOUS
  <2>1. ~stale /\ Fresh /\ Exists /\ row = work[c].row /\ row' = new
    BY WritesRow
  <2> QED BY <2>1 DEF Fresh, PasswordKept, PendingIsOut, OldPasswordsAreSignedOut
<1>2. row' \in Row \cup {NoRow} /\ stale' \in BOOLEAN
  BY WritesRow
<1> QED BY <1>1, <1>2, EndsInv DEF AccountInv, Shape

-----------------------------------------------------------------------------
\* One lemma for each group of actions that write.
LEMMA WorksAt ==
  ASSUME AccountInv, NEW c \in Actor, work[c].op \in Op
  PROVE  /\ work[c].row \in Row /\ work[c].tokens \in SUBSET Token
         /\ Live \in SUBSET Token /\ \A kind : LiveOf(kind) \in SUBSET Token
  BY AtWork DEF AccountInv, Live, LiveOf

\* An edit, a stash and a restore write the row as it was read.
LEMMA Edits ==
  ASSUME AccountInv, NEW c \in Actor, EditWrites(c) \/ DeleteWrites(c) \/ RestoreWrites(c)
  PROVE  AccountInv'
<1>1. work[c].op \in Op
  BY DEF EditWrites, DeleteWrites, RestoreWrites, Op
<1>2. work[c].row \in Row
  BY <1>1, WorksAt
<1>3. KeepsOthers(c) /\ tokens' \in [Token -> TokenState]
  BY UnchangedTokens DEF EditWrites, DeleteWrites, RestoreWrites
<1>4. CASE EditWrites(c)
  BY <1>1, <1>2, <1>3, <1>4, KeepingWrites DEF EditWrites
<1>5. CASE DeleteWrites(c)
  <2> DEFINE new == [work[c].row EXCEPT !.deleted = TRUE]
  <2>1. /\ new \in Row /\ new.password = work[c].row.password
        /\ new.status = work[c].row.status
    BY <1>2, DeletedRow
  <2>2. Writes(c, new) /\ Ends(c) /\ sessions' = {} /\ chosen' = chosen /\ opened' = opened
    BY <1>5 DEF DeleteWrites
  <2> HIDE DEF new
  <2> QED BY <1>1, <1>3, <2>1, <2>2, KeepingWrites
<1>6. CASE RestoreWrites(c)
  <2> DEFINE new == [work[c].row EXCEPT !.deleted = FALSE]
  <2>1. /\ new \in Row /\ new.password = work[c].row.password
        /\ new.status = work[c].row.status
    BY <1>2, DeletedRow
  <2>2. Writes(c, new) /\ Ends(c) /\ sessions' = sessions /\ chosen' = chosen /\ opened' = opened
    BY <1>6 DEF RestoreWrites
  <2> HIDE DEF new
  <2> QED BY <1>1, <1>3, <2>1, <2>2, KeepingWrites
<1> QED BY <1>4, <1>5, <1>6

\* A purge deletes the account and all that is of it.
LEMMA Purges ==
  ASSUME AccountInv, NEW c \in Actor, PurgeWrites(c)
  PROVE  AccountInv'
<1>1. \A d \in Call \ {c} : Holds(d) => work[d].tokens \cap Live = {}
  <2> SUFFICES ASSUME NEW d \in Call \ {c}, Holds(d) PROVE work[d].tokens \cap Live = {}
    OBVIOUS
  <2>1. work[d].tokens \cap Token = {}
    BY RedeemersWork DEF PurgeWrites, Unlocked, Holds
  <2> QED BY <2>1 DEF Live
<1>2. KeepsOthers(c) /\ tokens' \in [Token -> TokenState]
  BY <1>1, ConsumedTokens DEF PurgeWrites, Live
<1>3. (stale \/ Fresh)'
  BY DEF PurgeWrites, Fresh, PasswordKept, PendingIsOut, OldPasswordsAreSignedOut, Exists
<1> QED BY <1>2, <1>3, EndsInv DEF PurgeWrites, AccountInv, Shape

\* A sign-in reads the row again under lock and opens a session.
LEMMA SignsIn ==
  ASSUME AccountInv, NEW c \in Actor, LoginWrites(c)
  PROVE  AccountInv'
<1>1. KeepsOthers(c) /\ tokens' \in [Token -> TokenState]
  BY UnchangedTokens DEF LoginWrites
<1>2. (stale \/ Fresh)'
  <2> SUFFICES ASSUME ~stale PROVE Fresh'
    BY DEF LoginWrites
  <2>1. Fresh
    BY DEF AccountInv
  <2>2. OldPasswordsAreSignedOut'
    BY <2>1, OpensKeeps DEF LoginWrites, Fresh, OldPasswordsAreSignedOut, AccountInv, Shape
  <2>3. (PasswordKept /\ PendingIsOut)'
    BY <2>1 DEF Fresh, LoginWrites, PasswordKept, PendingIsOut, Exists, Active
  <2> QED BY <2>2, <2>3 DEF Fresh
<1>3. work[c].row.password \in Password
  BY WorksAt DEF LoginWrites, Op, Row
<1>4. sessions' \subseteq Session /\ opened' \in 0 .. MaxSession
  BY <1>3, OpensTyped DEF LoginWrites
<1> QED BY <1>1, <1>2, <1>4, EndsInv DEF LoginWrites, AccountInv, Shape

\* There is a password left to choose.
LEMMA NextPassword ==
  ASSUME AccountInv, chosen < MaxPassword
  PROVE  chosen + 1 \in Password
  BY Parameters DEF AccountInv, Shape, Password

\* A password change keeps one session and removes the others.
LEMMA Changes ==
  ASSUME AccountInv, NEW c \in Actor, ChangeWrites(c)
  PROVE  AccountInv'
<1> DEFINE new == [row EXCEPT !.password = chosen + 1]
<1>1. KeepsOthers(c) /\ tokens' \in [Token -> TokenState]
  BY UnchangedTokens DEF ChangeWrites
<1>2. row \in Row /\ chosen + 1 \in Password /\ chosen' = chosen + 1 /\ row' = new
  BY NextPassword DEF ChangeWrites, Proven, Exists, AccountInv, Shape
<1>3. new \in Row /\ new.password = chosen + 1 /\ new.status = row.status
  BY <1>2, PasswordRow
<1>4. (stale \/ Fresh)'
  <2>1. OldPasswordsAreSignedOut'
    BY DEF ChangeWrites, OldPasswordsAreSignedOut
  <2>2. PasswordKept' /\ PendingIsOut'
    BY <1>2, <1>3 DEF ChangeWrites, Proven, Active, PasswordKept, PendingIsOut
  <2> QED BY <2>1, <2>2 DEF Fresh
<1>5. sessions' \subseteq Session
  <2>1. \A s \in sessions : s.id \in 1 .. MaxSession
    BY DEF AccountInv, Shape, Session
  <2>2. \A id \in 1 .. MaxSession :
          [id |-> id, proof |-> chosen + 1, late |-> FALSE] \in Session
    BY <1>2 DEF Session
  <2> QED BY <2>1, <2>2 DEF ChangeWrites
<1> QED BY <1>1, <1>2, <1>3, <1>4, <1>5, EndsInv DEF ChangeWrites, AccountInv, Shape

\* A change of address makes the account wait and signs it out.
LEMMA Moves ==
  ASSUME AccountInv, NEW c \in Actor, EmailWrites(c)
  PROVE  AccountInv'
<1>1. "email_change" \in Kind /\ LiveOf("email_change") \in SUBSET Token
  BY DEF Kind, LiveOf, Live
<1>2. KeepsOthers(c) /\ tokens' \in [Token -> TokenState]
  BY <1>1, IssuesTokens DEF EmailWrites
<1>3. row \in Row /\ Exists
  BY DEF EmailWrites, Proven, Exists, AccountInv, Shape
<1>4. PICK e \in Email :
        row' = [row EXCEPT !.status = "pending", !.verified = FALSE, !.pending = e]
  BY DEF EmailWrites
<1>5. row' \in Row /\ row'.password = row.password
  BY <1>3, <1>4, WaitingRow
<1>6. (stale \/ Fresh)'
  BY <1>3, <1>5 DEF AccountInv, EmailWrites, Fresh, PasswordKept, PendingIsOut,
                    OldPasswordsAreSignedOut
<1> QED BY <1>2, <1>5, <1>6, EndsInv DEF EmailWrites, AccountInv, Shape

\* A reset request and a verification request write the row and issue a token.
LEMMA Stamps ==
  ASSUME AccountInv, NEW c \in Actor, NEW op \in {"forgot", "verify"}, NEW kind \in Kind,
         StampWrites(c, op, kind)
  PROVE  AccountInv'
<1>1. work[c].op \in Op
  BY DEF StampWrites, Op, Issuing
<1>2. work[c].row \in Row /\ work[c].tokens \in SUBSET Token
  BY <1>1, WorksAt
<1>3. KeepsOthers(c) /\ tokens' \in [Token -> TokenState]
  BY <1>2, IssuesTokens DEF StampWrites
<1> QED BY <1>1, <1>2, <1>3, KeepingWrites DEF StampWrites

\* An access link sent again: an invitation or a reset.
LEMMA Resends ==
  ASSUME AccountInv, NEW c \in Actor, ResendWrites(c)
  PROVE  AccountInv'
<1>1. work[c].op \in Op /\ "access_link" \in Kind
  BY DEF ResendWrites, Op, Issuing, Kind
<1>2. work[c].tokens \in SUBSET Token
  BY <1>1, WorksAt
<1>3. KeepsOthers(c) /\ tokens' \in [Token -> TokenState]
  BY <1>1, <1>2, IssuesTokens DEF ResendWrites
<1>4. (stale \/ Fresh)'
  BY DEF ResendWrites, AccountInv, Fresh, PasswordKept, PendingIsOut,
         OldPasswordsAreSignedOut, Exists
<1> QED BY <1>3, <1>4, EndsInv DEF ResendWrites, AccountInv, Shape

\* A reset removes all sessions.
LEMMA Resets ==
  ASSUME AccountInv, NEW c \in Actor, ResetWrites(c)
  PROVE  AccountInv'
<1> DEFINE new == [work[c].row EXCEPT !.password = chosen + 1]
<1>1. work[c].op \in Op
  BY DEF ResetWrites, Op, Redeeming
<1>2. new \in Row /\ new.password = chosen + 1 /\ chosen + 1 \in Password
  BY <1>1, WorksAt, NextPassword, PasswordRow DEF ResetWrites
<1>3. /\ Writes(c, new) /\ sessions' = {} /\ opened' = opened /\ Ends(c)
      /\ chosen' = chosen + 1
      /\ Consumes(c, LiveOf("password_reset"))
  BY DEF ResetWrites
<1> HIDE DEF new
<1>4. KeepsOthers(c) /\ tokens' \in [Token -> TokenState]
  BY <1>1, <1>3, WorksAt, ConsumesTokens
<1>5. /\ row' \in Row \cup {NoRow} /\ stale' \in BOOLEAN
      /\ ~stale' => row' = new
  BY <1>1, <1>2, <1>3, WritesRow
<1>6. (stale \/ Fresh)'
  BY <1>2, <1>3, <1>5 DEF Fresh, PasswordKept, PendingIsOut, OldPasswordsAreSignedOut
<1> QED BY <1>2, <1>3, <1>4, <1>5, <1>6, EndsInv DEF AccountInv, Shape

\* An activation keeps the sessions there are: a pending account has none.
LEMMA Activates ==
  ASSUME AccountInv, NEW c \in Actor, ActivateWrites(c)
  PROVE  AccountInv'
<1> DEFINE new == [work[c].row EXCEPT !.password = chosen + 1, !.status = "active",
                                      !.verified = TRUE]
<1>1. work[c].op = "activate" /\ work[c].op \in Op
  BY DEF ActivateWrites, Op, Redeeming
<1>2. chosen + 1 \in Password /\ work[c].row \in Row
  BY <1>1, WorksAt, NextPassword DEF ActivateWrites
<1>3. new \in Row /\ new.password = chosen + 1 /\ new.status = "active"
  BY <1>2 DEF Row
<1>4. /\ Writes(c, new) /\ Opens(chosen + 1) /\ Ends(c) /\ chosen' = chosen + 1
      /\ Consumes(c, LiveOf("access_link"))
  BY DEF ActivateWrites
<1> HIDE DEF new
<1>5. KeepsOthers(c) /\ tokens' \in [Token -> TokenState]
  BY <1>1, <1>4, WorksAt, ConsumesTokens
<1>6. /\ row' \in Row \cup {NoRow} /\ stale' \in BOOLEAN
      /\ ~stale' => Fresh /\ Exists /\ row = work[c].row /\ row' = new
  BY <1>1, <1>3, <1>4, WritesRow
<1>7. (stale \/ Fresh)'
  <2> SUFFICES ASSUME ~stale' PROVE Fresh'
    OBVIOUS
  <2>1. row.status = "pending"
    BY <1>1, <1>6 DEF AccountInv, AllChecked, Checked
  <2>2. sessions = {}
    BY <1>6, <2>1 DEF Fresh, PendingIsOut
  <2>3. OldPasswordsAreSignedOut'
    BY <1>4, <1>6, <2>2, OpensKeeps
  <2> QED BY <1>3, <1>4, <1>6, <2>3 DEF Fresh, PasswordKept, PendingIsOut
<1>8. sessions' \subseteq Session /\ opened' \in 0 .. MaxSession
  BY <1>2, <1>4, OpensTyped
<1> QED BY <1>2, <1>4, <1>5, <1>6, <1>7, <1>8, EndsInv

\* A confirmed change of address.
LEMMA Confirms ==
  ASSUME AccountInv, NEW c \in Actor, ConfirmWrites(c)
  PROVE  AccountInv'
<1> DEFINE new == [work[c].row EXCEPT !.email = work[c].row.pending, !.pending = NoEmail,
                                      !.status = "active", !.verified = TRUE]
<1>1. work[c].op = "confirm" /\ work[c].op \in Op
  BY DEF ConfirmWrites, Op, Redeeming
<1>2. work[c].row \in Row /\ work[c].row.pending # NoEmail
  BY <1>1, WorksAt DEF AccountInv, AllChecked, Checked
<1>3. new \in Row /\ new.password = work[c].row.password /\ new.status = "active"
  BY <1>2, ConfirmedRow
<1>4. /\ Writes(c, new) /\ Opens(chosen) /\ Ends(c) /\ chosen' = chosen
      /\ Consumes(c, LiveOf("email_change"))
  BY DEF ConfirmWrites
<1> HIDE DEF new
<1>5. KeepsOthers(c) /\ tokens' \in [Token -> TokenState]
  BY <1>1, <1>4, WorksAt, ConsumesTokens
<1>6. /\ row' \in Row \cup {NoRow} /\ stale' \in BOOLEAN
      /\ ~stale' => ~stale /\ Fresh /\ Exists /\ row = work[c].row /\ row' = new
  BY <1>1, <1>3, <1>4, WritesRow
<1>7. (stale \/ Fresh)'
  <2> SUFFICES ASSUME ~stale' PROVE Fresh'
    OBVIOUS
  <2>1. OldPasswordsAreSignedOut'
    BY <1>4, <1>6, OpensKeeps DEF Fresh, OldPasswordsAreSignedOut
  <2> QED BY <1>3, <1>4, <1>6, <2>1 DEF Fresh, PasswordKept, PendingIsOut
<1>8. sessions' \subseteq Session /\ opened' \in 0 .. MaxSession
  BY <1>4, OpensTyped DEF AccountInv, Shape
<1> QED BY <1>4, <1>5, <1>6, <1>7, <1>8, EndsInv DEF AccountInv, Shape

\* A verified address.
LEMMA Verifies ==
  ASSUME AccountInv, NEW c \in Call, VerifiedWrites(c)
  PROVE  AccountInv'
<1> DEFINE new == [work[c].row EXCEPT !.verified = TRUE]
<1>1. work[c].op \in Op /\ Holds(c) /\ c \in Actor
  BY DEF VerifiedWrites, Op, Redeeming, Holds, Actor
<1>2. work[c].row \in Row /\ work[c].tokens \in SUBSET Token
  BY <1>1, WorksAt
<1>3. /\ new \in Row /\ new.password = work[c].row.password
      /\ new.status = work[c].row.status
  BY <1>2, VerifiedRow
<1>4. /\ Writes(c, new) /\ Ends(c) /\ chosen' = chosen /\ sessions' = sessions
      /\ opened' = opened
      /\ tokens' = Consumed(work[c].tokens)
  BY DEF VerifiedWrites
<1> HIDE DEF new
<1>5. \A d \in Call \ {c} : Holds(d) => work[d].tokens \cap work[c].tokens = {}
  BY <1>1 DEF AccountInv, Locks
<1>6. KeepsOthers(c) /\ tokens' \in [Token -> TokenState]
  BY <1>1, <1>2, <1>4, <1>5, ConsumedTokens
<1> QED BY <1>1, <1>3, <1>4, <1>6, KeepingWrites

\* The job restores the old address.
LEMMA Reverts ==
  ASSUME AccountInv, RevertWrites
  PROVE  AccountInv'
<1>1. Job \in Actor /\ work[Job].op \in Op
  BY DEF RevertWrites, Op, Actor
<1>2. work[Job].row \in Row
  BY <1>1, WorksAt
<1>3. KeepsOthers(Job) /\ tokens' \in [Token -> TokenState]
  BY <1>1, UnchangedTokens DEF RevertWrites
<1>4. /\ Reverted(work[Job].row) \in Row
      /\ Reverted(work[Job].row).password = work[Job].row.password
      /\ Reverted(work[Job].row).status = "active"
  BY <1>2, RevertedRow
<1> QED BY <1>1, <1>3, <1>4, KeepingWrites DEF RevertWrites

-----------------------------------------------------------------------------
\* A token that expires keeps its holder's lock; so does one spent by a statement
\* that waits for it; a sign-out takes sessions away; an abort writes nothing.
LEMMA Expires ==
  ASSUME AccountInv, NEW t \in Token, Expire(t)
  PROVE  AccountInv'
<1>1. tokens' \in [Token -> TokenState] /\ Live' = Live
  <2>1. \A u \in Token : tokens'[u] = IF u = t THEN "expired" ELSE tokens[u]
    BY DEF Expire, AccountInv, Shape
  <2>2. tokens[t] = "valid"
    BY DEF Expire, Valid
  <2> QED BY <2>1, <2>2 DEF Expire, AccountInv, Shape, TokenState, Live
<1> QED BY <1>1 DEF Expire, AccountInv, Shape, AllChecked, Locks, Holds, Fresh, PasswordKept,
          PendingIsOut, OldPasswordsAreSignedOut, Exists

\* A link from the old address cancels the change.
LEMMA Cancels ==
  ASSUME AccountInv, NEW t \in Live, CancelLink(t)
  PROVE  AccountInv'
<1>1. \A d \in Call \ {Job} : Holds(d) => work[d].tokens \cap {t} = {}
  BY RedeemersWork DEF CancelLink, Redeemable, Unlocked, Holds
<1>2. KeepsOthers(Job) /\ tokens' \in [Token -> TokenState]
  BY <1>1, ConsumedTokens DEF CancelLink, Actor, Live
<1>3. Locks'
  BY <1>2, Parameters DEF CancelLink, KeepsOthers, AccountInv, Locks, Holds
<1> QED BY <1>2, <1>3 DEF CancelLink, AccountInv, Shape, AllChecked, Fresh, PasswordKept,
          PendingIsOut, OldPasswordsAreSignedOut, Exists

\* Sessions are signed out.
LEMMA SignsOut ==
  ASSUME AccountInv, NEW kept \in SUBSET sessions, SignOut(kept)
  PROVE  AccountInv'
  BY DEF SignOut, AccountInv, Shape, AllChecked, Locks, Holds, Live, Fresh, PasswordKept,
         PendingIsOut, OldPasswordsAreSignedOut, Exists

\* A use case fails before it commits, and gives back what it holds.
LEMMA Aborts ==
  ASSUME AccountInv, NEW c \in Actor, Abort(c)
  PROVE  AccountInv'
<1>1. KeepsOthers(c) /\ tokens' \in [Token -> TokenState]
  BY UnchangedTokens DEF Abort
<1>2. (stale \/ Fresh)'
  BY DEF Abort, AccountInv, Fresh, PasswordKept, PendingIsOut, OldPasswordsAreSignedOut, Exists
<1> QED BY <1>1, <1>2, EndsInv DEF Abort, AccountInv, Shape

\* Reads that only read.
LEMMA PlainReads ==
  ASSUME AccountInv, NEW c \in Actor, NEW op \in Op \ Redeeming, NEW ts \in SUBSET Token,
         NEW s \in 0 .. MaxSession, Reads(c, op, ts, s)
  PROVE  AccountInv'
  BY ReadsInv DEF Redeeming

\* Reads that redeem a token: it was neither consumed nor held.
LEMMA TokenReads ==
  ASSUME AccountInv, NEW c \in Call, NEW op \in Redeeming, NEW t \in Live,
         RedeemReads(c, op, t), op = "confirm" => row.pending # NoEmail,
         op = "activate" => row.status = "pending"
  PROVE  AccountInv'
<1>1. /\ Reads(c, op, {t}, 0) /\ Unlocked(c, {t}, Op) /\ op \in Op
      /\ {t} \in SUBSET Token /\ {t} \subseteq Live /\ c # Job /\ c \in Actor
  BY Parameters, RedeemersWork DEF RedeemReads, Redeemable, Live, Actor
<1>2. 0 \in 0 .. MaxSession
  BY AccountsAssumption
<1> QED BY <1>1, <1>2, ReadsInv

\* The invariant holds at the start and every step keeps it.
THEOREM AccountsStart == Init => AccountInv
<1> SUFFICES ASSUME Init PROVE AccountInv
  OBVIOUS
<1>1. row \in Row
  <2>1. 0 \in Password
    BY Parameters DEF Password
  <2> QED BY <2>1 DEF Init, Row
<1>2. Shape
  <2>1. tokens \in [Token -> TokenState]
    <3> DEFINE start(t) == IF t = [kind |-> "access_link", no |-> 1] THEN "valid" ELSE "unissued"
    <3>1. \A t : start(t) \in TokenState
      BY DEF TokenState
    <3>2. tokens = [t \in Token |-> start(t)]
      BY DEF Init
    <3> HIDE DEF start
    <3> QED BY <3>1, <3>2
  <2>2. work \in [Actor -> Work \cup {Idle}]
    BY DEF Init, Actor
  <2>3. 0 \in 0 .. MaxSession /\ 0 \in Password
    BY Parameters DEF Password
  <2>4. sessions = {} /\ opened = 0 /\ chosen = 0 /\ stale = FALSE
    BY DEF Init
  <2> QED BY <1>1, <2>1, <2>2, <2>3, <2>4 DEF Shape
<1>3. AllChecked /\ Locks
  BY IdleIsNoWork, RedeemersWork DEF Init, AllChecked, Checked, Locks, Holds, Actor
<1>4. Fresh
  BY DEF Init, Fresh, PasswordKept, PendingIsOut, OldPasswordsAreSignedOut
<1> QED BY <1>2, <1>3, <1>4 DEF AccountInv

\* A use case reads the row: what it checks of it is what AllChecked says.
LEMMA CallReads ==
  ASSUME AccountInv, NEW c \in Call,
         \/ EditReads(c) \/ DeleteReads(c) \/ RestoreReads(c) \/ PurgeReads(c)
         \/ LoginReads(c) \/ ForgotReads(c) \/ ResendReads(c)
         \/ \E s \in sessions : ChangeReads(c, s) \/ EmailReads(c, s) \/ VerifyReads(c, s)
  PROVE  AccountInv'
<1>1. c \in Actor /\ 0 \in 0 .. MaxSession /\ {} \in SUBSET Token
  BY Parameters DEF Actor
<1>2. \A kind : LiveOf(kind) \in SUBSET Token
  BY DEF LiveOf, Live
<1>3. \A s \in sessions : s.id \in 0 .. MaxSession
  BY Parameters DEF AccountInv, Shape, Session
<1>4. {"edit", "delete", "restore", "purge", "login", "change", "email",
       "forgot", "verify", "resend"} \subseteq Op \ Redeeming
  BY DEF Op, Redeeming, Issuing
<1>5. CASE EditReads(c) \/ DeleteReads(c) \/ RestoreReads(c) \/ PurgeReads(c) \/ LoginReads(c)
  BY <1>1, <1>4, <1>5, PlainReads
     DEF EditReads, DeleteReads, RestoreReads, PurgeReads, LoginReads
<1>6. CASE ForgotReads(c) \/ ResendReads(c)
  BY <1>1, <1>2, <1>4, <1>6, PlainReads DEF ForgotReads, ResendReads
<1>7. ASSUME NEW s \in sessions, ChangeReads(c, s) \/ EmailReads(c, s) \/ VerifyReads(c, s)
      PROVE  AccountInv'
  BY <1>1, <1>2, <1>3, <1>4, <1>7, PlainReads DEF ChangeReads, EmailReads, VerifyReads
<1> QED BY <1>5, <1>6, <1>7

\* One that redeems a token holds it alone from its first step.
LEMMA CallRedeems ==
  ASSUME AccountInv, NEW c \in Call, NEW t \in Live,
         \/ RedeemReads(c, "reset", t) \/ RedeemReads(c, "verified", t)
         \/ ActivateReads(c, t) \/ ConfirmReads(c, t)
  PROVE  AccountInv'
  BY TokenReads DEF ActivateReads, ConfirmReads, Redeeming

\* The job reads a change that has expired.
LEMMA RevertsRead ==
  ASSUME AccountInv, RevertReads
  PROVE  AccountInv'
<1>1. /\ Job \in Actor /\ 0 \in 0 .. MaxSession /\ {} \in SUBSET Token
      /\ "revert" \in Op \ Redeeming
  BY Parameters DEF Actor, Op, Redeeming
<1> QED BY <1>1, PlainReads DEF RevertReads

\* All steps of a request.
LEMMA Requests ==
  ASSUME AccountInv, NEW c \in Call, Request(c)
  PROVE  AccountInv'
<1>1. c \in Actor /\ "password_reset" \in Kind /\ "email_verify" \in Kind
  BY DEF Actor, Kind
<1>2. CASE EditWrites(c) \/ DeleteWrites(c) \/ RestoreWrites(c)
  BY <1>1, <1>2, Edits
<1>3. CASE PurgeWrites(c) \/ LoginWrites(c) \/ ChangeWrites(c) \/ EmailWrites(c)
  BY <1>1, <1>3, Purges, SignsIn, Changes, Moves
<1>4. CASE StampWrites(c, "forgot", "password_reset") \/ StampWrites(c, "verify", "email_verify")
  BY <1>1, <1>4, Stamps
<1>5. CASE ResendWrites(c) \/ ResetWrites(c) \/ ActivateWrites(c) \/ ConfirmWrites(c)
             \/ VerifiedWrites(c)
  BY <1>1, <1>5, Resends, Resets, Activates, Confirms, Verifies
<1>6. CASE \/ EditReads(c) \/ DeleteReads(c) \/ RestoreReads(c) \/ PurgeReads(c)
           \/ LoginReads(c) \/ ForgotReads(c) \/ ResendReads(c)
           \/ \E s \in sessions : ChangeReads(c, s) \/ EmailReads(c, s) \/ VerifyReads(c, s)
  BY <1>6, CallReads
<1>7. CASE \E t \in Live :
             \/ RedeemReads(c, "reset", t) \/ RedeemReads(c, "verified", t)
             \/ ActivateReads(c, t) \/ ConfirmReads(c, t)
  BY <1>7, CallRedeems
<1> QED BY <1>2, <1>3, <1>4, <1>5, <1>6, <1>7 DEF Request

\* Every use case, request, job and clock keeps the invariant: it is inductive.
THEOREM AccountsStep == AccountInv /\ [Next]_vars => AccountInv'
<1> SUFFICES ASSUME AccountInv, [Next]_vars PROVE AccountInv'
  OBVIOUS
<1>1. CASE \E c \in Call : Request(c)
  BY <1>1, Requests
<1>2. CASE \E t \in Live : CancelLink(t)
  BY <1>2, Cancels
<1>3. CASE RevertReads \/ RevertWrites
  BY <1>3, RevertsRead, Reverts
<1>4. CASE \E t \in Token : Expire(t)
  BY <1>4, Expires
<1>5. CASE \E kept \in SUBSET sessions : SignOut(kept)
  BY <1>5, SignsOut
<1>6. CASE \E c \in Call \cup {Job} : Abort(c)
  BY <1>6, Aborts DEF Actor
<1>7. CASE UNCHANGED vars
  BY <1>7 DEF vars, AccountInv, Shape, AllChecked, Locks, Holds, Live, Fresh, PasswordKept,
              PendingIsOut, OldPasswordsAreSignedOut, Exists
<1> QED BY <1>1, <1>2, <1>3, <1>4, <1>5, <1>6, <1>7 DEF Next

-----------------------------------------------------------------------------
\* So it holds of every account, whatever requests overlap: the four theorems below are
\* read off it.
THEOREM AccountsInvariant == Spec => []AccountInv
<1>1. Init => AccountInv
  BY AccountsStart
<1>2. AccountInv /\ [Next]_vars => AccountInv'
  BY AccountsStep
<1> QED BY <1>1, <1>2, PTL DEF Spec

\* An e-mailed token is redeemed by at most one use case, whatever runs alongside
\* it (consumeByHash): when one commits, its token is still unconsumed.
THEOREM TokensAreSpentOnce == Spec => TokensSpentOnce
<1> DEFINE SpentOnce ==
      \A c \in Call :
        (work[c].op \in Redeeming /\ <<row, tokens>>' # <<row, tokens>> /\ work'[c] = Idle)
          => work[c].tokens \subseteq Live
<1>1. AccountInv => SpentOnce
  BY DEF AccountInv, Locks, Holds
<1>2. AccountInv => [SpentOnce]_vars
  BY <1>1
<1>3. Spec => []AccountInv
  BY AccountsInvariant
<1> HIDE DEF SpentOnce
<1>4. Spec => [][SpentOnce]_vars
  BY <1>2, <1>3, PTL
<1> QED BY <1>4 DEF TokensSpentOnce, SpentOnce

\* With nothing stale, the account's password is the last one its owner chose.
THEOREM PasswordIsKept == Spec => []PasswordKept
<1>1. AccountInv => PasswordKept
  BY DEF AccountInv, Fresh, PasswordKept
<1> QED BY <1>1, AccountsInvariant, PTL

\* With nothing stale, a session opened with an older password is closed by the
\* commit that replaced it, but for a sign-in already past its verification.
THEOREM OldPasswordsSignedOut == Spec => []OldPasswordsAreSignedOut
<1>1. AccountInv => OldPasswordsAreSignedOut
  BY DEF AccountInv, Fresh, OldPasswordsAreSignedOut
<1> QED BY <1>1, AccountsInvariant, PTL

-----------------------------------------------------------------------------
\* Whoever changes the row ends with that step; a password change and an e-mail
\* change compare the password they verified with the row they lock.
LEMMA RowWriters ==
  ASSUME Next, row' # row
  PROVE  \E d \in Actor : Ends(d) /\ (work[d].op \in {"change", "email"} => Proven(d))
<1>1. ASSUME NEW c \in Call, Request(c)
      PROVE  Ends(c) /\ (work[c].op \in {"change", "email"} => Proven(c))
  <2>1. CASE \/ EditReads(c) \/ DeleteReads(c) \/ RestoreReads(c) \/ PurgeReads(c)
             \/ LoginReads(c) \/ ForgotReads(c) \/ ResendReads(c)
             \/ \E s \in sessions : ChangeReads(c, s) \/ EmailReads(c, s) \/ VerifyReads(c, s)
    BY <2>1 DEF EditReads, DeleteReads, RestoreReads, PurgeReads, LoginReads, ForgotReads,
                ResendReads, ChangeReads, EmailReads, VerifyReads, Reads
  <2>2. CASE \E t \in Live :
               \/ RedeemReads(c, "reset", t) \/ RedeemReads(c, "verified", t)
               \/ ActivateReads(c, t) \/ ConfirmReads(c, t)
    BY <2>2 DEF RedeemReads, ActivateReads, ConfirmReads, Reads
  <2>3. CASE \/ EditWrites(c) \/ DeleteWrites(c) \/ RestoreWrites(c) \/ PurgeWrites(c)
             \/ LoginWrites(c) \/ ResendWrites(c)
    BY <2>3 DEF EditWrites, DeleteWrites, RestoreWrites, PurgeWrites, LoginWrites, ResendWrites
  <2>4. CASE \/ StampWrites(c, "forgot", "password_reset")
             \/ StampWrites(c, "verify", "email_verify")
    BY <2>4 DEF StampWrites
  <2>5. CASE ResetWrites(c) \/ ActivateWrites(c) \/ ConfirmWrites(c) \/ VerifiedWrites(c)
    BY <2>5 DEF ResetWrites, ActivateWrites, ConfirmWrites, VerifiedWrites
  <2>6. CASE ChangeWrites(c) \/ EmailWrites(c)
    BY <2>6 DEF ChangeWrites, EmailWrites
  <2> QED BY <1>1, <2>1, <2>2, <2>3, <2>4, <2>5, <2>6 DEF Request
<1>2. CASE \E c \in Call : Request(c)
  BY <1>1, <1>2 DEF Actor
<1>3. CASE RevertReads \/ RevertWrites
  BY <1>3 DEF RevertReads, RevertWrites, Reads, Actor
<1>4. CASE \/ \E t \in Live : CancelLink(t)
           \/ \E t \in Token : Expire(t)
           \/ \E kept \in SUBSET sessions : SignOut(kept)
           \/ \E c \in Call \cup {Job} : Abort(c)
  BY <1>4 DEF CancelLink, Expire, SignOut, Abort
<1> QED BY <1>2, <1>3, <1>4 DEF Next

\* An e-mail change is started, and a password replaced from within, only by who
\* proved the password in force, unless a write over newer columns restored it.
THEOREM ChangesProven == Spec => ChangesAreProven
<1> DEFINE ProvenChange ==
      \A c \in Call :
        (work[c].op \in {"change", "email"} /\ row' # row /\ work'[c] = Idle)
          => (stale \/ work[c].row.password = chosen)
<1>1. AccountInv /\ [Next]_vars => [ProvenChange]_vars
  <2> SUFFICES ASSUME AccountInv, Next, NEW c \in Call, row' # row, ~stale,
                      work[c].op \in {"change", "email"}, work'[c] = Idle
               PROVE  work[c].row.password = chosen
    BY DEF vars
  <2>1. PICK d \in Actor : Ends(d) /\ (work[d].op \in {"change", "email"} => Proven(d))
    BY RowWriters
  <2>2. work[c] # Idle /\ c \in Actor
    BY IdleIsNoWork DEF Actor
  <2>3. d = c
    BY <2>1, <2>2 DEF Ends, AccountInv, Shape
  <2>4. Exists /\ row.password = work[c].row.password
    BY <2>1, <2>3 DEF Proven
  <2> QED BY <2>4 DEF AccountInv, Fresh, PasswordKept
<1>2. Spec => []AccountInv
  BY AccountsInvariant
<1> HIDE DEF ProvenChange
<1>3. Spec => [][ProvenChange]_vars
  BY <1>1, <1>2, PTL DEF Spec
<1> QED BY <1>3 DEF ChangesAreProven, ProvenChange
=============================================================================
