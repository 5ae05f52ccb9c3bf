------------------------------ MODULE Accounts ------------------------------
(***************************************************************************)
(* One account of the single-tenant identity module: its row, the e-mailed *)
(* single-use tokens and the sessions, under the use cases that requests   *)
(* run concurrently and the job that reverts an expired e-mail change.     *)
(*                                                                         *)
(* Every transaction is READ COMMITTED.  Most use cases read the row with  *)
(* no lock and write all its columns back when they commit; sign-in, the   *)
(* password change and the e-mail change read it again FOR UPDATE, so what *)
(* they do after that read is one step.  The columns no property tells     *)
(* apart (name, avatar, profile, permissions, cooldown stamps, lockout)    *)
(* are left out: an edit of them still writes the modelled ones back.      *)
(***************************************************************************)
EXTENDS Naturals, FiniteSets

CONSTANTS
  Call,         \* requests the API serves concurrently
  Job,          \* email-change.revert: one at a time, by its advisory lock
  Email,        \* addresses the account uses
  NoEmail, NoRow,
  MaxPassword,  \* bound: passwords the account is ever given
  MaxToken,     \* bound: tokens issued of each type
  MaxSession,   \* bound: sessions opened
  MaxRequest,   \* bound: requests started
  SessionCap,           \* SESSION_MAX_PER_USER
  RequireVerification   \* REQUIRE_EMAIL_VERIFICATION

ASSUME AccountsAssumption ==
  /\ Job \notin Call
  /\ NoEmail \notin Email
  /\ {MaxPassword, MaxToken, MaxSession, MaxRequest} \subseteq Nat
  /\ SessionCap \in Nat \ {0}
  /\ RequireVerification \in BOOLEAN

Kind == {"access_link", "password_reset", "email_change", "email_verify"}
Token == [kind: Kind, no: 1 .. MaxToken]
TokenState == {"unissued", "valid", "expired", "consumed"}
Password == 0 .. MaxPassword     \* 0: none yet, otherwise in order of choice

Row == [status: {"pending", "active"}, password: Password, email: Email,
        pending: Email \cup {NoEmail}, verified: BOOLEAN, deleted: BOOLEAN]
ASSUME NoRowAssumption == NoRow \notin Row

\* proof: the account's password when the session was opened, or the one typed;
\* late: it was no longer the last one chosen.
Session == [id: 1 .. MaxSession, proof: Password, late: BOOLEAN]

\* What a use case carries from its read to its commit: the row it read, the
\* tokens it locked (to redeem or to replace) and the caller's session.
Redeeming == {"reset", "activate", "confirm", "verified"}
Issuing == {"forgot", "verify", "resend"}
Op == Redeeming \cup Issuing
        \cup {"edit", "delete", "restore", "purge", "login", "change", "email", "revert"}
Work == [op: Op, row: Row, tokens: SUBSET Token, session: 0 .. MaxSession]
Idle == [op |-> "idle"]

VARIABLES
  row,        \* the users row, or NoRow
  tokens,     \* [Token -> TokenState]
  sessions,
  opened,     \* sessions opened so far
  work,       \* [Call \cup {Job} -> Work or Idle]
  started,    \* requests started so far
  chosen,     \* history: the last password a committed use case set
  stale       \* history: a commit wrote over columns changed since its read

vars == <<row, tokens, sessions, opened, work, started, chosen, stale>>

\* CreateUser has committed: a pending account and its access link.
Init ==
  /\ \E e \in Email :
       row = [status |-> "pending", password |-> 0, email |-> e,
              pending |-> NoEmail, verified |-> FALSE, deleted |-> FALSE]
  /\ tokens = [t \in Token |->
       IF t = [kind |-> "access_link", no |-> 1] THEN "valid" ELSE "unissued"]
  /\ sessions = {}
  /\ opened = 0
  /\ work = [c \in Call \cup {Job} |-> Idle]
  /\ started = 0
  /\ chosen = 0
  /\ stale = FALSE

-----------------------------------------------------------------------------
Exists == row # NoRow
Active(r) == r.status = "active" /\ ~r.deleted
Live == {t \in Token : tokens[t] \in {"valid", "expired"}}
LiveOf(kind) == {t \in Live : t.kind = kind}
IssuedOf(kind) == {t \in Token : t.kind = kind /\ tokens[t] # "unissued"}
Valid(t) == tokens[t] = "valid"
Newest(kind) == [kind |-> kind, no |-> Cardinality(IssuedOf(kind))]

\* AuthMiddleware: the session of a deleted user is no identity.
SignedIn(s) == Exists /\ ~row.deleted /\ s \in sessions

\* A row lock on a token: the statement of another transaction waits.
Unlocked(c, ts, ops) ==
  \A d \in (Call \cup {Job}) \ {c} :
    work[d].op \in ops => work[d].tokens \cap ts = {}

\* Mutant of Redeemable: two statements, a find and an update.
RedeemableUnlocked(c, t) == Valid(t)

\* consumeByHash: one UPDATE of a token neither consumed nor expired.
Redeemable(c, t) == Valid(t) /\ Unlocked(c, {t}, Op)

\* A use case reads the row and goes on.
Reads(c, op, locked, session) ==
  /\ work[c] = Idle
  /\ Exists
  /\ IF c = Job THEN started' = started ELSE started < MaxRequest /\ started' = started + 1
  /\ work' = [work EXCEPT ![c] =
       [op |-> op, row |-> row, tokens |-> locked, session |-> session]]
  /\ UNCHANGED <<row, tokens, sessions, opened, chosen, stale>>

Ends(c) == work' = [work EXCEPT ![c] = Idle] /\ started' = started

\* users.update: every column, whatever the row holds by now; no row, no write.
Writes(c, new) ==
  /\ row' = IF Exists THEN new ELSE row
  /\ stale' = (stale \/ row # work[c].row)

\* The oldest beyond the cap go (deleteOldestOverCap).
Capped(all) == {s \in all : Cardinality({t \in all : t.id > s.id}) < SessionCap}

\* CreateSessionService.create: a known device gives up its session first.
Opens(proof) ==
  /\ opened < MaxSession
  /\ opened' = opened + 1
  /\ \E device \in {{}} \cup {{s} : s \in sessions} :
       sessions' = Capped((sessions \ device)
                            \cup {[id |-> opened + 1, proof |-> proof, late |-> proof # chosen']})

Consumed(ts) == [t \in Token |-> IF t \in ts THEN "consumed" ELSE tokens[t]]

\* invalidateAllForUser: it waits for whoever holds one of the tokens.
Consumes(c, ts) == Unlocked(c, ts, Op) /\ tokens' = Consumed(ts)

\* invalidateAllForUser then create; of two that overlap neither sees the other's.
Issues(c, kind, replaced) ==
  /\ Cardinality(IssuedOf(kind)) < MaxToken
  /\ Unlocked(c, replaced, Op \ Issuing)
  /\ tokens' = [Consumed(replaced) EXCEPT
       ![[kind |-> kind, no |-> Cardinality(IssuedOf(kind)) + 1]] = "valid"]

-----------------------------------------------------------------------------
\* Use cases that read the row, compute the entity and write it back.

\* UpdateMyProfile, UploadAvatar, a refused RequestEmailChange, UpdateUser.
EditReads(c) == Exists /\ ~row.deleted /\ Reads(c, "edit", {}, 0)
EditWrites(c) ==
  /\ work[c].op = "edit"
  /\ Writes(c, work[c].row)
  /\ Ends(c)
  /\ UNCHANGED <<tokens, sessions, opened, chosen>>

DeleteReads(c) == Exists /\ ~row.deleted /\ Reads(c, "delete", {}, 0)
DeleteWrites(c) ==
  /\ work[c].op = "delete"
  /\ Writes(c, [work[c].row EXCEPT !.deleted = TRUE])
  /\ sessions' = {}
  /\ Ends(c)
  /\ UNCHANGED <<tokens, opened, chosen>>

RestoreReads(c) == Exists /\ row.deleted /\ Reads(c, "restore", {}, 0)
RestoreWrites(c) ==
  /\ work[c].op = "restore"
  /\ Writes(c, [work[c].row EXCEPT !.deleted = FALSE])
  /\ Ends(c)
  /\ UNCHANGED <<tokens, sessions, opened, chosen>>

\* PurgeUsers: the tokens and the sessions go with the row (ON DELETE CASCADE),
\* once no transaction holds one of them.
PurgeReads(c) == Exists /\ row.deleted /\ Reads(c, "purge", {}, 0)
PurgeWrites(c) ==
  /\ work[c].op = "purge"
  /\ Unlocked(c, Token, Op)
  /\ row' = NoRow
  /\ stale' = (stale \/ row # work[c].row)
  /\ tokens' = Consumed(Live)
  /\ sessions' = {}
  /\ Ends(c)
  /\ UNCHANGED <<opened, chosen>>

-----------------------------------------------------------------------------
\* Use cases that verify the password first and take the row FOR UPDATE after.

\* Login: the password is compared with the hash of an unlocked read ...
LoginReads(c) ==
  /\ Exists /\ Active(row) /\ row.password # 0
  /\ RequireVerification => row.verified
  /\ Reads(c, "login", {}, 0)

\* Mutant of LoginWrites: the row of the first read, with no second one.
LoginWritesFirstRead(c) ==
  /\ work[c].op = "login"
  /\ Exists /\ Active(row)
  /\ row' = work[c].row
  /\ chosen' = chosen
  /\ Opens(work[c].row.password)
  /\ Ends(c)
  /\ UNCHANGED <<tokens, stale>>

\* ... and succeed() re-reads the row; a rehash keeps the password it was given,
\* and the hash is deliberately not compared with the first read.
LoginWrites(c) ==
  /\ work[c].op = "login"
  /\ Exists /\ Active(row)
  /\ row' = row
  /\ chosen' = chosen
  /\ Opens(work[c].row.password)
  /\ Ends(c)
  /\ UNCHANGED <<tokens, stale>>

\* Mutant of Proven: the hash verified outside the transaction is trusted.
ProvenBefore(c) == Exists /\ Active(row)

\* The password verified outside the transaction is still the account's.
Proven(c) == Exists /\ Active(row) /\ row.password = work[c].row.password

\* ChangePassword keeps only the session it was asked from.
ChangeReads(c, s) ==
  /\ SignedIn(s) /\ row.password # 0
  /\ Reads(c, "change", {}, s.id)
ChangeWrites(c) ==
  /\ work[c].op = "change"
  /\ Proven(c)
  /\ chosen < MaxPassword
  /\ chosen' = chosen + 1
  /\ row' = [row EXCEPT !.password = chosen + 1]
  /\ sessions' = {[id |-> s.id, proof |-> chosen + 1, late |-> FALSE] :
                    s \in {s \in sessions : s.id = work[c].session}}
  /\ Ends(c)
  /\ UNCHANGED <<tokens, opened, stale>>

\* RequestEmailChange: the account waits, signed out, for the new address.
EmailReads(c, s) ==
  /\ SignedIn(s) /\ row.password # 0
  /\ Reads(c, "email", {}, 0)
EmailWrites(c) ==
  /\ work[c].op = "email"
  /\ Proven(c)
  /\ \E e \in Email \ {work[c].row.email} :
       row' = [row EXCEPT !.status = "pending", !.verified = FALSE, !.pending = e]
  /\ Issues(c, "email_change", LiveOf("email_change"))
  /\ sessions' = {}
  /\ Ends(c)
  /\ UNCHANGED <<opened, chosen, stale>>

-----------------------------------------------------------------------------
\* Use cases that e-mail a token: they invalidate the pending ones they see and
\* create theirs, which nobody else sees before the commit.

\* RequestPasswordReset and ResendVerification stamp the row they read.
ForgotReads(c) == Exists /\ Reads(c, "forgot", LiveOf("password_reset"), 0)
VerifyReads(c, s) ==
  /\ SignedIn(s) /\ ~row.verified
  /\ Reads(c, "verify", LiveOf("email_verify"), 0)
StampWrites(c, op, kind) ==
  /\ work[c].op = op
  /\ Exists
  /\ Writes(c, work[c].row)
  /\ Issues(c, kind, work[c].tokens)
  /\ Ends(c)
  /\ UNCHANGED <<sessions, opened, chosen>>

\* ResendAccessLink, once the last link is spent or expired.
ResendReads(c) ==
  /\ Exists /\ row.status = "pending"
  /\ ~Valid(Newest("access_link"))
  /\ Reads(c, "resend", LiveOf("access_link"), 0)
ResendWrites(c) ==
  /\ work[c].op = "resend"
  /\ Exists
  /\ Issues(c, "access_link", work[c].tokens)
  /\ Ends(c)
  /\ UNCHANGED <<row, sessions, opened, chosen, stale>>

-----------------------------------------------------------------------------
\* Use cases that redeem a token: consumed, then the row is read with no lock.

RedeemReads(c, op, t) == Redeemable(c, t) /\ Reads(c, op, {t}, 0)

\* Mutant of ResetWrites: the sessions are left to expire.
ResetWritesOnly(c) ==
  /\ work[c].op = "reset"
  /\ chosen < MaxPassword
  /\ chosen' = chosen + 1
  /\ Writes(c, [work[c].row EXCEPT !.password = chosen + 1])
  /\ Consumes(c, LiveOf("password_reset"))
  /\ Ends(c)
  /\ UNCHANGED <<sessions, opened>>

\* ResetPassword.
ResetWrites(c) ==
  /\ work[c].op = "reset"
  /\ chosen < MaxPassword
  /\ chosen' = chosen + 1
  /\ Writes(c, [work[c].row EXCEPT !.password = chosen + 1])
  /\ sessions' = {}
  /\ Consumes(c, LiveOf("password_reset"))
  /\ Ends(c)
  /\ UNCHANGED opened

\* SetPassword: the first access, or whenever the row says pending.
ActivateReads(c, t) == Exists /\ row.status = "pending" /\ RedeemReads(c, "activate", t)
ActivateWrites(c) ==
  /\ work[c].op = "activate"
  /\ chosen < MaxPassword
  /\ chosen' = chosen + 1
  /\ Writes(c, [work[c].row EXCEPT !.password = chosen + 1, !.status = "active",
                                   !.verified = TRUE])
  /\ Consumes(c, LiveOf("access_link"))
  /\ Opens(chosen + 1)
  /\ Ends(c)

\* ConfirmEmailChange; the unique index on email may refuse it (Abort).
ConfirmReads(c, t) == Exists /\ row.pending # NoEmail /\ RedeemReads(c, "confirm", t)
ConfirmWrites(c) ==
  /\ work[c].op = "confirm"
  /\ chosen' = chosen
  /\ Writes(c, [work[c].row EXCEPT !.email = work[c].row.pending, !.pending = NoEmail,
                                   !.status = "active", !.verified = TRUE])
  /\ Consumes(c, LiveOf("email_change"))
  /\ Opens(chosen)
  /\ Ends(c)

VerifiedWrites(c) ==
  /\ work[c].op = "verified"
  /\ Writes(c, [work[c].row EXCEPT !.verified = TRUE])
  /\ tokens' = Consumed(work[c].tokens)
  /\ Ends(c)
  /\ UNCHANGED <<sessions, opened, chosen>>

\* CancelAccessLink: one statement.
CancelLink(t) ==
  /\ t.kind = "access_link" /\ Redeemable(Job, t)
  /\ tokens' = Consumed({t})
  /\ UNCHANGED <<row, sessions, opened, work, started, chosen, stale>>

-----------------------------------------------------------------------------
\* email-change.revert: accounts waiting with no valid token, one update each.
RevertReads ==
  /\ Exists /\ row.pending # NoEmail
  /\ \A t \in LiveOf("email_change") : ~Valid(t)
  /\ Reads(Job, "revert", {}, 0)

\* Mutant of Reverted: the waiting address is kept.
RevertedStatusOnly(r) == [r EXCEPT !.status = "active"]

\* User.cancelEmailChange.
Reverted(r) == [r EXCEPT !.status = "active", !.pending = NoEmail]

RevertWrites ==
  /\ work[Job].op = "revert"
  /\ Writes(Job, Reverted(work[Job].row))
  /\ Ends(Job)
  /\ UNCHANGED <<tokens, sessions, opened, chosen>>

Expire(t) ==
  /\ Valid(t)
  /\ tokens' = [tokens EXCEPT ![t] = "expired"]
  /\ UNCHANGED <<row, sessions, opened, work, started, chosen, stale>>

\* Logout, RevokeDevice, RevokeOtherDevices, and sessions past their time.
SignOut(kept) ==
  /\ kept # sessions
  /\ sessions' = kept
  /\ UNCHANGED <<row, tokens, opened, work, started, chosen, stale>>

\* A refusal, an error or the end of the process: the transaction rolls back.
Abort(c) ==
  /\ work[c] # Idle
  /\ Ends(c)
  /\ UNCHANGED <<row, tokens, sessions, opened, chosen, stale>>

Request(c) ==
  \/ EditReads(c) \/ EditWrites(c)
  \/ DeleteReads(c) \/ DeleteWrites(c)
  \/ RestoreReads(c) \/ RestoreWrites(c)
  \/ PurgeReads(c) \/ PurgeWrites(c)
  \/ LoginReads(c) \/ LoginWrites(c)
  \/ \E s \in sessions : ChangeReads(c, s) \/ EmailReads(c, s) \/ VerifyReads(c, s)
  \/ ChangeWrites(c) \/ EmailWrites(c)
  \/ ForgotReads(c) \/ StampWrites(c, "forgot", "password_reset")
  \/ StampWrites(c, "verify", "email_verify")
  \/ ResendReads(c) \/ ResendWrites(c)
  \/ \E t \in Live :
       \/ t.kind = "password_reset" /\ RedeemReads(c, "reset", t)
       \/ t.kind = "access_link" /\ ActivateReads(c, t)
       \/ t.kind = "email_change" /\ ConfirmReads(c, t)
       \/ t.kind = "email_verify" /\ RedeemReads(c, "verified", t)
  \/ ResetWrites(c) \/ ActivateWrites(c) \/ ConfirmWrites(c) \/ VerifiedWrites(c)

Next ==
  \/ \E c \in Call : Request(c)
  \/ \E t \in Live : CancelLink(t)
  \/ RevertReads \/ RevertWrites
  \/ \E t \in Token : Expire(t)
  \/ \E kept \in SUBSET sessions : SignOut(kept)
  \/ \E c \in Call \cup {Job} : Abort(c)

Spec == Init /\ [][Next]_vars

\* Time passes, the cron fires, and the database does not fail every run of it.
FairSpec ==
  /\ Spec
  /\ WF_vars(\E t \in Token : Expire(t))
  /\ WF_vars(RevertReads)
  /\ SF_vars(RevertWrites)

-----------------------------------------------------------------------------
\* An e-mailed token is redeemed by at most one use case, whatever runs
\* alongside it (consumeByHash: "consumo atomico single-use").
TokensSpentOnce ==
  [][\A c \in Call :
       (work[c].op \in Redeeming /\ <<row, tokens>>' # <<row, tokens>> /\ work'[c] = Idle)
         => work[c].tokens \subseteq Live]_vars

\* Unless a commit wrote over what another had changed, the account has the
\* password its owner chose last.
PasswordKept == stale \/ (Exists => row.password = chosen)

\* Whoever was in with an older password is out after a reset, a change or a new
\* activation, except a sign-in that had verified it before the commit.
OldPasswordsAreSignedOut == stale \/ \A s \in sessions : s.late \/ s.proof = chosen

\* An e-mail change is started, and a password replaced from within, only by who
\* knows the password in force (the re-read under lock), unless it was restored
\* by a write over newer columns.
ChangesAreProven ==
  [][\A c \in Call :
       (work[c].op \in {"change", "email"} /\ row' # row /\ work'[c] = Idle)
         => (stale \/ work[c].row.password = chosen)]_vars

\* A lockout by a mistyped address is bounded (RevertExpiredEmailChangesJob).
ChangeWaiting == Exists /\ row.pending # NoEmail
ChangeEnds == ChangeWaiting ~> ~ChangeWaiting
=============================================================================
