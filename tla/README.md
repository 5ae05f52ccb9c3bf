# Verification of the platform template

TLA+ models of the parts of this repository whose correctness depends on the
order in which things happen: the kernel of the API (`apps/api/src/shared/kernel`)
and the modules of the catalogue (`catalog/`) that run on it. The source is the
reference: each definition is translated from code, and `PROJECT.json` (`map`)
names the lines it stands for.

    tlasany M.tla                              parse a module
    tlc -workers 2 -config MCOutboxSlow.cfg MCOutbox.tla
    tlapm MessagingProofs.tla                  check the proofs of a module

## 1. The system

The template is a NestJS modular monolith on PostgreSQL (through Drizzle) with
Redis as an option, several identical API processes, two web shells, and
`.mjs` scripts that install modules into a product and cut releases. Within one
process JavaScript is single-threaded, so a step runs from one `await` to the
next; what interleaves is the database statements of all processes. A use case marked `@Transactional()` is
one READ COMMITTED transaction: its reads see what others committed before each
statement, and a row it read without `FOR UPDATE` may have changed when it writes.

| Component | State it keeps | Operations | Talks to |
|---|---|---|---|
| Transactional outbox (`kernel/outbox`) | `outbox`, `outbox_dead`, `processed_events`, and the batch of each dispatcher in memory | publish in the caller's transaction, claim under a lease, emit, mark, retry, dead-letter, purge, replay from the command line | every module that publishes or listens to an event |
| Idempotency keys (`kernel/idempotency`) | `idempotency_keys` | reserve, reopen, complete, fail, clean up | the HTTP handlers it wraps |
| Notification delivery (`notification/.../delivery`) | `notification_deliveries` | enqueue, claim, send, mark, give up, purge | the feed (same transaction), the mail provider |
| Notification feed (`notification`) | `notifications` | insert on an event, mark seen/read/archived, bulk marks | outbox (input), SSE connections (output) |
| Identity (`identity/single-tenant`) | `users`, `verification_tokens`, `sessions`, `devices`, `auth_events`, the permissions of accounts and of templates | sign-in, password and e-mail changes, e-mailed links, administration, the job that reverts e-mail changes | outbox (its e-mails), idempotency, maintenance jobs |
| Maintenance jobs (`kernel/scheduling`) | one advisory lock and one dedicated connection per run | cron and manual runs | every purge and revert above |
| Transactions and pool (`kernel/transactional`, `infra/database`) | the current transaction and its callbacks, the pool's connections | run, nest, leave, run after commit, refuse | everything |
| Rate limiter (`kernel/rate-limit`, `infra/rate-limit`) | sliding windows in Redis, stand-ins in memory | consume, reset, fall back, recover | guards, sign-in |
| Realtime (`notification/.../realtime`) | open SSE connections | publish, relay through Redis, close | the feed |
| Attachments (`attachment`) | rows, access lists, objects in S3 | upload, confirm, download, delete, purge of the pending | object storage, maintenance |
| Tags (`tag`) | `tags`, of which some are in the trash | create, edit, stash, restore, purge | outbox, the modules that link to tags |
| Professionals, audit | a few tables each | link, list | identity |
| Release lease (`scripts/platform`) | a lease file shared by worktrees, a marker commit, a tag | acquire, update, reconcile, release, freeze | git, the GitHub API |
| Module catalogue (`scripts/platform`) | `platform-modules.lock`, the files and the registry of a checkout | add with dependencies, roll back, adopt | git, drizzle-kit, the journal |
| Migrations (`apps/api/src/db`, `lefthook.yml`) | the journal in each tree, on main and in each environment | generate, check before a push, migrate | the catalogue, main of origin |

### What is hard in it

* **Leases without fencing.** The outbox and the delivery queue claim a batch with
  one `UPDATE` that moves `next_attempt_at` and release it by a later
  `UPDATE ... WHERE id`. A batch that outlives its lease is claimed again and two
  dispatchers settle one row.
* **Read, then write every column.** `DrizzleUserRepository.update` and
  `DrizzleNotificationRepository.update` write back an entity read earlier.
  Which use cases read it again `FOR UPDATE` decides what survives an overlap.
* **Read from the trash.** A tag is read, judged and written or deleted by its id, whatever others have made of it
  meanwhile; modules that link to it hear only of its purge.
* **Judged by what was read.** What an administrator may change is judged by permissions read at the
  start of the request and before the row is locked.
* **At-least-once against exactly-one effect.** An event or a request is delivered
  again after a crash, an error or a lost answer; `processed_events` and the key's
  row must make the effect happen once, across statements that are not one
  transaction.
* **Redaction.** A terminal status masks the payload in place, while others may
  still hold the row from before, and a replay may bring it back.
* **Single-use tokens.** Every e-mailed link may be opened twice, expire under the
  request or be replaced by another.
* **Two flows, one status.** `pending` stands for an invited account and for one
  that waits for its new address.
* **Two stores, no transaction.** An attachment is a row and an object; a crash, a
  failed call or the purge may leave one without the other.
* **A lock in a session of its own.** The advisory lock of a job ends with a
  connection the job does not work on.
* **One connection per transaction.** Who asks for a second one with one in hand can
  stop the process.
* **Two clocks.** The window in Redis is computed by the caller's clock and expires by
  that of Redis.
* **Judged, then written.** The release lease is a file that is read, judged by what
  the network answers, and written or removed later.
* **An order that is only numbers.** The migrator runs what is newer than the newest it has
  run, and the `when` of an entry is the clock of whoever generated it.
* **Four records, no transaction.** Adding a module writes files, registry, journal and lock
  in turn, with other programs in between that may fail; a rollback takes them back one by one.
* **Committed, and not known.** A statement may commit and its answer be lost; a `catch` that takes it for
  one that failed writes over what is already settled.
* **Jobs that must end a state** (orphan keys, waiting e-mail changes, deliveries)
  however processes die.

`PROJECT.json` (`hazards`) lists each at its line with the properties that watch it.

### What makes each part correct

* Outbox: no committed event is lost; `published` means every listener committed;
  an effect happens once; only what failed `MAX_ATTEMPTS` times is dead; every
  event is settled.
* Idempotency: one execution of a key at a time, one effect while the key lives,
  answers that belong to the payload, stable snapshots, no key stuck.
* Delivery: no masked message mailed, `sent` means accepted,
  `dead_letter` means tried, every delivery settles.
* Feed: only a request that overlapped
  another write of its item loses stamps.
* Accounts: a token is redeemed once; who replaces a credential proves the one in force;
  older credentials are out; a waiting e-mail change ends.
* Permissions: a set is one request's, whole; an edit is within what its actor has.
* Attachments: a confirmed row has its object, and every object that failed nothing has a row.
* Maintenance: one body of a job at a time, no lock or connection left behind.
* Transactions: a callback runs after its own commit and never after a rollback; no
  request waits with a connection in hand.
* Rate limiter: no more than the limit in a window, whichever limiter answered.
* Migrations: an environment runs every entry of its journal, once.
* Catalogue: the lock says what is in the tree, so that a rollback removes what was added.
* Tags: the trash holds what was meant for it, and what is gone is what was announced.
* Release: one session cuts, one release runs, the lease claims nothing that is not so.

## 2. Modules and how they correspond to the code

| Module | Models | Checked by |
|---|---|---|
| `Outbox` | `outbox.dispatcher.ts`, `outbox.publisher.ts`, `processed-events.repository.ts`, `db/outbox-replay.ts` | `MCOutbox`, `MessagingProofs` |
| `OutboxPromise` | what producers and consumers rely on: no dispatcher, lease or retry in it | `Outbox` implements it (`PromiseSpec`) |
| `Idempotency` | `idempotency.interceptor.ts`, `.repository.ts`, `.cleanup.ts` | `MCRequests`, `RequestsProofs` |
| `Delivery` | `delivery.dispatcher.ts`, the delivery repository, the enqueueing handler, the purge | `MCNotifications`, `MessagingProofs` |
| `NotificationFeed` | the feed's use cases, repository and event handler | `MCNotifications`, `MessagingProofs` |
| `Accounts` | the identity use cases that write the account, its tokens or its sessions | `MCAccounts`, `AccountsProofs` |
| `Permissions` | `access-policy.ts`, the middleware that reads the actor's access, and the use cases that write accounts with their permissions, or templates | `MCAdministration`, `AdministrationProofs` |
| `Attachments` | uploads, confirmation, avatar, deletion, the purge of pending rows, the storage | `MCAttachments`, `AttachmentsProofs` |
| `Maintenance` | `maintenance-runtime.ts`, `advisory-lock.ts`: the attempts of one job in all processes | through `Sessions` |
| `ManagedClient` | `managed-dedicated-client.ts`: the LISTEN client of one process | through `Sessions` |
| `Sessions` | composes the two in `dedicated-client.factory.ts`, the shutdown and the exit | `MCConnections`, `ConnectionsProofs` |
| `Transactions` | `transaction-manager.ts`, `application-pool.ts`, the context of the audit trigger | `MCConnections`, `ConnectionsProofs` |
| `RateLimiter` | the Lua window, `in-memory-rate-limiter.ts`, `resilient-rate-limiter.ts` | `MCRequests`, `RequestsProofs` |
| `Release` | `release.mjs`, `release-lease.mjs`, `release-freeze-guard.mjs` and what `release.yml` does | `MCRelease`, `ReleaseProofs` |
| `Journal` | `check-journal.ts`, `migrate.ts`, the pre-push hook, and what git does to the journal | through `Catalogue`, `CatalogueProofs` |
| `Catalogue` | `module add`, its rollback and `module adopt`: `add.mjs`, `apply.mjs`, `migrations.mjs`, `adopt.mjs` | `MCCatalogue`, `CatalogueProofs` |
| `Tags` | the use cases, the repository and the index on names of `tag` | `MCAdministration`, `AdministrationProofs` |

Conventions. An action is a database statement, a transaction, or the step between
two of them; its name is the function's where there is one. Tables are functions to a
row or a null value, what a process holds in memory is a variable per process,
history variables (marked `history`) record what a property needs and the code does
not keep; no guard reads them but to bound a counter, to create an event once, and
to number the next password (`chosen`). The definitions called a mutant say what a
slip in the code would do; no specification uses them.

* **Time** is abstracted to the comparison made: a row is `due` when
  `next_attempt_at <= now()`, a key or a token `expired` when its date has passed.
  `Elapse`, `Expire` and `TokenExpires` may happen at any moment, so every length of
  lease, backoff and life is covered. Only `RateLimiter` counts ticks, as its windows
  are arithmetic.
* **A statement whose answer is lost** is committed and raises an error. Where the `catch` goes on to write,
  the action of the failure has a disjunct in which the statement took effect: `MarkFails` of `Outbox` and `Delivery`,
  `CompleteFails`, `InsertBatchFails`, the transactions of handlers (`HandlerInDoubt`), the `COMMIT` of
  `ConnectionLost`. Elsewhere nothing but the client's answer follows, and the step is that of the success
  followed by the end or the crash of whoever made it. `unheard` are the rows it happened to.
* **Payloads** are abstracted to whether they are still the original or masked
  (`redacted`); hashes and passwords to their identity.
* **Outbox.** `Worker` is the dispatcher of a process. `pc` is the place in
  `runBatch`/`processRow`: claim, emit, mark, and on failure the update or the
  insertion in the dead letter table followed by the deletion, as separate
  statements. `emitAsync` starts all handlers: when one throws, the others run on as
  `strays`. A consumer's transaction commits `markIfNew` and its effect together.
* **Idempotency.** One key: statements address one row, so keys are independent.
  `pc` follows `process` and `execute`; a handler or a completion may have committed when its error
  is handled; the answer `select` gives may be stale when
  `reopen` runs.
* **Delivery.** As the outbox, with the batch sent one after the other under one lease
  and the call to the provider between two statements.
* **Accounts.** A use case is its read (`...Reads`) and its commit (`...Writes`); what
  is locked (`FOR UPDATE`, or a token consumed at the start) makes others wait.
  Sign-in, password change and e-mail change re-read the row under lock, so what
  follows that read is one step. `Writes` writes every column back and sets `stale` when the row
  had changed since. `Abort` is any refusal, error or death before the commit.
* **Permissions.** An update is its read, the row, the deletion and the insertion; a creation, which nobody sees
  before its commit, is one step. `last` is what was last asked for a subject. All guarded routes ask for one key.
  The restore and the purge of several accounts are those of one.
* **Attachments.** An action is one call to the storage or one transaction. Sizes are
  small numbers, so that the quota is arithmetic and its overshoot can be counted.
  `waived` and `putBack` name the attachments whose loss the code accepts.
* **Sessions.** `session` is the state of an attempt's connection in the database, which
  outlives the process until it is reaped; `live` is the factory's list. An action of
  `ManagedClient` runs to the next `await` of `connect`, `drop` or `end`, so that events,
  requests and the shutdown meet it there. An `error` may come while the session stands (`Errs`) or after it was
  lost (`Lost`, then `Invalidate`): after the first, `drop` has a live session to end before the next is created.
* **Transactions.** `held` is the connection of a request, `scopes` its open
  transaction and savepoints, each with the callbacks and the audit entries that wait
  for it. A nested run that joins its scope is a call like any other. `order` is the history of which change
  was made before which. The queue is
  that of pg-pool, reconstructed from how `application-pool.ts` uses it.
* **RateLimiter.** A request is stamped, sent, executed by Redis in the order of
  arrival, and its answer may be lost; so is the reset of a sign-in.
* **Release.** A step ends where a command waits for the network or for another
  program; what happens between two waits is one step, as the sessions of a clone run
  there without interruption for microseconds. `strayed` names what the order of
  things did not survive (section 4). The commit of a marker may be refused, as its status is not read, and
  any failed run may be run again.
* **Journal.** A journal is a sequence of entries; their `idx` is their position. `published` is
  every journal main of origin has had, so that an environment may be migrated to any
  version after its own. An entry comes with any `when`, at the end or, with an update of the
  template, among the others; a merge may put the entries of both sides in any order that
  keeps each side's. What the check suggests (`Restamped`) may be applied. `Deploy` is one migrator at a time. Each replica runs it at its
  start (`docker-entrypoint.sh`), under a lock of drizzle's by the word of `migrate.ts:23`; drizzle is not in
  `src/`, so a double run is outside the model: `applied` is a set and would not show it.
* **Catalogue.** A step ends where a command waits for git, drizzle-kit or pnpm. `known`
  is the lock as the command read it, from which it writes. The custom migrations of a module are one.
  `of` in an entry is the module it was generated for. Between two waits a command writes file after file, and may die
  there: `AddDies` among copied files, lock and registry, `AddCustom` with its stub written, `RollbackDiesEarly` among the
  files of migrations, `RollbackDies` after the journal, among the module's files, before the lock or before the
  registry (`apply.mjs:217-235`). `halfway` are the modules whose rollback died like that, until they are
  rolled back or added again. A child process that was killed has no status and counts as one that succeeded
  (`migrations.mjs:26`), so no check of drizzle or of the journal is a guard of the step behind it.
* **Tags.** Of a batch, only what it does to each tag matters: ids without a row, and live tags a restore leaves
  out, are not in it. `saved` are the rows a restore has written and not committed; an uncommitted name
  is waited for. `asked` is what the last to create, stash or restore a tag meant for it.

## 3. Runs

| Run | Question | Instance |
|---|---|---|
| `outbox_lease` | With batches inside their lease, does the outbox keep its promise? `DeadWereExhausted`, `PromiseSpec` | 2 dispatchers, 2 events of one aggregate (one without a listener), 3 consumers of which one is suppressed, 2 attempts, 2 faults, each a crash, a failed statement or a lost answer |
| `outbox_slow` | And when batches outlive it and an operator replays? `EffectOnce`, `EffectsSeeOriginal`, `EventuallySettled` | 2 dispatchers on 1 event, 1 fault, 2 replays |
| `idempotency` | Does a key stand for one execution and one answer, and is it never stuck? `OneExecution`, `NoRepeatedEffect`, `AnswersMatchPayload`, `OrphanIsReclaimed` | 3 deliveries of a call and a second payload, 1 crash, 1 statement that fails or loses its answer |
| `notifications` | Does the outcome of a delivery say what happened, does it settle? `OutcomeIsTrue`, `DeliverySettles`. And what survives overlapping marks of the feed? `StampsOutliveRequests` | 2 dispatchers, an e-mail with a link in a batch that may be slow, a push without a port, 1 fault; or 2 requests, 2 events, 4 clock readings |
| `accounts` | Do passwords, tokens and address changes hold under overlapping requests? `PasswordKept`, `OldPasswordsAreSignedOut`, `TokensSpentOnce`, `ChangesAreProven`, `ChangeEnds` | 2 overlapping requests and the job, 2 passwords, 2 tokens per kind, 5 requests, a cap of 1 session |
| `administration` | Whose set of permissions is it, and who may change it? `SetsAreWhole`, `EditsAreWithinReach`. And is the trash of tags what was meant for it, and a purge what was announced? `TrashIsMeant`, `GoneIsAnnounced` | 2 requests, the master, 2 accounts, 2 templates, 3 keys of 2 modules, one of which requires another; or 2 requests at a time and 6 in all on 3 tags with 2 names |
| `attachments` | Do rows and objects stay together? `RowsKeepTheirObject`, `AvatarIsServed`, `PendingIsBounded`, `NoObjectLeaks` | 2 requests in one process, 3 uploads, 2 files a batch of 1 byte at most, 2 uploads at a time over a quota of 0, 1 fault |
| `sessions` | One body at a time, and no lock or connection left behind? `OneRun`, `NoSpareSession`, `LockIsFreed`, `ClientRecovers` | 2 processes, an attempt in each, the client of one over 2 connections, 2 losses or errors |
| `transactions` | Can requests starve each other, and do callbacks and audit entries follow the commit? `HoldersNeverWait`, `HooksFollowCommit`, `AuditNamesTheMaker`, `HooksRun` | 1 connection, 2 requests and a handler without a context, 2 changes, 1 may wait, a savepoint, 1 fault |
| `rate_limit` | Is the limit kept, whoever answers? `LimitIsKept`, `RetryIsEnough` | 2 overlapping requests, 2 critical keys and an open one, limit 1, a window of 2 seconds in 4 ticks, room for 1 key in memory, 3 decisions or resets |
| `release` | One owner of a cut, one release at a time, no claim that is false? `CutterHoldsLease`, `OneLiveRun`, `StageIsTrue` | 2 sessions in one clone or in two, 2 versions, 3 commits |
| `catalogue` | Does every migration run where it is deployed, and does the lock say what is in the tree? `EachEntryRuns`, `LockIsTrue` | 2 clones, commands in one of them, 2 modules of which one needs the other and ships its own SQL, 2 entries beside the baseline, 2 pushes |

`notifications` and `administration` check two modules each that share no state: the initial state says which of
the two a behaviour is of (`part`), and the other stands still. `MCNotifications` extends `Outbox`, whose consumer
fills both; there it stands still too. `MCRequests` and `MCConnections` hold two unrelated modules as well,
and each of their two runs moves one of them.

**Bounds.** Two processes and two requests are enough for what the code makes depend on
another actor: each statement conflicts with one other holder of the row, and the
proofs of section 5 remove the bound for the safety properties they state. Two attempts show a retry
and an exhaustion; one fault puts a crash or a failed statement at every place
(two in `outbox_lease` and `sessions`, so that a second one meets the recovery of the first); three
deliveries of a call give two retries that race to reopen a failed key. A
session cap of 1 makes every second sign-in evict; one connection makes every second
request wait; a limit of 1 makes every second request refused, and 3 ticks take a window
past its end; three commits are two markers and what lies between them, or two of a failed
version. Six requests on tags are those that bring a tag into the trash and two that dispute it there, beside another tag that takes its name. Attempts, passwords, tokens, sessions, requests, faults, replays, commits, decisions, entries, pushes and the clock are
the only bounded counters; each bound is a constant named `Max...`. Symmetry is used only in runs with no
liveness property. `release` and `catalogue` stop behind a state that has strayed (`InOrder`): `strayed` only
grows and each invariant of the two runs excuses it, so nothing that could violate one is cut off. `catalogue` follows what died
in the middle further for one module at a time and before anything is published (`Followed`); the state in which
it has died is always checked, and the proofs have no such bound. Two uploads admitted at once on one reading of the quota are the race
`PendingIsBounded` is about. In
`catalogue` two entries beside the baseline are one that an environment has run and one that comes late,
and two pushes let each clone meet what the other has published.

**Deadlock** is not checked where producers, clients and operators owe nothing: such a
system comes to rest when its bounded input is used up. That work in hand
is never left for ever is what `EventuallySettled`, `OrphanIsReclaimed`,
`DeliverySettles`, `ChangeEnds`, `LockIsFreed`, `ClientRecovers` and `HooksRun` state.

**Fairness.** Each dispatcher is polled by an interval and its promise chain goes on
(`WF` of its step), a process that died is started again, time passes (`WF` of
`Elapse`, `Expire`), the nightly cleanup runs. A handler is assumed to return: the
code gives it no time limit. A request goes on while its process lives; nobody has
to send one. The revert job's write is strongly fair: a run may be undone by a
failing database, not every run. In `Sessions` an attempt goes on and its body ends, the
database reaps the sessions of the dead, and the poll of the outbox asks for its client every
second. In `Transactions` a body may open savepoints as often as it likes, so its end is
strongly fair. No fairness is assumed of producers, users,
operators, faults or the retention purges of the outbox.

## 4. What was found

Where the code does not keep what one would expect, the model holds it as a history variable, a
constant or an exception that a property names:

* **Listeners.** The one listener of the product is registered with `@OnEvent` and its defaults
  (`notification-requested.handler.ts:62`, `app.module.ts:22`): the wrapper of `@nestjs/event-emitter` logs
  what the handler throws and resolves, `emitAsync` resolves and the row is marked published, where the handler's
  own comment (line 78) and `notification-requested.handler.int-spec.ts:158` expect a retry. The tests register
  with `emitter.on`, which does not wrap. Such consumers are `Suppressed`; `PublishedWereHandled` and `PromiseSpec` are about the others.
* **Accounts.** `UserRepository.update` writes every column read earlier, without a lock
  (`drizzle-user.repository.ts:341`): an edit of a profile that overlaps the choice of a password
  writes the old hash back (`stale`). An access link sent to an account that waits for its new
  address takes `pending` for an invitation (`resend-access-link.use-case.ts:58`) and activates it with the
  change still waiting. The revert does not restore `emailVerified`, so with
  `REQUIRE_EMAIL_VERIFICATION` the account stays locked out. Overlapping reset requests leave two live
  links (`Issues`), where the use case's comment says one.
* **Permissions.** `users.update` writes the profile as it was read as well (`overwritten`): in a product with a
  second profile, an edit of one's name (which, says `user.entity.ts:231`, does not touch it) that overlaps an administrator's keeps the new permissions and puts back
  the old profile, whose floor they need not meet. Who saves themselves unchanged while another edit of them
  commits writes the old set back, where `update-user.use-case.ts:23` refuses any change of one's own. A purge deletes by id an account that was
  restored after it was read.
* **Feed.** `update` writes three stamps from an earlier read (`drizzle-notification.repository.ts:49`):
  of two requests on one item the later commit erases what the earlier one wrote.
  `StampsOutliveRequests` is the part that holds.
* **Idempotency.** `complete()` runs inside the handler's `try` (`idempotency.interceptor.ts:180`);
  when it fails the key is marked failed after the effect committed, and a retry repeats it. So it is when it
  commits and its answer is lost: the catch writes `failed` over the completed snapshot (`SnapshotIsStable` names this
  step), and when the handler's own `COMMIT` loses its answer. A request that
  outlives its key may close the reservation of another payload.
* **Outbox.** Dead events keep their masked payload and a replay hands it to consumers
  (`EffectsSeeOriginal` holds without a replay only); a replay that selects a dead event while
  it is buried again removes it (`NoEventLost` holds without one). When the update that marks a row published commits and its answer is lost, the
  catch (`outbox.dispatcher.ts:255`) counts a failure. The retry moves `attempts` and
  `next_attempt_at` of a row that stays published; at the last attempt the row is buried though it was handled and
  published. `OutboxPromise` allows that for the events of `unheard` alone.
* **Delivery.** The same at `delivery.dispatcher.ts:191`: the row is `sent` and masked, the catch sets it to `failed`,
  and the next attempt mails the masked payload. `OutcomeIsTrue` excepts a lease that was outlived (`overrun`) and
  this (`unheard`).
* **Attachments.** The purge deletes the object of a stale pending upload before its row; one confirmed in
  between stays `ready` without an object.
* **Rate limiter.** `lua-scripts.ts` says the limit "nunca é excedido"; a request that reaches Redis after a
  later-stamped one, or after the expiry of a set its own window still counts, exceeds it (`late`). A key that is
  not critical goes through in an outage. A sign-in that cannot reach Redis resets the window in memory only, and
  finds what was counted before when Redis is back.
* **Tags.** An edit that overlaps a stash takes the tag out of the trash again (`revived`): `save` writes `deletedAt`
  as it was read. A purge deletes by id a tag that was restored after it was read, where `purge-tags.use-case.spec.ts:55`
  expects a refusal; two purges of a tag announce it twice.
* **Release.** `strayed` names nine orders the lease does not survive. `forced`: `--force` took it. `raced`:
  `acquireLease`, `reconcileFinishedLease`, `reconcilePushedMarker` and the freeze guard act on a lease read before
  they asked the network, and replace or remove another one. `blind`: without `gh` the marker
  on top of origin is all that stops a second cut, and main may have moved past it. `carried`: until
  `updateLease` has run after `git commit` the lease is a draft, which stops nobody, and the push of another session takes the marker along. `wiped`: a commit that
  lands while `--abort` waits for origin is what its `git reset --hard HEAD~1` drops. `recut`: the version's
  tag is looked for before the runs are listed. `pulled`: origin and the runs are looked at before the preflight
  (`release.mjs:426`), which takes minutes, and the marker is committed on what main is after it (`:486`); a `git pull`
  of another session in between brings the marker of another clone under the new one, and both runs are live. It
  takes three sessions and was found by the proof of `OneLiveRun`, not by the run. `uncommitted`: the status of `git commit`
  is not read (`release.mjs:487`), so what a hook or a missing identity refused is taken for the marker, whatever commit
  is on top. `rerun`: a failed run is run again after main has moved, which
  `docs/platform/release-coordination.md` advises against and nothing prevents. Also, `--abort` of another session's stale draft passes
  its check, is refused by `releaseLease` and reports the lease as given back (`release.mjs:659`), where
  `docs/platform/release-coordination.md:63` says it takes over (`Abort`).
* **Migrations.** The rule compares with the newest of main, not with what an environment has run: when the newest
  entry is withdrawn from main (`lowered`), or a new baseline waives the rule (`reset`), one born later may be older than
  what has run and is skipped. The hook checks the working tree and git pushes the commit (`unsaved`).
* **Catalogue.** A generation that fails leaves its module in the lock with `migrations: []` (`add.mjs:410`) and the
  entries it made in the journal (`unlisted`), so `--rollback` does not take them, where
  `docs/dev/template-changelog.md:391` says that it unwinds a failed `--with-deps`. `raced`: lock and registry are
  written from a lock read before the network was asked, and what is after the entries counted is taken for
  drizzle's. A rollback that dies when the migrations are gone leaves its module registered, and locked without
  files or not locked (`halfway`): in the second case `--rollback` finds nothing to revert (`add.mjs:167`) and the registry keeps importing what is
  gone, until the next command that writes it. `adopted`: adopting a module over its own entry empties its list. A rollback removes modules others
  still need, with `--with-deps` also what it shares with them.

## 5. Proofs

The theorems hold for every number of processes, events, requests, accounts, keys, tokens, attempts, connections, clones, commits and faults.

* **`MessagingProofs`**. Of `Outbox`: `TypeCorrect`: the types, strengthened by the fact that a
  dispatcher that processes a row holds a claim. `PublishedCorrect`: published rows were
  handled by every listener whose errors reach `emitAsync`. Invariant `HandledSoFar`: for a
  dispatcher past its emission, every listener it no longer waits for has
  committed; `processed_events` only grows, so stale dispatchers and replays cannot undo it.
  `EffectCorrect`: `markIfNew` and the effect are one transaction, so the count follows
  the set. `NothingLost`: without operators, a row is deleted by a dispatcher
  only after its insertion in the dead letter table (`DeadLetterFirst`).
  `DeadExhausted`: neither a row nor what a dispatcher remembers of one counts more attempts than failed
  (`AttemptsFailed`). `OriginalSeen`: until a replay only published rows are masked, and nothing in memory or left
  running was read masked (`NothingMasked`). `PromiseKept` is the refinement of `OutboxPromise`, with two
  hypotheses that the code needs. No batch outlives its lease (`LeaseCoversBatch`): a stale dispatcher may bury a row
  that another has published. There is no replay: it brings back an event that is gone. Under
  them the lease is a lock: a claimed row stays open, under one claim of one dispatcher (`LeaseIsLock`), unless it was
  published unheard. Each action is then one step of the promise or none.
  Of `Delivery`: `OutcomesAreTrue`, from `MailInv`. Its parts: no row and no claim counts more tries than
  failed, and a claim has one left (`MailCounts`), so the last failure a dispatcher records is the last the code allows;
  what it is about to write has happened (`MailSteps`); and, until the lease of a row ends under a
  dispatcher or the answer to its `sent` is lost, the row has one holder, waits for it and is not masked (`MailLocks`). The last is what keeps masked payloads
  from being mailed, and it needs that the rows of a batch are different ones (`MailBatches`).
  Of `NotificationFeed`: `StampsAreKept`, an action property, from `FeedInv`: what a request is about to write has all
  stamps of what it read, and an item is only of an event that was handled, so no redelivery makes it anew.
* **`RequestsProofs`**. Of `RateLimiter`: `LimitStands`, `RetryStands`, from `LimiterInv`, by counting events. That
  Redis admits no more than the limit in any window needs what its ZSET no longer has: an admission that
  left it is either out of the window of one that is there, or older than all of a full ZSET (`Left`), so what is
  counted at the next admission is all that counts (`WindowSlides`). A late request breaks just that. The
  window in memory has a bound of the same shape, in which what was forgotten since is made up for by the limit
  once more (`Stood`): the admissions of the last window exceed what is still in memory by
  no more than the limit per loss. Retry-After needs no condition: of the events in the window fewer than the limit are left
  when its seconds are over (`Waits`), and no refusal adds one.
  Of `Idempotency`: `CallTypesStand`, `ExecutionIsExclusive`, `AnswersAreFaithful`,
  `SnapshotsAreStable`, `EffectIsNotRepeated`. The invariant `CallInv` holds until a request
  outlives its row: whoever executes owns a row in progress with its hash, a
  request about to look or reopen has seen the row it finds, and a snapshot is its
  payload's. `OneExecution` alone is not inductive: without the ownership of the
  row two retries could both reopen it. `SnapshotsAreStable` needs that whoever writes `failed` over a completed
  snapshot wrote that snapshot itself.
* **`AccountsProofs`**. `TokensAreSpentOnce`, `PasswordIsKept`, `OldPasswordsSignedOut`,
  `ChangesProven`, from one invariant (`AccountInv`) in four parts: `Shape`; what
  a use case checked of the row it carries (`AllChecked`); `Locks`, that who redeems a token holds it alone and
  unconsumed; and, until a commit overwrites newer columns, `Fresh`: the row
  has the last password, a pending account has no session, and every session is of
  that password or late. That a pending account is signed out is what makes
  activation safe, which keeps the sessions there are: the
  two properties about passwords are not inductive without it.
* **`AdministrationProofs`**. `SetsStayWhole`, `EditsStayWithinReach`, from `PermInv`: a row has one writer
  (`LocksAreAlone`), so what it deleted is all there is when it inserts (`ClearedIsAll`), and what it writes was
  checked against the set it read (`AllChecked`). `TrashIsAsMeant`, `PurgesAreAnnounced`, from `TagsInv`: what a
  request read has been a row (`ReadsWereRows`), so what a purge announces without finding it was removed by another,
  and announced then; and nobody removes a row that a restore has saved and not committed (`SavedAreRows`).
* **`AttachmentsProofs`**. `Ownership`, `AvatarServed`, `ObjectsKept`, `NothingLeaks`, `QuotaBounds`. `Ownership` is the inductive
  invariant the others share. Its core is `PrivateIsPrivate`: an id a request drew is in nobody else's keys,
  row or target until it is inserted, so no purge, deletion or discarded batch can take its object. Around it:
  the keys of a batch are never an avatar's (`KeysAreFiles`), what is removed was asked for (`RemovalsAreMeant`),
  the purge sees files of a day (`PurgeScope`), and the avatar stands until its user is given another
  (`AvatarStands`). `NothingLeaks` needs who owes an object its row or its removal (`ObjectsAreOwed`), as an
  object without a row is no leak while a request holds its key. `QuotaBounds` counts the bytes of the pending rows as
  a set, byte by byte, so that sums are cardinalities. The uploads in progress hold a slot each (`SlotsAreHeld`), a batch holds no more
  than the bytes a request may bring (`BatchesFit`), and what is pending with all the room still to be used stays within
  quota and slots (`QuotaKept`), because who is admitted read less than the quota.
* **`ConnectionsProofs`**. Of `Transactions`: `NobodyWaitsHolding`, `TrailIsTrue`, `HooksInOrder`. Who is in the queue is at a step that waits
  (`QueueWaits`), at which it has no scope (`Tidy`), and a connection is with one request, in the pool or unopened (`ConnsApart`). The
  trail needs in addition that a connection names its holder while that is in a transaction and nobody otherwise
  (`StampsAreRight`): the next holder finds no name but its own. `HooksInOrder` follows the callbacks
  through the savepoints: no step but a change adds one, and none lets one overtake another (`Kept`). The
  order over scopes, what waits after a commit and what has run is one invariant (`CallsOrdered`), and it needs that a change has one entry,
  either with the request that made it or committed (`WrittenOnce`).
  Of `Sessions`: `BodiesAreAlone`, `SessionsHaveOwners`, from `JobInv` and `ClientInv`. `OneRun` is not inductive
  alone: it needs that a body whose session was not cut holds the lock (`RunnersHoldTheLock`), and that
  the sessions that wait to be reaped, which may hold it too, have no attempt left (`OrphansAreIdle`). That the LISTEN client
  is never two is not inductive without the phase of `connect`: what stands is the connection that phase
  waits for (`KeptConn`), and none while a new one is created.
* **`ReleaseProofs`**. `LeaseHeld`, `OneAtATime`, `StagesTrue`, from `IInv`: the types, what a step that judges has
  read (`Judged`), and `Calm`, which holds until something strays. Who cuts holds the lease (`HasLease`), as nobody
  who read it earlier may replace it. `OneLiveRun` is not about runs but about branches: in every main,
  in every push under way and on origin a marker is followed by another only when it is over
  (`InLine`, `Past`), and what is over stays so (`PastStays`), because a run that is run again while its marker is
  not on top of origin is a stray (`rerun`). The guards establish that all markers of main are over (`NothingPends`), which is what `pulled`
  breaks. `StageIsTrue` follows a marker from its stamp to its push: its number is new in its clone (`NewMarker`), so
  no two sessions have stamped the same (`OneHolder`), nobody else drops it from main, and where its holder
  is at the push it is on main, on what is pushed or on origin (`Claims`). That no other
  clone carries it there needs that clones share only what origin has (`OneClone`).
* **`CatalogueProofs`**. `EntriesRunStand`, `LockStands`, from `Holds`, which is kept by every step that leaves the
  history in order (`OrderStands`). Its first half is about journals. The migrator skips by `when` alone, so the proof
  needs a fact between two versions of main, whichever an environment went through: what the later has and the earlier has not
  is newer than all of the earlier (`LaterIsNewer`). The check establishes it for the last version only;
  that it is so of all of them needs that the newest of main never gets older (`Rising`), that an id that was published keeps its `when`
  in main and in every branch (`SameWhen`), and that a working tree gives another `when` only to an
  entry main has not seen and the check refuses (`TreeFollows`), as the check reads the tree where the push takes the branch. Then what a deployment
  finds older than the newest applied has been applied (`Runs`). Its second half is about the lock in the middle of a
  command: a migration of a module is listed under it, or a command has it at hand, and under nobody else
  (`ListsAreTrue`), and that registry, lock and files agree but for what died halfway (`RecordsAgree`). A pull could bring a module's migration that the lock has never seen, so it also needs that these are
  made in the clone the commands run in, that others have them from main, and that what this clone has not merged yet
  brings none it has not had (`MadeAtHome`).

The theorems rest on the named assumptions on the constants alone (`OutboxAssumption`,
`NullAssumption`, `RateLimiterAssumption`, `CallsAssumption`, `AccountsAssumption`, `NoRowAssumption`, `MaintenanceAssumption`,
`ManagedClientAssumption`, `SessionsAssumption`, `PermissionsAssumption`, `TagsAssumption`, `AttachmentsAssumption`,
`TransactionsAssumption`, `ReleaseAssumption`, `NotificationsAssumption`, `JournalAssumption`, `CatalogueAssumption`), which TLC
evaluates too; `NothingLost` and `PromiseKept` state theirs.

Only model-checked: the liveness properties, as fairness and ENABLED are out of the prover's reach. Every safety
property of the runs is proved. `Journal` and `Catalogue` say what a merge and a removal leave of a journal by the order of what is
left, not by filtering, as what a filter leaves of any sequence is an induction over data. That the modules are finitely many
is assumed for the order of an installation, and that the null value is no set of ids, which TLC's model values
are not. Proved and no longer in a run: `PublishedWereHandled`, `NoEventLost`,
`SnapshotIsStable` and the types.

## 6. Not modelled

`PROJECT.json` (`components`) lists every part with its reason. Of the modelled
ones:

* `Accounts`: the lockout after failed sign-ins, cooldowns, devices and a second account
  competing for an address. They are counters and filters of one request.
* `NotificationFeed`: the SSE connections. What they lose, the next read of the feed makes good.
* `Transactions`: what the audit trigger redacts, and the listing of the trail.
* `Journal`: the numbers of the files, drizzle's snapshots, a push with `--no-verify` and one from a clone
  that knows nothing of origin, which the check lets pass with a warning.
* `Catalogue`: `--force`, `--dry-run`, the refusal of edited files, version ranges, the environment blocks, and the
  deletion of the guards only the template has.
* `Release`: a clone without `origin`, and holders known by a process id in place of a session.

Left out altogether: the web shells, the generated API client, listing, errors, logging, i18n and the storage and Redis adapters
have no state that outlives a call; professionals and the rest of the
catalogue store and filter rows of one table. The lock files by which the test processes of `worker-db.ts` claim their
databases serve the tests alone.
