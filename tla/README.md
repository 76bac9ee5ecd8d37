# QuizMind platform: verification project

TLA+ modules, TLC runs and TLAPS proofs about the QuizMind platform, a
TypeScript monorepo: a NestJS API (`apps/api`), a BullMQ worker (`apps/worker`),
a Next.js site with a backend-for-frontend (`apps/web`), PostgreSQL reached
through Prisma, Redis, and the packages that these and the browser extension
share (`packages/*`). Paths below are relative to `src/`.

`PROJECT.json` maps every definition that models code to the lines it stands
for, lists every component, run, theorem and hazard, and names for each property
a plausible mistake in the code (an operator with the comment *Mistake*) that
the property would catch.

## 1. The system

### 1.1 Components that are modelled

| component | state it keeps | operations | talks to | what makes it hard | what makes it correct |
|---|---|---|---|---|---|
| **wallet ledger** `apps/api/src/wallet/wallet.repository.ts` | rows of `Wallet`, `WalletTopUp`, `WalletLedgerEntry`, `AdminWalletAdjustmentBatch` | create a wallet; settle and cancel a top-up; debit usage; adjust a list of wallets | PostgreSQL, READ COMMITTED | reads that are not locked, several statements per operation, rollbacks, retries with the same key, lock order, an INT4 column | the ledger accounts for every balance; a key posts once; no debit overdraws; a settlement and an adjustment happen whole or not at all |
| **top-ups and billing webhooks** `apps/api/src/wallet/wallet.service.ts`, `apps/api/src/billing/*`, `apps/worker/src/jobs/process-billing-webhook.ts` | `WebhookEvent` rows, the queue `billing-webhooks`, the payments YooKassa holds | create a payment, ingest an event, settle or cancel, dispatch, process, retry by an administrator | wallet ledger, YooKassa, Redis | redelivery, lost answers, a handler that dies between two calls, job ids that collide | one credit per payment, only if it is paid, and in the end; each event is answered and processed |
| **AI proxy and pricing** `apps/api/src/ai/ai-proxy.service.ts`, `ai-pricing.service.ts` | `AiRequest` rows; per request, what it has been charged | gate, call upstream, price, debit, complete, fail, persist the history | wallet ledger, providers, AI history, settings | requests that share a wallet, a policy that changes half-way, a success that turns into a failure after its debit | an answer is paid for, a failure is charged as one, no charge passes the cap, the history shows the charge |
| **platform settings** `apps/api/src/settings/*` | one row per policy; a copy in each process | read, change, serve from the copy | PostgreSQL | copies set by answers in any order, failures that put a default into them, processes that do not hear of each other's changes | an old policy does not outlive its minute, a change undoes no other |
| **AI history and usage rollup** `apps/api/src/history/ai-history.repository.ts`, `packages/database/prisma/backfill-ai-history-plan-b.ts` | rows of events and contents; daily sums of them | persist an event, move its contribution between buckets, analytics, backfill | PostgreSQL | read-modify-write of sums without locks, two persists under one id, a backfill that empties and refills | the sums agree with the events, analytics with both |
| **history blobs and retention** `apps/api/src/history/ai-history.service.ts`, `history-blob.service.ts`, `apps/worker/src/jobs/process-history-cleanup.ts` | files, and the rows that name them | persist, replace attachments, hourly cleanup | PostgreSQL, the file system | no transaction spans both; the cleanup may die between the unlink and the mark | live contents are readable, nothing is orphaned, what has expired is purged |
| **admin log** `apps/api/src/logs/*` | a read model with one row per row of four source tables | record and project, synchronise the figures of an AI request, backfill, repair, prune, page through | PostgreSQL, AI history | written beside its sources and best effort; three scripts at work while the API writes; one row set by four writers in any order | the backfill leaves no gap, rows leave for a reason only, figures agree with the history, pages neither miss nor repeat a row |
| **extension bind codes** `apps/web/src/lib/extension-bind-code-store.ts` | records in Redis, and in a map of each web instance | issue, redeem | Redis | instances that race, a Redis that fails with or without effect, a clock | a code is redeemed once, and a valid request gets it |
| **usage events** `packages/queue`, `apps/worker/src/jobs/process-usage-event.ts` | the queue `usage-events`, installations, telemetry rows | ingest, dispatch under an id made of the event, touch the installation, create the row, try again | the extension, Redis, PostgreSQL | lost answers and repeated sends, attempts that fail after writing, stalled jobs, jobs BullMQ has forgotten | what was answered as queued is stored, and once |
| **extension runtime** `packages/extension/src/platform-*.ts` with `apps/api/src/extension/extension-control.service.ts` | session token, event buffer and cache in the browser; sessions in the API | send, flush, refresh, connect; refresh, rotate, disconnect in the API | each other over HTTP | asynchronous calls share a store without locks; a refresh revokes the old token before the new one is known | telemetry is not lost and stays in order; concurrent calls do not cost the session |
| **web sessions** `apps/api/src/auth/*`, `apps/web/src/middleware.ts`, `apps/web/src/app/bff/auth/*` | `Session` rows; two cookies of a browser | sign in and out, sign out everywhere, reset the password, renew silently | each other over HTTP | tabs share cookies, answers arrive in any order, statements that are no transaction | the two cookies belong together, no session is lost or left behind without cause |
| **remote configuration** `apps/api/src/remote-config/remote-config.repository.ts` | versions, some of them active | publish, activate | PostgreSQL | transactions that deactivate what they see and then set their own | a version is always in force, and it is the one chosen last |
| **provider credentials** `apps/api/src/providers/*` | a row per credential | create, rotate, test, revoke; the proxy picks one | PostgreSQL, the AI proxy | each request writes by id what it read before an `await` | a revoked secret is not used again, a row tells its own secret |
| **rate limiting** `apps/api/src/security/rate-limit.*` | counters in Redis; buckets in each process | count a request, prune | Redis | a fallback that counts by itself, buckets dropped when the map is full, a call that fails with its effect | no client gets far past its limit, none is refused without having used it up |

They interact as follows. The web application and the extension call the API.
The proxy debits the wallet ledger by a policy of the settings and hands its
history, without waiting, to the AI history, which writes blobs, rows and the
rollup and then brings the figures to the admin log; the upload controller
hands over the same history a second time. YooKassa calls the billing webhooks,
which settle in the wallet ledger and add a job to the worker's queue. The
worker's jobs share only the database, the file system and Redis with the API.

### 1.2 Components that are not modelled

| component | why |
|---|---|
| quota counters (`apps/worker/src/jobs/process-quota-reset.ts`, `reset-quota-counter.ts`) | dead at this commit: `findActiveQuotaCounter` (`ai-proxy.repository.ts:122`) returns null in every case, and nothing dispatches to `quota-resets` |
| feature flags, compatibility (`packages/config`, `apps/api/src/services`) | pure functions over rows that one request reads; a write is of one row |
| support tickets and impersonation | single rows, read, checked and written by an administrator; nothing states what two of them may do to one row |
| extension scenarios and presets | single-row operations on a user's own rows; the unique keys of the database do the work |
| permissions | a table of roles without state |
| e-mail, audit export, domain events | one external call and one log row a job; templates are formatting |
| webhook signatures | a cryptographic check without state |
| bootstrap and scripts, the web application's pages, observability | start-up code, user interface and I/O |

Section 6 says more on what is left out, and why.

## 2. Modules

| module | models | checked and proved in |
|---|---|---|
| `Ledger` | what the wallet repository promises: whole operations, each checked against the balance it changes | instantiated by `WalletLedger` |
| `WalletLedger` | the repository, one action per SQL statement | `MCWalletLedger`, `MCApiComponents`, `ApiComponentsProofs` |
| `TopUpWebhooks` | a payment from its creation to its credit | `TopUpWebhooksProofs` |
| `AiBilling` | gate, price, debit, completion and history of requests of one user | `MCAiBilling`, `AiBillingProofs` |
| `UsageRollup` | event, rollup, analytics and backfill of one user and one model | `MCUsageRollup`, `UsageRollupProofs` |
| `HistoryBlobs` | blobs, rows and the cleanup job | `MCHistoryBlobs`, `HistoryBlobsProofs` |
| `AdminLog` | recorders, synchronisation, backfill, repair, prune and page walk of the read model | `MCAdminLog`, `AdminLogProofs` |
| `SettingsCache` | a policy of the platform settings with its copies | `MCAdminLog` |
| `BindCodeStore` | the bind codes of several web instances | `MCExtensionApi`, `ExtensionApiProofs` |
| `UsageEvents` | a usage event from the extension to its row | `MCExtensionApi`, `ExtensionApiProofs` |
| `ExtensionRuntime` | the extension's client and the sessions of the API | `MCExtensionRuntime`, `WebSessionsProofs` |
| `WebSessions` | the cookies of a browser and the sessions of its user | `MCExtensionRuntime`, `WebSessionsProofs` |
| `RemoteConfig` | publication and activation, one action per statement | `MCApiComponents`, `ApiComponentsProofs` |
| `ProviderCredentials` | the credentials of one user and provider | `MCApiComponents`, `ApiComponentsProofs` |
| `RateLimit` | the windows in Redis and in the processes | `MCApiComponents`, `ApiComponentsProofs` |

The `MC` modules give values to constants, name symmetries, and put components
side by side.

**How they compose.** `WalletLedger` implements `Ledger`: the committed tables of
the first are the variables of the second, and its working variables (what a
transaction holds, drafts and is about to do) are hidden
(`ImplementsLedger == Contract!Spec`). `TopUpWebhooks` and `AiBilling` stand on
that contract: a debit of theirs is one atomic step that checks and takes, as
`Ledger!Debit` is, and `SettleRead`/`SettleWrite` of `TopUpWebhooks` keep the
unguarded settlement that `Ledger!Settle` has. `AiBilling`, `UsageRollup` and
`HistoryBlobs` model three sides of one call, `persistContent`: which bill it
carries, what it does to the sums, and what it does to files; `AdminLog` takes it
as one step (`Persist`) and models what follows, the copy of its figures.
`SettingsCache` says what `AiBilling` assumes of its policy: that it is one of those
that were in force.

**Components side by side.** `MCApiComponents`, `MCExtensionApi`, `MCAdminLog` and
`MCExtensionRuntime` check components that share no state in one run. A variable
`part`, set once, names the one that moves, and the others rest in an initial
state. As every property is of one component, the interleavings of several add
nothing to it: for each component a step of another is a stuttering step. Where a
component rests, one of its initial states stands for all.

**Granularity.** An action ends where another process can come in between: at a
statement of a transaction, a query, a call to Redis, YooKassa or a provider, an
`await` on the browser's store, the sending of a request or the arrival of its
answer. What runs between two of these is one action. Transactions are READ
COMMITTED, as none asks for another level: a statement sees what was committed
before it and its transaction's own writes, a write waits for the other
transactions that wrote the row. `Free`, `Seen` (`WalletLedger`), `HoldsEvent`,
`HoldsBucket`, `Visible` (`UsageRollup`) and `Held`, `FreeFor` (`RemoteConfig`) say
this once for each.

**History variables**, marked so where they are declared, record what happened and
guard no action of the code; properties need them to say under which circumstances
they hold.

### Choices worth knowing

* `WalletLedger`: a wallet is named by its user. Whether Prisma's
  `upsert({update: {}})` locks an existing row depends on the SQL that the client
  generates, so it is the constant `UpsertLocks`; the run and `NonNegativeCorrect`
  take it as TRUE, the other theorems do not depend on it, and the mutant
  `UpsertTakesOnlyNew` shows that an overdraft follows when it is FALSE. Lists of
  users in the run name them in one order: `platform.service.ts:626` reads the
  list of `all_users` without an order, and two adjustments that list them in
  different orders can wait for each other (the database then rolls one back).
* `TopUpWebhooks`: an event is named by its payment, and its type is the payment's
  final state. No code at this commit sets an event to `failed`, which the retry
  asks for; `FailedBefore` stands for rows that an earlier worker left so.
* `AiBilling`: one user; the cost of a request is a member of `Costs`, in units
  finer than a kopeck, so that rounding is the code's. Left out: image generation
  (`ai-proxy.service.ts:630-680` passes the gate, records a completion and debits
  nothing) and the per-user billing override. The comment at
  `ai-proxy.service.ts:1038` says that requests with a user's key are not subject
  to the wallet gate; the code at 1048 applies it to them unless the policy never
  charges them, and the model follows the code.
* `SettingsCache`: a copy past its minute is the same as none. Time passes in ticks,
  and `MaxBusy` bounds for how many of them a call holds what it has read or
  written; a copy is as old as its minute and that. Two changes that overlap lose
  one of them, each writing the whole policy, and `ChangesAdd` says so by its
  premise. A read that fails is answered with the default policy, which is then
  served for a minute like any other (`ReadFails`).
* `UsageRollup`: one user, one model, one bucket per day, kind and status. The
  queries of `getAnalytics` see one moment. The backfill creates events for
  `Legacy` ids only; in the code an event that `recordProxyEvent` wrote has an id
  other than its `AiRequest`, so that a backfill run later adds a second event for
  it.
* `HistoryBlobs`: the persists of an event happen on one day and no day ends
  during one. Left out: the limits on attachments, the cleanup of legacy
  `ai_requests` rows, two cleanup jobs at a time, a change of the retention.
* `AdminLog`: of a row, only what its writers disagree about is kept: the version of
  the history its figures are of, and whether its search text has been built with
  them. A backfill writes again what prune has removed, as nothing tells a row that was
  pruned from one that was never written; `removed` takes such rows out of
  `CostShownWhenCalm` and `BackfillLeavesNoGap`. `verifyCounts` of the backfill
  compares totals, so that copies of an earlier release that are still there hide
  as many missing rows; the model looks at rows instead. The names of actors are
  read outside the `try` of the projection (`admin-log-write-path.ts`), so a failure
  there costs every row of the call (`ProjectFails`).
* `BindCodeStore`: whether the store is required and whether Redis is configured
  is chosen in `Init`. With an optional store a reply lost after the write leaves a
  code both in Redis and in a map, where it can be redeemed twice: `RedeemedOnce`
  says for which deployments it holds.
* `UsageEvents`: BullMQ is external and modelled by what the code relies on: ids,
  attempts, stalled jobs (once), and the removal of the oldest finished jobs. Where
  the queue cannot be reached the API answers that all is well
  (`extension-control.service.ts:401-436`) and the extension forgets the event: it is
  in `degraded`, of which nothing is promised. Two events of one installation, time and
  type share a job id and are stored as one. An event worked off late moves
  `lastSeenAt` and the version of the installation back.
* `ExtensionRuntime`: the browser's store serves accesses in the order they are
  made. The reads at the start of a connection are one step, and so are the
  writes that save its result. Left out: `refreshBootstrap`,
  `redeemBindFallbackCode`, `clearRuntimeState`, the ownership of installations.
  `sendRuntimeError` takes the path of a usage event. The runbook
  (`site-platform-extension-connection-runbook.md:534-537`) promises a little
  more than the code does: a locally expired session is refreshed over the
  network before it is given up, two sends that fail together may both buffer a
  reconnect request, and one of two buffer writes that overlap is lost. The
  properties say where the promise holds.
* `WebSessions`: one user with one browser. `JwtAuthGuard` checks the signature of an
  access token and not its session, so that a token outlives the revocation until it
  expires; the model lets it sign out everywhere, as the code does. The link of a
  password reset is checked before `ResetPassword` begins: that two requests may both find it
  unused is left out.
* `RemoteConfig`: no unique index keeps a second version from being active, so two
  publications that overlap can both leave theirs so; `LastChosenInForce` says so by
  its premise, `ConfiguredAlways` has none.
* `ProviderCredentials`: a secret is entered once. `secretPreview` stands for the
  metadata. The key hint is not in the model: a test writes it, a rotation copies the
  old one (`provider-credential.service.ts:366-372`), and the summary prefers it to
  the preview (709), so after a rotation of a tested key the user sees the hint of the
  old one. `disabledAt`, which the proxy's query looks at, is set by nobody.
* `RateLimit`: the client asks Redis with `maxRetriesPerRequest: null`, so while the
  connection is down calls wait for it rather than fail; `lingered` records that the
  clock has moved on meanwhile, and the limit of a process is claimed for requests
  that did not wait.

## 3. Runs

Twelve runs; each property of a passing run has a mutant in `PROJECT.json`.

| run | asks | bounds, and why they are enough |
|---|---|---|
| `api_components` | does the wallet repository keep its contract; is the configuration chosen last in force; do credentials hold; is the rate limit kept? | *Wallets*: 3 transactions over 2 wallets, a top-up, 2 debits of one wallet, 4 adjustments under 2 keys (the same key with two lists, a list that names a user twice), an INT4 limit of 3. Two transactions make every race over one row, a third a lock cycle through two rows; the limit is small, so that an increment passes it. *Configuration*: 3 versions, 2 administrators, any number of changes. *Credentials*: 2 rows, 3 secrets, one of which the check has come to refuse, 2 requests at a time, any number. *Rate limit*: 2 clients, 2 handlers of one process, limit 1 in a window of 2, a map of one bucket, 4 requests in 4 ticks, 3 failures: enough for two windows, an eviction and a switch there and back |
| `topup_credited_once` | is `settleTopUp` idempotent by itself? (no) | 2 settlements of one top-up |
| `topup_webhooks` | is a payment credited once, only if paid, and in the end? | 2 payments (one whose event had failed before), 2 handlers, 1 administrator, 1 retry, 2 attempts, 3 failures: enough to fail each attempt of a job and a handler besides |
| `webhook_lost_credit` | also when a handler fails? (no) | 1 payment, 1 failure |
| `ai_billing` | is what is charged what is due? | a streaming request and an upload on one wallet that can pay for one of them, 3 policies (fee on failures; a cap the rounding does not divide; no pricing), one change, 2 failures |
| `ai_history_charge` | does the history of an upload show its charge? (no) | 1 upload, no failure |
| `usage_rollup` | do sums and events agree? | 2 writers, 2 requests and a legacy one, 1 day of two moments, either status, either kind |
| `rollup_counted_twice` | also when an upload is persisted twice? (no) | 1 request, 2 writers |
| `history_blobs` | do rows and files agree, and is what expired purged? | an upload that two persists write and another request, 3 days, contents for 1 and attachments for 2, batches of one row, 2 failures |
| `admin_log` | does the admin log miss, lose, repeat or misstate a row; is a policy served that nobody set? | *Log*: an upload's request with two rows, persisted twice, and a request of an earlier release with its row and the copy of it, all as old as each other, so that only ids order them; batches and pages of 1 (repair: 2), so that every run takes several; 2 runs of scripts or walks, which may overlap; one tick, which ends the retention of some rows. *Policy*: 2 processes, 2 calls at a time, 2 fields, 3 ticks with copies for 2, 2 changes, 1 failure |
| `extension_api` | is a code good exactly once; is what was answered as queued stored, once? | *Codes*: 2 instances, 2 requests at a time, 2 codes, 2 contexts, maps of one record, 3 ticks with codes that live for 2, one failure. *Events*: 3 events, two under one id, 3 sends, 2 workers, 2 attempts, one finished job of each kind kept, 2 faults: enough for a lost answer and a repeated send, and for a job that fails for good |
| `extension_runtime` | do concurrent calls of the extension keep events and session; do cookies and sessions of a browser fit? | *Extension*: 2 concurrent calls, 3 in all, a buffer of 2 events, one ageing of a session, one fault. With two ageings (12.3 million states) the same properties hold. *Browser*: 2 tabs, 3 requests, 3 sessions, one disturbance; any cookie or session may expire at any time |

What the violations show, each told in `PROJECT.json` under *findings*:

* `topup_credited_once`: `settleTopUp` reads the status without a lock and updates
  without a guard, so that two settlements both credit. `topup_webhooks` shows
  that the unique `(provider, externalEventId)` of `WebhookEvent` keeps this from
  happening through webhooks.
* `webhook_lost_credit`: the same uniqueness loses a credit for good when the
  handler fails between the INSERT of the event and the settlement.
* `rollup_counted_twice`: two overlapping persists of one upload count it twice.
* `ai_history_charge`: the second persist of an upload overwrites its bill.

**Deadlock checking** is off in every run, because the bounded system really
stops: once the requests, failures and days are used up nothing is left to do.
`NoLockCycle` states what a deadlock of transactions would be. It holds of lists of
users in one common order (`OneOrderAssumption`), which is what the run's are.

**Symmetry** is used where no property is a liveness property, over sets whose
members nothing tells apart. `RowsLeaveForAReason` and `ImplementsLedger` are
properties of steps and of safety.

## 4. Fairness

`FairSpec` is the specification of the runs with liveness properties. It assumes

* in `TopUpWebhooks`, that a request being served goes on (`HandlerStep`,
  `RetryStep`: Node runs the continuation of every settled promise), that YooKassa
  redelivers what was not acknowledged (`Deliver`), and that the worker takes its
  jobs (`JobStep`: BullMQ polls the queue). No user is obliged to pay, no
  administrator to retry, no call to fail;
* in `AiBilling`, that a request that has begun goes on (`Serve`);
* in `HistoryBlobs`, that the cleanup repeats and proceeds (`Cleanup`: the hourly
  repeatable job).

All of it is weak fairness: none of these steps is disabled again and again by
others. Failures are bounded, so liveness properties speak of a system in which
failures stop; properties that need none at all say so (`Calm`). The other runs
check safety only, under `Spec`: of the admin log's scripts, an administrator's
changes, a browser's requests nobody promises that they end.

## 5. Proofs

All theorems hold for every value of the constants under the named assumptions
of their module: `RowsAssumption` and `RequestsAssumption` of the wallet,
`BoundsAssumption` of the webhooks, `PolicyAssumption` of the settings,
`ExtensionAssumption` of the extension's client, `RowsAssumption` and
`SizesAssumption` of the admin log, `RateAssumption` of the rate limit and, for TLC's
lists of users only, `OneOrderAssumption` (both in
`MCApiComponents`), `UsageAssumption` of the usage events (in `MCExtensionApi`),
`InputAssumption` and `RowsAssumption` of `UsageRollup`, `InputAssumption` of the
bind codes, of `AiBilling` and of `HistoryBlobs`. They say of which types the constants are, that names of different
kinds of rows or files differ, and where events are summed or rows ordered that they
are finitely many, as the worker processes are; of the rate limit, that a window lasts and that no process is named
as Redis is. `WebSessions`, `RemoteConfig` and `ProviderCredentials` assume nothing.

### ApiComponentsProofs

The module extends `MCApiComponents`, so that its theorems speak of the components as the
run composes them; each is about the specification of one component by itself.

* `ActiveVersionServedCorrect`: `Config!Spec => []ActiveVersionServed`. A commit makes its
  own version active in the step in which it makes others inactive (`CommitsItsOwn`); and
  a transaction that is alone has found, and holds, what is in force (`ConfigAlone`).
* `CredentialsHoldCorrect`: `Byok!Spec => []CredentialsHold`. No two rows hold the same
  secret, and a row that holds a revoked one is revoked (`SecretsApart`); a request that is
  alone at its row still finds it as it has read it (`ReadsHold`).
* `LimitKeptCorrect`: `Rate!Spec => []LimitKept`, for any limit, window, number of
  processes and size of their maps, whichever calls to Redis fail. A store has one window
  at a time for a key, but the limit is about every time as long as a window. The
  invariant (`Follows`) ties the record of the last window to the history: since it began
  the store has allowed its count, or the limit if that is less, and in the time of a
  window before no more than the limit (`Fits`). Of two windows that such a time
  overlaps each therefore allows the limit at most; and when a count exceeds the limit,
  the window that it is of has let the limit through. The tie holds
  while a process forgets no window that lasts and counts with the present time (`Keeps`);
  a record that pruning has dropped was of a window that had ended (`Records`).

The rest of the module is about the wallet, which the run checks beside them.

| theorem | states |
|---|---|
| `TypeCorrect` | `Spec => []TypeOK`: no committed balance leaves its column |
| `LedgerCorrect` | `Spec => []LedgerExplainsBalance` |
| `KeysPostOnceCorrect` | `Spec => []KeysPostOnce` |
| `SettlementAtomic` | `Spec => []SettledIffCredited` |
| `NonNegativeCorrect` | `Spec => []BalanceNonNegative` |

None of the properties is inductive: a transaction between two statements holds
a balance it has computed, and nothing in the property says that it is still the
right one. The invariant adds, in layers that each rest on those before:

1. `Typed`: what a transaction works on fits the statement it is about to execute,
   and it drafts at most one row per wallet;
2. `Locked`: a row is locked by one transaction, and a draft is of a locked wallet
   and fits its committed balance. So the row that a commit appends continues the
   ledger: `LedgerCorrect`;
3. `DraftOrigin` and `Settling`: a drafted row comes from the request it names, and
   a transaction that commits a settled top-up has drafted its credit:
   `KeysPostOnceCorrect` (with the guard of `Commit`, the unique index) and
   `SettlementAtomic`;
4. `Funded`: who has compared a balance still holds the row, and the row still
   covers what will be taken: `NonNegativeCorrect`, which needs `UpsertLocks` and no
   overdraft request, as the property says.

The second half is about the contract, `Ledger`.

| theorem | states |
|---|---|
| `LedgerImplemented` | `Spec => ImplementsLedger`: every step of `WalletLedger` is a step of `Ledger` or leaves the tables as they are |
| `BatchWhole` | `Spec => []BatchAllOrNothing` |

Only a commit and a top-up's cancellation change the tables, so the invariant,
`Whole`, says what an open transaction has done of the one operation that its commit
will be: which row a settlement or a debit has drafted, and of an adjustment that
every user it has visited was changed or was seen to lack the balance (`Adjusting`).
What a transaction has seen stays true because it still holds the rows it has read;
`OthersWhole` says so of the steps of other transactions, `ActorWhole` leaves only the
acting one to look at, and one lemma per action does. `CommitPosts` then turns
the drafted rows into the contract's `Post`, and `CommitSettles`, `CommitDebits` and
`CommitAdjusts` check the guards of the three operations. Where the upsert does not
lock, `Whole` claims nothing of balances that were read, and neither does `Ledger`
(`Guarded <- UpsertLocks`). `BatchWhole` is proved of `Ledger`'s steps (`StepBatch`)
and carried over to `WalletLedger`'s.

The end of the module is about transactions that wait for each other's rows.

| theorem | states |
|---|---|
| `CyclesNeedTwoAdjustments` | `Spec => []CycleHoldsTwoAdjustments`: two adjustments at least are in every circle |
| `NoLockCycleCorrect` | `InOneOrder(rank)` implies `Spec => []NoLockCycle` |

A circle passes on through rows that are held: whoever is in it holds what another
waits for, and waits for what another holds (`Stuck`). What a transaction holds while it
waits follows from `Whole` (`HeldWhileWaiting`): a settlement its top-up, which no wallet
is, a debit at most the wallet it wants. So nobody but an adjustment holds a wallet and waits
for another (`HolderWaits`), and following the waits three times meets two of them. The
first theorem needs nothing else.

The second has a condition, because the code does not give it: `wallet.repository.ts:288`
visits the users in the order of the list, and `platform.service.ts:620` passes a
request's list on as it was sent. `InOneOrder(rank)` says that every list falls in one ranking of
the users, one user perhaps twice in a row; any lists do that are sorted alike.
The invariant is then `Ordered`, that an adjustment holds only users ranked above those
it has still to visit. Among the wallets that a circle waits for, one has the least rank
(`LeastNumber`, from the well-foundedness of `<` on the naturals); its holder waits for
one of still lower rank, which is a contradiction. Without the condition, lists in
opposite orders do lead to a circle, which in the code the database ends by aborting
one of the transactions (`Rollback`).

### TopUpWebhooksProofs

| theorem | states |
|---|---|
| `WebhookTypeCorrect` | `Spec => []TypeOK` |
| `CreditedAtMostOnceCorrect` | `Spec => []CreditedAtMostOnce`, for any number of payments, handlers, failures and retries |
| `CreditedIsPaidCorrect` | `Spec => []CreditedIsPaid` |
| `PaidHasTopUpCorrect` | `Spec => []PaidHasTopUp` |

The invariant is `Typed /\ Once /\ Paid`. `Once` says that two handlers that have
stored the event and may still settle serve different payments (`SoleWorker`), and
that while one is at it nothing has been credited (`WorksUncredited`). That nothing
is credited before the event is stored (`CreditedIsStored`) gives the handler that
stores it a clean start. `Paid` follows the request of the top-up (`Requested`) and
says that a handler settles only what has succeeded (`Settles`). Two lemmas,
`QuietOnce` and `QuietPaid`, cover the steps that do not touch what matters.

### AdminLogProofs

| theorem | states |
|---|---|
| `LogHasSourceCorrect` | `Spec => []LogHasSource`: what the log shows has its source row |
| `BackfillLeavesNoGapCorrect` | `Spec => []BackfillLeavesNoGap` |
| `WalkSeesStableRowsCorrect` | `Spec => []WalkSeesStableRows` |
| `RowsLeaveForAReasonCorrect` | `Spec => RowsLeaveForAReason` |
| `CostShownWhenCalmCorrect` | `Spec => []CostShownWhenCalm` |
| `RepairedRowsAgreeCorrect` | `Spec => []RepairedRowsAgree` |
| `PolicyFollowsChangesCorrect` | `Policy!Spec => []PolicyFollowsChanges` |

The module extends `MCAdminLog`, which composes the log with the cached settings.

Rows are ordered by time and then by id (`BeforeOrders`); a finite set of them has a
first and a last, and the first n (`FirstIn`, `LastIn` and what follows), which takes a
least element of a well-founded order and not an induction. The invariant has one
part per script. `BackfillInv`: each row that is due and not behind the cursor or in a
later stream (`Passed`) is shown, removed, or in the batch in hand. `RepairInv`: a copy
that is about to be deleted has a twin that is shown or has expired. `PruneInv`: what is
about to be pruned has expired. `WalkInv`: of the rows that were there when the walk began
each is seen, removed, or older than the cursor, and what is older has not been seen.
What all steps do to the tables is said once (`TablesMove`), so that each script's part is
kept by the steps of the others by one lemma (`BackfillWaits`, `PruneWaits`, `WalkWaits` and
the like), and `RowsLeaveForAReason` falls out of it.

The figures of the rows have an invariant of their own on top of this one (`Figures`). No row
is ahead of the history of its request, and it is behind only while a synchronisation is due
(`TablesFigures`). The one write that could take a figure back is that of a script which
found no history, since backfill and repair join rows and history in two reads. It does no
harm because the repair reads the row first and the history then, so that where it finds no
history the row it compares with has no figures either (`RepairFigures`). While nothing else
writes figures, a row that the repair is done with agrees with its sources, and any other is
still to come (`RepairAgrees`).

A policy that a process holds or has read was in force at the time the copy or the read began,
or since (`InForceSince`); `CallsRecent` and `CopiesRecent` follow it from the read through the
copy to its end. `OneChange` says what the one change that is under way holds while none overlap.
The theorem assumes that a copy has a lifetime at all (`PolicyAssumption`).

### ExtensionApiProofs

`RedeemedOnceCorrect`: `Spec => []RedeemedOnce`. The invariant says where a code may
be while it can still be redeemed: where Redis decides (`InRedisOnce`) it is about to be
stored, or stored, or neither; where there is no Redis (`InMemoryOnce`) it is in the
map of one instance; and in all these cases it has not been redeemed. Which of the two
decides does not change as long as no call has failed (`Reaches`).

`ValidIsRedeemedCorrect`: `Spec => []ValidIsRedeemed`. As long as no call has failed, what was
answered and not redeemed is in Redis, under a key that lasts as long as the code does
(`Kept`); that takes a store which was on its way in time (`JobsInTime`).

`EventsAccountedForCorrect`: `Usage!Spec => []EventsAccountedFor`, for any number of events and
workers. The invariant has four parts.

* `Placed`: as long as BullMQ knows a job, it waits once, or one worker holds its lock, or it is
  among the completed or the failed; no two of these at a time.
* `Fair`: for each id, the rows there are, the workers that have lost the lock and may still
  write one (`Adrift`), and one more if the job is due, are no more than one row and the doubts
  on record. A lock that runs out turns a worker that is expected to write the row into one that
  may, while the job is due again: that is the doubt.
* `JobsSafe`: an id of which the queue has taken a job has a row, or waits, or is held, or has
  failed for good. A worker without a lock may go, since another has the job.
* `Current`: while nothing fails and one worker is busy at a time, the last job that waits is
  of the last event, or the attempt under way is, or the installation tells of it already.

It assumes that the workers are finite in number and that BullMQ keeps some number of jobs,
which may be none (`UsageAssumption`).

### WebSessionsProofs

`CookiesFitSessionsCorrect`: `Spec => []CookiesFitSessions`. That the cookies are a pair
is inductive by itself. For the rest the invariant (`Sole`) follows the one request that
is under way while nothing overlaps and nothing is disturbed: which sessions may be live
at each of its steps (`MayLive`), and which one the browser will rely on (`Relies`).
`StepKeeps` says what a step of it has to show, and one lemma per action shows it.

The module extends `MCExtensionRuntime`, whose second client is the extension; three more
theorems speak of it, each from `Extension!Spec`. Their invariant (`ExtInv`) has three parts.

* `Shape`: the types, and what a call holds at each of its steps (`Holds`) and a refresh at
  each step of the API's handler (`HandlerFits`). With the order below it gives
  `BufferHoldsCorrect`: `Extension!Spec => []BufferHolds`.
* `EventsInv`: a call owns its event and puts it into the buffer once (`OwnEvents`), and
  whatever was read from the buffer, flushed or ended has been put into it, received or
  excused (`Accounted`). While no two calls have met at the buffer (`BufferCalm`), what the
  one call there has read is still the buffer, and the buffer is the end of everything that
  was put into it, the beginning having been delivered, refused or trimmed (`LastOnes`). From
  that follow the order of a flush (`Delivered`) and `NothingLostWhenCalmCorrect`:
  `Extension!Spec => []NothingLostWhenCalm`.
* `SessionKept`: while nothing has touched the sessions besides the client, one refresh at most
  is under way at the API, the client waits for it, and it is that of the stored token
  (`OneRefresh`, `RefreshFits`); no refresh runs while a connection replaces the sessions
  (`OneConnection`); so the stored session is revoked only while its successor is on the way
  (`StoredKept`). That gives `SessionSurvivesCorrect`: `Extension!Spec => []SessionSurvives`.

The theorems assume a buffer of at least one event (`ExtensionAssumption`; 100 in the code).

### AiBillingProofs

| theorem | states |
|---|---|
| `AnswerIsPaidCorrect` | `Spec => []AnswerIsPaid` |
| `ChargesWithinPolicyCorrect` | `Spec => []ChargesWithinPolicy` |
| `HistoryShowsChargeCorrect` | `Spec => []HistoryShowsChargeWhenCalm` |

The arithmetic comes first: division and multiplication are monotone, so rounding to an
increment is, and a price lies between zero and what the policy's markup, rounding and cap
make of the cost (`PriceBounds`). The invariant then has three parts for each request.
`Priced`: the amount it is about to be debited is the price of its cost under a policy
that has been in force, with the status that it has now or has left. `Paid`: a request
that has not failed is debited for the first time, and once it records its success its
price has been taken. `Billed`: what the bill in its hands, its pending history and the
event say, as long as no call has failed. The actions of other requests touch none of it
(`Rests`), so that one lemma per action suffices.

### HistoryBlobsProofs

| theorem | states |
|---|---|
| `LiveContentIsReadableCorrect` | `Spec => []LiveContentIsReadable`, whatever overlaps and fails |
| `NoOrphanBlobsWhenCalmCorrect` | `Spec => []NoOrphanBlobsWhenCalm` |
| `RowsInOrderCorrect` | `Spec => []RowsInOrder` |

Two parties remove files. `Days` keeps the cleanup away from the others: contents that it is
at have expired, and no call is under way for them or will begin, since a request is
persisted on its day (`ExpiredIsLeftAlone`). `Replaces` keeps the calls away from each
other: what a call removes was committed before and no row names it any more. What both
remove is therefore neither in the hands of a call nor needed by a live row (`Spares`), and
`Readable` follows the files that a call has written (`Written`) to the row that names them.
That `Replaces` is needed shows in the mutant `ListPreviousAndDelete`, which breaks it.
For the other two theorems `Kept` says, of an event without overlap and while nothing has
failed, which files there may be at each step of the one call (`Calling`) or of the cleanup
(`Cleaning`) that is at it, and that there is nothing else when nobody is (`Resting`).

### UsageRollupProofs

| theorem | states |
|---|---|
| `RowsMakeSenseCorrect` | `Spec => []RowsMakeSense`, whatever updates are lost |
| `RollupNeverAheadCorrect` | `Spec => []RollupNeverAhead` |
| `AnalyticsExactCorrect` | `Spec => []AnalyticsExact` |

The sums are folds over finite sets. `FoldSet` chooses a function on the subsets of its
set, so the module first shows that there is one and only one (`FoldsExist`,
`FoldsUnique`), by induction over the subsets of a finite set (`FiniteInduction`, from
the least element of a well-founded order), and that the order of the elements does not
matter (`FoldRule`). From there on a sum is known by `TotalRule`: any event may be
taken out first. `TotalIs` says that a sum counts its events, and `TotalUnion` that it adds up.

The invariant has four parts. `Typed` says what a transaction has at each of its
statements, `AllAgree` that the columns of every row agree with each other and with the
row's key, those that a transaction has read or is about to leave included: it survives
lost updates, since a row is written from one row that was read and clamped column by
column. `NoneAhead` bounds the counts while no event is persisted twice. `Serial` is
about persists and a backfill that have not overlapped: one transaction at most is open,
none while the backfill works, and the rows that it would leave (`Leaves`) say first what
all events contribute, then all but its own, and at its commit all again, its own in the
bucket it enters (`Tracks`). For the analytics the rows of the days that a range touches
add up to their events (`RowsAddUp`); where these are as many as the range has, they are
those of the range (`CoveredIsExact`).

### Only model-checked

Liveness (`EventuallyAcked`, `PaidIsCreditedWhenCalm`,
`ReceivedIsProcessedWhenCalm`, `ServedIsInHistoryWhenCalm`, `ExpiredIsPurged`),
which the provers do not reach. Every other property of a passing run is a theorem.

## 6. Not modelled

The database's generated client (`packages/database/src/generated`, more than half of all
lines), the types of `packages/contracts`, the pages and styles of `apps/web`, and
the mapping of rows to answers in `platform.service.ts` make up most of the repository.
They keep no state and take no decision that depends on the order of events, so that the
share of lines the map can cover is small however much is modelled.

Of the code that does keep state, what is left out:

* **quota counters**: the code is dead (section 1.2). A model would say what a reset
  does to a counter that nobody reads.
* **feature flags and compatibility**: pure functions, for which a table of cases is the
  better instrument. What reading them shows: `rolloutPercentage` of a flag is
  stored and never looked at by `resolveFeatureFlags`; an unsupported schema gives
  `supported_with_warnings` even where the row asks for a stricter status; and parts of
  a version that are not numbers compare as equal.
* **support**: tickets and impersonation sessions are single rows that an administrator
  reads and writes; two of them at one ticket are last-writer-wins, and no doc, test or
  comment says what should be.
* **e-mail, audit export, domain events, webhook signatures, permissions, scenarios,
  bootstrap, observability**: no state beyond one row or one external call.
* **of components that are modelled**: what `PROJECT.json` names in each note, chiefly
  image generation and per-user overrides in the proxy, listing and filters of the
  history, overlapping cleanup jobs, the ownership of installations, the provider policy,
  the choice of key and limit in the rate limiter.

What would come next: image generation in `AiBilling`.
