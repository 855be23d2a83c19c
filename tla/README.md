# TLA+ models of the token gateway

The repository is an LLM API gateway with metering: customers (orgs) and their
accounts (users) call `/v1/*` with an API key, the gateway picks an upstream
channel and key, relays the request, and settles its cost in points against two
quota levels.  A management API sells points, manages channels and models, and
closes monthly accounts.  It runs as one process on SQLite or as several
instances behind a load balancer on PostgreSQL and Redis (`deploy/`), so nearly
every hard behaviour is a race between HTTP handlers, background loops and
instances over shared rows.

## 1. Inventory

| Component | Code (`src/internal/`) | State | Operations | Interacts with |
|---|---|---|---|---|
| Points ledger | `service/quota.go`, org/user handlers of `api/platform`, `api/org`, `middleware/apiauth.go` | `orgs`, `users` (`quota_limit`, `quota_used`, `monthly_*`, `status`), `quota_grants`, `usage_logs` | create/update/delete org and member, add/set quota, switch unlimited, authenticate, precheck, settle | relay, video, approvals, demo key |
| Approval tickets | `api/platform/handler.go` (HandleRecharge, HandleModelRequest), `api/org/handler.go` (HandleRequest), `api/member/handler.go` | `recharge_requests`, `quota_requests`, `org_model_requests` | submit, approve, reject | ledger, model grants |
| Model and vendor grants | `service/orggrant.go`, SetOrgModels, SetMemberModels, vendor grants | `org_model_grants`, `user_model_grants`, ... | grant, revoke with cascade | relay, approvals |
| Relay | `gateway/handler.go`, `selector.go`, `codes.go`, `neterr.go`, `sse.go` | per request: candidate list, classification flags | select, skip cooling, acquire a slot, forward, classify, retry, stream, settle | all of the below |
| Cooldown and slots | `coord/{coord,mem,redis}.go` | cooldown entries, slot gates (channels in memory, ZSET leases in Redis) | set/back off/clear cooldown, acquire, heartbeat, release | relay, prober |
| Channel health | `gateway/{breaker,prober}.go`, `service/modelroute.go`, channel handlers | `channels.status/auto_disabled_at/nokey_disabled_at`, `channel_keys.status`, `models.status`, failure counters per node | record failure/success, disable, probe, recover, sync | relay, admin handlers |
| Video tasks | `gateway/video.go` | `video_tasks.status/billed` | capture, observe on poll, sweep | ledger |
| Budget and balance alerts | `service/alerts.go` | `orgs.alert_level`, `balance_alert_hit`, per-node throttle | check, recompute | ledger, mail |
| Billing snapshots, statements | `service/billing.go`, `api/platform/statement.go` | `period_balances`, settings marker | snapshot at month start, vendor bills | ledger |
| Log archive | `service/archive.go` | `usage_logs`, archive files | export, verify, rename, delete in batches | ledger (reads of logs) |
| Accounts and codes | `service/{verification,reset,emailbind}.go`, `middleware/auth.go`, `middleware/ratelimit.go` | codes with attempts and expiry, tokens, `token_version`, limiter windows | send, verify, register, reset, bind | mail |
| Demo key | `api/platform/demokey.go` | the demo org and its key | configure, rotate | ledger |
| Pricing | `gateway` CalcCost, price resolution | `models`, `channel_models`, org and vendor prices | compute the cost of a call | relay |
| Protocol translation | `gateway/{anthropic,responses,sse}.go` | per stream: block state, usage | translate requests, responses and streams | relay |
| Storage bootstrap | `database/*.go`, `service/{bootstrap,migrate_sqlite,keyencrypt_migrate}.go` | schema version, copied rows | migrate at start | all |
| Front end, configuration, deployment | `web/`, `internal/config`, `deploy/`, `tools/` | none of their own | | |

What makes each one correct, and what makes it hard:

- **Ledger.** Every limit is explained by its grants; consumption equals the
  logged cost; overdraft is bounded although the precheck takes no lock; arrears
  suspension follows the balance and never overrides a manual switch; the monthly
  total resets exactly once.  Hard: N requests pass the precheck together, limits
  change between precheck and settlement, rows disappear meanwhile, a settlement
  fails, the month turns while one is in progress, int64 arithmetic.
- **Approvals.** A ticket is decided once and its points are credited exactly
  when it is approved.  Hard: two approvers, a stale read, a failing second step.
- **Grants.** No account keeps a model its org has lost.  Hard: a grant check
  outside the transaction that inserts (the code does not hold this one: Findings).
- **Relay.** Every admitted request ends in one response and one log row; the
  status tells the caller why; a slot taken is returned.  Hard: errors half-way
  through a stream, client aborts, candidate state that changes after selection.
- **Cooldown and slots.** At most `cap` requests are served, and a lease that is
  renewed is not lost (nor this one); a longer cooldown is never shortened by a shorter one.
  Hard: several nodes, lease expiry, crash without release, Redis errors.
- **Channel health.** A manually disabled channel stays disabled; an automatically
  disabled one is retried until it recovers; a model is shown as routable exactly
  when a channel can serve it.  Hard: asynchronous updates from several nodes racing
  admin edits.
- **Video.** A task is charged at most once, and charged if it succeeds with usage
  while it is swept.  Hard: polls and the sweep observe the task concurrently and
  out of order.
- **Alerts.** One mail per level upgrade; the level follows consumption.  Hard:
  throttling per node, compare-and-swap against unconditional downgrade.
- **Snapshots, archive.** A month's balance is exact whenever it is written, bills
  reconcile; no log row is deleted before its archive is verified.  Hard: a crash
  between two steps, settlements that go on meanwhile, bills read statement by statement.
- **Codes, administrators.** A code is used at most once, within its attempts and its
  time.  Somebody can always administer.  Hard: calls that overlap, a rank that is checked
  before it is used.

## 2. Plan

The order follows what is worst to get wrong: points first, then access, then
capacity, then the relay that ties them together, then the monthly loops.

| # | Module | Composes | State |
|---|---|---|---|
| 1 | `QuotaLedger` | | checked, proved |
| 2 | `Approvals` | extends `QuotaLedger`, implements its `Spec` | checked, proved |
| 3 | `ModelGrants` | | checked, proved |
| 4 | `SlotGate`: the gate in Redis | | checked, proved |
| 5 | `VideoTasks` | implements the abstract `VideoBilling` | checked, proved but for liveness |
| 6 | `ChannelHealth` | | checked, proved but for liveness |
| 7 | `Relay`: requests, cooldowns of both stores, the gate in process | | checked, proved but for liveness |
| 8 | `Translation`: both protocols and the streaming copy | | checked, proved |
| 9 | `Accounts`: codes, links, sessions, administrators | | checked, proved |
| 10 | `MonthlyClose`: snapshots, bills, archive | | checked, proved but for liveness |
| 11 | `Alerts` | | checked, proved but for liveness |

Open, in this order:

- the composition of `Relay` with the settlement of `QuotaLedger`: one answer, one
  log row.  Both exist; what joins them is that the handler calls `Settle` once
  behind `AnswerEnds`;
- the cost of a call with its clamps (`CalcCost`), which needs rational prices.

## 3. Modules and code

Conventions.  A database transaction is one step where the code's dialect makes
it one: on PostgreSQL the rows it updates stay locked until commit, on SQLite write
transactions are serialised.  What a handler reads before or outside that
protection is a step of its own, and the value it read is kept in a variable.
Every failure that rolls a transaction back is an action that leaves the tables
alone.  Inputs come from small sets given as constants.  Operators named `Mut...`
are deliberately wrong versions of the definition that follows them: each property
of a passing run was checked to fail with one.

### QuotaLedger (`service/quota.go` and the handlers that call it)

`row` is the `orgs` and `users` tables; a deleted row stays as `deleted`, since ids
are not reused.  `granted` and `grantRows` are the sum and the number of rows of
`quota_grants`, `logged` the sum of `usage_logs.cost`, `period` the calendar's
month, `req` the requests being served.  `month` and `peak` are history: they
appear in properties only.

| Action | Code |
|---|---|
| `CreateOrg`, `UpdateOrg`, `DeleteOrg` | platform handlers of the same names; `CreateOrg` with quota 0 is also the self-service registration |
| `CreateMember`, `UpdateMember`, `DeleteMember` | org handlers |
| `AddOrgQuota`, `SetOrgQuota`, `AddUserQuota`, `SetUserQuotaUnlimited` | the functions of `quota.go`, each with its `addNoWrap` check, grant row and lifting of arrears |
| `APIKeyAuth`, `Precheck`, `BeginSettle`, `Settle`, `SettleError` | the middleware, `Precheck`, and the steps of `Settle`/`SettleTx`: the month is computed in `BeginSettle`, the rows change in `Settle` |

`Wrap` is Go's int64 arithmetic on the range `-(MaxInt+1)..MaxInt`.  `Dialect`
decides whether the month of a settlement is read under the write lock (SQLite) or
before the row lock (PostgreSQL).  Left out: names, notes, operators of grants,
token columns, per-model limits of a key, and prices (the cost of a call is any
number up to `MaxCost`).

### Approvals (extends QuotaLedger)

Adds the tables of recharge and quota requests, and `handler`: what an approval
call has read and not yet decided.  `ReadTicket` is the unlocked read and the
checks of HandleRecharge and HandleRequest; `Reject`, `ApproveRecharge` and
`ApproveQuota` are the transaction with its conditional update
`WHERE status = 'pending'`; `HandlerFails` is every exit without effect.
`LedgerStep` is any step of the ledger, with the foreign-key cascade that deletes the
quota requests of a deleted account.  `credit`, the amount booked for a ticket,
is history.

### ModelGrants (`SetOrgModels`, `SetMemberModels`, both approval handlers)

One customer.  `orgV`, `orgM` and `userV`, `userM` are the vendor and model grants of
the organisation and its accounts; `call` holds the difference a handler computed from its
unlocked reads and is going to write.  `CheckOrg`/`SetOrgModels`,
`CheckMember`/`SetMemberModels` and `CheckRequest`/`HandleRequest` are the two halves of
the three handlers that write grants.  `MayCall` is the relay's check, which looks at
the account only.  `strayV`, `strayM` and a call's `late` are history: the grants of an
account that were written past their check, which is when something was taken back
between the two halves of the call, or when an approval took a vendor as open for one of
its models.  `Serving` (vendors with a channel for a model) is a constant:
channels coming and going do not belong to this module's question.

### SlotGate (`coord/redis.go`)

`zset`, `score` and `ttl` are the sorted set of leases of one scope and the life of its
key, kept as time left; `pc`, `beat`, `renewing` and `held` are a request and its
heartbeat goroutine.  Each Lua script is one step (`TakeLease` in `TryAcquire`
or `FindFull`, `RenewLua`, `RemoveLease`).  With `RedisFails` each command may
return an error after or without taking effect.  `AcquireError` is the
fail-open branch; it is possible while Redis works, because a context that ends
inside the call is an error of the call.  `missed` is a heartbeat whose renewal
exceeded its own timeout and went on, `lapsed` one that gave up.

A request may be served for any time; `MaxHold` is where `held`, the time it has been
served, stops counting.  `ConcurrencyBound` is what the scripts keep: the renewed leases
that count are within the limit, and one stops counting only when the key's whole life
has passed.  `SlotLimit` is what the comment promises, and `long_streams` refutes it.

Assumed: the instances' clocks agree (scores are written by the callers' clocks),
and a heartbeat is sent when it is due.  A process that stalls for longer than a
lease is outside the model.

### VideoTasks and VideoBilling (`gateway/video.go`)

`created`, `status`, `billed` are the row; `upstream` is what the upstream would
answer now; `seen` is an answer that a client's query or a sweep has fetched and
not yet applied; `batch` is what an instance's sweep still has to visit; `old`
are the tasks older than a day.  `SweepOnce` is the selection of unsettled rows,
oldest first and at most `BatchLimit`; `SweepFetches`/`SweepSkips` and `Apply`/`ApplyFails`
its loop body; `Observe` is observeVideoTask with settleVideoTask inside.
A success without usage (`silent`) updates the status and charges nothing.
`Restart` loses what an instance had in memory.  The status of a billed row can
fall back to `running` when an old answer is applied late; nothing reads it then,
so no property is stated about it.  `VideoBilling` is the promise: a task is charged
after it has finished with a usage, and once.

### ChannelHealth (`gateway/breaker.go`, `gateway/prober.go`, `service/modelroute.go`, the handlers of vendors, keys, channels, models)

`chan`, `vendor`, `key` and `mod` are the tables; a channel's row has its two markers
`auto` (`auto_disabled_at`) and `nokey` (`nokey_disabled_at`).  `fails` is the
breaker's count and `tests` that of the periodic test, both lost in a crash.  `work`
is where each goroutine stands: a request of the relay, an administrator's call,
a probe, and after each of them the five statements of SyncModelsAndNotify
(`SelectNoKey`, `disableNoKeyChannels`, `SelectKeyed`, `recoverKeyedChannels`,
`SyncModelRoutableStatus`).  `seen` is what a SELECT returned and the UPDATE uses.
`held` is history: channels an administrator has switched off and not set since.
`well` is the upstream.  Transactions are SQLite's.

### Relay (`gateway/handler.go`, `gateway/selector.go`, `coord/mem.go`, cooldowns of `coord/redis.go`)

A request selects its candidates once (`SelectCandidates`, with the four refusals of
`NoCandidate`), then passes them one by one: `Skip` a key that cools, or `Try` it.
An attempt waits for a slot (`AcquireSlot`, `QueueTimeout`), calls, and ends in one
of the answers that the code tells apart; `Fails` returns to the loop, with the flags of
handler.go:557-560 cut down to those of `Kept`.  `QuotaBackoff` and
`MarkQuotaCooling` are the two calls a quota answer makes to the coordinator.
`causes` is history.  Everyone else is the environment: `CooldownEnds`,
`MarkEnds`, `ClearCooldown`, `OtherCools`, `OtherSlots`, `Settings`.  Durations of
cooldowns are abstracted to "it may end now", so `SetCooldown` may or may not find
its own longer.  The client's leaving is looked at before each candidate only
(`ClientGone`): after the last one the final status is written whether it is there or not.

### Translation (`gateway/anthropic.go`, `gateway/responses.go`, `gateway/sse.go`)

Texts are numbers of parts, so "nothing lost, repeated or reordered" can be said.
The first phase decodes a request item by item into chat messages, for each
conversation that a client may send; the second feeds a stream part by part to
the translator `tr`.  Its field `client` is external: what a client that keeps
the published protocol has rebuilt from the events written to it (`emit`,
`Write`), nothing more once it has left (`gone`).  `encodeAnthropicResponse` and
`encodeResponsesResponse` translate the same answer without streaming: the
reference.  A part stands for its place in the stream, so a text in its order
is the set of its parts, and `InOrder` says that the blocks keep the order.

### Accounts (`service/verification.go`, `service/reset.go`, `service/emailbind.go`, `middleware/auth.go`, `api/auth_handler.go`, `api/platform/admins.go`)

A call is a sequence of statements (`call[c].at`), with what it has read in the
call's record.  Registration and binding share the actions whose statements are
alike, with a row's `for` telling an address from an account.  Time is the two
flags of a row, `recent` (the window in which no second mail goes out) and
`expired`.  `uses`, `wrong`, `superseded` and `stray` are history.  An edit of an
administrator is let in (`UpdateAdmin`, which checks the rank of whoever makes it) and
written later (`EditAdmin`); a demotion counts who is left in the statement that writes
(`AnotherLeft`), a suspension does not.  Edits overlap.

### MonthlyClose (`service/billing.go`, `service/archive.go`, `api/platform/statement.go`)

`charged` are the committed settlements, `logs` those still in the table, `open` one
that has taken its time and not committed.  `job` is where each instance's snapshot
stands: the claim of the month by its marker, reading the counters, writing the
balance.  `balance[m]` carries three remarks that are history: `missed`
(settlements of the month that committed afterwards), `early` (taken before the
month was over), `hollow` (taken when later rows had left the log).  `arch` and
`file` are the archivers and their files.  `late` is a day from which
`AddDate(0, -1, 0)` does not reach the month before.

`bill` is BuildBillStatement, one step for each statement that matters: the opening
balance (`OpenBill`), the closing one (`ReadClosing`), the customer's row (`ReadLevel`)
and the log's total (`Consumption`, in the state in which the bill is about to end).
Settlements, snapshots and the archive go on between them.  `seen` is what the row
counted.  A read of a balance that fails finds none, as in the code; a total that fails
counts as zero there (billing.go:272 drops the error), which is left out.

### Alerts (`service/alerts.go`)

`org` is the row, `window` and `recheck` the throttle of an instance
(`alertLastCheck`, `alertRecheckPending`), `check` the checks between read and write,
`edit` an administrator's change of levels.  `Wins` is the conditional update that
decides who mails.  `mailed` and `owed` are history.

## 4. Runs

| Run | Instance | What it shows |
|---|---|---|
| `ledger` | one org, its admin and a member, two requests, two months, SQLite, `MaxInt` 6 | every limit, account and status operation in every order around two requests: grants explain limits, consumption equals the log, arrears mean exhausted, overdraft is bounded, the monthly total is exact, a manual suspension stays |
| `accounting` | two tickets, two approval calls, the whole ledger around them; or two instances, three to four months and up to three settlements, with a bill or two archivers | tickets are credited once and implement the ledger; balances written after their month are exact, whenever and by whomever; a bill reconciles, or is off by what settled between its statements; no row is lost and old ones leave |
| `revocation` | one account, one vendor with two models, two calls at once, exceptions, deletions | what is taken back leaves every account in the same step; what an account can call beyond its customer was written past its check |
| `revoke_race` | two vendors with a model each, two calls at once | **violated** (`CallsCovered`): see findings |
| `gate` | three requests of any instances, two slots, Redis failing, held longer than the key lives | the leases that count keep to the limit and last as long as the key, the return of a dead request's slot, no resurrection by a late renewal |
| `long_streams` | the same, Redis never failing | **violated** (`SlotLimit`) |
| `relay` | one request, two channels of one vendor with two keys, both coordinators, three attempts; or requests of up to five items and streams of up to four parts in three protocols | slots are accounted for, the status tells the cause, every request is answered; conversations are regrouped faithfully, events nest, a streaming client gets the whole answer, the usage is read |
| `health` | one channel with its key, vendor and model; one goroutine of calls, one of probes and tests; crashes | a channel switched off by hand stays off, a channel with a key again is started, models follow their channels, an automatic stop ends |
| `codes` | two calls, two administrators and a customer, two addresses, two mails, two edits at once | codes and links work once and only the newest, guesses are capped, links die with their address, sessions with their password, the last super administrator is lost in one way only |
| `lockout` | the same | **violated** (`NoLockout`) |
| `background` | two checks of one budget on two instances; or two video tasks, one sweeping instance with batches of one, one client query | one mail per crossing and none forgotten; a task is charged exactly once, only after a usage, and eventually |
| `early_close` | one instance, four months, one crash | **violated** (`MonthEndExact`) |

Bounds and why they are enough:

- `MaxInt` 6 stands for int64: limits reach the edge in a few top-ups, so `addNoWrap`
  refuses some and the settlement's overflow happens.  `MaxGrants` and
  `MaxPeriod` bound the length of a run.  The ledger's rows of different orgs are
  never touched by one transaction, so one org is enough; the member and the admin
  are the two kinds of account.
- Two requests, approval calls, grant-writing calls, handlers or goroutines give every
  overlap of one unlocked read with one write of another; the proofs hold for any number.
- In `gate` a lease is three ticks, the smallest with a heartbeat at a third of
  it.  The key lives four leases, 12 ticks; `MaxHold` 13 is one beyond it, so requests
  are served past the key's end.
  Three requests over two slots is the smallest number that can exceed the limit.
- In `background` a batch of one makes an older row starve a younger one; two tasks
  and two observers give every order of two answers.
- In `health` thresholds of one let every failure stop the channel, so each
  interleaving of stop, alignment and edit is met early; the count itself is
  `Capped`.  Two channels of one vendor differ only in whose row is written.
- In `relay` three attempts over four candidates exhaust the limit before the
  list; `CooldownScope = "channel"` cools several keys at once, and one channel is
  preferred, so order matters.  A second request would act on the shared state as the
  environment already does.
- In `relay` five items hold two calls, their results and one thing said
  between; four parts hold two calls with a fragment each, or text, a call, a
  finish and the usage.
- `MCAccounts`, `MCAccounting`, `MCRelay` and `MCBackground` split their behaviours by a
  variable `about`, set at the start: codes, addresses, links, or administrators; approvals,
  balances, bills, or the archive; a request, or its translation; warnings, or videos.  Where
  the matters share no state the others stand still; where they do, each kind keeps
  the actions that share state with its matter and leaves out the rest, to avoid a
  product of independent states.  Every action is in at least one kind, and the proofs are
  about the specifications without this split.
- In `codes` two wrong answers stand for five, and `MaxEdits` 2 lets two
  administrators edit each other at once.
- In `accounting` two grants are booked: two credits of a ticket, of both, or one beside a
  top-up.  A retention of one month makes the archive follow at once; month
  2 is longer than the one before; two faults are a failing statement and a crash.  The bill
  is that of month 2, which is running, just over, or closed while it is read.

Symmetry is used where all properties of the run are safety properties and the permuted
values are interchangeable.  `CHECK_DEADLOCK FALSE` is in every
configuration: rows are finite, bounds are reached, and a system that no one
calls has nothing to do.

Fairness, and why the code justifies it:

- `FairVideoSpec`: on at least one instance the sweep goes on (weak: its ticker
  never stops and every answer is applied or fails), a task is fetched again and
  again when it is up (strong: the upstream's query does not fail for ever), and
  applying a success does not fail for ever (strong).  `CompensationSettles` excuses
  a task after a day, and while a whole batch of older rows is waiting: the limit of a
  hundred rows is a real cause of starvation, by rows whose upstream never ends.
- `HealthFairness`: a goroutine that has started goes on and a stopped process is
  started again (weak: supervision, `deploy/`), and the prober's rounds
  come to every channel it lists (strong: a ticker).  `Recovers` assumes nothing
  of the endpoint beyond that it answers from some time on.
- `RelaySpec`: weak fairness of each request's own steps: the loop runs, a wait for a
  slot and a call end by their timeouts (QueueTimeout, client.Do), a body by
  its end.  No fairness of slots that others hold: the queue timeout covers it.
- `CloseFairness`: some instance starts again or archives.  Settlements, months and
  snapshots have none; faults are bounded by `MaxFaults`.
- `AlertFairness`: goroutines and timers run.  `CrossingsTold` is about
  behaviours in which settlements cease, which the bound `MaxUsed` makes all of them.

## 5. Findings

Four runs state what a comment of the code promises, and TLC finds it violated
(`PROJECT.json` quotes the lines):

- `revoke_race`: a member grant checked before a revocation and written after it
  survives the cascade.
- `long_streams`: renewal moves a lease's score, never the key's own expiry.  When nobody
  has acquired a slot for four leases the key expires with every lease in it, although all
  are renewed on time, and as many new requests come in as there are slots.
- `lockout`: two super administrators suspend each other; each is let in before the other is
  carried out, and a suspension does not count who is left.
- `early_close`: on the last days of a month longer than the one before, AddDate gives the
  running month.  An instance that starts then writes its balance as it is and marks it,
  and on the first the marker already names it: the wrong balance stays.

The others below were met while modelling.  The properties are stated so that they hold
with these, which their comments name, or the run's constants keep away from them; each
can be seen by undoing that.

Ledger, grants, gate, video:

- PostgreSQL: a settlement that read the old month and gets the row lock after one
  of the new month moves the monthly total back, so a cap admits more (`ledger` with
  `Dialect = "postgres"`, property `MonthlyAccurate`).
- HandleRequest takes a vendor as open when the org has one model of it; the account
  gets the whole vendor, and revoking the model does not take that back
  (the second reason in `OnlyStraysUncovered`).
- `Cascaded` looks up a model's home vendor only, so a single-model grant opened through
  a second serving vendor survives the revocation of that vendor (its last reason).
- The difference SetOrgQuota books is plain int64 arithmetic: from a limit near the
  lower edge a large target wraps (`DifferencesFit`).
- A queue timeout that strikes inside the Redis call is taken for a Redis failure and
  admits the request (`AcquireError`, redis.go:217).
- The status of a billed video row falls back to `running` when an old answer
  is applied late (video.go:288); nothing reads it then.
- The demo key's difference is computed from a read before the transaction (demokey.go:223).

Relay:

- When all candidates begin to cool after the selection, the answer is 504
  although nothing timed out (handler.go:886).  A queue timeout ends in 502, while the
  comment at handler.go:556 says 429.
- `DecryptFailed` counts channels and `KeyedVendors` vendors: two endpoints of one vendor
  with unreadable keys are answered 429, against handler.go:498-499.
- In Redis a quota mark may outlive its cooldown, against coord.go's "IsQuotaCooling
  恒为 IsCooling 的子集"; a later ordinary 429 then looks like a spent quota.
  `MarksFollowCooldowns` is therefore about the in-process store.
- `Backoff` can shorten a long cooldown that Retry-After has set (mem.go:62, handler.go:652);
  lengths are not modelled.

Channel health:

- UpdateChannel keeps the markers, so a channel that is edited to "off" after an automatic
  stop is switched on again by the prober (breaker.go:46-48, modelroute.go:183-186).
  `SwitchedOffStays` starts where the status endpoint has cleared them.
- recoverKeyedChannels does not check the key again when it writes; UpdateModel keeps
  `models.auto_disabled_at` (modelroute.go:140); on PostgreSQL the alignment of
  models is not atomic; UpdateVendor without a status dereferences nil after it has
  written; a breaker's count is reset only on the instance that sees the recovery.

Accounts:

- Two binding codes asked for at once leave two rows (emailbind.go:83), two reset requests
  two live links (reset.go:77).  A link asked for before the address changes and stored
  after lives on (emailbind.go:171), and an administrator's change of address kills none.
- A failed mail, a fifth wrong answer and an expired code delete by address, which may
  be a newer code; an instance that stops between the fifth count and the deletion leaves
  the code usable.

Monthly close and archive:

- A balance taken too early (`early_close`) is left out of `ClosedExactly` and of the sound
  balances of `BillReconciles`.
- After a failed snapshot the next attempt is about the next month (billing.go:138); a crash
  between marker and write, a failed rollback, or nobody running for a month leave a month
  without a balance until an administrator asks for it.  No property says that every month
  is closed, since the code does not try to.
- A manual run for a month whose later rows are archived writes too high a value (`hollow`,
  statement.go:111).  A settlement stamped before midnight and committed after the snapshot
  is missed (`missed`).  The running statement of the month before, between midnight
  and 00:05, and the bills of archived months do not reconcile.
- A bill of a running month is off by the settlements that commit between its reads of the
  customer's row and of the log (billing.go:240, 272): `chain_ok` is then false although no
  point is missing.  `BillReconciles` says by exactly how much.
- A late row of a month that has been archived is deleted without an export when the
  archiver finds the file.  The module gives each instance a directory of its own; two
  instances in one directory are unprotected.

Alerts:

- Recompute, or a lowering by another instance's older read, can write the level back below
  what was mailed: a second mail without a drop, or a warning that waits for the next
  settlement (`owed`).  A crash loses the deferred recheck; a lower limit is not checked; a
  re-crossing in one settlement after a top-up, before any check, is not mailed.

Translation:

- Fragments of two calls that interleave: the Anthropic translator sends a delta to a closed
  block (the branch at anthropic.go:637-646 is not reached), the Responses translator appends
  it to the wrong call; a call whose fragments have no index is split (anthropic.go:477).
  `Orderly` excludes such upstreams.
- Without a finish reason the Anthropic answer ends in `end_turn` where its stream
  ends in `tool_use`.

## 6. Proofs

All proofs are checked by TLAPS for every value of the constants that satisfies
the module's assumption (`LedgerConstants`, `ApprovalConstants`,
`GrantConstants`, `GateConstants`, `VideoConstants`, `HealthConstants`,
`RelayConstants`, `CloseConstants`, `AlertConstants`, `AccountsConstants`;
`Translation` needs none).  Every module with theorems has its type invariant
among them, so runs seldom repeat it.  `LedgerProofs` holds the theorems of
`QuotaLedger` and `Approvals`, `GatewayProofs` those of `SlotGate` and
`VideoTasks`, `BackgroundProofs` those of `MonthlyClose` and `Alerts`; the others
are named for their module.

| Theorem | Property | Further assumption | Argument |
|---|---|---|---|
| `TypeCorrect` | `TypeOK` | | inductive by itself; `AddNoWrapExact` shows that a sum accepted by `addNoWrap` is in range, `WrapInt64` that a wrapped one is |
| `UsedIsLogged` | `UsedMatchesLogs` | | needs `Born` (`UnbornUntouched` and `ServedWasBorn`): a request never settles on a row that is created later |
| `GrantsExplainLimits` | `GrantsMatchLimit` | `[]DifferencesFit` | each operation books the difference it makes; the assumption says that no difference wraps |
| `ArrearsExhausted` | `ArrearsMeansExhausted` | | inductive with `TypeOK`; `LiftRow` covers every raise of a limit |
| `SettlementCutsOff`, `ManualDisableHolds` | `SettleCutsOff`, `ManualDisableSticky` | | one step of each action from `TypeOK` |
| `OverdraftIsBounded` | `OverdraftBound` | | with `PeakCovers`: an admission finds `used` below a limit that `peak` covers, so one more request in flight is paid for; cardinality of the requests in flight |
| `MonthlyTotalsSQLite` | `MonthlyAccurate` | `Dialect = "sqlite"` | with `MonthlyFresh` and `Born`: no row is ahead of the calendar, so a new month finds none that carries it |
| `TicketsCorrect`, `CreditedOnce`, `DecisionsStand` | `TicketTypeOK`, `CreditedExactly`, `DecisionFinal` | | a credit is booked in the step that takes a ticket out of `pending` |
| `ApprovalsRefineLedger` | `ImplementsLedger` | | every approval is an `AddOrgQuota` or `AddUserQuota` step; all else stutters |
| `GrantsTypeCorrect`, `RevocationIsComplete` | `GrantTypeOK`, `RevocationCascades` | | only SetOrgModels takes anything from the org besides the deletion of a model, and it takes the same set from the accounts |
| `StraysExplainAll` | `OnlyStraysUncovered` | | `GrantsExplained`: what an account was granted is open to its customer, or a stray, or of a model with other vendors; `CallsExplained`: what a call is about to insert is still open, unless something was taken back since its check |
| `GateTypesCorrect`, `RemovedStaysRemoved` | `GateTypeOK`, `ReleasedStaysFree` | | renewal never adds a member; an acquisition is by a fresh request |
| `GateHolds` | `ConcurrencyBound` | | `LeaseKept`: as long as the key set at its admission lives, a request that renews has a member with time left, because its next heartbeat comes before the lease ends; `CountBound`: an acquisition finds room among the unexpired, and no renewal adds one |
| `CrashedSlotsReturn` | `CrashFreesSlot` | | `LeaseRunsOut`: time since the crash plus the score is at most a lease |
| `VideoTypesCorrect`, `ChargedOnce` | `VideoTypeOK`, `BilledIsCharged` | | the conditional update marks and charges in one step |
| `VideoImplementsBilling` | `ImplementsBilling` | | `HeldIsTrue`: an answer "succeeded" that a query holds is still what the upstream says, however late it is applied |
| `HealthTypesCorrect`, `AdminSwitchHolds` | `HealthTypeOK`, `SwitchedOffStays` | | `HeldOff`: a held channel is off without a marker, and every automatic start asks for one at the moment it writes, whatever it selected before |
| `NoneStarved` | `QuietChannels` | | `StarvedSeen`: whenever a stopped channel has a key again, some goroutine still has its selection of such channels before it, or has the channel in it; the step that ends the last one starts the channel |
| `ModelsTellTruth` | `QuietModels` | | `WrongSeen` and `AutoStatus`: whoever changes what serves a model is itself on its way to the alignment of models |
| `RelayTypesCorrect`, `MarksStay` | `RelayTypeOK`, `MarksFollowCooldowns` | | what begins to cool anew loses its old mark, and a mark makes its key cool |
| `SlotsReturned` | `SlotsAccounted` | | a step changes one request's hold and one gate, or neither; cardinality of the holders |
| `StatusTold` | `StatusTellsCause` | | `FlagsTell`: each flag stands for a set that the failures met are within, the two counts for skipped keys; a request that has met nothing and skipped nothing still has a candidate, so it does not end |
| `AlertTypesCorrect`, `CrossingMailedOnce` | `AlertTypeOK`, `OneMailPerCrossing` | | mails for levels above the row's are zero, so the one conditional update that raises it sends the first |
| `CloseTypesCorrect`, `ArchiveKeepsRows` | `CloseTypeOK`, `NothingLost` | | `Filed`, `Archiving`: an instance that deletes a month has a file with all its rows that were in the log when it counted, and no month of an archiver's gains a row |
| `BalancesExact`, `BillsReconcile` | `ClosedExactly`, `BillReconciles` | | `Books`: what a writer has read and what is stored both fit the settlements up to the month's end; `Copied`: so do the balances a bill has read; what the row counted stays settled; cardinalities of disjoint unions of rows |
| `AccountsTypes` | `AccountsTypeOK` | | `Inductive`, the conjunction of all that follows for codes and links, with `Formed` (sets of rows and records), `Numbered` (a number belongs to one code or link, and what is under way will find one free) and `Addressed` (whom a call works for); `Single` is preserved because storing a code replaces the row of its address and an address is claimed in the statement that checks it |
| `CodesWorkOnce` | `WorksOnce` | | `Once`: a number that has been used is `Dead`, its row gone or its link marked, by the conditional statement that takes it, and no later statement brings it back |
| `GuessesAreCapped` | `GuessesCapped` | | `Counting`: the wrong answers a row does not show yet are those of the calls about to count them, and a row at the cap has a call on its way to delete it |
| `OnlyNewestCounts` | `NewestCounts` | | `Superseding`: what a sender has seen is of its address while it clears, dead when the new one is stored |
| `LinksDie`, `SessionsKnow` | `OldLinksDie`, `SessionKnowsPassword` | | a change of an address has the statement that marks its links before it (`kill`), or its links are among the exceptions (`stray`); `Opened`: a token carries the version that was read together with the password that was typed |
| `LastOneIsGuarded` | `LastOneGuarded` | | `Others`: an edit under way is of somebody else's account; so whoever makes it stays, unless no longer a super administrator; a demotion counts in the statement that writes |
| `RequestsFaithful` | `RequestFaithful` | | `RequestInv`: a call without a result is either in the calls to be flushed or in a message with only results behind it (`Behind`), and the groups of calls hold the numbers asked so far, in order (`Numbered`); `NumbersGrow` and `ConversationGoesOn` show this for any continuation |
| `EventsAlwaysNest`, `AnswersRebuilt` | `EventsNest`, `Rebuilt` | | `AnswerInv`: `Good`, `Mirrors`: a client that has stayed has the finished blocks the translator keeps and its open one; `Running`: the open block is that of the call which an orderly upstream may continue, and its index leads there; `Told`: the blocks say exactly the parts sent, in order, with one block for each call; `Stopped`: the reason for the end is the upstream's; `PassedOn` for chat |
| `UsageHarvested` | `Harvested` | | `Metered`: the translator's usage is the one part that carries it, whether or not the client is there; it is said once (`SaidOnce`) |

`AnswerInv` has no bound on parts, calls or blocks, and speaks of the client only
under `~gone` and `Orderly`, as the properties do; `Metered` and the types hold
without either.  That the translator's state does not depend on the client
(`Steady`) is what lets the usage survive its leaving.

Minima, which `Min` chooses in `NextChannel`, in the archiver and among
the rows of an address, need induction; it is replaced by the library's well-foundedness of `<` on Nat (`Smallest`).

`MonthlyTotalsSQLite` and `GrantsExplainLimits` alone assume more than the constants'
types: a single writer, which is what SQLite is, and differences that fit an int64.  Both
rule out what the findings show; under them nothing else can break the property.

Only model-checked: the liveness properties `CompensationSettles`, `Recovers`,
`EveryRequestEnds`, `OldLogsLeave` and `CrossingsTold`, since TLAPS does not handle
fairness (`ENABLED`).

## 7. Not modelled

- Pricing: floating-point arithmetic on prices and token counts; the ledger takes any cost.
- Demo key: a form over operations that the ledger has.
- Storage bootstrap and migration: run once, before anything else starts.
- Mail, notifications, statistics and read-only views, configuration, front end,
  deployment: output or queries, no state that anything else decides on.
- In modelled components: lengths of cooldowns and failing Redis commands of cooldowns;
  vendor bills, line items and CSV of statements; the rate limiter, the audit log and
  access tokens (`tgp_`); two codes drawn alike; deletion of accounts, failing
  statements and an organisation's status beside the codes; CreateAdmin and
  CreateMember beside sessions.
