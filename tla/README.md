# A TLA+ model of new-api and the antigravity manager

This directory holds a verification project for the gateway `new-api` (Go) and
its companion `antigravity-manager` (TypeScript): TLA+ modules translated from
the source, TLC configurations that check them on small instances, and TLAPS
proofs for every instance. It covers the money paths of the gateway (billing
sessions, asynchronous tasks), the account pool and the retries of the
manager's own gateway, and the way the manager switches an editor from one
account to another. Paths are relative to `src/new-api/`, or to
`src/antigravity-manager/src/modules/` in the rows marked *am*.

## 1. Inventory

The gateway takes a request with an API token, picks a channel (an upstream
provider with one or more keys), pre-consumes quota, relays the request, and
settles or refunds. Long-running requests (videos, songs) become rows of a task
table that background loops poll. Several processes can run on one database,
with Redis and in-memory caches in front of it.

| component | state | operations | hard behaviour | what makes it correct |
|---|---|---|---|---|
| billing session (`service/billing_session.go`, `funding_source.go`) | `users.quota`, `tokens.remain_quota`, `user_subscriptions.amount_used`, the session in memory | NewBillingSession, Reserve, Settle, Refund | two stores without a common transaction, rollbacks that can fail, fallbacks between sources, an asynchronous refund with retries | the charge equals the outcome; nothing is refunded twice; the books balance |
| violation fee (`service/violation_fee.go`, `quota.go`) | the same | ChargeViolationFeeIfNeeded | runs beside the refund | charged after the refund |
| asynchronous tasks (`service/task_polling.go`, `task_billing.go`, `model/task.go`) | `tasks` rows, the copies a poller holds | poll, sweep, bulk failure, refund, settlement | every master node polls the same rows; stale copies; crash between status and billing | billed once, as the final status says; the status is stable; every task ends |
| user fetch of a task (`relay/relay_task.go`) | the same | tryRealtimeFetch | writes the status a poller is about to write | as above |
| subscriptions (`model/subscription.go`) | plans, orders, subscriptions, pre-consumption records | purchase, completion, pre-consumption, refund, reset, expiry | webhooks delivered twice, reset between charge and refund, read-modify-write without the intended row lock | an order is granted once; the use never exceeds what was consumed |
| payments (`model/topup.go`, `redemption.go`, `checkin.go`) | orders, codes | Recharge, Redeem, expiry | concurrent delivery | credited once |
| channel pool (`service/channel_select.go`, `model/channel_cache.go`, `model/channel.go`) | cached channels by group and model, status, multi-key index and key status | select, retry, disable, enable, rebuild | a rebuild from an old read, retries over priorities and groups | a disabled channel is not selected for long; retries end |
| stream relay (`relay/helper/stream_scanner.go`) | stop channel, write mutex, tickers | scanner, ping, main | three goroutines on one stop channel, timeouts | the handler returns; no write after it |
| quota store (`model/utils.go`, `user_cache.go`, `token_cache.go`) | Redis hashes, two batch maps | increments, fill, flush | a fill that races an increment, loss on crash | the cache converges; no update applied twice |
| rate limits (`middleware/*rate-limit.go`, `common/limiter`) | Redis lists, token buckets | check, record | check and record are separate | the limit, or by how much it is exceeded |
| Midjourney tasks (`controller/midjourney.go`) | `midjourneys` rows | poll | as for the tasks | as for the tasks |
| *am* token manager (`proxy-gateway/server/token-manager.service.ts`, `rate-limit-tracker.ts`) | pool of token objects, cooldowns, lockouts, session bindings, refresh and project locks | load, select, refresh, look up the project, mark | token objects shared between calls; state read before an await and used after it; reloads in between | one refresh at a time; no token handed out that the call knew to be old; accounts of one scope stay in it |
| *am* request handlers (`proxy-gateway/server/proxy.service.ts`) | the retry state of a request | retry, grace retry, penalty | retries race the penalties of other requests | every request ends; no account is tried twice before all were |
| *am* switch guard and flow (`antigravity-runtime/switch/*.ts`) | queue, flag `processing` | runWithSwitchGuard, executeSwitchFlow | failing actions, requests queued behind them | one switch at a time, in order, each one ends |
| *am* identity profiles (`identity-profile/ipc/handler.ts`) | `storage.json`, `state.vscdb`, backups, last known good snapshot, safe mode | applyDeviceProfile | apply, rollback and snapshot can each fail halfway | the identifiers agree, or the failure is reported; a failed apply leaves what it found |
| *am* account store and switching (`cloud-account/ipc/handler.ts`, `cloud-account/persistence/cloudHandler.ts`, `account/ipc/handler.ts`) | rows, `is_active`, active account per target, login of the editor | switch, delete, apply a profile | a flow of many awaits over several stores | what is recorded as active is what is logged in |
| *am* account monitor (`cloud-account/services/*.ts`) | `isPolling`, the rows a poll read | poll, checkAndSwitchIfNeeded | polls started from four places, decisions on old rows, waiting behind other switches | one poll and one automatic switch at a time; polls end |
| antigravity OAuth refresh (`relay/channel/antigravity/oauth_refresh.go`) | keys of a multi-key channel | refresh, persist | concurrent refresh of one key | a fresh key is not overwritten by an old one |
| adaptors, pricing, administration, consoles | none of their own, or plain rows | conversion, formulas, CRUD, UI | | not modelled |

Interactions: `controller/relay.go` drives one billing session per request
(`Relay`) or per submission (`RelayTask`), which ends with a row in `tasks`; the
poll loops change the row and bill it through `task_billing.go`, on the same
wallet, subscription and token columns as the sessions; channel administration
takes away the channel a task belongs to. In the manager, every handler of
`proxy.service.ts` draws its accounts from the one token manager; the monitor
and the user's windows ask for switches through the one guard, whose flows write
the rows that the monitor reads. `PROJECT.json` lists the components
with their sources, and the hazards with the line where each one bites.

## 2. Plan

1. `Billing` with its proofs: the money path of every request. **Done.**
2. `TaskPolling` with its proofs: the second money path. **Done.**
3. `TokenManager` and `ProxyService` with their proofs: the account pool of the
   antigravity gateway and the retry loop composed with it. **Done.**
4. `SwitchGuard` (implementing `SwitchQueue`), `IdentityProfile`,
   `AccountSwitch`, `CloudMonitor`, with proofs. **Done.**
5. `StreamScanner`: the goroutines of a streamed answer (deadlock, liveness).
6. `Payments`: top-ups, codes, subscription orders and the subscription row,
   with the row lock as a constant (`RowLocks`), implementing an abstract
   specification "every payment is credited at most once"; reset and expiry.
7. `ChannelPool`: cache rebuild, disabling, multi-key polling, the retry loop.
8. `QuotaStore`: Redis copies and the batch updater as an implementation of
   the atomic counters that `Billing` assumes (refinement).
9. `RateLimit`, the Midjourney loop, the OAuth refresh of the antigravity channel.

Every invariant of the runs is proved. Proofs to follow come with their modules:
credited-once for `Payments` with row locks, the refinement of `QuotaStore`. The
runs keep to two actors and two items per question.

## 3. Modules

| module | role |
|---|---|
| `Billing` | requests of one user on a wallet, a token and a subscription |
| `MCBilling` | its instances for TLC |
| `BillingProofs` | type correctness |
| `BillingAccounts` | the accounts of a session, no over-refund, charge equals outcome; sums over the requests, and the balance of the books |
| `TaskPolling` | tasks, poll loops, user fetches, task billing |
| `MCTaskPolling` | its instances for TLC |
| `TaskPollingProofs` | type correctness |
| `TaskBillingProofs` | no over-refund, billed as finished, stable final status |
| `TokenManager` | the pool of accounts: selection, refresh, project lookup, penalties |
| `ProxyService` | `TokenManager` composed with the retry loop of the request handlers |
| `MCProxyService` | its instances for TLC |
| `ProxyServiceProofs` | the inductive invariant of the gateway and its five theorems |
| `SwitchQueue` | abstract: tasks are served one at a time, in order, and each ends |
| `SwitchGuard` | the guard's queue and flag, with the refinement mapping to `SwitchQueue` |
| `IdentityProfile` | what applyDeviceProfile leaves behind, for every set of failing operations and reads |
| `AccountSwitch` | `SwitchGuard` and `IdentityProfile` composed with the switch flows and the stores |
| `CloudMonitor` | `AccountSwitch` composed with the monitor |
| `MCCloudMonitor` | its instances for TLC |
| `SwitchGuardProofs` | the guard implements `SwitchQueue` (safety), whatever the actions do |
| `AccountSwitchProofs` | the inductive invariant of the switching, one lemma per step |
| `CloudMonitorProofs` | the theorems about the complete system |

### Billing

One action is one database statement or transaction of a request, its refund
goroutine or the outside world. Transactions are taken to be isolated (see
section 8), the quota to live in the database only.

| code | model |
|---|---|
| `NewBillingSession` | `Begin`, `HasSubscription`, `WalletCheck`, with the fallbacks of the four preferences; `tryWallet`, `trySubscription` are the sessions it builds |
| `preConsume` | `TokenRead`, `TokenPre`, `FundingPre`, `FundingPreFails`, `RollbackToken` |
| `shouldTrust` | `ShouldTrust`, on the token quota seen at authentication (`seen`) |
| `Reserve` | `Reserve`, `ReserveTokenRead`, `ReserveToken`, `ReserveRollback` |
| `Settle` | `Settle`, `SettleToken` |
| `Refund` and its goroutine | `Refund`, then `RefundFunding`, `RefundRecord`, `RefundExtra`, `RefundToken`; `Retry` is `refundWithRetry` |
| `ChargeViolationFeeIfNeeded`, `PostConsumeQuota` | `NoFee`, `Fee`, `FeeToken` |
| expiry, invalidation, deletion of a subscription | `SubscriptionEnds` |
| death of the process | `Crash` |

`session` has the fields of `BillingSession` and of its `FundingSource`:
`consumed` is the wallet's `consumed` or the subscription's `preConsumed`.
Every write has a name in `WritePoints`; a run lists in `FaultPoints` those that
may return an error. `paid`, `tokenPaid`, `fees`, `actual` and `failed` are
history variables no guard of the code reads.

### TaskPolling

| code | model |
|---|---|
| `RelayTask` after an accepted submission | `Submit` |
| `sweepTimedOutTasks` | `SweepRead`, `SweepTask` |
| `TaskPollingLoop` | `Load`, `EndRound`; `PollLoop` is the whole loop |
| `updateVideoTasks`, `updateSunoTasks` without a channel | `BulkFail` |
| `updateVideoSingleTask` | `Fetch`, `SaveVideo` |
| `updateSunoTasks` | `Fetch`, `UpdateSuno`, `SaveSuno` |
| `RefundTaskQuota`, `RecalculateTaskQuota` | `BillFunding`, `BillToken` |
| `UpdateWithStatus` | `CAS` |
| `videoFetchByIDRespBodyBuilder`, `tryRealtimeFetch` | `UserRead`, `UserFetch`, `UserSave` |
| provider, clock, administrator, death of a node | `UpstreamEnds`, `Age`, `DeleteChannel`, `Crash` |

A row is its status, whether its progress is 100%, and its quota; a poller keeps
copies of the rows it has loaded and works through them in any order (the code
iterates over Go maps). An error body from the provider of a video is read as
a failure of the task, as `updateVideoSingleTask` and the adaptors do, so
`Answers` contains `FAILURE` whatever the state upstream. A Suno item may carry a
fail_reason with any status: `REASON` is a running one with a reason, `REJECTED`
a successful one; both are refunded. A status of a song that is not known counts
as a running one, as it does in the queries.

### TokenManager and ProxyService

Node runs one callback at a time, so a step is what a call does between two
awaits. `TokenData` objects are shared by reference: a call that picked one keeps
it while a refresh replaces the pool's entry or a reload puts a new object there.
`heap` holds the objects made for each account, `pool` the index of the current
one; this is what makes `syncTokenDataFromCache` matter. An access token is its
generation; the clock is the newest generation that is inside the 300 s buffer
(`aged`), and a call reads it once (`asOf`, the code's `nowSeconds`).

| code | model |
|---|---|
| `getNextToken` | `CallGetNext`, `Loaded`, `Select`, `Wake`, then the steps of `finalizeSelectedToken` |
| candidates, both selections, shadow comparison | `Candidates`, `LegacyChoice`, `ParityChoice`, `WaitsFor`, `ShadowStep` |
| `loadAccounts`, `upsertScopedExternalCredentials` | `FillPool`, `UpsertScoped` |
| `refreshSelectedTokenIfNeeded`, `refreshSelectedTokenLocked` | `StartRefresh`, `RefreshAnswered`, `MergeRefreshed`, `RefreshSaved` |
| `runAccountLock` | `Take`, `Waiting`, `Settle` |
| `refreshScopedQuotaSnapshotIfNeeded` | `ScopedQuota` |
| `resolveProjectIdWithLock`, `resolveProjectIdLocked` | `StartProject`, `ProjectAnswered`, `MergeProject`, `ProjectSaved` |
| `persistTokenState` | `Merge`, `SaveRow` |
| `markFromUpstreamError` and the tracker | `CoolDown`, `LockAccount`, `LockModel`, `AskRealtime`, `RealtimeAnswered`, `RealtimeDone`, `LockUntil` |
| times that pass | `Lapse`, `Unbind`, `Age` |
| a handler of `proxy.service.ts` | `Arrive`, `SelectRetryToken`, `TokenReturned`, `Answered`, `Failed`, `Marked`; `NextAttempt` is the loop |

Round robin is any choice among the candidates. `sends` is a history variable.
The model that a failure penalises is the one the account's forwarding rules make
of the requested one (`resolveDynamicModelForAccount`), so any model.

### SwitchGuard, IdentityProfile, AccountSwitch, CloudMonitor

| code | model |
|---|---|
| `runWithSwitchGuard`, `processQueue` | `RunWithSwitchGuard`, `ProcessQueue`, `Settle`, `Release` |
| `switchCloudAccount` | `Ask`, `Start`, `SetupCloud`, `Prepare`, the flow, `Backup` and `PerformCloud` as its `performSwitch` |
| `switchAccount` | `Ask`, `Start`, `SetupLocal`, the flow, `PerformLocal` |
| `executeSwitchFlow` | `RefreshCache`, `Close`, `ApplyStep`, `Launch` |
| `applyDeviceProfile` | `ApplyEnd` and `ApplyMarks`, one step: it awaits nothing |
| `deleteCloudAccount`, `deleteAccount` | `DeleteAccount` |
| `bindIdentityProfile`, `applyBoundIdentityProfile`, `restoreIdentityProfileRevision` | `ApplyProfileOfLocal` |
| `poll` | `PollCalled`, `Listed`, `Fetched`, `MarkedActive`, `Check`; `NoList` and `Over` when an error ends it |
| `checkAndSwitchIfNeeded`, `findBestAccount` | `Check`, `Decide` (`Current`, `DecideOn`), `SwitchTo`, `Switched`; `BestAccounts` |

`ApplyEnd(g, p, F)` computes the files that an apply leaves when the operations
in `F` fail, and how it ended: the code's try, rollback and snapshot as operators
over one set. `FaultKinds` has eighteen: the copies to the backups and the snapshot,
its marker, the write of `storage.json`, the removal of its temporary file, the
opening of the database and its two keys, the verification, the copies back, and
the reads in the checks. `readStateServiceMachineIdValue` turns a failed read into
"no id" (`Seen`), which the check of a rollback accepts and that of the snapshot
does not (`Agree`). A profile is the account it belongs to. `torn`, `unread` and
`strayed` are history: the targets whose last apply reported a failed rollback,
those whose last rollback could not read the id it checked after restoring
something in doubt, and those whose login was changed last by a local account or
a failed operation. `CredStore` has the
targets whose login lives in the operating system's credential store; the others
keep it in `state.vscdb`, where a rollback takes it along.

## 4. Runs

| run | instance | result |
|---|---|---|
| `billing_concurrent` | two requests, three profiles, one failing write anywhere, a subscription that may end; 1.1 million states | each session's books agree with what it took; an undisturbed request is charged its outcome; at the end the stores balance |
| `billing_crash` | one request, all 32 profiles, three failing writes of any kind, one crash; 330 thousand states | quota may be lost to the user; a gain needs a failed save of the refund record; a started refund ends |
| `billing_double_refund` | one failing save of the pre-consumption record | **violated**: the amount is given back twice |
| `billing_fee_order` | no faults | **violated**: fee and refund run concurrently |
| `task_nodes` | two nodes, two videos, one failing write, one crash; 1.6 million states | billed once and as finished; no verdict is overwritten |
| `task_finish` | one node, a song and a Gemini video, one row per query, a user fetch, a deleted channel, one failing settlement or bulk update; 430 thousand states | each task ends, unless it is a song that was given up; billed right unless forced |
| `task_suno` | one song, one failing save | **violated**: refunded twice |
| `task_realtime` | one Gemini video, one user fetch | **violated**: failed and never refunded |
| `gateway_tokens` | two requests, one stored account, three token generations, one reload, one failing lookup or write, shadow comparison on; 84 thousand states | one refresh and one lookup at a time; fresh tokens; every request ends |
| `gateway_retry` | two requests, two models, two stored accounts and one from a header, cache-first parity selection, two attempts, four kinds of upstream error; 2.4 million states up to the symmetry of the models | retries stay in scope and do not repeat an account too early |
| `account_switch` | three switches of a cloud and a local account, one profile applied beside them, two failing operations out of twenty-five; 920 thousand states | the guard implements `SwitchQueue` with its liveness; identifiers agree; the recorded account is the one logged in |
| `auto_switch` | two polls, two accounts, a user's switch, a deletion, one failing operation of a poll (the list, a setting, the account's fetch or status); 750 thousand states | one poll at work and one automatic switch at a time; polls end |

The four violations are disagreements between the code and what its comments
say; `findings` in `PROJECT.json` quotes them. For each, the passing runs leave
out exactly the cause: requests in whose `failed` the write `recordSave` is, the
order of fee and refund, songs whose save fails, and real-time tasks or the tasks
in `forced`.

Bounds. Two requests suffice for every pair of interleaved sessions, which only
meet in the three stores; the quotas 0 to 5 include a pre-consumption below,
at and above the wallet, the token, the subscription and the trust quota; one
fault among two concurrent requests, and three in a single one, reach every
rollback of a rollback. `MaxAttempts` is the code's. Two nodes and two tasks
give each CAS a competitor (a poll or a sweep of the other node) and the query
limit something to starve; one crash and one fault hit every point of a billing.
In `gateway_tokens` two requests are enough for a refresh and a call that joins
it, three generations for a token that grows old again after a refresh, and one
reload for a pool that changes under both; a second account would only add
independent copies of this, and `gateway_retry` has three. There, tokens do not
age and nothing fails but the upstream, so that two attempts of two requests
with all penalties stay within reach; two attempts show a repeated account and
the grace retry. Three switches make a queue with one running, one waiting and
one that joins later; two faults reach an apply and its rollback, or a snapshot
and a later apply (a fault in all three of apply, rollback and snapshot copy is
left to the theorem). In `auto_switch` one fault ends a poll while the other waits
or runs; a status that cannot be written counts as one fault together with the
fetch whose error it records. In `task_finish` the pre-consumption is below the
charge, so a settlement that fails matters. `InitMachines` covers an editor that
was never started and one with a machine id of its own. Two polls give the flag `isPolling` a
competitor; the fifth task is there because each poll may ask for one switch per
target. The theorems drop all of these bounds.

The runs of `MCCloudMonitor` say `CHECK_DEADLOCK FALSE`: when the bounded
number of requests has been made and served, the system rests, as the program
does between two clicks. That nothing is stuck before is what `ServedInTurn` and
`PollEnds` say.

Fairness. `Billing!FairSpec` assumes that a refund goroutine that was started is
scheduled again until it ends (`gopool.Go`, no blocking operation but the
database) and nothing of the request itself. `TaskPolling!FairSpec` assumes that
the endless loop of `TaskPollingLoop` goes on and that time passes, nothing of
providers or users. A refund lost by a crash is lost: `RefundCompletes` counts
it as an end, and safety covers what it leaves. `ProxyService!FairSpec` assumes
that a handler and its call go on, that is, that every await ends: the calls of
Google and of the upstream have timeouts, the others are timers and database
statements. `CloudMonitor!FairSpec` assumes the same of a started flow and of a
started poll: requests to Google time out and `closeAntigravity` waits with
limits. One await is an assumption: `openUri`
(*am* `antigravity-runtime/ipc/handler.ts`, lines 488 to 508) waits for the
system's command that opens a URI without a limit of its own. If that command
never returned, the guard would be held for ever, with every switch and poll
behind it. Nothing is assumed of users, and nothing forces a poll to be called.

## 5. Properties

`Billing`: `SessionAccounts` relates what a request really took to what its
session believes at every step; `ChargeMatchesOutcome` says what is left at the
end; `BooksBalance` says the same of the shared stores; `NoOverRefundIfSaved`
holds under any errors and crashes, `NoOverRefund` only where the refund record
can be saved; `RefundCompletes` is the liveness of the refund; `FeeAfterRefund`
is the order the comment of the fee promises.

`TaskPolling`: `BilledAsFinished` (and `BilledUnlessForced`, which excuses the
statuses changed by a bulk update or a user fetch) relates status and charge
outside of a billing under way; `NoOverRefund` is about any number of nodes;
`FinishedStays` is an action property: no poller or sweep overwrites a verdict
with an answer it has held too long, and the bulk update, which has no CAS, only
makes failures of the tasks of a deleted channel. The run has no deleted channel;
the theorem has any number. User fetches, which overwrite verdicts
(`task_realtime`), are in neither. `TaskFinishes` is liveness, through the sweep:
the status of a task becomes final, except for a song that is `GivenUp`.

`ProxyService`: `SingleFlight` is about the two lock maps, `GrantedFresh` about
the token that comes out of a call after everything others did meanwhile (unless
a refresh of its object failed: the code goes on with what it has),
`InScope` and `DistinctAttempts` about the accounts a request was sent with,
`EveryRequestEnds` about locks, waits and retries together. `TypeOK` includes
that every reference is to an object that exists and that no request is sent
more than `maxRetries` times.

`CloudMonitor`: `ServedInTurn` is the refinement, `SwitchQueue` with its
liveness; `MachineIdsAgree` and `RecordedIsLoggedIn` relate the files of an
installation to each other and to the settings. Their excuses are what the code
reports (`torn`), the one way in which a differing pair passes its check
(`unread`), and the failures that leave the login and the record apart
(`strayed`). `OnePoll`, `OneAutoSwitch` and `PollEnds` are about overlapping polls
and what ends them. `TypeOK` is proved only, as the base of the other proofs.

## 6. Proofs

All theorems hold for every set of requests, tasks, nodes and accounts, all
quotas and every bound on faults and crashes, from the named assumptions of the
modules. These say that the constants have their types (`BillingAssumption`,
`TokenAssumption`, `ProxyAssumption`, ...), that the placeholders `NoAccount` and
`NoOne` are nobody's name, and, for the sums, that only finitely many requests
run (`FiniteRequests`).

* `BillingProofs!TypeCorrect`. `TypeOK` is not inductive: that the amounts of a
  reservation are natural and that an attempt is left when a refund is tried
  depends on the control point. `TypeInv` adds this.
* `BillingAccounts`: `NoOverRefundIfSavedCorrect` and
  `ChargeMatchesOutcomeCorrect`, whatever writes fail; `SessionAccountsCorrect`
  and `NoOverRefundCorrect` if saving the pre-consumption record never fails
  (`"recordSave" \notin FaultPoints`; `billing_double_refund` shows that the
  assumption is needed). The inductive invariant of a request is
  `RequestInv = Phase /\ Accounts`: `Phase` says which amounts may be non-zero
  at which control point, and that an open session has booked the same amount on
  the token and on the source (`Booked`, with an inequality for a wallet whose
  reservation could not be rolled back). It reads only the state of its own
  request (lemma `Frame`), so a step of another request keeps it whatever it
  does to the shared stores: that is why the theorems hold for any number of
  requests. `AccountInv` claims it of the requests in `Saved`, those whose
  refund record did not fail to be saved, a set that only shrinks (`FailedGrows`).
* `BillingAccounts!BooksBalanceCorrect` is about the shared stores, so no
  invariant of a single request gives it. `LedgerInv` adds to `AccountInv` that
  the wallet and the token are short of exactly what the requests paid and the
  fees (`LedgerOK`), and that a request pays only from a source it has chosen and
  not before its session is open (`SourceInv`). `EffectStep` shows that each step
  has one of five effects on the stores (nothing, a charge, a token charge, a fee,
  a token fee), `LedgerMoves` that each of them moves store and sum by the same
  amount. The subscription's part needs `Requests \subseteq Saved`: `amount_used`
  is cut off at zero, so its equation survives a refund only if no request was
  given back more than it paid. The sums are `SumFunctionOnSet` over the
  requests. Its facts (`TotalChanges`, `TotalNat`, `TotalZero`) are inductions
  over finite sets, done without the library's induction theorems: among the
  subsets of `Requests` that violate a fact there would be a smallest one
  (`Smallest`, by the well-foundedness of strict inclusion), and taking one
  element away from it contradicts that.
* `TaskPollingProofs!TypeCorrect`, with the control points of pollers and user
  fetches as strengthening.
* `TaskBillingProofs`: `NoOverRefundCorrect`, `BilledUnlessForcedCorrect`,
  `BilledAsFinishedCorrect`, `FinishedStaysCorrect`, for videos without real-time
  fetch and submissions whose settlement succeeds (`VideosOnly`).
  `BilledAsFinished` also needs `MaxOrphans = 0`: then `NothingForced` is
  invariant, no bulk update ever forces a status. The others hold with any number
  of deleted channels. The invariant `BillingInv` has three parts: `PollInv` (control
  points), `CopyInv` (a copy is of an unfinished row with the same quota; while a
  node bills a task its row is final and its ledger is where this node left it)
  and `TaskInv` (an unfinished row is charged its quota and nobody bills it; at
  most one node bills a task). The CAS is what makes it inductive: a node starts
  billing only by moving the row from an unfinished to a final status, which
  `CopyInv` lets happen once.
* `ProxyServiceProofs`: `Types`, `OneAtATime`, `FreshTokens`, `OwnScope` and
  `NewAccounts`, from one inductive invariant `Inv` (theorem `Invariance`) with
  six parts. `PoolInv`: no token object or row is newer than the newest token
  issued, and the clock is never past that. `LockInv`: a lock is held by exactly
  the call that runs what it guards, and is held if somebody waits for it; this is
  what `Settle` needs to release everyone it should. `CallInv` says of each call
  that what it refers to exists (`RefsOK`), what its step needs (`StageOK`), that
  the candidates of a wait were candidates (`WaitOK`), and that its object is
  fresh once its refresh is over (`FreshOK`). `HandlerInv` relates the retry state
  of a request to what it sent, `LinkInv` a request to the call it waits for: the
  accounts to exclude are those it was sent with, and an account comes back to it
  only if the whole pool has been tried (`Choosable`). `RestInv` is the types of
  the rest. `SingleFlight` follows from `LockInv`, the others need `LinkInv` as
  well, and `GrantedFresh` needs that whoever writes a shared object never lowers
  its generation (`Grown`). There is one exception: a refresh that fails copies
  the pool's token, however old, over the objects of its call and of those that
  joined it. `Settle` then marks every call on these objects as `failed`, and
  `GrantedFresh` excuses them. Each step has a lemma named after its action
  (`SelectKeeps`, `StartRefreshKeeps`, ...). They share `CallFrame`, `OneCall`,
  `ServiceStep`, `SettleStep` and `HandlerStep`, which say what a step of one call
  or of one handler leaves alone; the parts of the invariant take the heap and the
  clocks as parameters, so that the old and the new state can be compared.
* `SwitchGuardProofs!GuardServesInOrder`: `GuardSpec` implements
  `SwitchQueue!Spec` for any set of tasks and stages. The invariant `GuardInv`
  says that at most one task is between its start and its release, that without
  the flag there is none and the queue is empty, and that the queue holds each
  waiting task once. `Work` stands for any
  step of an action, so the theorem carries over to every system whose flows use
  the guard: `CloudMonitorProofs!SwitchesInOrder` shows that each step of
  `CloudMonitor` is one of `GuardNext` or leaves the guard alone.
* `AccountSwitchProofs` and `CloudMonitorProofs`: `TypeCorrect`,
  `MachineIdsAgreeCorrect`, `RecordedIsLoggedInCorrect`, `OnePollCorrect`,
  `OneAutoSwitchCorrect`.
  `SwitchInv` has four parts: `GuardInv`; `TaskInv` (what a task's stage says of
  its account and target); `ProfileInv` (the files, the snapshot and
  `MachineIdsAgree`); `StoreInv` (the rows and settings, and
  `RecordedIsLoggedIn`). `MachineIdsAgree` is inductive by itself only because
  `ApplyEnd` checks what a rollback or a snapshot restored before it reports
  success: nothing is assumed of an older backup or of the snapshot. That check
  accepts an id it could not read, which is the exception `unread`. `PollInv` adds that one poll at most is at work while
  `isPolling` is set, and that a switch of the monitor that is under way is the
  one its poll awaits. Each step has a lemma in `AccountSwitchProofs`.

Only model-checked: the liveness properties (`RefundCompletes`, `TaskFinishes`,
`EveryRequestEnds`, `PollEnds` and the fairness of `ServedInTurn`), which are
beyond the prover. `SessionAccounts` is proved where the refund record can be
saved and the properties of `TaskPolling` for videos; outside of this they are
false, as the violated runs show, or excused. No theorem uses a `RECURSIVE`
operator, and none is needed.

## 7. What the models show besides

Behaviour of the code that the models have, that no property forbids because
nothing in the repository promises otherwise, and that a maintainer should know.

* Token manager. The refresh and the project lookup of one account hold
  different locks over one row, and either may overwrite what the other saved
  (`persistTokenState`). `loadAccounts` drops the scoped tokens but not their
  fingerprints, so a scope that sends the same credentials again finds no
  account. The legacy selection ignores the tracker's lockouts, and choosing an
  account clears its lockout (`markSuccess` in `finalizeSelectedToken`). A reset
  time in the past counts as a precise lockout, and leaves none. A cache-first
  call may wait for a sticky account that its request has already tried.
  `noGoBlocked` is never reset. A credential that was replaced in its scope
  comes back when a lookup that was under way puts its object into the pool.
  A refresh that fails after a reload copies the pool's token over the objects of
  the calls that waited for it, so an object that another call had refreshed can
  go back to an older token.
* Tasks. The bulk update of a deleted channel's tasks (`task_polling.go` line 314)
  makes failures of them without a refund, and overwrites what another node has
  just saved; the comment at `model/task.go` lines 431 to 434 warns that it has
  no CAS. A song with a fail_reason and a running status is refunded and saved
  with a progress of 100%: neither the poll nor the sweep (line 294 of
  `model/task.go`) selects it again, so it stays unfinished (`GivenUp`). A
  settlement that fails after a submission is only logged
  (`controller/relay.go` line 574), and the row still has the full quota: if
  the task fails, more is refunded than was charged. The fetch of a Gemini or
  Vertex task by its user saves what it read without asking whether the status
  has become final: a task that the sweep has failed and refunded can be running
  again, and is then refunded once more.
* Identity profiles. The check of a rollback accepts a machine id it could not
  read. So if the first failed apply reports its failed rollback, a second one
  whose rollback cannot read the id counts as rolled back, although the two ids
  differ (excused by `unread`). `openspec/changes/update-device-fingerprint-hardening/`
  (`specs/device-fingerprint-hardening/spec.md`, lines 43 and 64 to 66, of the
  manager) promises a restored state in every case.
* Switching. A cloud switch leaves its copy at `state.vscdb.backup`, the path
  that the next apply uses for its own: if that apply cannot make its copy, its
  rollback restores the older file, login included (excused by `strayed`). The
  last known good snapshot is shared by both installations. An apply whose
  rollback fails counts twice towards safe mode, and whether safe mode is on is
  read before the editor is closed. A failed switch leaves the editor closed. A
  local switch saves an index that it read before the flow, and does not change
  the account recorded for the target.
* Monitor. A deleted account stays the one recorded for its target, which turns
  the automatic switch of that target off. A switch chosen from old rows may run
  after another one. `docs/cloud_features.md` line 88 of the manager says an
  account is left when *all* its key models are below 5%; `isAccountDepleted`
  asks for *some*. The model's quota is low or ok and does not tell the two apart.

## 8. What is left out

* Isolation: `model/subscription.go` asks for row locks with
  `Set("gorm:query_option", "FOR UPDATE")`, which GORM v2 ignores. On SQLite
  transactions are serialised anyway; on MySQL and PostgreSQL two transactions
  can read the same `amount_used`. `Billing` takes transactions to be isolated;
  the unlocked case belongs to `Payments`.
* Redis copies and batched updates of the quotas (`QuotaStore`), and the
  periodic reset of a subscription (`Payments`).
* The legacy settlement without a session (`SettleBilling`'s second half) and
  the prices, which enter as the sets `Actuals`, `Costs` and `Fees`.
* A task that a provider reports as running with a progress of 100% (for
  videos), and a Suno provider that changes `submit_time`: the model assumes
  neither happens.
* Of the token manager, the listing and probing of models and the inspection of
  credentials. They do change the pool: they refresh tokens and look up projects
  (`token-manager.service.ts`, lines 1464 to 1474 and 1604 to 1703). A probe uses
  the two locked functions that are modelled, as a call that stops before it
  sends; an inspection first refreshes a copy of its own without the lock. Several scopes at once and invalid credentials in `UpsertScoped`, and
  rows that cannot be decrypted. Of the request handlers, the conversion of formats and the streaming. Of the manager,
  `refreshAccountQuota` (`cloud-account/ipc/handler.ts` line 414), adding,
  importing and encrypting accounts, the binding and capture of profiles, the
  environment variable that switches an apply off
  (`identity-profile/ipc/handler.ts`, lines 502 to 516: as a safe mode that never
  ends), the processes of the operating system, the
  windows.
* Times: cooldowns, lockouts and bindings run or have ended, in any order; how
  long they run is left out, and with it the backoff of the tracker.
* A crash of the manager between two steps of a switch. The removal of old
  backups is taken to succeed, and a copy to be whole or not made.
* The part of a polling round that fails tasks without an id of the provider
  (`task_polling.go`, lines 119 to 129): `GetUpstreamTaskID` falls back to the
  `task_id` that `InitTask` always sets, so it is not reached.
* The other components of section 1, until their turn in the plan, with the
  hazards they bring: the trust bypass on a token quota seen earlier
  (`billing_session.go` line 296) is in `Billing` and accepted by the code; the
  two commands of the Redis limiter, the row locks of `model/topup.go`, batched
  updates lost in a crash and the Redis copies of quotas belong to modules that
  are planned.
* Most of the repository's TypeScript is the web consoles (`web/default`,
  `web/classic`): forms, tables and rendering, with state that lives as long as a
  page. They are not modelled.
