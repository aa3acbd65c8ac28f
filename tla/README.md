# ember10 in TLA+

TLA+ models, TLC model checks and TLAPS proofs for ember10: an automated Solana
treasury that collects creator fees, commits rounds of purchases and burns,
signs and sends the transactions, and books what the chain finalized.

    tlasany Execution.tla                                  parse a module
    tlc -workers 2 -config MCExecution.cfg MCExecution     check an instance
    tlapm ExecutionProofs.tla                              check the proofs

`PROJECT.json` lists the runs, the source lines each definition stands for, one
mutation of the code that each property notices, the hazards and the theorems.

## 1. The system

One PostgreSQL database holds everything; a worker process, an API process and
the Solana network act on it and on each other.

| component | source | state | operations |
|---|---|---|---|
| execution loop | `apps/worker/runner.ts` | intents, attempts (rows); intent, attempt and bytes in memory | `tick`, `runIntent`, `defer` |
| manual recovery | `apps/worker/recovery.ts` | the same rows, its own audit row | `recoverIntent` |
| lease, fence, control row | `packages/db/store.ts` | `leases`, `control`, `incidents` | `lease`, `fence`, `lock`, `incident` |
| execution control | `apps/worker/control.ts`, `packages/core/approval.ts` | approval documents | `executionAuthorizer`, `controlledExecutionTick` |
| settlement and ledger | `packages/core/engine.ts`, `packages/db/migrations/*` | accounts, postings, receipts, rounds, entitlements, payout batches, refunds | `ingest`, `recognizeCapital`, `plan`, `apply`, `refreshEpoch`, `schedulePayout`, `returnUnusedCosts`, `scheduleOperations`, `reconcile` |
| amounts | `packages/core/money.ts`, `execution-cost.ts` | none | `allocate`, `budget`, `economical`, `bindNativeCost` |
| developer accounting | `packages/core/developer.ts` | obligations, expenses, daily payouts | `schedule`, `finalizeDeveloperPayout`, `recordExpense`, `recordExpensePayment`, ... |
| receipt ingestion | `packages/integrations/ingestion.ts` | cursor, receipts, quarantine | `ingestTreasury`, `ingestTokenDeposits`, `fundingRoute` |
| chain adapter | `packages/integrations/solana.ts`, `demo.ts` | none (the chain's) | `prepare`, `broadcast`, `inspect`, `parsedTransfers` |
| basket selection | `packages/core/selection.ts`, `apps/worker/commit.ts` | none | `selectBasket`, `revalidateBasket`, `snapshot`, `commitFreshEpoch` |
| automatic selection | `packages/integrations/automatic-selection.ts`, `provenance.ts`, `ember.ts`, `jupiter-tokens.ts` | the last observation, one pending read and who awaits it, a catalogue cache | `read`, `current`, `revalidate`, the universe provider |
| market data | `packages/integrations/market-data.ts` | the last good catalogue, one pending refresh, a backoff | `read`, `snapshot`, `normalizeCatalogue` |
| worker main loop | `apps/worker/main.ts` | none | every five seconds: ingest, reconcile, recoveryOnly tick, normal tick, rounds, payouts |
| operator API | `apps/api/server.ts` | the same database | pause, resume, resolve, capital, recovery, expenses |
| token images | `apps/api/token-image.ts`, `catalogue.ts` | an image cache with its byte count, loads in flight, an index of the catalogue | `tokenImage`, `authorize` |
| market panel | `apps/web/market.tsx`, `src.tsx`, `view-model.ts` | the shown page, a cache of lists, a request version, the overview | views, queries, paging, retries, polls |
| read API, other pages | `apps/api/*`, `apps/web/*` | none | views only |

How they interact. The worker's loop takes the execution lease and works through
`runIntent`: read the rows, let the adapter prepare and sign under
`authorize()`, store the attempt, send the bytes, inspect, and settle with
`Engine.apply`. Every write runs in a transaction that first locks the control
row and checks the fence (`store.ts:14-15`). Between two transactions anything may
happen: the lease expires, another process or a recovery request takes it, an
operator pauses, the process dies, the chain finalizes. The API shares the rows and
the control lock but has no lease.

The worker reads the current selection from a service that coalesces the reads of
its evaluation, of the checks before each purchase and of a commitment. The public side
shares no state with the money: an API instance serves pages of its last good
catalogue and images that it lists, and a browser polls it and pages through it.

What is hard: an expired transaction may have executed (the history lags behind
the finalized height); a process goes on after its lease was lost; a crash falls
between signing, storing, sending and settling; recovery requests all carry the
owner name `manual-recovery` and so take the lease from each other; several
intents spend one cost account; a pause or an expense commits between two steps
of one preparation; a denied job must not block the others. On the other side of
each `await`: a shared read answers callers who asked for something else, an image
whose membership ended is loaded to the end, answers arrive for a view that was left.

What makes each part correct:

* execution: an intent is paid at most once; the books say so exactly when the
  chain did; signed work is serialized; signed bytes are durable before they are
  sent; review ends only by the outcome; finalized outcomes are booked.
* ledger: money is conserved, free revenue equals the unassigned part of the
  receipts, entitlements equal the liabilities, one active batch per entitlement.
* developer accounting: one payout per day, never over the surplus, obligations first.
* ingestion: no transfer skipped or booked twice, whatever the restarts.
* reconciliation: an incident has a cause: a payment or a transfer that is not booked, or
  a deposit in a token account that is booked and not looked at.
* amounts: the parts of an allocation sum to the whole.
* selection: a basket does not depend on the order or the repetition of rows; a round
  is committed to evidence requested after it was authorized, for its own budget.
* images: nothing is served that is not listed; the bounds hold; every request ends.
* panel: a list is never mixed, lost or replaced by a late answer, and says when it is old.

## 2. The modules

| module | what it is |
|---|---|
| `PaymentLane` | abstract specification: each payment goes `owed`, `committed`, `paid`, `settled` (or back to `owed`), one at a time |
| `Execution` | the execution loop with its lease, control row, ledger rows and chain; the mapping `Stage` to `PaymentLane` |
| `ExecutionInvariant`, `ExecutionLiveness`, `ExecutionProofs` | its inductive invariant; fairness, bounded disturbances and liveness; theorems |
| `Money`, `Census`, `Basket` | pure operators: `allocate` and `budget`; the holder census; the collapsing of the catalogue and `selectBasket` |
| `HolderClaims` | abstract specification: a claim of a holder is `owed` once, `reserved`, `paid` once, with all of its batch |
| `Treasury` | the ledger: receipts, rounds, purchases, burn, refunds, entitlements, payout batches; extends `Money`, implements `HolderClaims` |
| `TreasuryProofs` | theorems about it, and about `Money` and `Census` |
| `Developer`, `DeveloperProofs` | operations funds, expenses, the daily developer payout; theorems |
| `Intake`, `IntakeProofs` | receipt ingestion and reconciliation against a chain; theorems |
| `Selection`, `SelectionProofs` | the selection service, its provider's cache and its callers: view, purchase, commitment; theorems about it and about `Basket` |
| `TokenImage`, `TokenImageProofs` | market data service, image authorizer and relay, composed; theorems |
| `MarketPanel`, `MarketPanelProofs` | the market panel inside the App that polls for it; theorems |
| `Sums` | lemmas about sums and orders on finite sets, for the proofs of the ledgers and of sorting |
| `Rules` | inputs of `Money`, `Census` and `Basket` that grow, and the properties of those operators over them |
| `MC*` | instances for TLC |

`Execution`, `Treasury`, `Developer` and `Intake` overlap in the rows they share and are joined by what each
leaves open to the others. `Execution` decides when an outcome is booked; in
`Treasury` and `Developer` an outcome simply arrives, at any time and with any
charge. `Intake` decides when a transfer is booked; in `Treasury` it arrives in any
order. `Developer` sees of a round only the operations part it allocates. `Selection`
ends where `Treasury`'s `Plan` and `Execution`'s signing begin.

### Execution and the code

State. `leaseOwner` and `leaseHolder` are the lease row; the code compares a
fence only with the newest, so a fence number is represented by the process that
was granted the newest one (and expiry by nobody). `paused`, `incidents` are the
control row and the unresolved incidents; `istatus`, `rank`, `due`, `att`, `sigFor`,
`cap`, `principal`, `cost`, `expensed` the ledger; `sent`, `chain`, `lapsed` the
network; the rest is the memory of each process, gone when it crashes.

`pc` is where a process is between two transactions or external calls, so each
action is one transaction or one call:

| `pc` | actions | code |
|---|---|---|
| `idle` | `StartTick`, `StartRecovery` | `runner.ts:99-102`, `recovery.ts:8-20` |
| `next` | `TakeInflight`, `SkipInflight`, `TakeJob`, `EndTick` | `runner.ts:20-26, 101-112` |
| `authorize` | `AuthorizeAndSign`, `Defer`, `DeferThrows` | `runner.ts:27-45` |
| `persist` | `Persist`, `PersistAttributed`, `Defer`, `DeferThrows` | `runner.ts:46-65` |
| `inspect` | `InspectSuccess`, `InspectFailure`, `InspectUnknown`, `InspectExpired`, `InspectThrows` | `solana.ts:144-174` |
| `settle`, `incident` | `Settle`, `SettleThrows`, `RecordIncident` | `engine.ts:80-129`, `runner.ts:67-70` |
| `fail` | `RecordFailure`, `RecordFailureThrows` | `runner.ts:71-78` |
| `note` | `RecordUnknown`, `RecordUnknownThrows` | `runner.ts:79-84` |
| `broadcast`, `send` | `AuthorizeBroadcast`, `DoNotSend`, `Send` | `runner.ts:85-97` |

Around the processes: `LeaseExpires`, `Crash`, `FallsDue`, the operator's
`OperatorPause`, `OperatorResume`, `ResolveIncident`, `RecordExpense`, and the
chain's `Land` and `Lapse` (external: `Land` finalizes a released transaction once,
while its blockhash is valid, as a success, a failure, or an execution whose
evidence is outside the plan).

Abstractions.

* The principal of an intent is one unit of an account reserved for it; the
  cost account is shared by all intents, as `cost:<epoch>` is by the intents of a
  round (`Floor` 0) and `reserve` by payouts (`Floor` the minimum reserve).
* The set of intents is fixed; the entitlements, the payout batches and the burn that
  follows a purchase are in `Treasury`.
* `runIntent` reads the intent and its attempt in two statements; the model reads
  them in one step. Only another process's write between them could differ, hence
  only a process that has lost its fence could see it, and that process's writes
  are refused.
* Retry intervals, lease durations and blockhash heights are the events they cause.

### Treasury and the code

Every operation of `engine.ts` is one transaction under the control lock, so each
action is a whole transaction, and any order of them is possible. What a caller read
before its transaction is an argument chosen freely: the funding a worker asks
for, the snapshot, the round whose costs to return, the holders to pay.

| actions | code |
|---|---|
| `Ingest`, `IngestCapital`, `Reclassify` | `ingest`, `recognizeCapital` (`engine.ts:23-38`) |
| `Plan`, `NewDay` | `plan` (`engine.ts:39-79`) with its daily cap |
| `FinalizeSwap`, `FinalizeBuyback`, `FinalizeBurn`, `FinalizePayout` | `apply` (`engine.ts:80-130`), one action per kind of intent, with `refreshEpoch` where the code calls it |
| `FailRoundAttempt`, `FailPayoutAttempt` | the failure branch of `runIntent` (`runner.ts:71-78`) |
| `ReturnUnusedCosts` | `returnUnusedCosts` (`engine.ts:159-164`) |
| `SchedulePayout` | `schedulePayout` (`engine.ts:138-158`) |

Abstractions. Every status of an intent other than `finalized` is `planned`: no
transaction of the ledger distinguishes them. A payout batch is identified by the set
of its entitlements, which is what its identifier hashes. A charge is bounded by
what `authorize` leaves in the account (`runner.ts:33-36`): the cost account of a round,
or the reserve above its minimum. `NewDay` is `date_trunc('day', now())`. Which
holders are worth a payout is any set of at most `MaxRecipients`. That an entitlement's
quantity is a natural number is a guard, as the column's type makes it one.
`scheduleOperations` is left out: neither the worker nor the API calls it.

### Developer and the code

| actions | code |
|---|---|
| `AllocateShare` | the operations part of `plan` (`engine.ts:69`) |
| `SettleLegacy` | `apply` of an operations intent of an earlier version |
| `RecordExpense`, `RecordExpensePayment` | `developer.ts:220-264` |
| `SchedulePayout`, `ScheduleReserveOnly` | `schedule` (`developer.ts:180-217`), by whether it returns a payout or null |
| `Sign` | `assertDeveloperPayoutAuthorized` with `authorize` (`developer.ts:134-148`, `runner.ts:31-41`) |
| `Settle`, `Fail` | `apply` with `finalizeDeveloperPayout` (`developer.ts:124-131`); `runner.ts:71-78` |

Each call is given its own policy and day, so clocks may go backwards and
configurations change between scheduling and signing. The accounts
`operations:<epoch>` are one account here: the only intent that owns one of them, a
legacy operations intent, owns exactly its balance. `signed` stands for every
status from signing to the outcome. A payment is recorded with its cost; the further
checks of `recordExpensePayment` on signature and slot only refuse more. A disabled
policy does nothing. The status `cancelled` is read but never written.

A payout whose cost account failures have used up stays planned for ever, and with it
every later payout; `docs/DEVELOPER-PAYOUT-ACCOUNTING.md` documents this as open
(R2 F-11), and `Developer` has such states.

### Intake and the code

`chain` is the finalized history, a sequence of signatures; a position in it serves
as slot. A transaction may carry several transfers; three kinds are told
apart: those of others, those the treasury signs, and payments its owner makes by hand.
`stage` is where a worker's loop is between two statements that read or write something:

| `stage` | actions | code |
|---|---|---|
| `idle`, `tokens` | `List`, `LeaveTokens` | `main.ts:48-51`, `ingestion.ts:12-17, 36-39`, `main.ts:53` |
| an account | `IngestListed`, `Advance`, `EndHistory` | `ingestion.ts:18-28, 34-35, 40-45` |
| `reconcile` | `ReadBalances`, `NothingRequested` | `main.ts:77-79` |
| `sampled` | `Reconcile`, `ReconcileStale` | `engine.ts:169-198` |
| `reported` | `Answer` | `main.ts:80` |
| any | `Abandon` | an exception (`main.ts:83`) or the death of the process |

Around the workers: `Attempt`, `Settle` (the execution loop), `RecordExpense`,
`RecognizeCapital` and `RequestReconciliation` (the API), `Land` (external). The
cursor is written without a fence, so workers may overlap; `Workers` is any set.

Abstractions. Reading the cursor and listing behind it are one step: whatever
another worker writes between the two, the list starts behind a position before which
everything was booked when it was read, and so it still is. Whether a
transfer is a fee, a deposit or capital is `Treasury`'s concern. A provider
may answer with balances of any earlier slot. The native cost bound of an intent is
always known, as it is for every intent that the current code plans; rows of older
versions, beside which any deficit is reported as `cost_bound_unavailable`, are left
out. Incidents are kept apart by asset; the table keeps one unresolved incident of a kind. A request that the API makes between `reconcile` and the
`UPDATE` of `main.ts:80` is answered by that update, with balances read before it.

Accounts. `ingestTokenDeposits` walks every token account the treasury owns, each with
its own cursor, in any order (`left`); the books know the mint only, and the deposits of all its accounts add up in
one balance (`engine.ts:183`). The sample of `main.ts:78-79` holds the treasury's own account and the
canonical (associated) token account of each registered mint (`Sampled`). So a deposit
into another token account of a registered mint, once booked, makes the
books exceed the sample: `reconcile` opens a deficit, and pauses execution, although nothing was
taken. The model has such behaviours, and `IncidentsAreReal` names them as the second cause of a
deficit. One mint with several accounts stands for all: the books of two mints, their accounts and cursors are
apart. Not represented: what the owner moves by hand between accounts of the treasury or out of
one that is not sampled, and receipts by instructions that `parsedTransfers` does not read.

The published window. `ingestTreasury` reads Ember's published payouts before it handles the
first signature (`ingestion.ts:17`), and the iteration needs an approval in force, the funding route
and the universe before that (`main.ts:48-51`, `approval.ts:15-16`). If one is refused or does not parse, as with a
published row without a signature (`docs/evidence/r3/FINANCIAL-EVIDENCE-UPDATE.md`, F-5), the iteration ends
having changed nothing, each time, and neither receipts nor token deposits are booked, nor is
a request for reconciliation answered. `List(w, "native")` is the step that
has all of them; it may never be taken.

### Selection and the code

An action is what happens between two awaits. What a top ten consists of is `Basket`'s
business; here an observation carries the version of the world its catalogue was
taken from, its time and its budget.

| actions | code |
|---|---|
| `Read`, `Wake` | `read` up to its await, and after one (`automatic-selection.ts:23-31`) |
| `FetchCatalogue`, `UsesCache` | the provider's catalogue and its cache (`provenance.ts:79-82`, `ember.ts:8`) |
| `Succeed`, `Fail` | the settling of the pending read (`automatic-selection.ts:30-45`) |
| `Revalidate`, `Plan`, `Done` | `revalidate`, `commitFreshEpoch`, the preconditions of `plan` (`automatic-selection.ts:55-60`, `commit.ts:6-16`, `engine.ts:44-60`) |
| `CheckPurchase` | the conditions of a swap (`main.ts:31-36`) |
| `Observe` | the worker's reading for display (`main.ts:51`) |

`woken` is the microtask queue: the reads that awaited a settled one go on in the order
in which they began to wait, before anything else. The worker calls the service from one
loop; the interface and the tests allow concurrent callers, and so does the model. Nothing is
persisted, so a restart is the initial state. Approval, snapshot, price and the control row
are checks that may fail. Failures beyond the third change no backoff and are not counted.

Two things the model makes visible and the consumers guard against: the backoff after a
failure holds for a repeated budget only, so alternating budgets read at once
(`automatic-selection.ts:27`); and a read that waited through two others may be
answered with the observation of another budget (line 25), which is why purchases
and commitments check `routeBudget`.

### Basket and Census

A row or candidate has a mint, a pool, a ranking value and is `sound` or not: every check
that looks at it alone (`selection.ts:15-31`). What relates candidates is whole: the order,
the fingerprints of repeated mints, the quarantine of mints whose copies differ, the
ranking, and before it the grouping and ranking of `normalizeCatalogue`. Policies of version 1,
which do not quarantine, are left out. The code sorts three times (`selection.ts:11, 33`,
`market-data.ts:87`). The first comparator answers "after" both ways round for copies of the same mint and pool, so
it leaves their order open: `Sorted` keeps it. `BasketOfSet` shows that the basket does not depend on the order or
the repetition of its candidates.
One peculiarity: a saved universe carries its `reasons`
into the fingerprints, so a mint that was exactly repeated is quarantined when the basket is
selected again (`engine.ts:53`); it fails closed, and the provider's candidates are distinct.

### TokenImage and the code

| actions | code |
|---|---|
| `FallsDue`, `RefreshSucceeds`, `RefreshFails`, `StartRefresh` | `MarketDataService.read` (`market-data.ts:97-142`) |
| `Ask`, `Refreshed` | the authorizer (`catalogue.ts:10-44`), first and second time |
| `Hit`, `Miss`, `AfterLoad`, `Leave` | the handler (`token-image.ts:85-129`) |
| `LoadSucceeds`, `LoadFails` | `load` and what follows it (`token-image.ts:46-84, 107-111`) |
| `Expires` | a deadline or an abort (`token-image.ts:17-28`) |
| `DayPasses` | the end of an entry's life (line 101) |

The `Map` of entries is the sequence `cache` of its keys in insertion order, without the
bytes; `cacheBytes` is counted up and down as the code counts it, and `Bytes` is what it should be.
Gateways, decoding and headers are what makes a load succeed or fail. The size of a
thumbnail is given by its image. A deadline may pass whenever a request waits.

### MarketPanel and the code

| actions | code |
|---|---|
| `Change`, `TimerFires` | the effect on view and query with its clean-up, and its 300 ms timer (`market.tsx:79-97`) |
| `More`, `RetryRequest` | `more`, `retryRequest` up to their awaits, where their buttons are offered (`market.tsx:114-120, 142-147, 156-168`) |
| `Answer`, `Fail` | what follows each of the three kinds of request (`market.tsx:88-94, 120-131, 147-150`), `mergeMarketPages` |
| `Poll`, `PollAnswered`, `PollFails` | `reload` and the effect on its data (`src.tsx:23-32`, `market.tsx:99-112`) |
| `Observe` | the next observation an instance of the API makes |

A row stands for a page of rows, named by list, observation and offset. The overview is served
by instances that each have the catalogue they read last (`catalogue.ts:4-6`,
`hosted.ts:56`), so any answer, of a request or of a poll, may be of any observation made so far, late, or never
come. The client compares observations for difference only (`market.tsx:109`, `view-model.ts:96`), never their times: a
poll or a retry may replace a list with one of an older observation, and does in the
model. What the panel does ensure is `ListIsRetained`: a list is never taken away, and never
replaced by the answer to a request made before its own. A request's time (`asked`) is counted in
observations, one of which may fall between any two requests; a list that grows keeps the
time of its first page. An aborted request
may still be answered, as `fetch` promises nothing else. A version is an identity no request holds: the counter of
the code never repeats. How many loaded rows are revealed and the wording of errors are left out;
any observation may be one of an unavailable catalogue, for which "Try again" is offered; every page has rows.
A list answered just before a poll may be shown without notice until the next one: that is
why `OlderIsAnnounced` says "again and again not outdated without a notice".

## 3. Runs

| run | instance | shows |
|---|---|---|
| `execution` | 2 processes, 2 intents on one cost account, 2 signatures, charges 1 and 2, a floor of 1, one expense payment | the loop implements `PaymentLane`; paid once, booked as executed, what was authorized stays payable, a signature is explained once, review ends by the outcome, stale processes write nothing |
| `liveness` | 2 processes, 2 intents, 1 disturbance | every finalized outcome reaches the books with recoveryOnly ticks alone; with approval, each due job is attempted again and again |
| `funding` | 2 receipts, 2 rounds, 1 asset, 1 holder, about 158,000 states | free revenue is the unassigned part of the receipts; receipts are spent oldest first and conserved; a cost allowance outlives the burn; deposits are accounted |
| `claims` | 2 rounds, 2 holders, 1 asset, about 39,000 states | claims are backed and delivered once: `Treasury` implements `HolderClaims` |
| `amounts` | all censuses of 3 accounts with amounts to 4, quantities to 5, fundings to 15, all sequences of 4 rows of 3 mints in 2 pools, about 368,000 states | an allocation to the eligible owners is the closest in whole units; a budget adds up; a basket is the top of the unanimous mints in any order |
| `developer` | 2 days, 2 policies, 2 expenses, a legacy intent, about 103,000 states | a payout takes exactly the surplus, is alone and stays funded; nothing else lowers the margin over the obligations |
| `intake` | 1 worker, 2 token accounts, 4 transfers in 2 transactions, 1 expense, about 84,000 states | no arrival is skipped or booked twice; each is finally booked while the published window is read now and then; an incident has one of its causes |
| `selection` | a viewer, a purchase and a commitment, 2 budgets, a clock to 2, a change of the world, about 322,000 states | a commitment rests on a catalogue requested after its authorization and on its own routes, a purchase on its own; nothing stale is ready; every read is answered |
| `images` | 2 requests, 3 images of 1 to 3 bytes, 2 entries, 3 bytes, 1 slot, about 89,000 states | only what is listed is served; the cache's account is exact; every request ends |
| `panel` | 3 views, 2 queries, lists of 2 pages, 2 observations, 2 requests in flight, a cache of 1 list, about 471,000 states | lists are whole and not replaced by late answers, the panel waits only for what it will show, a list older than the overview is announced |
| `pause_race` (violation) | 1 process, 2 intents | section 5 |
| `slow_prepare` (violation) | 1 process, 2 intents | section 5 |

Why the bounds are enough.

* Execution. Two processes suffice for every race over the lease, because only the
  newest fence counts and every other process is a stale one. Two signatures are
  what a double payment and a replacement need. Two intents are what serialization,
  the shared cost account and starvation need. The amounts make the account just
  large enough for one authorized transaction after another was charged.
  `MaxExpenses` bounds expense payments, `MaxDisturbances` the crashes, expiries,
  pauses and recovery requests of the liveness runs.
* Treasury. The receipt with the later identifier is in the earlier slot, so that order of
  recording, of identifiers and of slots differ. Two rounds of the smaller funding
  leave the older receipt in the middle, so a round takes from two receipts and a
  receipt funds two rounds; the larger funding is a whole receipt. The second
  round is planned before, between and after the first one's purchases and refunds. A snapshot of one and
  one of two holders let a holder be credited by a second round while the first claim
  is in a batch, and let a batch span rounds. One asset is enough for the claims:
  no action relates two, except `refreshEpoch`, whose status `partial` needs two and
  by which nothing else is decided. `MaxDay` admits two rounds of the smaller
  funding on a day and no other pair.
* Money. The basket is 3 assets and the shares 8, 1 and 1 of 10, so that every division
  can leave a remainder; ties between remainders occur from 2 holders on.
* Developer. Two policies with different reserves and costs; two days for
  the order of clocks; an expense with and one without an allowance; allocations
  that cover the larger policy in one part or two; a legacy amount of 1 or 0.
* Intake. One transaction pays into the treasury's own account, the canonical token account and
  another, so an interruption can fall between its bookings in different histories, and a reconciliation
  between those of one mint; a purchase has an output, a charge below
  its bound and a charge when it fails; the expense takes more than the bound of
  the purchase, so that it cannot hide behind it. `HistoryBound` 3 is reached when all
  three transactions wait. Two transfers of one signature in one history together with two
  workers (`Workers = {w1, w2}`, `t4` native, `TokenAccounts = {ata}`, under `Spec`, safety only)
  were explored as well: about 1.5 million states without an error; the proofs cover any number
  of workers, token accounts and transfers.

* Selection. Three callers are what it takes for one to wait through two others. A budget
  in common and one of its own for each make a joined, a cached and a mismatched answer.
  The clock lets a cached catalogue, an observation and a backoff expire; one change
  of the world separates what was requested before from what was requested after it.
* TokenImage. Two requests share a load, or one takes the only slot from the other. The sizes make one image
  evict two, or none; a refresh drops and restores images at every step of a request.
* MarketPanel. Two requests in flight are an answer that is awaited and a late one (one the
  timer is about to make counts); two observations are a catalogue that changes between two pages, or between
  a page and a poll, and two instances that are not equally far. `Screens` leaves out searching the eligible
  or the funded tokens: it differs from searching the ranking, or from the funded view, only in that More is not
  offered. The cache of one list makes every second query evict.

`execution` explores paused states only while all processes are idle (`PausedAtRest`): a
pause only takes steps away from `AuthorizeAndSign`, `AuthorizeBroadcast` and `TakeJob`,
and a step from an unpaused state is still checked up to the state that pauses. The
theorems do not have this restriction, nor have the liveness runs.

`SYMMETRY` over processes, signatures and rounds is used in safety runs only. Deadlock is checked except in two runs: `amounts` counts up to its bounds and stops, and in
`intake` every transfer may be booked while a history that has grown beyond
`HistoryBound` stops its listing for good.

### Fairness

`main.ts:41-85` repeats every five seconds and always begins with a recoveryOnly
tick (`control.ts:31-40`): strong fairness of `StartTick(w, "recover")` over the
processes together, since another process's lease can refuse it now and then.
Normal ticks also need configuration and approval: that they are allowed again and
again (`ApprovalFairness`) is the premise of `NoJobStarves`, and assumed in
`slow_prepare`. A process
inside a tick goes on (weak fairness of `Proceed`), the clock ends an idle lease and
makes jobs due, and a provider that is asked again and again finally reports a
finalized outcome (strong fairness of `InspectSuccess` and `InspectFailure`). Nothing
makes a crashed process come back, a pause end, a transaction land, or an incident
be resolved.

In `intake`, an iteration that has begun goes on (weak fairness of `Proceed`). Exceptions and
crashes may end it at any step and any number of times, but not every
iteration before it gets through: strong fairness of `EndHistory` and of listing each
token account, which `main.ts:53` reaches once a minute. A provider asked for
transactions again and again finally returns one: strong fairness of `IngestListed` and
`Advance`. (A transaction that it can never return or that cannot be parsed, `solana.ts:32`, would hold its
history for ever; this excludes it. The fairness of `IngestListed` is of any transfer; the instance has one for
each account and transaction.) That an iteration begins, that is that Ember's window is read and valid, is not
assumed: it is the premise `WindowIsRead` of `EveryArrivalIsBooked`, and without it TLC finds the
property violated. So the property has two exceptions: no valid window for ever, and
a history in which more waits than a listing may hold (`TooLong`). Nothing makes an operator act, a
transaction land or an outcome be booked.

In `selection`, a promise's continuations run and every request of the provider ends,
by its timeout at the latest: weak fairness of the two together. The callers need not
go on. In `images`, refreshes and loads settle by their timeouts (weak fairness of each)
and a request's continuation runs; no deadline of a caller is assumed to fire, nor that
the next refresh falls due. In `panel`, the App polls on its interval and its request ends
by its timeout (weak fairness of `Poll` and `PollSettles`); no request of the panel
itself is assumed to be answered.

## 4. Proofs

All theorems hold for any number of processes, workers, intents, rounds, holders,
days and transfers and any amounts, from the assumptions named in the modules
(sentinels differ from the sets, sets are finite, amounts
are natural, kinds of transactions are disjoint). TLC evaluates them in every run.

### Sums

The books of three components are equations between a balance and a sum of its rows.
`Sums` proves what such equations need: `SumStep`, that the fold of the community modules
satisfies its recursion, and from it how a sum changes when a summand does (`SumUpdate`),
splits (`SumSplit`, `SumRemove`), is taken group by group (`SumOfGroups`), compares
(`SumMonotonic`, `SumPositive`) or counts (`SumCounts`).

The provers cannot use an induction theorem, so `SetInduction` is a minimal
counterexample: the family of the subsets for which a claim fails, if it is not empty, has a
member that contains no other (`SmallestSet`); the claim is a set and not a predicate,
so nothing of higher order is needed. `RanksFill`, in the same way, says that exactly k members of an
ordered finite set have fewer than k before them, and `Ranks` that each member has a rank of its own and
every rank is taken, which is all a proof about sorting needs; `Extremes` finds the least and the greatest.

### Execution

`ExecutionProofs` proves:

* `Inductive`: `Spec => []IndInv`, one lemma per action; from it `TypeCorrect`,
  `PaidAtMostOnce`, `DebitsAreReal`, `Serialized`, `Funded`, `Durable`,
  `AttributedOnce`;
* action properties: `ReplacementIsSafe`, `ReviewIsSticky`, `StaleIsHarmless`;
* `Implements`: every step of `Execution` is a step of `PaymentLane` or a stutter
  under `Stage`.

The argument. The safety properties speak of rows and chain; they are not
inductive because a process acts on what it read earlier. `IndInv` adds what every
process knows. Unconditionally: the signature it handles is a stored one of its
intent, and an outcome it read is final (`HandlesItsOwn`). While its fence is the
newest: what it read still holds (`FenceProtects`): a preparing process's intent
has no live attempt, one about to store has nothing in flight in the whole treasury
and its bound is still covered, an inspecting one's attempt is unresolved. Each
write is fenced, so the second part is available exactly where it is used; another
process's write needs the fence, so it cannot disturb it. Paying twice would need a
second attempt of the intent while the first may execute; an attempt is replaced
only once it is `failed`, and that is written only from a finalized failure.

### Treasury

`TreasuryProofs` proves

* of the arithmetic: `AllocateIsClosest` and `BudgetTakesFunding`, for every quantity,
  funding, policy and balances, and from them `EveryCensusIsDivided` (`AllocationIsClosest`) and
  `EveryBudgetIsExact` (`BudgetIsExact`) for whatever the inputs of `Rules` grow to;
* of the ledger: `LedgerFits` (`Spec => []LedgerInv`) and from it `TypeCorrect`, `RevenueMatches`,
  `ReceiptsHold`, `AllowanceOutlives`, `DepositsMatch`, `ClaimsBacked` and the action
  property `OldestFirst`;
* of the claims: `ClaimsFit`, `BatchesAreDisjoint` (`OneBatchPerClaim`) and
  `PromiseKept`: the ledger implements `HolderClaims`.

The arithmetic. Rounding down loses the sum of the remainders over the total, hence less
than one unit for each owner (`DustOf`); the owners are strictly ordered by remainder
and address, so exactly as many are favoured as units are left (`RanksFill`), and the whole quantity goes
out (`AllocateSums`). That no division is closer is a pricing argument: a remainder separates the
favoured from the others (`FavouredFirst`); moving any owner's part by some units costs at
least what that remainder asks for them (`PriceOfUnit`); and the moves of a division add
up to zero. A census comes first: its accounts are grouped by owner, so the balances add up to the
supply (`CensusIsWhole`, by `SumOfGroups`), and the owners above the threshold are weights an
allocation can be made by (`HoldersWeigh`).

The ledger. `LedgerInv` has a part for each kind of row, and one lemma per operation keeps them. `ReceiptsFit`:
revenue is what the creator receipts have left; it falls by what a new round takes of them
(`TakeSums`, `RoundTakes`) and rises by what one returns (`RefundsSum`, `RoundReturns`). `RoundFits`: the
cost balance of a round is at most what its receipts gave, and once the round has returned anything it is
zero, with nothing in flight and the burn done. Only this makes a second
return impossible and keeps a charge from falling on a balance that was given back. `BackingFits`: the
liabilities and each batch are the sums of what the free and the batched claims are
owed, so a batch moves a sum (`ReserveBacked`), and a purchase adds what the allocation hands out
(`SharesCredited`, where `AllocateSums` is needed: a remainder left over would be a debt to
nobody). `TypeOK`, that no balance is negative, then follows in each case from a sum of natural numbers.

The claims. `ClaimInv` adds to `OneBatchPerClaim` that a claim is paid in full or not at
all, that a batch is never empty, and that a leg not yet bought has credited nobody.
The last is what makes a purchase create claims rather than overwrite them; the
first is what makes "unpaid" and "owed" the same for `schedulePayout`, which selects by
`paid < amount`. A new batch takes only claims that are in none; a finalized one
takes all of its own with it. Every other operation leaves claims, batches and legs
alone (`ClaimsFrozen`).

### Developer

`DeveloperProofs` proves `Inductive`, `TypeCorrect`, `LegacyKept`, `PayoutsFunded`,
`SurplusExact` (`TakesExactlySurplus`), `MarginKept` (`MarginIsKept`) and `OnePayoutAtATime`
(`UnresolvedIsLast`).

The argument. `DrawSpends`, `DrawPays` and `ReserveMoves` say what the waterfall over
the accounts does: it takes exactly the value when the value is covered, leaves
the legacy intent's part alone, and the reserve is never raised above the policy nor
out of what the obligations need. `ScheduleTakesSurplus` puts them together in the
order of the code. The obligations are a sum over the expenses that are approved and not paid
(`ObligationsAddUp`). A recorded payment lowers one summand by at least what it draws
(`PaymentLowersDue`, `PaymentKeepsMargin`), failures and settlements of payouts spend what the payout had set aside, so
the margin falls only where a new obligation or a new payout makes it
(`OthersKeepMargin`).

### Intake

`IntakeProofs` proves `Inductive`, `NothingIsSkipped` (`NothingSkipped`),
`OutputsAreNoDeposits`, `LedgerFits`, `BooksBalance` (`BooksAddUp`) and `IncidentsAreTrue`
(`IncidentsAreReal`).

The argument. A cursor is written by whichever worker comes last, so it may jump back or
forward past what another is still booking. `LeavesNothing` says why that is
harmless: whatever a worker has behind it in the history it walks is booked, by it or by
another, because it listed everything behind a cursor for which the same held. So each
position a worker writes is a safe cursor on its own, whatever the row held before.
That an output is not booked as a deposit rests on `AttemptedFirst`: the attempt
is durable before its transaction can land, so the look-up of `ingestion.ts:41` finds it.

`LedgerInv` adds that the balances are the opening ones and the sum of what has a row
(`BooksAddUp`), and that a row is only of what is on the chain (`BookedOnChain`). An incident
compares the books with balances read earlier. When the reading is not stale, every row is of a
transaction the reading includes (`SeenAllBooked`), so the difference is the sum of what it includes
without a row, less the booked deposits it does not look at (`DeltaIs`): deposits to come, outcomes of
intents in flight, expenses nobody recorded. The first only add (`ArrivalsAddUp`); the second take at most the bound of
their intents (`SeenInFlight`, `WithinBound`); a deficit beyond them has an expense in it
or the books hold a deposit in an account that is not sampled (`UnseenDeposits`, `DeficitIsReal`);
a surplus has a deposit to come (`SurplusIsReal`). An incident is opened by `Reconcile` alone (`ReportedOnly`).

### Selection

`SelectionProofs` proves `TypesHold`, `CommitmentsAreCurrent` (`CommitIsCurrent`),
`SwapsAreRouted` (`SwapsRouteTheirOwnAmount`) and `AnswersAreFresh` (`ReadyIsFresh`) for any
callers, budgets, clocks and policies.

The argument. A forced read never joins another: it is answered only by the read it began itself
(`OnlyOneOwns`, `PendingIsOwned`, `SettledLeavesOne`), whose catalogue is not the cached one and
was requested after the caller's authorization (`ForcedAnswersAreOwn`). That takes the
queues: whoever is in one waits, and is there once (`QueuesWait`, `NobodyTwice`), so a
settled read wakes nobody who has an answer already. The budget is compared by
`revalidateBasket`. The other two follow a caller's record (`CallerTurn`): in one step it stays, leaves,
takes an answer that was aged at that moment, or signs one that was compared with its own
budget; a settling answers the reader who began, and those it wakes read again (`OutcomeTurns`).

### Basket

`SelectionProofs` proves `BasketOfSet`, that two sequences of the same candidates in any order and with any
repetitions select the same basket, and `SelectionsAreFair` (`SelectionIsFair`), both for any rows and any
size of a basket.

The argument. `Sorted` arranges positions, each once (`RankingIs`, `OrderedIs`, from `Ranks`), by rank where
the elements differ in rank. A mint conflicts exactly when two of its copies differ, though the code compares
neighbouring copies only (`ConflictsAre`: of the copies that differ from the first, take the earliest and the
copy before it). So exactly one position is left without a reason for each mint that qualifies and all of
whose copies agree (`EligibleAre`): what may be chosen is a set, `Agreed`, of the set of the candidates. It holds one
candidate of a mint, hence it has one ranking only (`RankingIsOne`: two would differ first somewhere, and each would
place its own member before the other's), and the basket is the head of it (`BasketIs`, `BasketIsTop`).
Collapsing the catalogue, where a market stands for a mint only if pools, values and flags agree
(`MarketIs`, `CandidatesAre`), and selecting from a saved universe (`SavedAre`) leave `Agreed` as it is.

### TokenImage

`TokenImageProofs` proves `ServesWhatIsListed` (`ServedWhileListed`), `LoadsAreBounded` and
`CacheAddsUp` (`CacheIsAccounted`).

The argument. `IndexInv` says that the index, when it is marked as the last good catalogue's, is
equal to it; every way to `served` looks the image up in that index in its last step,
and nothing is awaited between the look-up and the answer.

`CacheInv` says that no image is cached twice and none is cached while it is being
loaded: that is what makes the bytes of the list the sum over its set (`BytesAre`), so
an image that is forgotten, evicted or stored moves the count by its own size (`KeysRemove`,
`KeysSplit`, `KeysAppend`). Without it a second load of a cached image would be counted twice. The
eviction stops below both bounds since an image fits into an empty cache (`EvictionFits`).

### MarketPanel

`MarketPanelProofs` proves `TypesHold`, `SpinnerIsAwaited` (`BusyIsAwaited`),
`WholeListsAreShown` (`ListsAreWhole`) and `NothingLateIsShown` (`ListIsRetained`) for any
queries, lengths of lists, cache size and number of requests in flight or observations. They
rest on `Fresh`: a version is an identity no request holds, which a counter that only grows is.

The argument. `BusyInv` is inductive by itself: each action that starts a request makes the page
busy with a version nobody holds, and each answer to the current version makes it idle.
`ListInv` says what a late answer cannot know by itself. An answer of the current version
belongs to what is shown now, which was not asked for later than it, so what it brings was asked for
no earlier (`RequestsContinue`); when it asks for a further page or is a retry,
the list it carries is the one still shown. A poll that replaces the list of the default view
takes a new version in the same step, and there the list was never asked for after the
overview (`PageIsOfKey`), so falling back to the overview never brings an earlier answer. The proof
assumes nothing of the observations the answers are of.

### Only model-checked

* Liveness (outside the prover): `NoJobStarves`, `OutcomeIsRecorded`, `EveryArrivalIsBooked`,
  `EveryReadIsAnswered`, `RequestsAreAnswered`, `OlderIsAnnounced`.
* The two runs that expect a violation.

`OneUnresolvedAttempt`, `ReplacedOnlyAfterFailure`, `SentIsDurable` and `OneBatchPerClaim` are proved
and no longer run: `ImplementsLane`, `AtMostOnePayment` and `KeepsPromise` fail where they would.

## 5. Where code and text disagree

* `pause_race`: `docs/BACKEND-CORRECTIONS.md:85` says that new preparation cannot
  happen while paused. `authorize()` reads `paused` for the last time before the
  signer signs (`runner.ts:32`); the storing transaction (`runner.ts:46-60`) does not
  read it, so a pause that commits in between is followed by a new durable attempt.
  It is not sent while paused: `authorizeBroadcast` checks again.
* `slow_prepare`: `runner.ts:108` says "A denied unsigned job must not starve other
  due jobs". When the preparation outlasts the lease, `defer` is refused by the
  fence and the job's place in the order does not change, so the next tick starts
  the same job. If that happens every time, another due job is never attempted.

## 6. Not modelled, and what could follow

Not modelled: parsing of provider documents, instruction building and swap validation,
start-up configuration, scripts and the pages that only display: one input at a time and no
state. The Jupiter collector and the on-chain checks of a candidate are evidence that may be
incomplete. The retries of a logo (`market.tsx:8-26`) are three timers of one image. The
demo chain is a test double of the adapter that `Execution` models. The admission of a mint
(`admission.ts`) reads one frozen round, which nothing changes.

What could follow:

1. Composition of `Execution` with `Treasury`: the principal and cost account of an intent
   as accounts of the ledger; the mapping of `Settle` to `Finalize*` and of
   `RecordFailure` to `Fail*`, so that the charge bound of `Treasury` is derived, not assumed.
2. Liveness of reconciliation: a request is answered while settlements go on.
3. Theorems about policies of version 1, whose baskets depend on which copy of a mint sorts first.
