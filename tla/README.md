# Verification of the Taler wallet core

This directory holds TLA+ models of the wallet in `src/packages/taler-wallet-core`,
TLC configurations that check them on small instances, and TLAPS proofs of the
results that matter most. Paths below are relative to
`src/packages/taler-wallet-core/src/` unless they start with `src/`; `refresh.ts`,
`pay.ts`, `refund.ts` and `state.ts` are in `operations/`.

The wallet is one JavaScript event loop. Between two `await`s code runs alone; a
database transaction is atomic; everything else can interleave: the main loop
works on pending operations while the user's calls work on the same records,
requests fail after the other side acted on them, and the process can end at any
`await` and start again from the database. The models are about these
interleavings. Money is lost or double spent by wrong orders of correct steps,
and those are the orders that unit tests do not reach.

## 1. Inventory

### Components of the wallet core

| Component | State it keeps | Operations | Talks to |
|---|---|---|---|
| Retry loop (`wallet.ts`, `operations/pending.ts`, `util/retries.ts`) | `stopped`, the latch, the timer group, the memo of the running loop and of the running query, listeners; `retryInfo` of every record | `runRetryLoop`, `runUntilDone`, `runPending`, `stop`, `getPendingOperations` | calls every other component; is woken by the latch and a timer |
| Resource locks (`operations/state.ts`) | `resourceLocks`, `resourceWaiters` | `runSequentialized` | payment and melt requests, which share the coins of an exchange |
| Crypto dispatcher (`crypto/workers/cryptoApi.ts`) | worker slots, queues by priority, `numBusy` | `doRpc`, `wake`, `findWork`, worker messages and errors, `stop` | worker threads or a synchronous worker; every component that signs |
| Refresh groups (`operations/refresh.ts`) | `RefreshGroupRecord`, coins, the memo `memoProcessRefresh` | `createRefreshGroup`, `processRefreshGroup`, create session, melt, reveal, `autoRefresh` | the exchange; refunds, recoups and payments create groups |
| Payments (`operations/pay.ts`) | `PurchaseRecord`, coins | `confirmPay`, `submitPay`, `processPurchasePay`, replay under a session ID | the merchant; locks; refresh groups |
| Refunds and aborts (`operations/refund.ts`) | refunds of a `PurchaseRecord`, coins | `applyRefund`, `abortFailedPayWithRefund`, `processPurchaseQueryRefund`, `acceptRefunds` | the merchant; creates refresh groups |
| Proposals (`operations/pay.ts`) | `ProposalRecord` | `preparePayForUri`, `startDownloadProposal`, `processDownloadProposal`, `refuseProposal` | the merchant; payments |
| Reserves (`operations/reserves.ts`) | `ReserveRecord`, `BankWithdrawUriRecord` | create, register with the bank, wait for confirmation, query, create withdrawal groups | bank, exchange, withdrawal groups |
| Withdrawal groups (`operations/withdraw.ts`) | `WithdrawalGroupRecord`, `PlanchetRecord` | select denominations, generate, exchange and verify planchets | exchange, crypto dispatcher; creates coins |
| Deposit groups (`operations/deposits.ts`) | `DepositGroupRecord` | `createDepositGroup`, `processDepositGroup` | exchange; spends coins |
| Recoup groups (`operations/recoup.ts`) | `RecoupGroupRecord` | recoup a withdrawn, refreshed or tipped coin | exchange; reserves, refresh groups |
| Exchange update (`operations/exchanges.ts`) | `ExchangeRecord` with its `updateStatus`, denominations | `/keys`, `/wire`, terms, finalize | exchange; creates recoup groups |
| Tips (`operations/tip.ts`) | `TipRecord` | `prepareTip`, `acceptTip`, `processTip` | merchant; creates coins |
| Balance and transaction list (`operations/balance.ts`, `transactions.ts`) | none | read-only views | the database |
| Coin selection (`util/coinSelection.ts`) | none | `selectPayCoins` and fee tallies | payments, deposits |
| Backup (`operations/backup/`) | backup providers, the wallet's root key | export, import, cycle | merges into all records |
| Database access (`util/query.ts`, `db.ts`) | transactions | `runWithReadTransaction`, `runWithWriteTransaction` | IndexedDB or the bridge |
| HTTP (`util/http.ts`, `util/RequestThrottler.ts`) | token buckets | `fetch` | the network |
| Cryptographic primitives | none | blinding, signatures, hashes | workers |
| IndexedDB bridge (`src/packages/idb-bridge`) | object stores, indexes, transactions, cursors | scheduling, rollback, walks over a store or an index, dump | the host of the wallet |
| Codecs, URIs, types (`src/packages/taler-util`) | none | parsing | everything |
| Web extension, command line, Android | user interface | message passing | `handleCoreApiRequest` |

### How they interact

* The retry loop reads the pending operations of every record, and processes
  them one after another. Components report an error by writing it to the record
  along with the next retry time (`guardOperationException` and the
  `increment...Retry` functions), and throw.
* Calls of the user run at the same time as the loop and on the same records.
  `AsyncOpMemo` merges calls for the same refresh group, recoup group, reserve,
  deposit group, and for the pending operations. Purchases, proposals, tips and
  withdrawal groups have no memo: two runs for one record are normal.
* Coins are spent in transactions (`applyCoinSpend`). Requests that show coins to
  an exchange take the lock `EXCHANGE_COINS_LOCK` (`refresh.ts:291`, `:434`,
  `pay.ts:936`, `:1020`). `EXCHANGE_RESERVES_LOCK` is declared and never taken.
* Refunds, aborts, recoups and payments create refresh groups within their own
  transaction.

### What is hard, and what makes each component correct

* *Refresh groups*: sessions of one group run in parallel, `Promise.all` gives up
  on the first failure and the other sessions go on as orphans beside the next
  run; a crash separates what the exchange melted from what the database says.
  Correct: one melt commitment per coin ever; a group is finished exactly when
  all of its coins are; no new coin without a melt, no melt without its new
  coins in the end; coins that were shown are never fresh again.
* *Payments, refunds and aborts*: several calls per record, each with several
  `await`s; a merchant may take a payment whose answer was lost and which the
  user aborts meanwhile. Correct: value is credited once and only if the exchange
  honours it; none is forgotten; a payment is not undone; payments and aborts end.
* *Proposals*: two calls for one order, late downloads, decisions of the user.
  Correct: one proposal per order, claimed with a nonce that is stored; decisions
  are final for downloads; what is bought was accepted and has its terms.
* *Locks*: a waiter wakes up one microtask after the lock is released. Correct:
  no lock is left locked, no waiter forgotten, nobody waits forever, mutual exclusion.
* *Crypto dispatcher*: a counter and a set of slots have to agree through
  messages, errors, timeouts and stops. Correct: work conserving, in order of
  priority and age, every promise settles.
* *Retry loop*: the wake-up races the question for pending operations; queries are
  shared; the limit on retries is looked at asynchronously. Correct: due
  operations get their turn; `runUntilDone` returns when it should and only then.
* *Reserves and withdrawals*: what is left to withdraw is computed from groups that
  other calls create meanwhile; two runs exchange one planchet. Correct: no more is
  promised than was credited, a signed coin keeps the planchet it was signed for,
  a finished group has all its coins, and what is credited becomes coins.
* *Deposits*: a group is put twice by its creation and finished on a record read
  before the requests. Correct: each coin is in the wallet, with another payment, or
  in the group; a finished group has all its coins at the exchange.
* *Recoups*: parallel coins in one record, orphaned work, refreshes at the end.
  Correct: what the exchange pays back is credited once; groups end.
* *Exchange updates*: four steps with the network between them, by overlapping calls,
  beside a verification of denominations that puts what it read long ago. Correct:
  a finished record has everything; a coin is recouped once.
* *Tips*: three calls without a memo that put what they read. Correct: the coin of a
  tip that is picked up is in the wallet; tips arrive.
* *Coin selection*: sums of fees against limits. Correct: a choice covers the price and
  the fees it shows are the customer's share of them, but for rounding; a payment that is possible is found.
* *Several operations on the same coins*: payments, refunds and refreshes take up and
  give back value in transactions of their own. Correct: each unit has one place;
  the balance counts it once.
* *Backup*: devices read, merge and replace one blob with optimistic concurrency, while
  one of them may still be adding the exchange that the records belong to. Correct: an upload covers
  what it replaces, but for an exchange that it leaves out; the devices converge.
* *Database access, bridge*: transactions commit or roll back as a whole, beside each
  other, with requests that fail late. Correct: they are atomic, callers are told
  what became of them, nobody waits forever.
* *Cursors*: a walk asks for the next record while the records it has passed, is at,
  or has before it are put and deleted, by other streams of the same transaction, some of which
  nobody awaits. Correct: a walk misses nothing that stays and delivers nothing twice, the index
  leads to the records, and the transaction does not end before its walks.
* *Throttle*: three buckets that refill with time, on a clock that may be set. Correct: no
  more requests pass than the limits say.

`PROJECT.json` lists the components with their status and the hazards with their lines.

## 2. Plan

Done, in this order: `RefreshGroup` (the one place where a retry can spend twice),
`RunSequentialized`, `CryptoApi`, `RetryLoop`, `Purchase`, `Proposal`, `Withdraw`,
`Deposit`, `Recoup`, `ExchangeUpdate`, `Tip`, `Backup`, `IdbTransactions` with its
abstract specification `AtomicStore`, `Money` (payments, refunds and refreshes on
the same coins, with the balance), `Selection`, `ObjectStore`, `RequestThrottler`. Each safety property of theirs that
a run checks is proved, also those that sum or choose over data.

What would come next:

1. The composition of `RetryLoop` with `Purchase`: the retry counters of records and
   the operations that stay due although nothing can be done about them.
2. `IdealPayment`, an abstract wallet in which a payment is one step, which
   `Purchase` without the race of an abort implements; `AsyncOpMemo` as an
   abstract specification of "at most one run per key".
3. Several denominations: `Withdraw` and `RefreshGroup` with amounts, on top of `Selection`.
4. Connections, version changes, key generators, backward and unique cursors of the bridge.

## 3. The modules

Common conventions. An action is what happens between two `await`s, or a whole
transaction with what follows it up to the next `await`. What a call read before
an `await` is part of its own state. A request is split into sending, the other
side's step, and the answer; `RequestFails` loses the request's answer, whether
or not the other side acted. Definitions named after the code's functions are
those functions; `PROJECT.json` ("map") gives the lines. Definitions introduced as
"Mutant of ..." (or "as it would be with ...") are wrong on purpose: they are variants
that a plausible bug would produce, and each property of a passing run is violated
by one of them.

Modules that share no state are model-checked side by side: `MCRecords`, `MCOverlaps` and
`MCConcurrency` put them into one specification with a variable `part` that says
which of them a behaviour is about: that one takes its steps, the others rest. `MCRefreshGroup` and `MCPurchase` add
symmetry, `MCWithdraw` the groups. Proofs are in `*_proofs` modules;
`Records_proofs` holds those of `Deposit`, `ExchangeUpdate`, `Recoup`, `Tip`,
`Proposal` and `Backup`, `Concurrency_proofs` those of `RunSequentialized` and `CryptoApi`,
`IdbTransactions_proofs` also those of `ObjectStore`, `Amounts_proofs` those of `Money`, `RequestThrottler` and `Selection`,
with what they have in common: facts about `SumOver` (module `Sums`), the only sum that these modules use.

### RefreshGroup

One `RefreshGroupRecord` (`rg`), the coins derived from it (`newCoin`), what the
exchange saw and accepted (`sent`, `exch`), and a set of slots for runs of
`processRefreshGroupImpl` with one session per coin (`run`, `pc`, `seed`).
`memo` is the entry of `memoProcessRefresh`. A session goes
`ReadSession` -> `CreateSession` -> `SelectDenoms` -> `StoreSession` or `FinishSmall`
-> `RereadSession` -> `SendMelt` -> `MeltAnswered` -> `StoreMelt` -> `SendReveal` ->
`RevealAnswered` -> `StoreReveal`, each from its own stale knowledge. `FirstRejected`
is the rejection of `Promise.all`; `Orphans` are the sessions it leaves behind.
`Crash` empties memory. One old coin yields one new coin; amounts and denominations
are abstracted to whether a session can be created at all (`offered`).

### RunSequentialized

`state.ts:88-119`: the loop over the sorted tokens (`Taken`, `Blocked`, `Continue`), the
wake-up one microtask later (`Resume`), the `finally` block (`Release`). Tokens are
numbers so that sorting has a meaning.

### CryptoApi

Slots (`cur`, `inst`, `timer`), the request a slot's instance still has to answer
(`job`), the queues, `numBusy`, and the promise of each request (`outcome`). Names of
requests are used again once nothing refers to them, so that runs are unbounded.
Every handler is one step because the dispatcher has no `await`. Terminating an
instance may or may not drop an answer under way: a thread's is dropped, a
synchronous worker's is not.

### RetryLoop

Records are reduced to "pending", "due" and `retryCounter`. The loop asks for due
operations (`Head`), decides (`Decide`), works through a round (`StartOne`,
`FinishOne`, `EndRound`), or asks for all of them, tells the listeners and waits
(`Sleep`, `TimerFires`). `query` and `answer` are the memoised query, shared
whatever its filter. `notify` posts (`notes`), the listener of `runUntilDone` runs
later (`Deliver`) and queries in turn (`monitor`); what it learns arrives with
`QueryResolves`, possibly after the call returned. `news` is a history variable: the operations added
since the read of the database on which a "no live operations" notification rests.

### Purchase

One `PurchaseRecord` (`p`), the coins' `currentAmount` and the value put into refresh
groups, and tasks: calls of the user or of the loop between their `await`s. The
merchant deposits the coins of payments it received, one by one, marks the order
paid, aborts it, grants refunds; the exchange refunds deposits or refuses to.
A coin is worth one unit and fees are zero, so that "credited twice" and "forgotten"
are counted in units. The answers of the merchant are computed when it acts and
applied when the task goes on, however late.

### Proposal

Calls of `preparePayForUri` and of the loop for one order: lookup, creation,
claiming, download, repurchase detection, decision, confirmation. A `Prepare` reads
before it creates; `Claim` is the merchant's step; `StoreTerms` and
`FailPermanently` are transactions that come late.

### Withdraw

One reserve (`status`, `requested`), its withdrawal groups (`size`, `finished`), their
planchets and coins, the bank, and the exchange (`credits`, `gone`, `debited`, `recoups`).
Three activities overlap: "memo" is `processReserve` (memoised), "bank" the call of
`processReserveBankStatus` that `createTalerWithdrawReserve` makes beside it, "loop" the
retry loop processing a group. A run polls and registers with the bank (`PollConfirmed`,
`Post`, `RegisterTx`, ...), queries the reserve (`QueryAnswered`: what was answered is kept
in `snap`, from then on stale), allocates the rest to a new group in one transaction
(`AllocateAll` or `Allocate`), and processes the group: planchets (`Look`, `MakePlanchet`), exchange
(`Withdraw`, `Refused`, `Lost`), coin (`StoreCoin`), finish (`Count`). Amounts are
counted in coins of one denomination.

### Deposit

One group of coins: `createDepositGroup` spends the coins and stores the group in one
transaction (`CreateDeposit`) and puts it a second time as it made it (`RewriteDeposit`);
`processDepositGroup` sends the coins that its record (`old`) shows as not deposited,
marks each in a transaction (`MarkCoin`), and finishes the group if the old record had
them all (`EndDeposit`). `OtherSpend` is a payment that takes the same coins first.

### Recoup

One group with withdrawn, refreshed and tipped coins, by parallel workers of a run
and orphans of earlier ones: `AskRecoup` is the exchange, `EnterTwice`, `EnterRefreshed`,
`EnterOther` the transactions, by the kind of the coin. The last coin creates a refresh
group if coins are scheduled for it; for the kinds whose transaction does not include
that store the creation throws (`CannotEnd`), and the group is `Blocked`.

### ExchangeUpdate

The exchange's record with its `updateStatus` and what it has of keys, wire details and
terms; a denomination that is verified and revoked; coins of it, and the recoup groups
made for them. Two calls of `updateExchangeFromUrl` run their four steps, each a
request and a transaction with its own guard. `StartVerify` and `PutVerified` are
`updateWithdrawalDenoms`, which puts denominations it read before signatures were checked.

### Tip

Calls of `prepareTip` (`LookUpTip`, `PutTip`), `acceptTip` (`ReadTip`, `AcceptTip`) and `processTip`
(`StartPick`, `PickUp`, `StorePick`), any of which may overlap for the same tip; the merchant
signs for one set of planchets only. The planchets of a tip are one.

### Backup

Devices with their databases, the provider's blob (`stored`), and cycles: `StartCycle` reads the hash that the device
last saw, `Export`, `Upload` (answered by success, conflict, a demand of payment, or "not modified"), `PayProvider`,
`StoreHash`, or `Import` and `NoteImport`. Several cycles may be under way, also on one device; `LoadRecovery` joins the account.

A record has a kind and a name: coins, reserves, tips, proposals, purchases. A withdrawal group is treated like
a reserve and a refresh group like a purchase. All belong to one exchange, whose record has a state of its own on each
device (`exchangeAt`): an update looks for it (`FindNoExchange`), puts a new one over whatever an import has put
since (`PutExchange`), and completes it step by step (`UpdateExchange`). `Exported` leaves the denominations, coins and
reserves out while the exchange is not complete (`export.ts:218-232`); tips, proposals and purchases go out
without it. `Merged` puts what is not there, reserves and tips with an *empty* selection, because
`getDenomSelStateFromBackup` computes the value of the selection and forgets its entries (`import.ts:122-153`); `Importable`
says when the transaction throws instead: a purchase without its coin or the wire fees, a reserve or tip whose selection is
empty or whose denominations are missing. Coins, reserves and tips are made on a device with a complete exchange only, as
the operations that make them wait for its update; that a coin is made while a concurrent `PutExchange` has reset
the record is the same as made before it.

### Money

Payments, refunds, aborts, refresh groups and `autoRefresh` on the same purse. A transaction is
one step; what was selected and is not yet recorded is kept per payment (`selected`), so
that two payments race for a coin. `left`, `deposits` and `refunded` are the exchange's books.

### Selection

`selectPayCoins` with its tally of fees, and `selectWithdrawalDenominations`, against definitions
that know no order (`CanPay`, `CustomersShare`, all counts of coins). The sorted lists of the code are sets with an order:
a loop is a recursive function on the set of candidates considered so far (`Tally`, whose last one is `LastOf`) or
still to come (`Gives`, whose first one is `LargestOf`); its body is `Consider` and `AsManyAsFit`.

### AtomicStore and IdbTransactions

`AtomicStore` is the promise: a transaction takes effect in one step (`Commit`), reading what
is committed at that moment, or not at all (`Abort`). `IdbTransactions` is the machinery from
`runWithTransaction` through `BridgeIDBTransaction._start` to the in-memory backend: the function's
microtasks (`fn`), requests (`req`), the engine's tasks (`sched`), the backend's owner with its working
copy, errors, explicit aborts, exceptions, a function that waits for something that is no
request (`GoAway`), and the death of the process. `Abstract` is the instance of `AtomicStore`, with what
the caller saw as `result` and what became of the transaction as `outcome`.

### ObjectStore

One store of the in-memory backend (`records`), one of its indexes (`entries`), and one transaction with
its queue (`requests`) and several result streams, each over the store, the index, or one index key. A
stream has its cursor's `position` and waits for its next record, for a write that the function called
with the last one awaits, or has ended (`walk`). `StoreNext` and `IndexNext` are `getRecords` without and with an
index: what comes behind the position *now*, the record there or not. The engine takes a request when the
continuations of the one before have run (`ContinuationsRun`), and commits when it finds none.
`visits` and `steady` are history variables: what was delivered, and what was there all the time.
All walks are forward, and those over an index have a lower bound, as in the wallet. A record
never changes its index key, which is so in the wallet: indexes are over what a record is made with.

### RequestThrottler

The buckets of one origin. Time passes in ticks (`Tick`), `wallClock` is what the system says and may be set
back (`SetBack`). A token is `Period[l]` ticks' worth, so that fractions of tokens are whole numbers, and a bucket
holds `Full(l)` at most. `RequestPasses` and `RequestThrottled` are `applyThrottle` with its refill. `passed` is history.

## 4. The runs

| Run | Properties | Bounds and why they are enough |
|---|---|---|
| `RefreshOverlap` | `OneCommitment`, `NewCoinIsBacked` | Two coins (one can fail while the other finishes), two runs (an orphan beside the next run), three seeds (each run draws its own), two faults (a failure and a restart), denominations that change. |
| `RefreshLive` | `NothingStranded`, `EventuallyDone` | As above with one fault and stable denominations: with changing ones an overlap can strand a melted coin (section 7). |
| `Concurrency` | locks: `QueueMoves`, `EveryCallRuns`; workers: `WorkConserving`, `NoOvertaking`, `PendingIsSettled`; database: `Atomic`, `OutcomeIsTold`, `EveryTransactionSettles` | Three callers and two tokens give chains (holds 1, waits for 2), queues of two and overtaking; calls repeat without bound. Two slots, three priorities and four requests at a time, so that one slot frees while the other works and two requests wait; operations may throw, the wallet may stop. Two transactions over the same two keys in opposite order, and one crash. |
| `Loop` | `ReturnsWhenNoneLeft`, `LiveOpsGetTheirTurn`, `UntilDoneReturns` | Two live operations, one with a retry counter (a payment) and one without (the pickup of a tip), and one that is not live; a limit of one retry and counters up to two (then saturating: an operation may fail for ever); one event (an addition or an unreported failure), so that an addition races the wait; calls of `runUntilDone` repeat. |
| `Purchase` | `CreditIsBacked`, `NothingForgotten`, `AbortIsComplete`, `PaymentGetsThrough`, `AbortEnds` | Two tasks at a time, any number over time; a price of two coins, so that one can be deposited without the other; one lost request; confirmations do not overlap. |
| `Withdraw` | `NeverOverallocated`, `CoinsAreBacked`, `MoneyArrives` | Two groups and credits of two coins: a second credit while the first is withdrawn, a query between, coins recouped into the reserve; all three activities; one lost request, death, or coin's worth that leaves the reserve. |
| `Records` | deposit: `CoinsAreAccounted`, `DepositIsComplete`, `DepositEnds`; recoup: `CreditedOnce`, `RecoupEnds`; tip: `TipArrives`; backup: `BackupConverges` | Two deposit coins; one withdrawn, two refreshed, one tipped coin to recoup (a refreshed one may be last or not); two calls of each kind on tips; two devices, the second without the exchange, with a coin, a tip, an order and one new record; one cycle at a time on whichever device, because with two under way the liveness check takes too long. One trouble (failure or death) each. |
| `Overlaps` | exchange: `FinishedHasAll`, `RecoupedOnce`; proposals: `OneProposalPerOrder`, `AcceptedStays`; money: `EveryUnitHasOnePlace`; choices: `SelectionPays`, `WithdrawalIsClosest`; backup: `BackupKeepsAll`; store: `WalkIsComplete`; throttle: `RateIsLimited` | Two updates beside a verification and a revocation, an expiry and a failure; three racing calls (two create, a third downloads) and the loop; three coins, two payments, three refresh groups and a death; every request of up to three coins or denominations from the sets in `MCOverlaps` (one exchange and two, with and without a wire fee, which is due as a whole or halved by amortization); two backup cycles at a time on two devices, of which the second has the exchange's keys and wire fees but is not done adding it, with a reserve, a tip and an order, to which either device adds a coin, without lost requests and purchases (they are in `Records` and in the proof); three records of which two share an index key, in any initial selection, three streams (the store, the index, one index key) opened in any order, two writes beside them; two buckets (two tokens of two ticks, three of five), eight ticks and a clock set back once. 780,000 states in all. Cycles, updates and payments are symmetric. |

Four more runs show what the code does against its own words (section 7):
`RefreshFreshShown`, `LocksExclusive`, `PurchasePaidAborted`, `BalanceOnce`.

Symmetry is used only in runs that check safety properties alone (coins, runs and
seeds, or coins and tasks are interchangeable there). Deadlock is not checked where a system may
rightly stop: a finished group, a wallet that was stopped, calls that are not repeated.

The parts of `Records` and `Overlaps` are explored one after another, never as a product.
They share no state in the code either, except for the coins, and what depends on coins being
shared is in `Money` and in the environment steps of each module (`OtherSpend`, `SpendTip`, ...).

Three liveness properties have exceptions, each a case where the code does not get there
(section 7): `MoneyArrives` excludes a reserve from which money left otherwise, or that is
dormant although credited later without being asked (`Stranded`); `RecoupEnds` excludes `Blocked`
groups; `EveryTransactionSettles` excludes a transaction whose abort overtook its begin
(`Overtaken`). `PendingIsSettled` excludes requests behind an operation that threw (`Stuck`), after `stop`,
or behind more urgent ones. `WithdrawalIsClosest` is claimed for denominations each of which divides
into the next (`Nested`), and that a possible payment is found (`SelectionPays`) for coins of one exchange. The
fees that `SelectionPays` compares may differ by less than one unit per further exchange, because
`tallyFees` divides the wire fee of each exchange on its own and rounds down.

### Fairness

* `RefreshGroup`: weak fairness of every continuation (the event loop runs what is
  ready), of starting a run (the retry loop comes back to an unfinished group) and
  of the exchange. Failures are bounded by `MaxFaults`: liveness is claimed for
  the time after the last failure, as in all modules with troubles.
* `RunSequentialized`: weak fairness of the continuations and of the end of each
  critical section. All callers' functions end: requests in them have timeouts.
* `CryptoApi`: an instance with something to answer answers, fails, or throws.
  Nothing is assumed about timers, about `stop`, or about an operation that threw.
* `IdbTransactions`: weak fairness of the transaction function's next step when it is ready, strong
  fairness of each engine's step, because beginning waits for other owners of the backend who come
  and go (waiters are woken together and the queue of tasks is fair). Nothing is assumed
  about a function that waits for something else.
* `RetryLoop`: weak fairness of the loop's steps, of the query's, of the delivery of
  each kind of notification, and of time. A timer with a delay fires after the
  notifications posted before it (they are posted with `setTimeout` 0). `UntilDoneReturns`
  has two exceptions: when in every round an operation becomes due between
  the loop's two queries, the listener may always share a query for due operations only; and no limit sees
  the pickup of a tip, which may fail for ever (`CountedOps`, section 7).
* `Purchase`: weak fairness of each task's next step, of the merchant's deposits and
  of the exchange; strong fairness of the loop picking up a pending payment or
  query, because the user's calls can keep disabling it (all tasks busy) without
  keeping the loop from its turn in the real wallet, where tasks are not limited.
* `Withdraw`: weak fairness of the bank's transfer, of recoup transactions that are due, and of each
  run's next step; strong fairness of `processReserve` and of processing each group (the
  retry loop, which may find the slot taken).
* `Deposit`, `Recoup`: weak fairness of the running call's next step, strong fairness of the
  retry loop starting a run. `Tip`: the same; what is claimed begins with an accepted tip.
* `Backup`: strong fairness of starting a cycle on each device: the wallet does not schedule cycles, so
  `BackupConverges` is claimed of a user who keeps running them. Weak fairness of a cycle's next step, and of an update of the
  exchange that has begun (the retry loop goes on with it). Two devices only: of three, one may always meet
  a conflict while the others replace each other's backups.

## 5. The proofs

The theorems hold for every value of the constants that satisfies the
assumptions of the modules (`RefreshAssumption`, `PurchaseAssumption`, ...; each is
commented where it stands: sets of names are finite where something counts them, "none" values are no
names, bounds are natural numbers, there is a worker and a priority; a candidate coin has an amount, a denomination a
value, an amortization is positive). Three theorem groups assume more,
in their statements: `ReturnsRightly` that callers other than the loop ask for all operations
(`OtherQueries \subseteq {"all"}`), the theorems of `Purchase_proofs` that `confirmPay` is not called again
while it runs (`~ConfirmsOverlap`), `NoMeltIsStranded` that the denominations on offer do not change.

| Theorem | Always (or in every step) |
|---|---|
| `RefreshGroup_proofs!TypeCorrect` | `TypeOK` |
| `RefreshGroup_proofs!NeverTwoCommitments` | `OneCommitment` |
| `RefreshGroup_proofs!DoneIsAllFinished` | `DoneWhenAllFinished` |
| `RefreshGroup_proofs!AssertionHolds` | `NoMissingSession` |
| `RefreshGroup_proofs!NewCoinsAreBacked` | `NewCoinIsBacked` |
| `RefreshGroup_proofs!NoMeltIsStranded` | `NothingStranded` |
| `Purchase_proofs!PurchaseTypeCorrect` | `TypeOK` |
| `Purchase_proofs!RefundsAreCreditedOnce` | `CreditIsBacked` |
| `Purchase_proofs!NoCoinIsForgotten` | `NothingForgotten` |
| `Purchase_proofs!AbortBringsAllBack` | `AbortIsComplete` |
| `Withdraw_proofs!WithdrawTypeCorrect` | `TypeOK` |
| `Withdraw_proofs!NeverPromisedTooMuch` | `NeverOverallocated` |
| `Withdraw_proofs!EveryCoinIsBacked` | `CoinsAreBacked` |
| `Withdraw_proofs!FinishedGroupIsComplete` | `FinishedIsComplete` |
| `Withdraw_proofs!AbortedStaysAborted` | `AbortIsFinal` |
| `Records_proofs!DepositLosesNoCoin` | `CoinsAreAccounted` |
| `Records_proofs!FinishedDepositIsComplete` | `DepositIsComplete` |
| `Records_proofs!FinishedExchangeHasAll` | `FinishedHasAll` |
| `Records_proofs!NoCoinRecoupedTwice` | `RecoupedOnce` |
| `Records_proofs!RecoupCreditsOnce` | `CreditedOnce` |
| `Records_proofs!OrderHasOneProposal` | `OneProposalPerOrder` |
| `Records_proofs!DecisionsStay` | `AcceptedStays` |
| `Records_proofs!DepositTypeCorrect` | `DepositTypeOK` |
| `Records_proofs!ExchangeTypeCorrect` | `ExchangeTypeOK` |
| `Records_proofs!EndedGroupIsRefreshed` | `EndedIsRefreshed` |
| `Records_proofs!RecoupTypeCorrect` | `RecoupTypeOK` |
| `Records_proofs!PickedUpTipHasItsCoin` | `TipIsPickedUpOnce` |
| `Records_proofs!TipTypeCorrect` | `TipTypeOK` |
| `Records_proofs!ProposalTypeCorrect` | `ProposalTypeOK` |
| `Records_proofs!BoughtIsAccepted` | `PurchaseWasAccepted` |
| `Records_proofs!BackupTypeCorrect` | `BackupTypeOK` |
| `Records_proofs!ProviderForgetsNothing` | `BackupKeepsAll` |
| `Amounts_proofs!MoneyTypeCorrect` | `MoneyTypeOK` |
| `Amounts_proofs!NothingLeftBehind` | `DormantIsEmpty` |
| `Amounts_proofs!EveryUnitIsAccounted` | `EveryUnitHasOnePlace` |
| `Amounts_proofs!BalanceStaysCovered` | `BalanceIsCovered` |
| `Amounts_proofs!RequestsAreLimited` | `RateIsLimited` |
| `Amounts_proofs!SelectionsPay` | `SelectionPays` |
| `Amounts_proofs!WithdrawalsAreClosest` | `WithdrawalIsClosest` |
| `IdbTransactions_proofs!TransactionsAreAtomic` | `Atomic` |
| `IdbTransactions_proofs!CallersAreTold` | `OutcomeIsTold` |
| `IdbTransactions_proofs!IndexLeadsToRecords` | `IndexIsExact` |
| `IdbTransactions_proofs!WalksAreComplete` | `WalkIsComplete` |
| `Concurrency_proofs!LocksTypeCorrect` | `TypeOK` |
| `Concurrency_proofs!NoLockLeftBehind` | `LockedIsHeld` |
| `Concurrency_proofs!NoLostWakeup` | `QueueMoves` |
| `Concurrency_proofs!WorkersTypeCorrect` | `CryptoTypeOK` |
| `Concurrency_proofs!CounterIsRight` | `BusyCount` |
| `Concurrency_proofs!NoIdleSlot` | `WorkConserving` |
| `Concurrency_proofs!BusySlotsAreServed` | `BusyIsServed` |
| `Concurrency_proofs!NobodyIsOvertaken` | `NoOvertaking` |
| `RetryLoop_proofs!ReturnsRightly` | `ReturnsWhenNoneLeft` |

Most of these properties are also checked by a run. `DormantIsEmpty`, `BalanceIsCovered`, `FinishedIsComplete`, `IndexIsExact` and the
others that section 4 does not name rest on their proofs alone.

Each is proved from an inductive invariant: it holds initially, one lemma per action (or
per group of actions that treat a conjunct alike) shows that a step keeps it, and it
implies the property. Action properties and the refinement use the invariant in the last step.
Why the invariants are what they are:

* *Refresh groups* (`IInv`). `OneCommitment` alone is not inductive: a step that records an
  answer of the exchange must know that the answer is real (`AnswersAreReal`: the
  coin's melt was accepted before a session stands at `meltGot` or `revealGot`), that
  what was accepted was sent (`AcceptedWasSent`), and that a session about to be
  stored or revealed holds a seed (`HoldsSeed`). The argument that overlapping runs
  do no harm is in `StoreSession`: within its transaction a session is only stored
  where none is, so that every later melt, by any run, sends the same seed.
  Restarts cost nothing in the proof, because the invariant relates memory to
  records only in one direction: what memory holds is covered by the records.
  `NothingStranded` adds that with stable denominations no session takes the path of a
  coin that is too small (`NeverSmall`), so that a coin is finished only with its new coin.
* *Purchases* (`PurchaseInv`). A coin is before the payment, bound by it, or back; for each
  phase the invariant says what the merchant, the exchange and the record say of it (`Before`, `Inside`,
  `Outside`, `Entered`). The point of `CreditIsBacked` is that an order becomes paid or aborted once at the
  merchant, so that only one kind of refund is ever granted; that answers are true when given and
  stay so (`AnswerIsTrue`); and that applying one skips entries already applied or failed.
* *Withdrawals* (`WithdrawInv`). `NeverOverallocated` rests on `SnapsAreOld`: what a run remembers of the
  reserve is at most what was credited, and the transaction that allocates subtracts all groups
  that exist *then*, whoever made them. `CoinsAreBacked` rests on `WorkIsSigned`: work to be stored
  was signed, and a planchet, once there, is not made again. `BankDecides`: the reserve's status
  follows the bank's, so an aborted withdrawal cannot come back.
* *Deposits* (`DepositInv`). What is marked, and what a run remembers as marked, the exchange has
  accepted; so finishing on the old record is right. The second put changes none of the group's coins.
* *Exchange updates* (`ExchangeInv`). `StatusTellsAll`: a status beyond a step implies what that step stores; the
  guard in each transaction keeps a late answer from jumping back. `RecoupedStayEmpty`: a
  coin in a recoup group has no value left, and none gets into a second.
* *Recoups* (`RecoupInv`). Work that is to be entered was paid back, and the transaction looks at the
  record for whether somebody entered it before (`Due`).
* *Tips, proposals, backup* (`TipInv`, `ProposalInv`, `BackupInv`). A tip's coin is there when it counts as
  picked up and the merchant has honoured one set of planchets at most. `ProposalInv`: a stored proposal stands for
  its order in the transaction that looks for one, and decisions are taken only from states a late download does
  not touch. `BackupInv`: what a device once put stays, hence it has all that is in a blob whose
  hash it knows, and exports it again (`ExportKeeps`, unless its exchange is incomplete); an import puts all that the blob names
  (`MergeKeeps`); hence an upload covers the blob whose hash the cycle read.
* *Money* (`MoneyInv`, `Books`). Sessions and refunds have what they are to give (`SessionPays`), so subtractions
  do not become negative. For `EveryUnitHasOnePlace` the records must also agree with the exchange's books (`Books`): a payment
  that is not recorded has taken and credited nothing; what is refunded was deposited; a deposited coin
  is credited after it was refunded only, and until a payment is aborted nothing else is credited. Then a
  step changes one payment's, one refund's or one group's part of one sum, and takes as much from the coin.
  `BalanceIsCovered` follows, by adding up the rows and the columns of a table of groups and coins (`SumsSwap`), if what is not in a
  group has no input there (`OutIsEmpty`).
* *Throttle* (`ThrottleInv`). The limit on a period alone is not inductive: a pause fills the bucket again. What is, is a
  potential: for every past time `t`, the requests since `t` times the period, with what a refill would leave in the
  bucket now, are at most a full bucket and the time since `t` (`Potential`). A request moves a token from the bucket to the
  window, time adds to both sides, and a clock that goes back only makes the refill smaller. `Windows` keeps that for
  windows that have ended.
* *Choice of coins* (`ChoiceOK`: the answer is what the recursion gives). The invariant of the loop is `TallyOK`: as long as something remains, every
  coin that is worth its deposit fee has been used, with all it has (`Contributes`); what was spent and what remains are
  price and fees, and once nothing remains too much was spent by a deposit fee only (`Pays`); the fees so far are what the
  two limits leave of the sums, but for the rounding of each exchange's share (`SharesAll`). That no set of coins pays
  where the code gives up (`NothingElsePays`) follows because leaving out a coin that is worth its fee never
  helps, with one exchange, whose wire fee is due anyway.
* *Choice of denominations* (`Greedy`). With nested values and equal fees the greedy value is best (`GreedyIsBest`): a larger amount
  gives no less (`MoreGivesMore`), below the cost of a denomination the smaller ones give no more than its value (`NoMoreThanTheNext`),
  hence taking the first one never loses (`TheFirstHelps`, `TakesFewer`).
* *Database* (`DbInv`). The owner's working copy is the committed data and its own puts, what it read is
  committed or its own (`Data`), and only the owner works (`Backend`); so the step that commits is `AtomicStore`'s
  commit, and all others change nothing that `AtomicStore` shows. `Progress` and `Counts` tie the function's
  position to its requests: a promise resolves only after the commit.
* *Object store* (`StoreInv`). A cursor's next record is the least one ahead of its position in the order of its
  walk (`NextRecordIsNext`): a step passes no record. That needs `IndexIsExact`, because a walk over the
  index looks at entries only, and that a non-empty set of keys has a least element. `Walked` ties
  what was delivered to what is not ahead any more, so that records put behind the position are not delivered
  and none is delivered twice. `IsAwaited`: a stream that waits has a request in the queue, so the transaction does not
  commit before the stream has ended.
* *Locks* (`LockInv`). `LockedIsHeld` needs that callers hold only what they want and idle callers
  hold nothing (`HeldIsWanted`). `QueueMoves` needs that whoever is queued for a token
  waits for that token (`QueuedWaits`) and is queued once (`QueuedOnce`): otherwise
  a release could wake the same caller twice and lose another. Exclusion is not
  part of it: the code does not exclude (section 7).
* *Dispatcher* (`WorkersInv`). `BusyCount` is inductive only with `IdleIsQuiet`: an idle slot's
  instance has nothing to answer, so no reply can count a slot down that is not
  busy. `WorkConserving` rests on `BusyCount`: a request is queued when the counter
  equals the number of workers, and only a right counter makes that mean "all
  slots are busy". After a stop the counter is wrong by design (slots are emptied,
  `numBusy` is not); `StoppedCount` shows that it still covers the answers under
  way and so never becomes negative. `NoOvertaking` adds that a request is in one place (`OneRequestOnePlace`).
* *Retry loop*. `NothingMissed`: the answer of a query for all operations, the list the
  loop took from it, and the notification posted on that basis leave out only live
  operations that are `news`. It needs `QueryIsFor`: the loop's second query of a round
  cannot be served by a query for due operations. That is where the assumption on
  other callers enters: `runPending` without `forceNow` (wallet.ts:315) would share
  such a query with the loop, which could then tell a caller of `runUntilDone`
  that nothing is left although operations wait for their retry time. The core's own
  request handler calls `runPending(true)` only (wallet.ts:1098).

## 6. What is only model-checked, and what is not modelled

Every safety property that a run checks is proved. Model-checked only, at the sizes of section 4, is
every liveness property (`EventuallyDone`, `EveryCallRuns`, `EveryTransactionSettles`, `PendingIsSettled`,
`LiveOpsGetTheirTurn`, `UntilDoneReturns`, `PaymentGetsThrough`, `AbortEnds`, `DepositEnds`, `RecoupEnds`, `TipArrives`,
`BackupConverges`, `MoneyArrives`), because fairness and `ENABLED` are out of the prover's reach.

Sums and recursive algorithms need induction, and the library's induction theorems take a predicate, with which the provers
cannot instantiate them. `Amounts_proofs` therefore states induction with a *set* in the place of the predicate
(`SetOfNumbersInduction`, `SetOfSetsInduction`, `SmallerSetsInduction`), proved from the fact that < on the
naturals is well founded. `WalkExists` shows by that induction that a function defined by taking one element
after another out of a finite set exists, so that the `CHOOSE` behind `SumOver`, `Tally` and `Gives` can be unfolded.

Abstracted in what is modelled: amounts are counted in coins of one denomination or in small numbers, except in
`Selection`; fees are zero except in `Money` and `Selection`; an expiry is an event without a date; reports of errors and
the counters of retries are left out except in `RetryLoop`. The `note` of each component in
`PROJECT.json` says what is left out of it.

Not modelled:

* HTTP: requests are steps that succeed or fail, of which only the throttle has a module;
* connections, version changes, key generators, backward and unique cursors of the bridge: planned (section 2);
* cryptography (`crypto/primitives`, `talerCrypto.ts`): signatures and blinding are taken to do what they promise; the
  primitives are arithmetic on large numbers, without states or interleavings;
* codecs, URIs, type declarations and the generated table of error codes (`src/packages/taler-util`, most of `db.ts`): a value
  parses or the request counts as failed;
* the web extension, the command line, Android: no state of their own that matters to the core;
* the integration tests with their harness, and vendored code (the B+ tree, `nacl-fast.ts`, `sha256.ts`).

More than two thirds of the repository's lines are of these last kinds. The map therefore covers a modest
share of all lines, and most of the code that changes the state of the wallet.

## 7. Where the code and its words differ

Each of the four is a run whose property TLC refutes; the counterexamples are
short and can be replayed with the commands below.

1. **A coin that was shown becomes fresh again** (`RefreshFreshShown`,
   `FreshNeverShown`). `db.ts:733` says of a fresh coin "Withdrawn and never shown to
   anybody." The transaction after a reveal (`refresh.ts:486-515`) puts the new coins
   whatever the database holds. One session of a group fails, `Promise.all` rejects, the
   other goes on as an orphan; the next run reveals the same coin, stores it, the
   wallet spends it, and then the orphan's answer arrives and stores the coin again,
   fresh and with its full value.
2. **Locks do not exclude** (`LocksExclusive`, `Exclusive`). `state.ts:106` logs "begin
   exclusive execution". The release deletes the lock and resolves a waiter, which
   takes the lock one microtask later without looking (`state.ts:100-104`); a call
   that runs in between takes it too.
3. **Paid and aborted** (`PurchasePaidAborted`, `PaidOrAborted`). An abort is refused for a
   paid purchase (`refund.ts:687`) and a payment for an aborted one (`pay.ts:901`), but
   `storeFirstPaySuccess` (`pay.ts:808-837`) does not look at `abortStatus`: an abort
   while `/pay` is in flight ends in a purchase that is both, whose abort the
   merchant never hears of.
4. **The balance counts a coin twice** (`BalanceOnce`, `BalanceCountsOnce`). `balance.ts:86`: "Don't count
   finished refreshes, since the refresh already resulted in coins being added to the wallet." Only
   finished *groups* are left out: of a group with one coin done and another waiting, the output of the
   first is counted beside the new coin it has become. It does not get worse: `BalanceStaysCovered` proves that
   the balance exceeds what the exchange gives and what is being revealed by the outputs of such coins at most.

Seen while modelling, without a run. Properties named here are stated in the modules and do not hold.

Retry loop and locks:

* After the first round the loop processes operations only when one that gives liveness is due
  (`wallet.ts:419`), though it is to "process pending operations and wait for scheduled operations"
  (`wallet.ts:392`, `DueOpsGetTheirTurn`).
* `runUntilDone` says it stops the wallet when done (`wallet.ts:336`), and does so only
  when the retry limit is reached (`wallet.ts:352-378`).
* `stop` clears the timers but does not trigger the latch: a loop that waits goes on
  waiting until something else triggers it (`wallet.ts:734`, `:445`).
* The memoised query is one for both values of `onlyDue` (`wallet.ts:647`).
* The pickup of a tip gives liveness but is pushed without its `retryInfo` (`pending.ts:366-372`): the limit on retries
  (`wallet.ts:363-376`) never sees it, and `runUntilDone` with `maxRetries` does not return while it keeps failing.
* Operations that are due again at once: an unaccepted tip whose `nextRetry` has passed sets the next delay to
  zero (`pending.ts:356`); the query of a purchase that is neither paid nor aborted returns without being
  rescheduled (`refund.ts:469`); a payment refused for insufficient funds throws "not implemented" (`pay.ts:873`)
  and increments the counter of the proposal instead of the purchase (`pay.ts:971`).

Crypto dispatcher:

* The termination timer of a crypto worker fires once: an instance that is busy at
  that moment is kept until after the next request (`cryptoApi.ts:188-202`).
* An operation that throws inside of a worker is logged and not answered
  (`synchronousWorker.ts:93`): its slot stays busy and its promise open.
* In a stopped wallet `doRpc` neither settles a promise nor refuses the request.

Payments, proposals, refunds:

* `recordConfirmPay` (`pay.ts:427-436`) puts the purchase without looking for one in its transaction: two overlapping
  confirmations replace a paid purchase (`db.ts:1325` calls its time the time of the first successful
  payment). The run and the proofs of `Purchase` assume that confirmations do not overlap.
* `startDownloadProposal` returns the ID it generated even when it found that another
  call had stored a proposal for the order (`operations/pay.ts:786-798`).
* `confirmPay` does not look at `proposalStatus`: a refused proposal can be accepted
  afterwards (`operations/pay.ts:1283-1294` refuses nothing else either).
* An abort answered with `DEPOSIT_NOT_FOUND` deducts the refund fee although nothing was refunded.

Refreshes:

* A session is finished without new coins when its amount is too small; if the
  denominations change while two runs overlap, one run may finish the coin while
  the other stores a session for it (`refresh.ts:153-214`), which then is melted and
  not revealed.

Reserves and withdrawals:

* `requestedQuery` (`db.ts:302`) is set by `forceQueryReserve` and by recoups, and read by nobody: a query asked for while
  the reserve is being processed is lost (`QueriedAgain`), and money credited then stays in the reserve (`Stranded`).
* A reserve aborted by the bank with an active retry is reported as "Bug"; a finished group may get a `lastError` from
  an overlapping run.
* The greedy choice of denominations is not "as close as possible" to the amount (`withdraw.ts:178`) when values are
  not nested: with 5 and 4, 8 yields 5. With two exchanges `selectPayCoins` may find no payment although there is one, and
  the customer's share of the wire fees is rounded down once per exchange (`coinSelection.ts:166`), so that it depends on
  how they are split.

Deposits, recoups, tips:

* The second put of `createDepositGroup` (`deposits.ts:433`) can overwrite marks and even the finish of the group that the
  retry loop made in between (the deposit is then done again, harmlessly); finishing always takes one more run (`:231`).
* The last coin of a recoup group cannot end it when it is withdrawn or tipped and a refresh is scheduled: the
  transaction does not include the refresh groups (`recoup.ts:91`). Until a group ends, the value on its old coins is invisible.
* `acceptTip` puts the tip it read earlier and may take back `pickedUpTimestamp` (`tip.ts:374`); `prepareTip` reads and
  puts in two transactions, so that one tip gets two records.

Exchange updates:

* `updateWithdrawalDenoms` puts denominations it read earlier and may take back `isRevoked`. A revoked
  denomination whose coins get value later is not looked at again (`exchanges.ts:250`, `RevokedIsRecouped`).
* `recoupGroupId` is declared and never assigned, so the recoup is never started from there (`exchanges.ts:193`, `:272`); the
  first put of an exchange may replace a completed record; `handleExchangeUpdateError` does not put the record it changed;
  the status `FetchTerms` is reported as a bug by `pending.ts`.

Backup:

* A cycle whose upload conflicts ends after the import without uploading; 304 is not handled. Imported proposals get
  their nonce's private key as ID, so that an order can have two records (`backupTypes.ts:1257`, `export.ts:358`,
  `OneRecordPerOrder`). The import skips recoup groups and providers, writes the exchange's URL where a tip has the merchant's
  (`import.ts:762`), and leaves the retry information of imported records inactive. Coins spent on one device stay fresh on another.
* An exchange without details, wire information or `addComplete` is left out of a backup with its denominations, coins and reserves
  (`export.ts:218-232`). A device that has imported coins while it was adding the exchange itself, or whose update then put a new
  record over the imported one (`exchanges.ts:497`), replaces the backup by one without them, until its update is complete and another
  cycle has run. `BackupKeepsAll` therefore exempts an exchange that is left out as a whole.
* `getDenomSelStateFromBackup` never fills the list it returns (`import.ts:132-152`): imported reserves, withdrawal groups and
  tips have empty selections and are exported so. A device that then meets such a record and does not have it looks at the first
  entry of an empty list (`import.ts:127-129`), and its whole import fails; so does that of a tip whose exchange is in neither
  place, and of a purchase without its coins or the wire fees (`import.ts:43-120`). With two devices, one of which made the record,
  this does not keep coins from getting through (`BackupConverges`); a third that joins while such a blob is stored cannot import it.

Database and bridge:

* `TransactionAbort`, thrown by a function to abort, does not by itself abort; an abort that overtakes the begin keeps the
  backend's lock for ever (`MemoryBackend.ts:495`, `Overtaken`); a transaction that is committed while its function waits for
  something else is reported as failed.
* The in-memory backend leaves index entries of replaced records, reads stale index data for multi-entry indexes, deletes
  past an open upper bound, and walks indexes forwards when asked for the previous key. A walk over a whole empty index
  throws "invariant violated", and walks over a store backwards use `nextHigherKey`.
* An update through a cursor whose record another stream has deleted aborts the transaction; `cursor.delete` does not wait
  for `deleteRecord`. The walks of `getTransactions` are not awaited (`transactions.ts:101`): the transaction outlives
  them, but nobody handles an error in them.
* The throttle's buckets get one token per second, minute and hour, whatever their size: after a burst that
  empties the largest, about one request an hour passes. A clock that is set forward fills them.

## 8. Running the checks

In this directory, with TLC, the community modules and TLAPS installed:

    tlc -workers 2 -config RefreshOverlap.cfg MCRefreshGroup.tla
    tlc -workers 2 -config Concurrency.cfg MCConcurrency.tla
    tlc -workers 2 -config Overlaps.cfg MCOverlaps.tla
    tlapm Records_proofs.tla
    tlapm IdbTransactions_proofs.tla
    tlapm Amounts_proofs.tla

`PROJECT.json` names the module of each run ("runs"), the lines of code each
definition stands for ("map"), and for each property the faulty variant of a
definition that violates it ("mutants").
