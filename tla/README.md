# Roosta in TLA+

Roosta runs rotating savings circles ("Kye", ROSCA) inside Telegram: N members pay a fixed
contribution every round, and one of them receives the pool. The money is held by a TON
smart contract per circle; a backend follows the chain, executes due rounds, sends
notifications, and relays messages that users sign with a session key; a mini app and a bot
are what users see. This directory holds TLA+ models of that program, configurations that
model-check them with TLC, and proofs checked by TLAPS.

Paths below are relative to the repository (`src/` in `PROJECT.json`).

## 1. Inventory

| Component | Source | State | Operations | Modelled in |
|---|---|---|---|---|
| KyeContract | `packages/contracts/contracts/KyeContract.tact` | status, slots, contribution records, refunds, round, shortfall, balance | JoinKye, Contribute, ExecuteRound, EmergencyCancel, ClaimRefund, TopUp | `KyeContract` |
| KyeFactory | `contracts/KyeFactory.tact` | nextSalt, deployedCount | CreateKye | `CircleCreation` |
| RoostaVault | `contracts/RoostaVault.tact` | owner, key, seqno, balance | deployment, receive, VaultExecute, OwnerWithdraw | `RoostaVault` |
| Payout arithmetic | `packages/shared/src/payout.ts` | none | calculate_payout | `PayoutPreview` |
| Client signing | `apps/tma/src/lib/vault.ts`, `lib/api.ts` | the vault state last read | fetchVaultState, signAndRelay, apiRequest's retries | `RelayedCall`, `VaultLedger`, `RoostaVault` |
| Gasless relay | `apps/backend/src/routes/relay.ts`, `lib/vault.ts` | the ledger row | POST /relay | `VaultLedger` |
| Server-tracked balances | `routes/me.ts`, `routes/relay.ts`, `indexer.ts` | `test_usdc_balance`, `test_usdc_vault_balance` | faucet, deposit report, debit, payout credit | `VaultLedger` |
| Event indexer | `apps/backend/src/indexer/` | cursors (memory and `indexer_state`), `events`, derived tables | start, tick, processEvent, applySideEffects, enqueueNotifications, saveCursor | `EventIndexer` |
| Backend wallet | `scheduler/walletService.ts` | mutex per process, wallet seqno on chain | send | `BackendWallet` |
| Round scheduler, execute worker | `apps/backend/src/scheduler/` | `rounds` rows, job queue | tick, execute_round job, terminal failure | `RoundScheduler` |
| Reminders, notification worker | `apps/backend/src/notifications/` | `sent_reminders`, settings, job queue | scan, deliver | `NotificationQueue`, `Notifications` |
| Join reservation | `routes/kyes.ts`, `app/join/[address]/page.tsx` | `pending_joins` | POST /kyes/:id/join, the join page | `JoinCircle` |
| Circle routes | `routes/kyes.ts` | `kyes`, `kye_members` | create, detail, join; list | `CircleCreation`, `CirclePage`, `JoinCircle` (the list is not) |
| User, vault registration | `lib/currentUser.ts`, `routes/me.ts`, `hooks/useVault.ts` | `users` | PATCH /me/wallet, PATCH /me/vault, activate | `VaultActivation` |
| Session keys | `apps/tma/src/lib/sessionKey.ts` | CloudStorage, localStorage | get or create, back-fill | `SessionKeys` |
| Circle, create, join, wallet pages | `apps/tma/src/app/` | what each page shows and waits for | their handlers | `CirclePage`, `CircleCreation`, `JoinCircle`, `VaultLedger` |
| Telegram bot | `apps/bot/src/` | `users.referred_by`, `kye_groups` | /start, /lang, /linkkye, /unlinkkye, removal from a chat | `TelegramBot` |
| Home, settings pages, authentication, codecs, `queue/` | `apps/tma`, `middleware/`, `packages/shared` | | rendering, one-request checks, layouts | no (section 7) |

How they interact:

- Every protocol action is a TON message to a circle's contract. It is sent by a wallet, by a
  vault that forwards a signed intent, or (ExecuteRound, which is permissionless) by the
  scheduler. Messages of different senders arrive in any order.
- Contracts emit events; the indexer polls transactions and writes the database. Two
  processes do so at once: the API server (`apps/backend/src/index.ts:90`, without a
  notification queue) and `indexer/run.ts` (with one). They share only the database.
- The scheduler and the reminders read the database and enqueue BullMQ jobs. The API server
  and the scheduler service sign with one wallet key, each behind a mutex of its own.
- The mini app reads the vault's state, signs an intent on it, and posts it to the relay,
  which compares it with the chain, broadcasts it and debits the ledger.
- The bot and the mini app create and update the same `users` rows; the bot links circles to
  the group chats that notifications are sent to.

What is hard, and what makes each part correct:

- *KyeContract*: floored signed arithmetic whose rounding must never make the savings of
  early rounds smaller than the bonuses of late ones; three default policies; a cancellation
  in any state; an action phase that fails after the compute phase succeeded; calls in any
  order from anyone. Correct when money on record is never counted twice, fully paid rounds
  pay in full (and what the app had shown), refunds are covered, and an end is final.
- *RoostaVault, signing, relay*: a permissionless relay, so a signed intent can be delivered
  late, again, to another vault of the same key, or after the account was removed and
  redeployed with seqno 0; requests that are repeated while the first is still at work.
  Correct when an intent executes at most once and the storage reserve survives forwards.
- *Balances*: one row, read and written in two statements by four operations. Correct when
  the ledger follows the chain.
- *Event indexer*: a chain of awaits per event, crashes between any two of them, statements
  whose failure is indistinguishable from a duplicate, a page limit, two processes on the
  same tables. Correct when nothing is announced or credited twice, no cursor passes an event
  that was not recorded, and the derived tables end up as the chain is.
- *Scheduler, wallet*: a job id that outlives its job, attempts that fail after the broadcast,
  jobs that stall, a mutex that ends before inclusion, a message that names no round. Correct
  when the money a job spends on a round is bounded, members get their catch-up time, and a due round
  is settled or its failure reported.
- *Notifications*: overlapping scans, a record written after the jobs it stands for, rate
  limits, a worker that dies with a job in hand. Correct when nobody is told twice.
- *Mini app*: buttons released by timers, state read when a page opened, a session key
  generated on two devices, routes that fail after the chain acted, a slot lock that is
  checked and written in two statements. Correct when a vault pays once for what it got, and
  the pages, the rows and the chain end up speaking of one vault and one circle.
- *Bot*: updates handled at once, check-then-write on `users`, chats the bot leaves meanwhile.

`PROJECT.json` lists each hazard at its line, with the properties that cover it or the reason
why none does.

## 2. Modules

| Module | What it is |
|---|---|
| `KyeContract`, `MCKyeContract` | one circle: state, receivers, arithmetic, clock; five configurations |
| `SavingsCircle` | the abstract specification of a circle: who sits, paid, won, and what is owed after a cancellation; `KyeContract` and `JoinCircle`'s contract implement it |
| `PayoutPreview` | the app's payout beside the contract's; extends `KyeContract` |
| `KyeContractProofs` | type, slot, record, solvency, refund, finality, preview and circle theorems |
| `RoostaVault`, `MCRoostaVault`, `RoostaVaultProofs` | all vaults of one session key, the network, the signing client; replay and reserve theorems |
| `EventIndexer`, `MCEventIndexer`, `EventIndexerProofs` | indexer processes over the events of one circle; announcement, cursor, credit, status, type and table theorems |
| `Faults` | the failing calls of a behaviour, counted so that a run can bound them |
| `BackendWallet` | the wallet two services share: mutex, seqno, mempool, inclusion |
| `NotificationQueue` | BullMQ's queue: copies of a job, job ids it remembers |
| `RoundScheduler` | the scheduler service with the wallet, the circle, the rows and the indexer as it sees them |
| `Notifications` | reminder scans and the delivery worker |
| `RoundServices`, `MCRoundServices`, `RoundServicesProofs` | the two services side by side; one configuration; type, send, notice, reminder, row and catch-up theorems |
| `RelayedCall` | the abstract specification of signAndRelay: signed once, executed at most once, answered at most once |
| `VaultLedger`, `VaultLedgerProofs` | client, relay, faucet, deposit, payout credit, vault and ledger of one user; the refinement theorem, and the invariant of the ledger |
| `SessionKeys`, `VaultActivation` | the key on two devices; from a wallet to a registered vault |
| `CircleCreation`, `CirclePage`, `JoinCircle` | the create, circle and join pages with routes, rows and contracts |
| `JoinCircleProofs` | the slot lock, the types and the circle of joining, for any number of users and requests |
| `TelegramBot`, `TelegramBotProofs` | the bot's handlers that write; two theorems |
| `MiniApp`, `MCMiniApp`, `MiniAppProofs` | one visit to each page or to the bot; one configuration; ledger, bot, creation, contribution, activation and type theorems for the whole app |

How they are composed. `RoundServices` extends `RoundScheduler` and instantiates
`Notifications`: they share the queue, the clock and the rows, and a step of one leaves the
other's own variables alone. `RoundScheduler` instantiates `BackendWallet`. The pages
(`CirclePage`, `CircleCreation`, `JoinCircle`) extend `RelayedCall`: what happens between
signing and the vault is the abstract call, which `VaultLedger` implements in detail. So the
pages' properties hold whatever retries, copies and lost answers lie underneath, and the
detail is checked (and proved) once. `MiniApp` gathers them; a behaviour of it is one visit,
whose initial state is any that the other visits may have left. `JoinCircle`'s contract is
the part of `KyeContract` that joining touches, and `CirclePage`'s the part a member's
contribution touches: slots, status, round and records, without amounts. `SavingsCircle` ties
the first to `KyeContract`: both are shown to implement it (`ImplementsCircle`,
`SeatsOfOneCircle`), so what the join page and the reservation act on is one and the same
circle. `CirclePage` sees one member and takes the others' joins as one step, so it is an
abstraction of the contract and no refinement of that circle.

The plan from here, most important first:

1. The indexer's several circles per process and its back-off.
2. Rounds of several rows in `RoundServices`, whose jobs interleave.

## 3. How the models correspond to the code

### KyeContract

A step is a transaction: a message the contract accepts, the whole receiver, and its sends.
A message that a `require` refuses changes nothing and is no step. Variables carry the names
of the contract's fields. Differences:

- `contributions` is the set of keys `roundNum * 64 + orderNum` that are set (the amounts
  are all equal to the contribution). `refunds[a] = 0` stands for null.
- `balance` is `myBalance()`. Tact's `/` rounds towards minus infinity, as `\div` does; this
  matters for the negative time adjustment of early rounds.
- `SELF_KEEP`, `GAS_FORWARD_FEE`, `GRACE_WINDOW_SEC` are parameters, so that proofs cover any
  unit and TLC can count in 0.01 TON.
- `TxFee` is the network's charge for a transaction (compute and forward fees as one amount).
  A message that runs carries at least it (`EnvironmentAssumption`): the gas limit is bought
  from the message.
- ExecuteRound is three actions by outcome: it pays out, it cancels (policy Cancel with
  somebody missing), or the sends exceed the balance and the action phase drops the new state
  (`ExecuteRoundReverts`). ClaimRefund has the same second outcome. The return of an
  overpayment is sent with SendIgnoreErrors and stays in the contract if it cannot be paid.
- `Tick` advances block time. Before activation and after the end nothing reads the clock.
- Emitted events appear in `EventIndexer`; getters are reads.

### RoostaVault

`Fund` and `Deploy` are the plain `receive()` with and without an account, `VaultExecute` and
`OwnerWithdraw` the receivers, `Remove` the network's removal of an account that stayed empty
for `StorageTerm`. After it, `Deploy` starts over at seqno 0 with the same address. The
signature check is membership in `signed` plus equality of the vault address, which is part
of the signed cell. The signed `mode` is not a field, since the contract forwards with a fixed
mode and ignores it. The client reads (`FetchVaultState`) and signs (`Sign`) in two steps,
with any number of other steps between; `seen` is what it read. Any intent can be delivered
at any time and as often as anyone likes.

A forward that bounces comes back as a plain transfer, which is `Fund`.

### EventIndexer

Each await of `tick`, `processEvent`, `applySideEffects` and `enqueueNotifications` that
touches shared state is a step. `stage` says where a process is: `down`, `sleep` (between
ticks), `insert`, `work` (the statements in `todo`, then the jobs), `save`. `at` is the event
in work, `upto` the end of the batch, `readValue` what a select returned before the update
that uses it. The cursor in memory moves with every event (`Advance`, `indexer.ts:122`), so
between two events of one transaction it already stands on that transaction's lt; the saved
one follows at the end of the batch. `jobs` is a bag, so that a double enqueue is visible.

- supabase-js returns errors and does not throw. A failing insert therefore looks like a
  duplicate (`InsertFails`), a failing write is passed over, a failing lookup ends the side
  effects (`StatementFails`), a failing cursor save is logged, a failing select of the cursors
  at start leaves them at zero.
- `Crash` may happen at any step and loses the memory of the process.
- The circle (`Chain`) is external to this module: it emits what the contract emits, in the
  order the contract emits it, with member k winning round k. Transaction n has logical time
  n. ContributionReceived and FeeDistributed, which have no side effect and no notification,
  are left out.
- `lost` and `overlapped` are history variables: events given up without a row (failed
  insert, or older than the page limit), and whether two processes were ever up together.

The circle's row exists from the start (the API inserts it), so that `KyeCreated` has nothing
left to do and is not modelled. One process follows one circle; circles share no row but the
registry.

### BackendWallet, RoundScheduler

`sendInternalMessage` is two steps: `getSeqno` takes the mutex and reads the wallet's seqno,
`executeRound` broadcasts for it and releases the mutex, or `attemptFails`, before or after
the message reached the network. The chain includes the message whose seqno is next (`include`)
and drops the others for that seqno. A job goes through BullMQ's states; `stalled` is the one
time a job in hand of a dead process is handed out again, `terminal` the window in which the
'failed' handler runs (it resets `executed_at`, which `erased` remembers, and notifies the
organizer). `tick` enqueues rows that are due and past the catch-up interval under the row's
jobId. BullMQ keeps the last hundred jobs of each outcome, of all circles
(`scheduler.ts:108-109`); the other circles are not modelled, so `forgetJob` may remove a
finished job at any time, and a row that is still due then gets a new one, with attempts of
its own. `forgotten` counts them. The circle is what ExecuteRound does to it: the round advances, or the circle ends.

The rows of the rounds to come are given. No code of the repository inserts one: the
indexer's upsert (`indexer.ts:284`) sets `executed_at`, and everything else reads. As the
repository stands, no round is ever scheduled; `PROJECT.json` lists this at
`scheduler.ts:67`. The model shows what the scheduler does with the rows its tests give it.

### NotificationQueue, Notifications

`scanWindow`, `checkRound`, `enqueueReminder`, `recordReminder` are the awaits of a scan;
`setInterval` does not wait, so two scans overlap. `takeNotice` reads the settings and the
recipient, `sendMessage` is the Bot API's answer, `requeue` what follows a 429 (the job is added
again without its jobId, so as a new job), `jobEnds` the end of the job. A crash with a job in
hand makes it stall; BullMQ counts stalls per job, so `work.stalled` belongs to the job in hand
and a job added again starts afresh. `again` is the stalled jobs that wait to be handed out.
`repeats` counts the crashes after the message was accepted or the job added again. Jobs of the indexer carry no `recipientUserId`; the worker finds no
user for them and skips them, so that they are not modelled here. `patchSetting` is the route;
the settings page does not reach it (section 5). Only the worker reads a setting, when it takes
a job, so a change is modelled while a job waits that depends on it: an earlier one comes to
the same.

### VaultLedger, RelayedCall

Five kinds of operations of one user: withdraw and pay (relayed), deposit (a TonConnect
transfer, polled and reported), faucet, payout (the circle pays, the indexer credits). The
backend is told of one unit by every operation: what the properties tell apart is which read
precedes which write, and whether the vault covers one more payment. The chain moves other
amounts where the code does. A deposit sends toNano(amount) (`vault.ts:94`) and reports
usdcToNano(amount), a thousandth of it (`wallet/page.tsx:21-26,85`): `DepositSent` units arrive
for the one reported. A relayed message brings gas along, and what the vault does not need
stays there (`wallet/page.tsx:53-56`): one of `GasLeft`. `stray` sums up what the vault received
in these ways and no ledger is told of. Transfers from outside the app are not modelled; they
are such receipts too. A relayed operation goes `sign` (fetchVaultState,
the reserve check, the signature: one step, since what was read is the seqno the intent is
signed on; several operations may have signed on one seqno), `post`, `wait`, `refresh`;
`ConnectionLost` and a 500 post the same body again, up to `Attempts` times, while the first
request may still be at work. At the route: `relayChecks` (expiry, state read, seqno compared;
a vault that cannot be read counts as not deployed, which is a 409 and not retried),
`relayBroadcasts` (may fail before or after it reached the network), `relayReadsRow`,
`relayWritesRow`. A message in `pool` is executed by the vault if its seqno is current, or
dropped. The debit is clamped at zero, as in `relay.ts:191`. Where the page reads the vault
(`pollTopUp`, `Finish`), a chain read that fails at the backend shows a balance of 0 (`Shown`),
and a connection that fails leaves what was there. The answer of the wallet to a transfer may
be lost after the transfer was approved (`approveTopUp`).

The refinement mapping: `asked` is the operations that are past signing, `executions` the
history variable `executed`, `answer` the result the client ended with.

### SessionKeys, VaultActivation

A seed is a number, and the vault's address, a function of wallet and key, is the seed.
`cloudGet` is the answer of CloudStorage, where a failed call reads as nothing. The device
looks at its own copy only afterwards (`loadSeed`), so another device may save a key in between;
it then starts the unattended back-fill, or generates a key, keeps it and saves it
(`persistSeed`). `Keyless` is where a lookup is that found nothing in the cloud and has not
returned. `hook` is useVault's state on a device, `synced` WalletSync's. The deployment may land
before, during or after the registration.

`sendTransaction` has the wallet's answer rejected, approved, or lost with or without an
approval; `registerVault` may reach the backend and its answer not the page. `closeMiniApp` ends
whatever a device is at, at any time: between the transfer and the registration too, with the
transfer approved or not; a save under way goes on unattended (`LookupsStop`). The mini app
that is opened again restores its wallet (`connectWallet`) and derives its vault anew. Going
from page to page inside the app ends nothing (`activate` goes on) and is no step. A wallet that
the user disconnects is not modelled.

### CirclePage, CircleCreation, JoinCircle

- `CirclePage`: `kye` is what the page loaded (only `openPage` and a language change load),
  `submitted` the lock of the contribute button, released by `paidWatcher`, `watchdog` or a
  failed relay; `contribCache` is `readPaidSlots`' cache on the server; the vault's balance is
  read when the page opens and not afterwards. `circleReceives` is Contribute, ExecuteRound
  and EmergencyCancel with the guards that concern this member; a refused contribution bounces
  to the vault.
- `CircleCreation`: what the form lets a user enter (`Entered`: the rates may be typed past
  their sliders, the other fields keep to their ranges); POST /kyes with its range checks, the prediction of the address and the
  upsert of the row; the factory's own checks and its salt counter. `submit` holds the closure
  the page uses: the vault's address as it was when the button was rendered.
- `JoinCircle`: the dialogs of the join page per user, the three reads and the two statements
  of POST /kyes/:id/join, the lock's sixty seconds as `lockExpires` at any time, JoinKye.

### TelegramBot

Every handler is a record that says what it is about to do. `findsReferrer`, `findsExisting`,
`updatesReferrer`, `insertsReferred` are the statements of `recordReferrerIfNew`;
`resolveOrCreateUser` is the mini app's insert of the same row. Organizer and caller, which
never change, are read in one step (`authorizesLink`). `leavesChat` is the removal and its
update, `myChatMember` the statement it causes. Polling mode handles one update at a time and
is a part of these behaviours.

### Faults

`Fault` is taken by every branch in which a call fails: a rejected promise, a supabase error
(which reads like an empty answer), a lost connection, a crash. A branch in which nothing
fails leaves the count alone. A mini app that is closed counts as a fault.

## 4. Runs

| Run | Instance | Properties |
|---|---|---|
| `pro_rata` | 3 accounts, N = 3, ProRata, fee 5%, adjustment 30%, contributions of 1.00 and 1.03 TON | TypeOK, SlotsInv, RecordsInv, SavingsCoverBonuses, PreviewKept, ImplementsCircle |
| `cancel_policy` | N = 3, Cancel, under FairSpec | EarlyCancelRefundsEveryone, EndIsFinal, CancelPolicyTerminates |
| `organizer_cover` | N = 3, OrganizerCover, fee 60%: fees that exceed the balance, top-ups | FundedRoundPaysInFull |
| `vaults` | 2 vaults of one key, up to 3 intents, 3 events, 3 time steps | TypeOK, IntentsExecuteOnce, OneIntentPerSeqno, FreshIntentAffordable, ReserveKeepsAccount |
| `indexer` | 1 process, N = 2, up to 4 transactions, member 1 defaults in every round, 2 faults, pages of 3 | TypeOK, NotifiedOnce, CursorCovers, CaughtUpMatchesChain, StatusFollowsChain, EventuallyRecorded |
| `indexer_pair` | 2 processes, N = 2, up to 3 transactions, 1 fault, pages of 2 | CreditedOnce |
| `round_services` | 1 round on record in a circle of 2, 2 attempts, 1 forgotten job, 2 overlapping scans, 2 faults, services up before the round or after its catch-up time; under FairSpec | TypeOK, SendsBounded, RowsMatchChain, ToldOnce, RecordedMeansQueued, CatchUpKept, DueRoundSettles, FailureReported |
| `mini_app` | 1 visit: 2 devices; 2 operations with 2 posts each, deposits of 3 units, 1 unit of gas left; 2 calls on a circle's page; 2 creations; 2 joining users with 2 slots; 2 bot handlers, 3 updates; 1 fault | TypeOK, AgreedVault, LedgerExact, ContributionCharged, SuccessIsSettled, CircleOnRecord, LockHolderGetsSlot, NoGroupLeftBehind, PaysAtMostOnce, ReferrerKept |
| `late_cancel` | N = 2, ProRata | violates CancelledRefundsCovered |
| `unpaid_gas` | N = 3, charge of 0.02 TON per message | violates CapOnlyAfterDefault |
| `indexer_defaults` | 1 process, both members default, policy Cancel | violates DefaultersNotified |
| `indexer_race` | 2 processes, no fault | violates WinnersNotified |

Symmetry is used where accounts, vaults or devices are interchangeable, and never in a run with a
liveness property. `CHECK_DEADLOCK FALSE` is set where a circle may end, a clock reaches its
bound, an indexer has nothing to fetch, or a visit ends.

Two properties are refinements, checked as a PROPERTY and proved: PaysAtMostOnce (`VaultLedger`
implements `RelayedCall`) and ImplementsCircle (`KyeContract` implements `SavingsCircle`).
SeatsOfOneCircle (`JoinCircle`'s contract implements the same circle) is proved; TLC found no
violation of it on the instance of `mini_app` either, but no run repeats that.

### Bounds

- `KyeContract`: `MaxBalance` bounds overpayments and top-ups; it leaves room for all members
  paying a round on top of what the earlier ones held back. `MaxStart`, `Horizon` bound the
  clock: with an interval of 2 ticks and a grace window of 1, members can be in time, late
  within the window, or too late, and a round can be executed when the next is already due.
  N = 3 is the smallest size with an early, a middle and a late winner. Amounts are in 0.01
  TON so that flooring matters (a pool of 300 with fees of 1 and 13, adjustments of 30%).
- `RoostaVault`: `MaxBalance`, `MaxTime`, `MaxSigned`, `MaxEvents`. Three time steps let an
  intent expire, a swept account be removed (after 2) and be deployed again; three signed
  intents put two on one seqno and one on the other vault or on the next seqno.
- `EventIndexer`: `MaxTx` = 4 covers two joins and both rounds of a two-member circle or a
  cancellation anywhere; `FETCH_LIMIT` = 3, and 2 for the pair (50 in the code), makes a
  backlog longer than a page possible; `MaxFaults` = 2 allows a failure and a crash, or a
  crash during the recovery from one. The pair has one transaction and one fault less.
- `RoundServices`: `Attempts` = 2 (3 in the code) has a first, a repeated and a last attempt;
  `Horizon` = 3 intervals reach past the catch-up time of the round and of the one after it,
  on which a second send acts; `MaxFaults` = 2 lets a failure after the broadcast be followed
  by a crash; `MaxForgotten` = 1 gives a row its job a second time; `MaxPatches` = 1 switches one setting between enqueueing and delivery. There is
  one round on record, so that the jobs of different rounds are not seen to interleave; the
  worker's concurrency is one, and the wallet's other users are `otherProcessSends`.
- `MiniApp`: two operations per user are what an overlap needs, two posts what a retry needs
  (`Attempts` = 2; the code posts up to 4 times), one fault separates what the code does when nothing fails
  from what one failure can cause. `DepositSent` = 3 and `GasLeft` = {1} tell the chain's amounts
  from the reported unit and from each other (the code's factor is 1000). `MaxKeys` = 2 and two lookups per device cover two first
  keys at once. Creation draws from three sets of parameters (accepted, with both rates at
  an end of their range; an adjustment one basis point too high; a fee one too low) and salts that include 0 and the factory's next. `MaxUpdates` = 3
  lets a link, a removal and a second link meet.

### Fairness

- `KyeContract!FairSpec`: block time passes, and somebody sends ExecuteRound when it can be
  accepted. It is permissionless and both the members and the scheduler have a reason to. No
  fairness is assumed for contributions, joins or claims. Under ProRata and OrganizerCover a
  circle whose current round nobody pays stays Active until the organizer cancels it, so
  `CancelPolicyTerminates` is stated for the Cancel policy.
- `EventIndexer!FairSpec`: weak fairness of each process. `scheduleNext` schedules the next
  tick in the success and in the error branch, an await returns, and a process that died is
  restarted by its supervisor. Nothing is assumed of the chain.
- `RoundServices!FairSpec`: weak fairness of the scheduler's own steps and of the worker.
  The tick repeats every minute, BullMQ hands out what waits, calls return. Nothing is assumed
  of the chain, of members or of the indexer, and no call is assumed to succeed; the faults
  are finitely many.
- `MiniApp` assumes none: users may leave at any point, and all its properties are safety.

### What limits the properties

- `StatusFollowsChain` holds for histories in which no insert failed and no two processes
  overlapped. If an insert fails, the event is passed over; a crash before the cursor is
  saved then has it inserted after later events, and `kyes.status` is set back.
- `CaughtUpMatchesChain` is about undisturbed processes: a crash between the inserted event
  and its side effects loses them for good.
- `SavingsCoverBonuses`, `FundedRoundPaysInFull` and `PreviewKept` assume that contributions
  carry their gas (`GasCovered`) and that earlier shortfalls are booked (`ShortfallsBooked`);
  `unpaid_gas` is the run without the former.
- `SendsBounded` bounds the sends of a job, and those of a row by the number of its jobs that
  BullMQ has forgotten: a row that stays due gets a new job after every hundred others, for
  ever. `ToldOnce` allows a notice once more for each crash that hit a job whose work was done.
- `RowsMatchChain` excludes rows that the handler of a job that failed for good has cleared of
  what the indexer had recorded. `CatchUpKept` excludes circles where a row made a second send or
  somebody executed by hand: ExecuteRound names no round and acts on the next one.
- `LedgerExact` is about histories in which nothing failed and no two operations overlapped:
  otherwise the last writer of the row wins, and a repeated request debits or credits twice,
  and no property catches what is then lost. Payments that a circle sends back are on no ledger,
  nor is what `stray` sums up: of a deposit the ledger learns a thousandth.
- `AgreedVault` excludes failed CloudStorage calls, a page closed while it saves the first key,
  and two devices at once without a key: then the devices may end up with different vaults. Its
  second half names a registration that was refused, failed, or never came after a transfer that
  may have been approved; then a page that is opened again shows a vault as ready that the
  backend does not know.
- `LockHolderGetsSlot` excludes slots whose lock was raced between its two statements, or
  whose query failed; `CircleOnRecord` the salt 0 and a vault registered by another wallet.
- `ReferrerKept` and `NoGroupLeftBehind` name their races: two handlers that both found no
  referrer, and a link authorized before the bot left the chat.

Each of these exceptions is a behaviour of the code; the history variables (`disturbed`,
`overlapped`, `unprotected`, `raced`, `stale`, `untold`, `misread`) exist to say exactly when.

## 5. Where code and documents disagree

Shown by the violation runs:

- `late_cancel`: `queueRefunds` (`KyeContract.tact:354`) credits every round on record, those
  already paid out included. After a payout and an EmergencyCancel the circle owes more than
  it holds and the last claimants' refunds fail. `docs/FAQ.md:36-37` and `docs/TOS.md:39-40`
  say that paid rounds are not refundable. `EarlyCancelRefundsEveryone` shows that a
  cancellation in the first round is covered.
- `unpaid_gas`: Contribute accepts exactly the contribution, so the network's charges come
  out of the pool, and eventually a payout is capped with nobody having defaulted; the
  contract's notes (`:18-20`) attribute caps to defaults.
- `indexer_defaults`: the unique key (tx_hash, event_type, lt) lets one DefaultDetected per
  transaction through; the other defaulters are neither recorded nor told.
- `indexer_race`: the API server's indexer has no queue; an event it records first is never
  announced.

Met while modelling, without a run of their own:

- `rounds` rows with `executed_at` null are never written, so the circle page's round is
  always 1 and its next date missing: after round 1 a member's contribution is sent for round
  1 and bounces (`KyeContract.tact:192`); the organizer panel's grace gate
  (`kye/[address]/page.tsx:454-467`) is always open, and no round is scheduled.
- The watchdog (`kye/[address]/page.tsx:143-164`) releases the lock after 90 seconds and
  always calls the contribution stuck, because the page never refreshes the vault's balance;
  the comment at `:74-81` says otherwise. The comment at `:208-214` restricts EmergencyCancel
  to circles that have not started; the contract (`KyeContract.tact:378`) does not.
- A deposit reports usdcToNano(amount), a thousandth of the toNano(amount) it transfers
  (`wallet/page.tsx:85`, `vault.ts:94`).
- A registration that is refused, fails, or is cut off by a closed page or a lost answer after
  the wallet approved the deployment (`useVault.ts:104-110`) is never tried again: the page shows the vault as ready, and create and
  join answer 403. The create page uses the vault address of an old closure
  (`create/page.tsx:98`).
- A CloudStorage read that fails on a device without a local copy generates a key that
  replaces the one the vault was derived from (`sessionKey.ts:74-79`).
- The settings page cannot save: `lib/api.ts:287-291` posts the patch unwrapped, under other
  keys than the route knows (`me.ts:362-374` answers 400), and it never loads what is stored.
- The home page's branch that clears a finished deletion is never reached, since GET /me
  hides cancelled circles (`me.ts:131-134`). The faucet's "once per user" (`me.ts:240`) is not
  enforced (`:271`).
- POST /kyes upserts the status 'created': a duplicate that arrives very late could reset the
  row of a started circle. The join route ignores failed selects and a failed upsert.
- `recordReferrerIfNew` (`supabaseClient.ts:80`) leaves a referrer untouched only if no second
  link is handled at once. `/unlinkkye` finds nothing in a chat with two circles
  (`unlinkkye.ts:21-27`).
- `docs/SECURITY_CHECKLIST.md:47` and `me.ts:28-30` say the organizer cannot be a member;
  JoinKye (`KyeContract.tact:168-170`) allows it, and so does the model.

## 6. Proofs

TLAPS proves, for every value of the constants that satisfies the named assumptions:

| Theorem | Statement | Assumptions |
|---|---|---|
| `TypeCorrect`, `SlotsCorrect`, `RecordsCorrect` | `Spec => []TypeOK`, `[]SlotsInv`, `[]RecordsInv` | `KyeInitAssumption`, `EnvironmentAssumption`, `AccountAssumption` |
| `SavingsTheorem` | `Spec => []SavingsCoverBonuses` | the same |
| `FundedRoundsTheorem` | `Spec => []FundedRoundPaysInFull` | the same |
| `EarlyCancelTheorem` | `Spec => []EarlyCancelRefundsEveryone` | the same |
| `FinalTheorem` | `Spec => EndIsFinal` (an action property) | the same |
| `PreviewTheorem` | `Spec => []PreviewKept` | the same |
| `CircleTheorem` | `Spec => ImplementsCircle` (a refinement) | the same |
| `VaultTypeCorrect`, `NoReplay`, `OnePerSeqno`, `SignedIsAffordable` | `Spec =>` always TypeOK, IntentsExecuteOnce, OneIntentPerSeqno, FreshIntentAffordable | `VaultAssumption`, `NetworkAssumption` |
| `ReserveTheorem` | `Spec => ReserveKeepsAccount` (an action property) | the same |
| `NotifiedOnceTheorem` | `Spec => []NotifiedOnce` | none |
| `CursorTheorem`, `CreditedOnceTheorem` | `Spec => []CursorCovers`, `[]CreditedOnce` | `IndexerAssumption` |
| `StatusTheorem` | `Spec => StatusFollowsChain` (an action property) | `IndexerAssumption` |
| `IndexerTypes`, `CaughtUpTheorem` | `Spec => []TypeOK`, `[]CaughtUpMatchesChain` | the same |
| `ServicesTypes`, `SendsTheorem`, `ToldOnceTheorem`, `ReminderTheorem`, `RowsTheorem` | `FairSpec =>` always TypeOK, SendsBounded, ToldOnce, RecordedMeansQueued, RowsMatchChain | `SchedulerAssumption`, `QueueAssumption`, `ServicesAssumption` |
| `CatchUpTheorem` | `FairSpec => CatchUpKept` (an action property) | the same |
| `LedgerImplementsCall` | `LedgerSpec => PaysAtMostOnce` (a refinement) | none |
| `ReferrerTheorem`, `GroupTheorem` | `BotSpec => ReferrerKept`, `[]NoGroupLeftBehind` | `BotAssumption` |
| `PaysOnceTheorem`, `BotTheorem` | `MiniApp!Spec =>` the three properties above | `VisitsAssumption` |
| `CreationTheorem` | `MiniApp!Spec => []CircleOnRecord` | `VisitsAssumption` |
| `SettledTheorem`, `ChargedTheorem` | `MiniApp!Spec => []SuccessIsSettled`, `[]ContributionCharged` | `VisitsAssumption` |
| `LockTheorem` | `MiniApp!Spec => []LockHolderGetsSlot` | `VisitsAssumption`, `LedgerAssumption` |
| `SeatsTheorem` | `MiniApp!Spec => SeatsOfOneCircle` (a refinement) | `VisitsAssumption`, `LedgerAssumption` |
| `LedgerTheorem` | `MiniApp!Spec => []LedgerExact` | `LedgerAssumption` |
| `VaultTheorem` | `MiniApp!Spec => []AgreedVault` | `VisitsAssumption` |
| `AppTypes` | `MiniApp!Spec => []TypeOK` | all of the app's |

`KyeInitAssumption` is the list of `require`s of `init` (the bound of 30 members makes the
contribution keys injective). `EnvironmentAssumption` says that amounts are natural numbers
and that messages carry their own network charge. `NetworkAssumption` says that a transaction
costs less than the storage reserve and any deposit, that the client's reserve is at least the
contract's, and that the network keeps an empty account longer than an intent is valid (months
against five minutes). `BotAssumption` says that organizers are persons and that the marks for
"none" are none. `VisitsAssumption` joins it with those of the pages: submissions are numbered,
salts are natural numbers, the form sends what can be entered in it, a circle has members, a
page makes finitely many calls, a circle has finitely many slots, a call of the join page
belongs to a user, who starts somewhere on the way from a browser to a registered vault, keys and activations are counted.
`LedgerAssumption`: there is at least one operation, a request is posted at least once, a deposit
sends at least the unit it reports, and what a user has saved and what is left of gas are
natural numbers. `SchedulerAssumption` and `ServicesAssumption`: rows are
rounds of the circle, a job has at least one attempt, intervals and times are natural numbers,
members are users, a row's jobs are forgotten finitely often, and the marks for "none" are none. `IndexerAssumption`: there are finitely
many processes, a circle has members, a page holds at least one transaction.
`FaultsAssumption`: the bound on faults is a natural number. TLC evaluates all of them in the
runs.

The arguments:

- *Circle.* `StructInv` = TypeOK, SlotsInv and RecordsInv together are inductive: the slot
  scan needs types, the count of paid orders needs injective keys, and TypeOK's upper bound on
  the round needs RecordsInv. `SolvencyInv` adds `DebtInv` (only OrganizerCover books a
  shortfall) and SavingsCoverBonuses, the strengthening without which full payouts are not
  inductive: after k - 1 full rounds the contract has kept back at least
  NetPool * tam * (k - 1) * (N + 1 - k) / (10000 (N - 1)), a parabola in k that is never
  negative and returns to zero at k = N + 1. One round changes it by exactly the unrounded
  adjustment, and both floors round in the contract's favour (`DivFacts`,
  `IntendedBound`, `SavingsStep`). FundedRoundPaysInFull follows from it alone.
- *Early cancellation.* `EarlyInv`: while the first round is not executed the balance covers
  one contribution for every paid order, and once the circle is cancelled it covers the sum of
  the refunds. RefundsDue is a sum by recursion over the subsets of Account, and the step from
  the one to the other needs the sum of a function that is the contribution at the members who
  paid and 0 elsewhere. The induction theorems of the library cannot be cited for it
  (they take an operator as a parameter); instead the lemma takes a subset of least size among those whose sum is
  wrong (`NatLessThanWellFounded`, `WFMin`) and removes from it the element that the recursion
  chooses.
- *Finality.* One step for each receiver, from TypeOK: in an ended circle only ClaimRefund and
  TopUp are accepted; a claim pays the whole record, exactly and from the balance (`RefundPaid`),
  and one whose send fails is dropped whole: the record stays and nothing but its message's value
  reaches the balance.
- *Circle, abstractly.* Seats are the accounts that have a slot, winners those of the slots
  before the current round, and an account has paid as often as it has keys on record; slots,
  amounts and the clock are gone. `CircleInv` adds to StructInv that a circle which has not
  started is in round 1 (a seat taken then has not won). JoinKye is a join, Contribute a payment
  (the new key is the sender's only one in that round: injective keys, one slot each), a round
  that pays out a win (its slot's member is new among the winners, and all have won just when
  the round was the last), a cancellation by either way the call-off (no key is left, because
  every slot is filled once a key exists), ClaimRefund a refund. A reverted send, a top-up and
  the clock are stutters. Of `JoinCircle`'s steps only JoinKye and EmergencyCancel reach its
  contract; its free slots are counted by the set of slots without a user.
- *Preview.* `floorDiv` is `\div` (truncation and its correction cancel), one fee rounded
  once is between the contract's two fees and one unit more, and the adjusted payout is
  monotone in the net pool; with FundedRoundPaysInFull the difference is at most two units.
- *Vault.* `IInv` = TypeOK, `ClockInv` (debits and validity periods against the clock),
  `ExecutedInv` (an executed intent is spent: it has expired, or the account is there with a
  higher seqno), `UnsweptInv` (what an unswept vault holds covers whatever was read or signed
  on its seqno), and the two properties. ExecutedInv is what carries an intent over removal
  and redeployment: the account is only removed StorageTerm after its last debit, by which
  time the intent expired.
- *Indexer, announcements.* `IInv` = ShapeInv, `OneWorker`, NotifiedOnce. OneWorker: a row in
  work has been inserted, is in work at one process, and has no jobs yet. The unique insert
  makes it so, whatever crashes or overlaps.
- *Indexer, cursors.* `CInv` = ShapeInv, `ChainInv` (transactions are non-empty sequences of
  known events), `BoundInv` (cursors and batches lie in the chain), `ProgressInv` (everything
  before the event in work is recorded or given up), CursorCovers. Within a batch the cursor in
  memory may stand on the transaction of the event in work, of which it has not passed all.
- *Indexer, credits.* `CreditInv` on top of the two: a payout is settled when its row's
  worker has nothing left to do for it; a member's balance, and whatever a process has read of
  it and not yet written, is at most the number of his settled payouts. Settled payouts only
  grow; the write of the sum settles one more, which by OneWorker nobody else is at. So two
  processes that read one balance may lose a credit, but never make one up.
- *Indexer, tables.* `EmittedInv`: the chain's events come in the contract's order, one
  RoundExecuted for each round. `RemainingInv`: what an event in work still has to do is a tail
  of the list of its type. `OrderInv`: with no overlap and no failed insert the rows are a
  prefix of the events and the one in work is the last of them, and `kyes.status` is that of a
  status event whose row has nothing left to do; the write of a later one moves it forward.
  `MatchInv`: with nothing going wrong, status, members, rounds, credits and jobs are what the
  rows whose statements are done give, and a process that caught up has all rows and owes none.
- *Services.* `ServicesInv`: `JobsInv` (each send of a row has its failed attempt, its stall or
  the job's last run, and each forgotten job left at most a budget of them), `RowsInv` (recorded
  rows are those the indexer passed, but for the erased ones), `CopiesInv` (a reminder whose jobId
  is not taken has no copy yet, and a notice of failure has at most one for each job whose
  failure was handled; a copy that a crash adds is counted in `repeats`), `QueuedInv` (a scan
  past a member has queued his reminder), `Floats` and `DueInv` (while every row made one send
  and nobody executed by hand, at most as many rounds were executed as rows have sends that are
  no longer pending, and each of those rows was due; so a send that acts on a round acts after
  its catch-up time).
- *Relayed calls.* `IInv` = `ShapeInv`, `ClientInv` (how far an operation is, and what was done
  for it), `PostedInv` (only what was posted reaches the routes and the vault), `SpentInv`
  (what was executed is behind the vault's seqno). An intent is signed once, on the seqno the
  vault then has, and posted unchanged; executing it moves the vault past that seqno, so a
  copy finds another one. Every step of the client, of a route, of the network is then a
  signing, an execution, an answer, or a stutter of `RelayedCall`.
- *Ledger.* `ExactInv`: as long as nothing failed and nothing overlapped, one operation at most
  is at work and all others are settled (`OneAtWork`), no message expired and each request was
  executed and booked at most once (`OnceInv`). The vault's balance plus what is still to
  arrive, less the ledger after the statements still to come (`Balanced`), is then between 0
  and the payments that were sent back and `stray` together; every step moves one term of the sum
  into another or adds to `stray` what it adds to the vault. The lower bound allows for a debit
  clamped at zero.
- *Bot.* `BotInv` = `HandlersInv` (a handler holds the person, circle or chat of its update),
  `WriterInv` (without a race one handler is about to write a user's referrer, and the row it
  found is still there without one), NoGroupLeftBehind.
- *App.* A step of another visit leaves the ledger's and the bot's variables alone, so that
  `MiniApp!Spec` implies `LedgerSpec` and `BotSpec`.
- *Creation.* `CreateInv`: a submission that got past POST /kyes has its row (`PostsOK`,
  `AskedOK`), and an executed one stands on chain under its draft's parameters and salt, or
  under a value of the counter that is behind `nextSalt` (`CreatedOK`): two executed
  submissions with salt zero took two values.
- *Contribution.* `SettledInv`: the cache says "paid" only of rounds the circle recorded, and
  what the page shows of a round is the round of the row it read. `CallsInv`: what is on its
  way to the circle or back was signed and executed. `ChargedInv` is ContributionCharged with
  types; each step moves one call between the terms of its sum.
- *Slot lock.* `JoinInv`: outside the slots where two requests met, a query failed or somebody
  joined without a live lock, the row of a slot names whoever holds its lock
  (`RowNamesHolder`), a user about to write the row excludes every other holder and writer
  (`OneLocker`), and a slot that was free when its lock was given stays free for its holder
  (`KeptForHolder`).
- *Activation.* `ActInv`: as long as nothing of what `disturbed` records happened there is at
  most one key, and once there is one it is in the cloud or the device that made it is still about
  to save it (`OneKeyInv`). Only one device at a time is `Keyless`, so a device that found nothing
  in the cloud and nothing of its own makes the first key. What was deployed, or is on its way, was
  reported, or a device is still registering it, or `notRegistered` says why not (`ReportedInv`).
- *Types of the app.* Each visit's types are inductive with its invariant above: the balance a
  page reads is bounded because the contributions account for the difference (`ChargedInv`); a
  join request is posted at most `Attempts` times because a user's calls start in their order
  and only the last one is at the page (`TriesInv`).

Only model-checked: the four properties under fairness (CancelPolicyTerminates,
EventuallyRecorded, DueRoundSettles, FailureReported). Liveness under fairness needs ENABLED,
which is out of the prover's reach. All safety properties that the passing runs check are also
proved.

## 7. Mutants; what is not modelled

The operators whose names begin with F are wrong variants of the definition that follows
them (a dropped guard, a wrong sign, a cursor that jumps ahead, a scan that stops early).
Nothing uses them in the specifications. `PROJECT.json` pairs every property of every passing
run with one that breaks it.

Not modelled:

- The home, settings and onboarding pages: they read and render; `deletingCircles`, which the
  home page shares, is in `CirclePage`.
- GET /kyes, a read that filters by status, and the bot's commands that read and reply.
- Request authentication: HMAC of one request, no state.
- Message codecs: cell layouts, covered by the repository's round-trip tests.
- `apps/backend/src/queue/scheduler.ts`: no entry point imports it.
- Delivery to group chats: the jobs that name a recipient (reminders, the failure notice of
  `execute_round`) have channel `dm`; the jobs with channel `group` come from the indexer, name
  no recipient, and end as `user_not_found` before the worker looks for a chat.
- Back-off delays of the indexer: they change when a tick happens, never whether. KyeCreated,
  a no-op for a circle the API inserted. Several circles per process share no row but the
  registry.
- Redelivery of an update by Telegram after a handler that took too long: a handler here runs
  once per update.
- Notification texts (`templates.ts`), languages, the deployment scripts: wording and tooling.
