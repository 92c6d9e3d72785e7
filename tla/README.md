# A TLA+ model of Quietline

Quietline is a private credit market on Flare. Lenders deposit USDT0 and publish mandates, borrowers
lock FXRP and borrow from them, and balances, mandates and loans are kept in an encrypted ledger
inside a TEE workload. The chain sees a vault, signed settlements and a hash of the ledger.

This directory holds TLA+ modules of the parts that decide whether money is safe, TLC configurations
that check them on small instances, and proofs checked by TLAPS. `PROJECT.json` lists the runs, the
mutants that each property is known to catch, the source lines behind each definition, the hazards,
the findings and the theorems.

## 1. Inventory

| Component | State | Operations | Properties that make it correct |
|---|---|---|---|
| Ledger engine, anchoring (`extension/internal/ledger/engine.go` `mutate`, `ConfirmAnchor`; `store.go`) | state in memory, state in bbolt, lock, pending anchor | commit, assign, confirm, reload | one pending mutation; what is signed is durable; vault and ledger agree |
| Ledger engine, operations (`engine.go`, `arithmetic.go`, `model.go`) | accounts, mandates, loans, pools, processed ids | open, deposit, mandate, quote, borrow, repay, tick, liquidate, withdraw | conservation of both tokens; fields kept in step; loans open on the terms of the moment and can be closed |
| Extension handlers (`extension/internal/extension`) | none of their own; goroutines | one per command; recovery of anchors and deposits; confirmation | a handler signs the transition it made |
| Price and liquidity caches (`oracle.go`, `liquidity.go`) | value and time of reading | refresh, read | never used when too old |
| TEE node router (`third_party/tee-node/internal/router`) | one worker per queue | fetch, post to the extension, give up, post a result | none of its own: it is the environment of the handlers |
| QuietVault (`contracts/contracts/QuietVault.sol`) | root, sequence, used settlements, pause, deposits, tokens | deposit, requests, executeSettlement, pause | one transition per settlement; one payment per payout |
| Relayer: orchestrator, job store (`relayer/src/orchestrator.ts`, `db.ts`, `fcc.ts`, `chain.ts`) | SQLite jobs, one worker | submit, poll, settle, confirm, recover, retry | every request ends; a confirmed job is done; the ledger is never two operations ahead |
| Relayer: indexer, keeper (`indexer.ts`, `keeper.ts`, `main.ts`) | cursor, block range | poll, create jobs, tick, start, stop | no event is lost or gets two jobs; the worker is always woken |
| Relayer: API, sign-in (`server.ts`, `auth.ts`) | challenges, signed tokens | challenge, verify, direct request, readiness | one session per challenge; jobs are authorised when they are posted |
| Web application (`frontend/src`) | persisted store, mutation queue, quote, wallet | connect, mutate, refresh, lock, reload | what was settled is shown or flagged; nonces follow the ledger; every operation ends |
| Machine scripts (`scripts/coston2`, `contracts/scripts`) | registry, vault signer, manifest | register, promote, configure, verify, retire, pause | the signer is never paused; a finished cutover is complete; service comes back |
| Operator bootstrap (`frontend/scripts/seed-lender.mjs`) | a run of the script, commands in flight | account, deposit, mandate, borrow, close, reset | one mandate, right nonces, reported closings are real |

How they interact: a user calls the vault, which emits an instruction, or posts an encrypted action to
the relayer. The relayer submits actions to the node and polls for results; the node's workers post
them to the extension, whose handlers share one engine. A mutation leaves a pending anchor; the
handler's result carries a signed settlement; the relayer executes it on the vault and sends
ANCHOR_CONFIRMED, which the extension verifies against the vault before it clears the anchor. The web
application and the bootstrap script wait for their jobs at the relayer and then query the account.

What is hard here: handlers overlap (two queues, plus the goroutines of callers that timed out) and
each reads the state several times under different locks; a response, a workload, a relayer or a
settlement's ten minutes can be lost between any two steps; anybody may execute a settlement at any
time; confirmations can be late; requests can be delivered twice. The relayer saves an action id, a
transaction hash and a cursor after the effect they record. A browser tab runs refreshes beside a
queue of mutations and counts the ledger's nonce itself, and a page may be locked, reloaded or moved
to another account in the middle. In the ledger, several operations take money apart and put it
together (tranches, rounding, a cancelled mandate with lent principal, partial withdrawals, a backstop
that pays for some loans only) with subtractions that are not all checked. `PROJECT.json` lists the
hazards by line.

## 2. Modules

- **`AnchoredLedger`**: the abstract specification. A ledger applies operations one at a time, each
  once; the vault settles each before the next is applied and pays a payout as it settles it.
- **`AnchorProtocol`**: how a mutation gets there. A root is the history it commits to, so that "the
  vault's root" and "the ledger's state" can be compared. Actions:

  | Action | Code |
  |---|---|
  | `Deliver`, `Refuse` | worker posts an action; the handler fails before a change, or waits 20 s in `mutate` |
  | `Commit`, `Assign` | `mutate` up to and after `store.Commit`; `lock` is `Engine.mu` |
  | `SignMutation`, `SignMutationFails` | `anchorSettlement`, on a second read of the state |
  | `RecoverRead`, `RecoverSign`, `RecoverSignFails` | `handleAnchorRecovery`: check on one snapshot, signature over another |
  | `ConfirmVerify`, `ConfirmSave`, `ConfirmAssign`, `ConfirmNoChange` | `verifyAnchorOnChain`, then `ConfirmAnchor` |
  | `Abandon` | the node's 2 s `ProxyTimeout`; the handler runs on, its result is lost |
  | `Crash` | the workload stops anywhere, and `NewEngine` loads the store |
  | `ExecuteSettlement`, `Expire`, `SetPaused` | the vault |

  `signed` is everything the TEE has ever signed, `known` what the relayer received and has not
  expired. A result of an abandoned handler is in `signed` only. A request stands for one handler
  run; two requests with the same `Op` are a repeated delivery, or RECOVER_DEPOSIT for a deposit.
- **`MCAnchorProtocol`**: instances for TLC. **`AnchorProtocolProofs`**: the theorems.
- **`QuietLedger`**: the operations on balances, one step each, since a mutation is atomic. Requests
  are entries of constant tables; a `scenario` chosen in `Init` says which of them are made and which
  mandates may be set. A `QUOTE_REQUEST` changes nothing and the engine keeps no quote, so it is no
  step: `AcceptQuote` takes the quote from what the client signs (`ClientQuotes`, or the present one)
  and compares it with what the engine would quote now. Loops over tranches, mandates and loans are written as
  sums (`Total`), and the range over the Go map of loans in `RiskTick` as a choice of the loans the
  backstop pays for, which is all that the order can change. Seconds, days and the scale are
  constants, to keep amounts small.
- **`Relayer`**: the job table, the orchestrator's one worker, the indexer and the keeper. A step is
  the code between two awaits, or one SQLite statement where a crash between two of them matters.

  | Action | Code |
  |---|---|
  | `EnqueueDirect`, `Retry` | the API's handlers, and `wake` when the worker is idle |
  | `Index`: `BlockNumber`, `FetchEvents`, `EnqueueChain`, `SetCursor`, `EndPoll` | `Indexer.poll`: block number, range, logs, jobs, cursor |
  | `RequestRiskTick`, `Mine` | the keeper's transaction; vault events |
  | `Work`: `SubmitCiphertext`, `SaveActionId`, `PollAnswer`, `SettlementMined`, `Executed`, `ExecuteReverts`, `SubmitConfirmation`, `ConfirmAnswer`, `FinishConfirmed` | `process` and what it calls to settle and to confirm |
  | `Work`: `SubmitRecovery`, `RecoveryAnswer`, `AfterRecovery`, `DepositAnswer` | the recovery of a pending anchor, and of a deposit whose answer was an error |
  | `WorkerFault` | any awaited call throws, and the job fails |
  | `Crash`, `Restart` | the process stops; `main.ts` starts the worker, the indexer and the keeper again |
  | `NodeStep` | environment: the node runs a handler, gives up after `ProxyTimeout`, the handler commits late |

  The ledger and the vault appear as lengths of one history (`applied`, `settled`, `acked`): what
  `AnchorProtocol` has in detail. `WaitIsReported` says whether the engine's own error for a pending
  anchor, after 20 s, reaches the relayer. With the deployed 2 s `ProxyTimeout` it does not; where it does,
  the orchestrator's recovery code runs.
- **`RelayerProofs`**, **`RelayerLedgerProofs`**: the theorems, about the tables and about the ledger.
- **`Sessions`**: challenges (one row for an address), `createSession` with the await between the
  challenge and the signature check, tokens, and direct requests that wait for the readiness check
  between their authentication and their job.
- **`WebSession`**: one tab. `store` is the persisted zustand store, `queue` the promise chain of
  `serializeMutation`, `op[o]` an operation with what its handler captured, `job[o]` what became of
  the job it submitted. An action is an await of a handler: prompt, job, query, hydration. A visit,
  chosen in `Init`, says what the operations are. `Connected`, `Locked`, `Disconnected` and `Hydrated`
  keep and reset exactly the fields that the store's functions keep and reset; the `...Ready` operators
  are what the forms check.
- **`Machines`**: the workload changes its identity; `register-machine.mjs` runs its commands in
  order, each reading the identity again, and may stop anywhere; `configure-extension.ts` is split
  where it sets the signer and where it writes the manifest; the machines to retire are paused one by
  one. `assertFccReady` of the relayer is three reads at different moments, and the third is a list of
  machines and then the status of each. The signer is what these scripts and this check go by:
  `executeSettlement` takes the signature of any machine of the extension in production
  (`QuietVault.sol:243`), which is not modelled. Where `manual` holds, the
  operator also runs the retire and pause scripts alone.
- **`SeedLender`**: every branch of the script, interrupted anywhere and run again; what it has sent
  goes on by itself. An `operator` says which keys, options, balances and interruptions there are.
  Interest is left to `QuietLedger`, and one unit of FXRP borrows one of USDT0.
- **`MCRelayer`, `MCSessions`, `MCWebSession`, `MCMachines`, `MCSeedLender`, `MCQuietLedger`**:
  instances for TLC. **`QuietLedgerProofs`, `SessionsProofs`, `WebSessionProofs`, `MachinesProofs`,
  `SeedLenderProofs`**: the theorems.

`Faulty...` operators are wrong versions of the definition that follows them. No specification uses
them; each property of a run has one it fails for. Some invariants of the runs are conjunctions of
named parts (`Solvent`, `MandatesInStep`, `SignInInvariant`, `QueueInvariant`, `CutoverInvariant`,
`CommandsInvariant`).

## 3. Runs

| Run | Instance | Shows |
|---|---|---|
| `anchor_mixed` | deposit, mandate withdrawal, and a borrow requested twice; handlers may be abandoned; one pause change, one crash | agreement of vault and ledger, durability, append-only history, applied once, paid at most once, refinement of `AnchoredLedger!Spec`; every payout paid, exactly when settled, until a checkpoint is signed over one that overtook it (`SkippedOnlyIfOvertaken`, `ImplementsExactLedger`) |
| `anchor_recovers` | deposit and repayment; any handler may be abandoned; one crash | a pending checkpoint clears |
| `anchor_skipped_payout` | deposit and mandate withdrawal, nothing lost | **violated**: see finding 1 |
| `anchor_paused` | withdrawal and borrow, one pause | **violated**: see finding 2 |
| `ledger_lending` | scenario 1: two lenders, one borrower, two borrow requests, five quotes the client may sign besides the present one, a late repayment, withdrawals; scenario 2: two borrowers, a backstop that pays for one loan, two prices | conservation of both tokens, fields in step, loans open within the terms of the moment and can be closed, lenders keep their money |
| `relayer_crash` | a posted ciphertext (a payout), a deposit event and a risk tick, two blocks read in one range; one crash, one fault; recovery enabled | no event lost or doubled, unfinished jobs taken up after a restart, a confirmed job is done, ledger and vault one operation apart |
| `relayer_ends` | a payout the ledger may refuse and a slow deposit; one crash, one fault, one manual retry; the node gives up first | every request ends |
| `sessions` | two clients of one account, a second account, three commands on two routes; two challenges, one restart | one session per challenge, sessions bounded by the token's life, jobs authorised |
| `web` | five visits (below), two accounts, new or funded, with any two troubles | one mutation at a time, a nonce ahead is flagged, a quote paid once, every mutation ends; in the lender's visit, settlements shown or flagged and the nonce in step |
| `machines` | three identities, one foreign machine, two failures, two attempts of the configuration; with and without scripts run by hand | completeness of a cutover, the signer stays in production, a passing readiness check was true unless a machine was promoted during it, service returns |
| `machines_immutable` | two identities, no failure | **violated**: see finding 3 |
| `seed_lender` | three operators: a lender interrupted up to three times, a borrower interrupted twice, every option uninterrupted | one mandate, right nonces, truthful closing, liquidity comes back |

**Bounds.** In the protocol a step concerns the pending anchor and at most one late handler, so three
operations give a handler, the one that overtook it and one more. One crash is enough for each place
to be interrupted, and recovery and confirmation can be sent without limit; `MaxCrashes` and
`MaxPauses` are the only counters. The ledger's instances are chosen for their cases: a borrow
request that is filled partially by two mandates at different rates (one capped, one exhausted), a
smaller one that is filled by one, interest whose shares are rounded, readings of the clock before
and after maturity and its grace day (three in all), quotes that are out of date, too cheap or pass a
cheaper mandate over, a mandate cancelled or emptied while lent, withdrawals that
take from a balance and a mandate together, debt above the value of the collateral, and a backstop
filled before or after the fall of the price. With `Scale = 10`, `Day = 1`, `Year = 2`, interest is
of the size of principal after nine time units.

In the relayer, a worker holds one job; the second gives it something to find when it finishes, and a
third overtakes the one that was interrupted. `MaxBlock`, `BlockRange`, `MaxCrashes`, `MaxFaults` and
`MaxRetries` bound the chain and the failures. `BlockRange = MaxBlock = 2` lets a range end at the
latest block or before the next event. The theorems of section 5 hold without these bounds, so the run
serves to find what is false, and the liveness run to check what cannot be proved. In the web
application a trouble (`MaxTroubles`) is a failed step, a lock, a disconnection, a wallet change or a
reload, at any step. Two are what it takes to lose an operation and to disturb its recovery. The visits
are a lender's (mandate, its withdrawal, a payout), a borrower's (a quote accepted twice around a
refresh and the repayment), a second connection around a borrow, the two kinds of refresh beside a
mutation, and a deposit beside one; each account starts new or funded. In `machines`, two moves are the
least that leaves an identity behind while the next is being installed; the configuration is tried twice
(`Attempts`), four times in the code, since a third try differs from the second in nothing. The run has
3.4 million states. In `seed_lender`, the operator's `faults`, `flagged` and `byHand` bound
interruptions, runs with options, and deposits made in the web application. In `sessions`, a challenge
and a session live two of three ticks (`MaxTime`), so each may expire between any two steps, and
`MaxChallenges = 2` lets one replace the other.

`CHECK_DEADLOCK FALSE` is set where the requests, the operations or the bounds of an instance are used
up: all runs but those of `MCAnchorProtocol` and `seed_lender`.

**Fairness.**
- `AnchorProtocol!FairSpec`: goroutines are scheduled: a step of a running handler that stays possible
  is taken (WF), and a request in `mutate` ends, by the 20 s timeout at the latest.
  `EnvironmentRetries` is an assumption about the operator and the relayer, who has to be restored
  while an anchor is pending (`docs/OPERATIONS.md:115-118`): recovery and confirmation are requested
  again and again, sometimes answer in time (SF on the step with `h \notin abandoned`), and a
  settlement the relayer holds is sometimes executed before it expires. The code alone does not provide
  it: a relayer's job fails and is then retried by hand. Nothing is assumed about new requests,
  timeouts, crashes or pauses.
- `Relayer!Fairness`: timers and promises of a running process fire (`Work`, `Index`), the host
  restarts the process, and the node answers what it accepted, with an error if nothing better (it
  answers after `ProxyTimeout` at the latest). Polls give up after their own limits, so no assumption
  is made about success.
- `WebSession!FairSpec`: a prompt is answered, or the operation fails; the relayer and the ledger
  answer. `waitForJob` ends after six minutes, which is one of the failures.
- `Machines!FairSpec` and `SeedLender!FairSpec`: the operator runs the script until it ends well, and
  Flare's registry and the service answer. The scripts do not restart themselves; the properties say
  that a run of them is enough, however the earlier ones were interrupted. `LiquidityComesBack` is for
  an operator without a borrower, since borrowing takes the liquidity away.

## 4. Findings

1. *A payout can be settled without being paid* (`anchor_skipped_payout`, `anchor.go:31-47`,
   `settlement.go:22-50`). A checkpoint handler and the recovery handler decide that a checkpoint is
   due before they read the anchor they sign. The trace: a deposit is committed; before its handler
   signs, recovery signs the same anchor, it is settled and confirmed; a withdrawal from a mandate is
   committed and signed; then the deposit's handler signs a checkpoint over the withdrawal's anchor,
   and that one is executed. Comments and `docs/LIQUIDITY_UPGRADE_DEPLOYMENT.md` say this must not
   happen. Re-checking `PendingAnchor.Kind` and `OperationID` in `anchorSettlement` would prevent it.
   `SkippedOnlyIfOvertaken` says, and is proved, that payouts are lost in no other way.
2. *A pause can stop withdrawals* (`anchor_paused`, `QuietVault.sol:236-237`, `engine.go:63`). The
   engine does not look at the pause. A BORROW_ACCEPT that it processes before or during one opens the
   loan and leaves an anchor that cannot be settled while the vault is paused, and all mutations wait
   for it, while `docs/ARCHITECTURE.md:40` and `docs/SECURITY_AND_PRIVACY.md:56` promise withdrawals. In
   the trace the vault is paused first. The wait may outlast the pause: the signed settlement expires
   after ten minutes (`settlement.go:35`), and recovery does not take a borrow's anchor (`anchor.go:36`).
3. *The TEE signer is not immutable* (`machines_immutable`, `QuietVault.sol:118`,
   `configure-extension.ts:89-91`). `docs/SECURITY_AND_PRIVACY.md:46-48` and `:57`,
   `docs/OPERATIONS.md:122`, `docs/ARCHITECTURE.md:41` and `docs/KNOWN_LIMITATIONS.md:12` say that the
   signer is set once and that the loss of its key needs a new vault. `setTeeSigner` may be called again for any
   machine in production, the registration script does so after each move, and the test "permits
   registered machine rotation" expects it. `ServiceReturns` and the other properties of `Machines`
   are about the code: they say what this rotation keeps.

### Limits of what the other properties say

The models contain the following behaviours of the code. The properties are stated so as not to
promise more.

- *Relayer.* A crash between a submission and the saving of its action id (`orchestrator.ts:125`)
  makes the restarted relayer submit the ciphertext again; the ledger refuses the duplicate and the
  job fails although it was applied, which `EveryRequestEnds` and `ConfirmedIsDone` allow. A failed
  job that is retried keeps its action id and polls the stored answer (`orchestrator.ts:119`,
  `db.ts:195`). With the node's 2 s timeout, `isPendingAnchorError` (`orchestrator.ts:293`) never sees
  the engine's error, so a running relayer does not recover a pending checkpoint by itself; that is
  why `EnvironmentRetries` above is an assumption.
- *Web application.* `hydratePrivateAccount` looks neither at the mode nor at the address: a query
  under way when the session locks, or when the wallet changes account, is shown when it is answered.
  Answers are shown in the order in which they return, so an older one may replace a newer and clear
  the flag. `SettlementShown` and `NonceInSync` are therefore about `Sequential` visits: one connection
  and serialized mutations, with no refresh of the page, reconciliation, deposit or second connection
  at all. In TLC that is the lender's visit; the theorems are for all such visits. The nonce
  properties are about operations of the connected account (`OneAccount`). `NonceAheadIsFlagged` is
  for every visit: a nonce that is counted twice is never left unflagged. Three simplifications: a
  borrow looks for an earlier job and reads the nonce in one step (`StartNext`), takes a job that was
  applied for confirmed (`ConfirmedBorrow`), so that an answer "already processed" while the loan is
  open is hardly reached, and keeps its quote where the page drops it (`AcceptReady`).
- *Machines.* `configure-extension.ts` sets the signer before it writes the manifest. If it stops in
  between, the retire and pause scripts, run alone, would pause the signer. `SignerNotPaused` and the
  others hold for an operator who uses the registration script (`~manual`). A readiness check that has
  listed the machines does not see one promoted before it has read their statuses: it may pass for a
  machine that was never alone in production. `ReadyWasAgreed` excludes that case, which `late` records.
- *Bootstrap script.* A cancellation of an interrupted run may be committed after the next run has
  found the mandate and reported readiness; `LiquidityComesBack` says that running it again repairs it.
  That assumes that deposits arrive (`Lose`): the relayer recovers one once (`orchestrator.ts:206`), and
  then its job has to be retried by hand.

## 5. What is proved

`AnchorProtocolProofs` proves the following for all operations, kinds, requests, handlers and bounds,
from `ConstantsAssumption` alone (kinds and ids are typed, the three sorts of handlers are disjoint):

- `TypeCorrect`, then `Invariant`: `IInv == TypeOK /\ AnchorInvariant`. Agreement of vault and ledger
  is not inductive. A late settlement could take the vault elsewhere unless every signed settlement is
  the pending one or behind the vault (`SignedIsPendingOrPast`); a late confirmation could clear the
  wrong anchor unless what it verified is the vault's root or one it has left
  (`VerifiedIsRootOrPast`); both need that a pending anchor is one operation long (`PendingIsOneStep`)
  and that memory read under the lock is what the store holds (`MemoryIsDurable`). `InvariantStep`
  has a step for each action; the key lemmas are `AcceptedIsPending` and `ConfirmationIsTrue`.
- `LedgerAndVaultAgree`, `SignedStatesAreDurable`, `HistoryIsAppendOnly` and `OperationsApplyOnce`
  follow from it and from `DiskStep`: only `Commit` extends the durable history.
- `NoDoublePayment` needs a second invariant that relates each payout's settlement to its handler's
  place and each payment to a used settlement (`PaymentStep`, `FirstPayment`).
- `Implementation`: every step of the protocol is a step of `AnchoredLedger` or a stutter (`AbstractStep`).

`RelayerProofs` and `RelayerLedgerProofs` prove six properties of `Relayer!Spec` for all sets of
ciphertexts and events, kinds, block ranges and bounds, from that module's `ConstantsAssumption`:

- `TypeCorrect` and `WorkerLeavesNothing`, from `Types`: `TypeOK` with what the steps of the worker
  imply about its registers (an idle worker holds no job, a polling one holds a job whose action id is
  set). That no job is left without a worker is inductive with it: a job is only added when `Wake`
  follows, and `Drain` stops only on an empty table. `DrainKeepsRows` and `WorkSteps` are the key
  lemmas: a worker's step changes at most its own row, and never a row's source.
- `JobsAreUnique`: creating a job is guarded by its external key, and no step changes a source.
- `EventsBecomeJobs` needs `RangeComplete`: while a range is being worked off, each of its events is in
  the batch or has its job. Without it, moving the cursor could not be shown to skip nothing.
- `LedgersAgree` and `ConfirmedJobsAreDone`, from `RelayerInv`: the types, the idle worker, and four
  parts that say that evidence is true. `LedgerOK` is about the ledger and the vault alone; every stored
  answer of the node reports what the ledger has done (`AnswersJustified`), every row's transaction
  hash or confirmation does (`RowsJustified`), and so does what the worker holds in its registers
  (`WorkerJustified`). A recovered deposit is the hard case: the answer to the recovery is about another
  action than the one the job was created for. `LedgerGrows` and `StillJustified` carry evidence along
  a growing history, `NodeJustified` creates it.

`ConfirmedIsDone` and `LedgerAgreement` are the promises to a user of the relayer: a job that says
"confirmed" was applied and, when it has a settlement, settled, and no failure of the relayer lets the
ledger run ahead of the vault by more than the pending operation.

`QuietLedgerProofs` proves all five invariants of `QuietLedger!Spec` and both of its action properties, for
all tables, prices, rates and scenarios, from `ConstantsAssumption` and `TablesAssumption` (the tables
are finite, and a mandate, a loan and a request never have the same id):

- A sum over a table is `Total(f, S)`, the number of units `<<i, n>>` with `n \in 1..f[i]`. That makes
  it a cardinality, so its laws follow from those of finite sets: `TotalPick`, `TotalGrow`,
  `TotalChange` and their like take a sum apart at the entry that an operation changes. What such a
  lemma assumes of every entry is a named predicate (`Multiple`, `RowSums`, `ColumnSums`,
  `BorrowerSums`, `MandatesGive`, `ReservesFollow`, `OneShrinks`), established in a step of its own
  before the lemma is cited. `FiniteInduction` is the induction over a finite set that some of them
  need, with a set of subsets in place of a predicate: it is proved by a least counterexample, since the
  library's own takes an operator.
- `LedgerTypes`, `LedgerIsSolvent`, `MandatesStayInStep`, `LoansAreCollateralized` and
  `LoansStayClosable` follow from one `IInv`: types (`Typed`), the terms of open loans (`LoanTerms`),
  mandates in step, collateral, and the two balances of the vault (`Usdt0Balanced`, `FxrpSolvent`).
  Solvency in USDT0 is not inductive alone: a cancelled mandate with lent principal must still be owed
  what a repayment returns to it. `CollateralBacksLoan` was not inductive as first stated, since a
  loan's collateral could have been in another account; it now says whose request the loan was.
- `LoansOpenOnCurrentTerms` and `LendersLoseNothing` are about single steps from that invariant. For the
  first, a quote that is accepted equals a fresh one (`AcceptedIsFresh`), whose mandates are filled by
  rate (`BestRatesFirst`). The second is the one with the rounding: shares of a payment are rounded
  down, and the last tranche takes what is left.

`SessionsProofs` proves `SignInIsSafe` and `EnqueuedIsAuthorized`, for all accounts, clients and clocks. A
session per challenge is inductive with `NoncePlaces`: a nonce is in the table, in the hands of one
client that verifies it, or in one token, never in two of these places.

`WebSessionProofs` proves the five invariants of `WebSession!Spec` and its action property, for any number
of operations and any visit:

- `OneAtATime`: the head of the queue is the only mutation between its prompt and its settlement
  (`QueueOrder`), and everything it captured is of its own kind of operation (`Fitting`).
- `DoneIsShown` and `NonceFollowsLedger`, both for `Sequential` visits and the second for one account,
  need what the ledger's answers say about each other: no query holds a state newer than the ledger's
  (`NotNewer`), the nonce shown is not ahead of the ledger's beyond what is being settled
  (`NonceNotAhead`, `Settling`), and in a visit that connects first and has no refreshes side by side,
  what is read is newer than what is done (`ConnectsFirst`, `NewerThanDone`, `InStep`). In such a visit
  only one operation is under way at a time, which is the lemma `BeyondAlone`.
- `QuoteIsPaidOnce`: a quote leaves the form before its borrow enters the queue (`PaidOnce`).
- `AheadOnlyFlagged` and `ReportedOnSight` hold with refreshes side by side too.

`MachinesProofs` proves `CutoverIsSafe`, `CutoverEndsComplete` and `SignerIsSpared`, for any number of
identities and foreign machines. It assumes that identities are distinct, since every start of the
workload makes a fresh key. The invariant says where an operator who uses the script can be
(`ByScript`): some identity is active, commands were run in their order, what is to be retired excludes
the signer, and each read is of a state that was there. For `ReadyWasAgreed`, as long as no machine was
promoted since the list of a check, the machines in production are among those it has found or has still
to ask for (`ListCovers`), so that when the last answer shows a single machine it was alone and the
vault's (`StatusesShow`).

`AnchorProtocolProofs` ends with `NoPayoutIsSkipped` and `ExactImplementation`, for any mix of checkpoints
and fund movements. That every payout is paid is false (finding 1), so the theorems say in which way
only: as long as no recovery and no checkpoint's handler has signed over a fund movement that overtook
it (`NoStaleCheckpoint`), payouts are paid, and paid by the step that settles them. A settlement records
when it was signed whether its handler was overtaken. The invariant (`ExactInvariant`) says that a
recovery checked a checkpoint, and, under that condition, that each signed settlement is of the kind
of the operation it settles (`SignedByKind`), that a fund movement whose handler has not signed is the
pending one, not yet in the vault (`OwnerIsPending`), and that there is one such handler (`OneOwner`).

`SeedLenderProofs` proves `CommandsAreSafe` and `CloseIsReportedTruly` for any operators, wallets,
amounts and numbers of interruptions, from `ConstantsAssumption`. That the lender never has two active
mandates is not inductive: each run sets one where it sees none, and the mandate of an earlier run may
still be in flight. The argument is about nonces. A command is committed at the nonce it was signed with
or never, and a mandate in flight with the account's present nonce means that there is none yet and the
funds are there (`LiveSets`; `LiveBorrows` for loans). So a run that has seen a mandate, or no funds,
knows that none is on its way (`NoLive`), and what it cancels stays cancelled until it sets one itself
(`LendersSide`); a run that closes a loan knows the same of loans (`BorrowersSide`). `ViewTrue` carries
what a run has seen to the moment where it is used, `Uninterrupted` says that without an interruption
only the script's own command moves a nonce. Lemmas: `AccountsStep` and `MandatesStep` say what
committing a command does, `PrincipalFits` that a quote takes no more from a mandate than is left in it.
`SendStep`, `MoveStep` and `RenewStep` are the three kinds of steps of the script, and each action is
shown to be one of them.

Only model-checked: liveness (`PendingAnchorClears`, `EveryRequestEnds`, `OpsEnd`, `ServiceReturns`,
`LiquidityComesBack`), which with its fairness is out of the prover's reach.

## 6. Not modelled

- The price cache (`oracle.go`) and the vault liquidity cache (`liquidity.go`): a price offered to a
  quote is fresh, and the liquidity check of a withdrawal is a refusal like any other.
- `isAuthorizedTeeSigner` for settlements, and roles: the signer is that of `Machines`.
- Token balances of the vault: a payout that fails for lack of tokens is not distinguished from one
  that is not sent. Deposits on chain are entries of a table in `QuietLedger`.
- Cryptography is perfect: an action a handler sees was made by the account it names, and an answer is
  read by its addressee only. The store's transactions are atomic.
- In `QuietLedger`: uint64 limits, `Liquidate` (called by nothing), fields that no operation reads, and
  loan ids chosen twice by clients.
- In `Relayer`: saved responses, event streams to browsers, chain reorganisations (the code has no
  answer to them) and SQLite's own failures.
- In `WebSession`: layout, formatting, polling of market and health, notifications, and the text of the
  errors except where the code distinguishes them ("already processed").
- In `SeedLender`: interest, retries of reads, environment variables beyond their defaults.
- Vendored node code beyond its router, the process and configuration of the extension, deployment and
  hosting scripts other than those of `Machines`, protocol constants and type declarations.

Worth adding next: the vault's token balances with the liquidity cache (a payout that cannot be made),
the age of prices at a quote, and the interest of one accrual against that of many.
