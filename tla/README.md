# SnowRail: specifications, model checking and proofs

SnowRail pays payrolls. A Node.js backend (`backend/src`) takes paid requests
over the x402 protocol, moves stablecoins out of a treasury contract
(`contracts/src/SnowRailTreasury.sol`), hands the fiat leg to the Rail API and
records the outcome in a database; merchants create payment intents that a
callback credits to their company; an agent works for payments that an executor
verifies and settles; a React client (`frontend/src`) signs people in, pays and
shows the result. This directory holds TLA+ modules of the parts of that system
that move or record money, or decide who may, the TLC runs that check them and
the TLAPS proofs about them.

## Inventory

| Component | State | Operations | Talks to | What makes it correct |
|---|---|---|---|---|
| Treasury contract, `SnowRailTreasury.sol` | owner, swap allowances, token balances, router approvals | executePayment, authorizeSwap, executeSwap, transferOwnership, emergencyWithdraw | ERC-20 tokens, DEX router | a payment never takes more than there is; a pull spends an allowance; nothing is left approved |
| Contract hook, `contractHook.ts`, `treasuryClient.ts` | Payroll and OutboundPayment rows; locals of a call | requestPayrollPayments, executePayrollPayments | treasury, database | a payment executes at most once; rows say what happened |
| Payroll pipeline, `payrollService.ts`, `paymentService.ts` | the same rows, step flags | executePayrollDemo | contract hook, Rail client | final status agrees with chain, Rail and payments |
| Payment process route, `paymentRoutes.ts` | the same rows, step flags | POST /api/payment/process | contract hook, Rail client | the same, and the answer is backed |
| Rail client, `railClient.ts` | cached OAuth token | createRailPayment, getRailAccessToken | Rail API | a status is never better than Rail's |
| Payment intents, `paymentIntentService.ts`, `internalRoutes.ts`, `merchantRoutes.ts` | Payment rows, a CompanyBalance row for each company and token | create, confirm (callback), credit | facilitator, database | each confirmed intent credited exactly once, to whichever row |
| x402 facilitator, `facilitatorServer.ts` | none; transfers on chain | validate, verify, settle and call back | chain, payment intents | settled means credited in the end |
| x402 gate, `x402/middleware.ts`, `validator.ts`, `metering.ts` | static meters | 402 challenge, validation | facilitator | protected work only after validation |
| Agent requests, `server.ts`, `MerchantExecutor.ts`, `ExampleService.ts` | transactions of one account | verify, execute, settle | facilitator, chain, language model | nobody is charged without the work, or twice |
| Treasury test route, `treasury.controller.ts` | the same account | the steps of the contract test | chain | a step reported successful was mined |
| Authentication, `authRoutes.ts`, `authService.ts` | User and Company rows, tokens | signup, login, me | database | one user and one company per address |
| Client session, `use-auth.ts`, `use-session.ts` | user, token in local storage, per tab | login, logout, check, storage events | auth routes, other tabs | the shown user is the token's |
| Paid screens, `PaymentForm.tsx`, `PaymentFlow.tsx`, `Dashboard.tsx`, `AgentIdentity.tsx`, `ContractTest.tsx` | the step a screen is at | ask, prove, post, show | gate, both payment routes | what runs is awaited, also after its screen was left; what is shown is so |
| Payment simulator, `mock-payment-simulator.tsx` | whether it is processing, what it shows | create an intent, post its callback | the routes of the payment intents | a payment shown as received was credited |
| Others | none or I/O only | dashboard sums, identity documents, price feed, Arweave, configuration | | |

The backend is one Node process. Handlers interleave at every `await`; database
writes are single statements without transactions around them (only sign-up
uses one). Nothing is resumed after a crash: there is no queue, no poll, no
webhook, and the contract event listener is never started. Hard behaviours are
therefore: interleavings between awaits over shared rows, a shared treasury and
one account's nonces; a call that fails after its effect happened; a
transaction that is dropped and awaited for ever; two writes that belong
together; a crash between steps; a treasury that others use between a check and
a payment; callbacks that come twice, at once or never, or name another token;
an authorization two requests bring; tabs that share a token; screens that are
left while their handlers run; a status that nothing moves on. PROJECT.json
lists each of them, as a hazard, at its line.

## Modules

| Module | Models | Extends |
|---|---|---|
| `Treasury` | the contract; a call is one atomic step | |
| `ContractHook` | the two functions of contractHook.ts, one action per await | `Treasury` |
| `PayrollFlow` | both disbursing routes around the hook, Rail, crashes, the contract's other users | `ContractHook` |
| `Disbursement` | abstract: what the pipeline promises about the money | |
| `PaymentIntents` | creation, confirmation and crediting of intents | |
| `Facilitator` | meters, validation and the answers of the facilitator's routes, as functions | |
| `MerchantPayments` | settlements, the payment simulator and callbacks over the intents | `PaymentIntents`, `Facilitator` |
| `PaidService` | abstract: what a service paid per request promises | |
| `AgentRequest` | POST /process and POST /api/treasury/test with the account they send from | `Facilitator` |
| `Accounts` | concurrent sign-ups and log-ins | |
| `Session` | the tabs' session over the accounts | `Accounts` |
| `PaidScreens` | the paying screens and the gate over the pipeline | `PayrollFlow`, `Facilitator` |
| `MCTreasury`, `MCPayroll`, `MCIntents`, `MCAgent`, `MCSession`, `MCScreens` | instances for TLC | |
| `*_proofs` | proofs, one module for each component | |
| `SumTheorems` | lemmas about the sums of the community modules that the proofs cite | |

**Treasury.** `owner` and `swapAllowances` are the contract's storage;
`balance` and `approval` are the tokens' view of the treasury; `pulled` and
`received` are history variables that no action reads: what the router took and
delivered. A revert is no step. Tokens may return false from `transfer` and
`approve`, which the contract checks only in `executePayment`. The path of a
swap is a separate argument, as in the code. The payee of a payment and the
recipient of a withdrawal are taken to be other accounts than the treasury.

**ContractHook.** `payrollStatus`, `paymentStatus` and `txHash` are the rows;
`pc`, `todo`, `cur`, `hashes` and `outcome` are a job's place and locals; a job
is the request that created the payroll and carries its name. `transfers` and
`refusals` count, as history, the transactions mined for each payment by the
event they emitted. A database call of a job in `DbMayFail` may throw (and then
has written nothing); a mined transaction's receipt may be lost for a job in
`ReceiptsMayBeLost`. A call to the contract may always throw before it is
mined, and a transaction of a job in `TxMayDrop` may be dropped: the wait for
it has no time limit (treasuryClient.ts:22, :38), so that its job stays at
`hung`. `contended` is history: the payrolls from under whose loop somebody
else took stablecoin. Amounts are in token units. `unresolvable` stands for a
recipient that ethers rejects, such as the literal demo recipients of
`payrollService.ts`; runs that pay demo payrolls give them resolvable
recipients instead.

**PayrollFlow.** One action per await of the two routes. `steps` holds the
flags of the process route; the demo route's `onchainSuccess` is its
`executed`. `rail` is Rail's side of the withdrawal, `railResult` what the job
was told; `NoWithdrawal` is any way not to get one, from an access token that
cannot be had, or that expired after it was checked, to a refusal. `OuterCatch`
is the process route's outermost catch. `Crash` ends every running job.
`OthersUse` is every call of the contract that no job makes: `executePayment`
and `executeSwap` have no sender guard, the rest is the owner's. Left out: the
check of the request body (it precedes every state change), logging, and the
Arweave receipt.

**Disbursement.** Disburses each payment at most once and in full, from the
funds there are. The funds are not its own: others may use or add to them at
any time, which disburses nothing. PayrollFlow implements it under the mapping
`paid` = the transfers mined for each payment, so that a second one would be no
step of it, and `funds` = the treasury's stablecoin.

**PaymentIntents.** A callback's handler makes four database calls, each an
action: find the intent, write it, read the balance row, upsert it. Every
delivery is its own callback, so that a repeated one is two callbacks with the
same intent. A balance row belongs to a company and a token. The row a callback
credits is that of its intent's company and of the token the callback itself
names (`RowFor`), which no code compares with the token of the intent: the
facilitator names `extra.name || "xUSDC"`. What is exact is therefore the sum
of a company's rows, not each row. History: `credits` (callbacks whose upsert
was done), `raced` and `contested` (companies, and intents, on which two
handlers were past the status check at once), `broken` (intents whose credit
failed after they were confirmed). The price is 1 for every token the merchant
route accepts, so only `balanceToken` is kept.

**Facilitator.** The routes keep no state, so they are functions of what they
are sent. A proof is a record of its shape (where the code finds its fields)
and amount; neither its payee nor its asset is compared with the requirements,
in the code as in the module. `ProofOfPayload` is
`paymentPayload?.authorization || paymentPayload`. `HeaderAnswers` is the
gate's middleware, with the demo token it accepts outside production. Nothing
after `createFacilitatorRouter`'s `return app` runs, and nothing there is
modelled.

**MerchantPayments.** A settlement verifies, sends the transfer, waits for the
receipt, reads the intent's id, posts the callback once and answers success
whatever it was answered. `spent` are authorizations used on chain, `transfers`
the settlements whose transfer was mined; `undelivered` is history. A transfer
pays the payee its proof names (`payee`), which is the address of the
requirements (`payTo`) or any other: `CreditsWithinTransfers` therefore speaks
of rows whose payers all named it, and nothing can be said of the others.
`ServerCrash` ends settlements and callbacks together, since one server runs
both. `simulation` is where the dashboard's payment simulator is with each
payment: it creates an intent, pauses, posts a callback with a transaction it
made up and shows any answer with status 200 as a payment received; its
connections may be lost before or after what they carried arrived. The
composition implements PaymentIntents (`MerchantImplementsIntents`):
facilitator and simulator only decide when intents and callbacks arrive.

**PaidService.** Work, then charge one authorization for it, then answer paid;
an unpaid answer may come at any time, also before the charge is mined.
`AgentRequest` implements it with the same `worked` and `chargedBy`, every
answer that is not success counting as unpaid.

**AgentRequest.** A handler verifies, works (asks the model, or runs the
contract test) and settles, directly or by a facilitator, as `SettlementMode`
and `Executor` take it from the environment in `env`. The steps of the contract
test and the direct settlements are transactions of one account: `SignTx` reads
the next nonce, `Broadcast` is refused when it is taken, `Receipt` waits.
Transactions are mined in nonce order, may revert, and may be dropped; an
authorization may expire (`clock`) or be used up by another request in between.
`Screen` is what ContractTest.tsx shows for its second post.

**Accounts** and **Session.** A request is a job with its place, from the
client's fetch to the answer; a token is named by the job it answered. Sign-up
looks the address up, then creates both rows in one transaction, then signs the
token; two sign-ups run side by side. A tab holds the page, the hook's state
(`isLoading`, `isCheckingRef`, `skipLoading`) and what it awaits; `stored` is
localStorage's token and `events` the storage events a tab has yet to handle.
What runs between two awaits is one step. Reloads, links, log-outs and expiry
are bounded by `MaxActs`, requests by `MaxJobs`.

**PaidScreens.** A screen's step over PayrollFlow: the form posts with
demo-token at once, the flow asks, is told the price, obtains a proof (or falls
back to demo-token), posts and ends on the agent page, whose list is the latest
`PageSize` payrolls that pass the filter of `agentRoutes.ts`; `newer` keeps
their order. A screen may be left at any step, by a link of the header, the
back button, a sign out or the loader of a session check (`Leaves`): what its
handler awaits goes on (`left`), posts, and may still lead to the agent page. A
page that is reloaded or closed (`PageCloses`), and a connection that is lost,
leave nobody to hear the answer; `unheard` keeps the payrolls that ran on.
`shows` is what a screen says: the form says "Payment processed successfully!"
of every answer with status 200, as "ticked" with its check mark if the body's
flag is true and as "processed" if not. The gate decides before the route's
first call. Driven by screens the backend does nothing PayrollFlow could not
(`ScreensKeepPipeline`), so what is proved of the pipeline holds there.

## Runs

| Run | Instance | Shows |
|---|---|---|
| `treasury` | 3 tokens, 2 accounts, amounts 0 to 2 | nothing is overdrawn, no standing approval, pulls are authorized |
| `payroll_faulty` | 2 process requests (1 and 2 units) on funds of 2; failed calls and lost receipts for one of them, dropped transactions for the other, crashes, other users of the contract | at-most-once execution, what ONCHAIN_PAID and PAID imply, backed answers, refinement of Disbursement |
| `payroll_mix` | a demo payroll of 2 payments and a process request on funds of 3; dropped transactions, crashes, other users of the contract | the check before a loop covers it unless others take the funds, FAILED moved nothing, payroll and payments agree once answered |
| `payroll_answers` | a demo payroll of 2 payments and a process request without recipient; database faults, dropped transactions, Rail mock | every request is answered unless its own transaction was dropped; at-most-once over a loop of several payments |
| `intents` | 3 intents of 2 companies with 2 tokens, 6 callbacks, one of them of a simulated payment and one with the other token, 3 settlements of which two share an authorization and one pays another payee; faults on one settlement, two callbacks and the simulator's connection, crashes | a company's rows are exact when serial, no row exceeds what was written or paid to its address, ok answers are credited, settled payments are confirmed or lost to their callback, confirmations are final |
| `agent` | a paid request, a contract test with the same authorization, a screen's test and its retry; 4 environments; RPC and model failures, dropped transactions, expiry | refinement of PaidService, charged payers are told, reports agree with the chain, every request is answered unless a transaction was dropped |
| `session` | 2 tabs, 2 people, 2 requests, 1 act; server and connections may fail | whole accounts, tabs at rest agree with the token, only proved accounts are shown, loading ends |
| `screens` | a form and a flow with one payroll each, pages of one payroll; the flow's database and connection fail, the form's transactions are dropped, both are left and closed | what runs is awaited, the form's check mark has a transaction, the agent page lists the payroll or a page of newer ones, screens settle |
| `payroll_onchain_paid` | violation | ONCHAIN_PAID although the token's transfer returned false |
| `intents_atomic` | violation | the callbacks of two intents of one company lose a credit |
| `session_logout` | violation | a late answer stores again the token a log-out has removed |
| `merchant_issued` | violation | a payment that follows the issued requirements is refused |

**Bounds.** Two jobs are enough for every pairwise interleaving over the shared
treasury, and their amounts are chosen so that the funds cover either payroll
but not both: the second passes its balance check and meets an empty treasury.
A demo payroll has two payments (ten in the code): one to fail and one to go
on. `Amounts` bounds what others pay out, the owner withdraws and swaps move;
`SwapPairs` the pairs the owner authorizes, two of the nine, so that a path can
leave the pair at either end; `MaxInflow` the tokens a router delivers, which
would otherwise grow without end. The runs of the pipeline authorize no swap:
for the one token they have, a swap takes from the balance as a payment or a
withdrawal by others does. In `treasury` swaps run freely, and the theorems
about the pipeline hold beside any of them. In `screens` nobody else uses the
contract (`Amounts` is empty), the demo payroll's recipient is one that ethers
rejects, as the code's own demo recipients are, and a page holds one payroll,
so that the second of two pushes the first from it. In `intents` one company
has an intent that two settlements with one authorization would confirm; the
other has two intents, so that different intents race for one row, and one of
the two is confirmed by the simulator and once more with another transaction
and another token, so that callbacks race for one intent and credit two rows.
In `agent` two requests with one authorization are the least that can be
charged twice, three handlers send from the account, and `MaxClock` 2 lets the
authorization be valid at the check and expired at the transfer. In `session`
two requests are the least that race for an address, and one act is the
log-out, reload or expiry that meets a check under way; two tabs are the least
that exchange a storage event. The runs other than `treasury` set
`CHECK_DEADLOCK FALSE` because the system stops when every request has been
handled.

The invariants of `payroll_mix` do not hold when the database fails: a mined
payment whose update throws is marked FAILED, and one of the two bulk updates
may be missing. That is the partial failure the code accepts; the properties of
`payroll_faulty` are those that survive it.

**Fairness.** `PayrollFlow!FairSpec` gives each job weak fairness: the event
loop runs every handler whose awaited call has ended, and calls to the
database, to an RPC node or to Rail end, by an answer or an error. The code
sets no time limits, so this is an assumption about the network and the
database. It is not made of the wait for a receipt: a job in `TxMayDrop` may
wait for a dropped transaction for ever (`hung`), and `EveryRequestAnswered`
and `ScreensSettle` say that nothing else waits. Nothing is assumed of clients,
of Rail's progress, of the contract's other users or of crashes.
`AgentRequest!FairSpec` adds that a block takes the account's next transaction;
a dropped one keeps its handler waiting for ever, which is what
`EveryRequestAnswered` says. `Session!FairSpec` has requests served, answers
heard and effects run, and nothing of people, the clock or storage events.
`FairClientSpec` adds to the pipeline's fairness that a screen's fetch comes
back, since browsers end fetches that hang; people are not obliged to click.

## Findings and further divergences

The four violation runs are the findings of PROJECT.json, each with the line it
contradicts. Further differences between the code and what is written about it,
each with a property and a configuration that refutes it:

- `PayrollRailProcessing.cfg` (on `MCPayroll`), `RailProcessingResolves`:
  "Update status: RAIL_PROCESSING -> PAID/FAILED"
  (docs/PAYMENT_FLOW_DIAGRAM.md), but a withdrawal Rail settles later is never
  read again.
- `PayrollPaidFinal.cfg` (on `MCPayroll`), `PaidIsFinal`: the read before the
  answer throws and the outer catch overwrites PAID with FAILED.
- `TreasurySwap.cfg` (on `MCTreasury`): the path decides what a swap delivers,
  not its toToken.
- `AgentOwnFacilitator.cfg` (on `MCAgent`), `SoundPaymentsAccepted`:
  "Compatible with MerchantExecutor" (docs/FACILITATOR_README.md:12), but POST
  /verify answers a field `valid` where the executor reads `isValid`, and takes
  the executor's resource, SERVICE_URL, for a meter.
- `PayrollSuccess.cfg` (on `MCPayroll`), `SuccessWasProcessed`: "Success if
  on-chain was executed OR rail was processed" (paymentRoutes.ts:399), but
  `rail_processed` is set after Rail failed, or never answered, as well: the
  route writes FAILED and answers success: true. `SuccessIsBacked` is what
  remains true: it exempts the payrolls that read FAILED.
- `ScreensSuccess.cfg` (on `MCScreens`), `FlowSuccessIsExecuted`: the flow
  shows "Success!" for every answer with status 200, also for a payroll that
  FAILED.
- `ScreensFormText.cfg` (on `MCScreens`), `FormTextIsTrue`: so does the form
  with "Payment processed successfully!" (PaymentForm.tsx:180); only its check
  mark reads the flag of the answer.
- `DashboardIsOwn` (in `Session`) does not hold either: of two sign-ups
  answered in one tab, the check begun for the first may answer last and put
  its token and user back, without isLoading, while the dashboard opened in
  between shows the second account's data until it is mounted again.

A meter's asset is the symbol "USDC", which ethers would have to resolve as a
name; a settlement through the repository's own facilitator then throws before
it sends, which is the failing branch of `SendTransfer` (`SettleMayFail`). The
runs also take the other branch, which a meter with an address would reach.

## Proofs

All theorems hold for every value of the constants that the modules'
assumptions allow: any set of payrolls, payments, tokens, intents, callbacks,
settlements, requests, tabs and screens, any faults and crashes. tlapm checks
every leaf.

- **Treasury** (`Treasury_proofs`): `TreasuryTypeCorrect`,
  `TreasuryLeavesNoApproval`, `TreasuryPullsAreAuthorized`. The inductive
  invariant is the types and the absence of a standing approval together. The
  key fact is `SwapPullsFrom`: because no approval is standing before a swap
  and a swap pulls a positive amount, the path's first token can only be the
  token just approved, so the approval is used up, and the pull equals what was
  taken off the allowance.
- **Types of the pipeline** (`PayrollFlow_proofs`): `PayrollTypeCorrect`. Split
  in the contract's part (`ContractInvariance`), reused from `Treasury_proofs`
  by showing that a step of the pipeline is at most one contract step, whether
  a job or anybody else makes it, and the pipeline's own part.
- **At most once, and the refinement** (`PayrollFlow_proofs`):
  `PaymentsExecuteAtMostOnce` and `PipelineDisburses`. At-most-once is not
  inductive; `ExecutionInv` adds that a loop holds only its payroll's payments
  (`LoopsStayInPayroll`), that a payment its job may still execute has not been
  executed (`NothingMinedEarly`), and that a job about to store an execution's
  hash has seen the transaction mined (`RecordsMined`). Steps that mine nothing
  are treated together as quiet steps. With the invariant, a mined transfer is
  a `Disburse` step, what others do with the contract is `UsedElsewhere`, and
  every other step stutters.
- **Status proofs** (`PayrollFlow_proofs`): `StatusInv` ties a payroll's
  status, the job's flags, the hashes it collected and Rail's answer to the
  place of the job and to what was mined, and gives `OnchainPaidIsBacked`,
  `PaidIsRailCompleted` and `AnswersAreBacked` under every failure.
  `SettledInv` adds how payroll, payments and outcome follow each other; it
  gives `FailedPaymentsUnpaid`, `FailedPayrollsMovedNothing` and
  `SettledStatusesDoAgree` under the assumption `Reliable` (the database
  answers and no receipt is lost; crashes are allowed). The assumption is
  needed: with either failure the code's own error paths leave a paid payment
  FAILED, or rows that disagree. `AnswerInv` says what a success answer stands
  for when it reaches a screen.
- **The balance check** (`PayrollFlow_proofs`): `ChecksCoverLoops` states
  `UncontendedIsCovered`. An execution takes from the balance at most what it
  takes from what the loop has left to pay, by the sums below; any other step
  that takes stablecoin counts the loops it takes it from as contended.
- **Sums** (`SumTheorems`). The properties about money add up balances and
  amounts with `SumFunctionOnSet`, which folds by recursion over subsets.
  `SumIsNumberOfUnits` says that over a finite set with natural values it is
  the cardinality of the pairs <<x, i>> with i in 1..f[x]. It needs no
  induction scheme: a smallest subset on which the recursion and the count
  differ would have to differ on a smaller one (`MinimalSubset`, from the
  library's theorem that strict inclusion is well founded). What the components
  need then follows from facts about cardinalities: `SumAdd`, `SumSame`,
  `SumChange`, `SumInjection`, `SumSubset`.
- **Payment intents** (`PaymentIntents_proofs`): `IntentsTypeCorrect`,
  `ConfirmedStaysConfirmed`, `OkAnswersAreCredited`. `RaceInv` says that two
  handlers past the check on one row have raced, and that one which has not
  raced still finds its intent pending when it writes it; `CreditInv` ties
  confirmed intents to credits written, under way or failed.
  `CreditsAreNeverInvented` is not inductive as it stands, since an upsert
  stores what was computed before others wrote: `CoverInv` adds that what a
  handler is about to store is covered by the credits written so far and its
  own, which more credits only make truer. `SerialRowsAreExact` needs
  `BooksInv`: at a company where nothing raced or broke there is at most one
  handler past the check, its intent is already counted as confirmed while its
  credit is not, and what it will store, in whichever of the company's rows,
  makes their sum exactly what the confirmed intents are then worth.
- **Merchant payments** (`MerchantPayments_proofs`):
  `MerchantImplementsIntents` carries the intents' theorems over
  (`MerchantOkIsCredited`, `MerchantConfirmationIsFinal`,
  `MerchantSerialRowsAreExact`, `MerchantCreditsAreNeverInvented`);
  `SettlementsAreConfirmed` follows a settlement from its posted callback to
  that callback's answer. `CreditsStayWithinTransfers` joins `CoverInv` with
  `TransferInv` (a settlement's callback runs only if it was posted, and is
  posted only after its transfer was mined): the credits of a row map one to
  one to transfers of the same amount, and, where every payer named it, to that
  address. `SimulatedPaymentsAreCredited` states `SimulatedIsCredited`, which
  no run of its own checks: a success shown is an ok answer, which stays.
- **Agent requests** (`AgentRequest_proofs`): `AgentTypeCorrect`,
  `ChargedAreTold`, `ReportsAreMined`, `CompletedTestsHaveRun` and the
  refinement `AgentImplementsPaidService`. `AgentInv` says that an open request
  has no answer, that a request settles only after its work, that settlements
  in the pool are their sender's, that a settlement has one fate (pending,
  mined, reverted or dropped), that a mined settlement charged its
  authorization, and that a request which ended was told or lost sight.
  `StepShapes` sorts all steps into a handful of kinds (going on, signing,
  sending, succeeding, failing, mining, delegating), and each kind is treated
  once for the invariant and once for the refinement. Its type invariant
  includes that the account's transactions are finitely many, since the next
  nonce counts them.
- **Session** (`Session_proofs`): `SessionTypeCorrect`,
  `SignupsLeaveWholeAccounts`, `OnlyProvedIsShown`, `QuietTabsAgree`.
  `AccountsInv` relates rows and answered jobs (a sign-up that was welcomed is
  the only one for its address); `SoundTabs` says that every tab checks and
  fetches with issued tokens and shows their owners, which stays true because
  an answered job never changes. `TabsFollow` strengthens `TabsAgree` tab by
  tab: a mounted tab that shows anyone but the stored token's owner is checking
  a token or has an event to handle.
- **Screens** (`PaidScreens_proofs`): `ScreensKeepPipeline`,
  `ScreensTypeCorrect`, `DisbursementsAreAwaited`, `ScreensExecuteAtMostOnce`,
  `ScreensDisburse`. `ScreenInv` adds that a screen which posts, left or not,
  has a payroll of its own, and that the payrolls begun after another (`newer`)
  are finitely many. `TicksAreBacked` and `AgentPageListsPayroll` follow from
  `HonestInv`, which tracks a screen's payroll and its route from the click to
  the page that shows it, together with the pipeline's `AnswerInv`.

Only model-checked: liveness (`EveryRequestAnswered`, `LoadingEnds`,
`ScreensSettle`), since fairness and ENABLED are out of the prover's reach.
Every invariant and every action property of a passing run is proved. What the
violation runs refute is of course not; what remains true there is
(`SerialRowsAreExact` for balances that concurrent callbacks may spoil,
`OnchainPaidIsBacked` for ONCHAIN_PAID).

## Not modelled

Configuration, logging and static identity documents keep no state that another
part depends on. The dashboard's sums (`dashboardRoutes.ts`) read several
tables in separate calls and may mix two moments; they are shown and never
written back. `mockRoutes.ts` sets fields that no modelled part reads. The
price feed returns a constant for every token the routes let in. Rail's OAuth
token is kept only as far as it fails a withdrawal (`NoWithdrawal`); the cache,
which concurrent requests may refresh more than once, decides nothing else.
`acceptRailWithdrawal`, the contract's event listener, `contractTestService.ts`
and everything after the facilitator router's `return` are never called. The
Core wallet hook mirrors the wallet's state and the Arweave receipt is one
upload whose result is only logged. The number conversion of
`usdCentsToTokenAmount` is arithmetic on one value, left to unit tests. Layout
is left out, and wording but for the messages a property is about.

## Plan

Done: the contract, the pipeline and its promise; the intents and the
facilitator that settles them; the agent and the service it promises; accounts
and sessions; the screens over the pipeline; the payment simulator; the proofs
above, which cover every safety property that a passing run checks. Left:

1. The dashboard's reads beside the writes of the pipeline, which may show two
   moments at once.
2. `Session` and `PaidScreens` together: who may see the payroll that runs on
   after its page was reloaded, and after another person signed in.
3. An abstract ledger for the payment intents, implemented as long as no two
   confirmations of a row race.
